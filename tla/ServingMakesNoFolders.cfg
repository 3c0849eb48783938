SPECIFICATION Spec
CONSTANTS
    Runs = {r1, r2}
    FirstDay <- MCFirstDay
    LastDay = 19783
    Retention = 1
    Found <- MCFound
    MaxFaults = 0
    NoFile = NoFile

PROPERTY ServingMakesNoFolders
CHECK_DEADLOCK FALSE
