\* Two runs over three days around the end of a February, with errors.
SPECIFICATION Spec
CONSTANTS
    Runs = {r1, r2}
    FirstDay <- MCFirstDay
    LastDay = 19783
    Retention = 1
    Found <- MCFound
    MaxFaults = 2
    NoFile = NoFile
SYMMETRY MCSymmetry
INVARIANTS
    NothingIsFiledEarly
    RecentLinesStay
    CalendarAgrees
CHECK_DEADLOCK FALSE
