\* Two passes and an unload at two engines, in ticks of one poll.
SPECIFICATION Spec
CONSTANTS
    Nobody = Nobody
    Passes = {p1, p2}
    Unloads = {u1}
    RunningAfter = 3
    BuildingAfter = 4
    UnloadWait = 2
    WedgeExit = TRUE
    ExitAfter = 2
    WatchEvery = 2
    Contended = TRUE
SYMMETRY Symmetry
INVARIANTS
    NoSleepBehindAWedge
    UnloadAnswersInTime
    SilenceMeansTold
    WedgeReachesTheLog
    WedgeEndsTheProcess
