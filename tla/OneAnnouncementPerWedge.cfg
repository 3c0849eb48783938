SPECIFICATION Spec
CONSTANTS
    Nobody = Nobody
    Passes = {p1, p2}
    RunningAfter = 2
    BuildingAfter = 3
    UnloadWait = 1
    ExitAfter = 1
    WatchEvery = 1
    Unloads = {u1}
    WedgeExit = FALSE
    Contended = TRUE
INVARIANT OneAnnouncementPerWedge
