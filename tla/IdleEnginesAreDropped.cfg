\* One pass and the idle unloader over the two engines.
SPECIFICATION Spec
CONSTANTS
    Passes = {p1}
    Unloads = {}
    Idler = Idler
    NoOne = NoOne
    IdleAfter = 2
PROPERTY IdleEnginesAreDropped
