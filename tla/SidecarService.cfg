\* Two passes, an unload and the idle unloader over the two engines.
SPECIFICATION Spec
CONSTANTS
    Passes = {p1, p2}
    Unloads = {u1}
    Idler = Idler
    NoOne = NoOne
    IdleAfter = 2
INVARIANT
    IdleOnceAnswered
PROPERTIES
    OnlyTheNamedLeave
    IdleCardIsGivenBack
