\* Two clocks one tick apart, a token of three ticks, a counter with two ids.
CONSTANTS
    key1 = key1
    key2 = key2
    dal = dal
    fra = fra
    Signups = {r1, r2, r3}
    Configs <- Written
    Keys = {key1, key2}
    DirTtl = 2
    IdLimit = 3
    MaxDrift = 1
    MaxClock = 4
    MaxShown = 1
    MaxLists = 1
    MaxStarts = 2
SPECIFICATION Spec
SYMMETRY Alike
INVARIANTS
    TypeOK
    AcceptedInTime
    RefusedForCause
    UsersDistinct
    DrainTakesEffect
CHECK_DEADLOCK FALSE
