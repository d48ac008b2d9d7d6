\* Three managers one after the other or at once, two clients or one that retries.
SPECIFICATION Spec
CONSTANTS
    Managers = {m1, m2, m3}
    Keys = {k1, k2}
    Calls = {c1, c2}
    None = None
    Slots = 1
    MaxFaults = 1
    MaxKills = 1
    MaxLosses = 1
SYMMETRY Symmetry
INVARIANTS
    OneWriter
    NoChildUnseen
    Reachable
PROPERTIES
    OpensAgain
    KeepsPromise
\* the bounds on managers and calls end every behaviour
CHECK_DEADLOCK FALSE
