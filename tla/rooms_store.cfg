SPECIFICATION Spec
CONSTANTS
    Instances = {i1, i2}
    Keys = {k1, k2}
    NoKey = NoKey
    Ports = {1}
    NoPort = 0
    MaxGen = 1
    MaxOps = 2
    MaxFaults = 1
    MaxCrashes = 1
SYMMETRY Symmetry
INVARIANTS
    AcceptedSurvives
    OneRoomPerKey
    PortsExclusive
PROPERTIES
    ImplementsContract
\* the bounds on requests, restarts and crashes end every behaviour
CHECK_DEADLOCK FALSE
