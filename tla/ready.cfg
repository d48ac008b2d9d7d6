SPECIFICATION Spec
CONSTANTS
    Instances = {i1}
    Keys = {k1}
    NoKey = NoKey
    Ports = {1}
    NoPort = 0
    MaxGen = 1
    MaxOps = 3
    MaxFaults = 0
    MaxCrashes = 0
INVARIANTS
    ReadyHasProcess
\* the bounds on requests, restarts and crashes end every behaviour
CHECK_DEADLOCK FALSE
