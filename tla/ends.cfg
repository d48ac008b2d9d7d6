SPECIFICATION FairSpec
CONSTANTS
    Instances = {i1}
    Keys = {k1}
    NoKey = NoKey
    Ports = {1}
    NoPort = 0
    MaxGen = 2
    MaxOps = 3
    MaxFaults = 1
    MaxCrashes = 1
PROPERTIES
    OperationsEnd
\* the bounds on requests, restarts and crashes end every behaviour
CHECK_DEADLOCK FALSE
