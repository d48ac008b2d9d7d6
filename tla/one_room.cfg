SPECIFICATION Spec
CONSTANTS
    Instances = {i1}
    Keys = {k1}
    NoKey = NoKey
    Ports = {1}
    NoPort = 0
    MaxGen = 2
    MaxOps = 4
    MaxFaults = 1
    MaxCrashes = 2
INVARIANTS
    AtMostOneProcess
    ReclaimedIsGone
    SpawnIsTraceable
    StoppedIsTrue
    RunningHasWorker
    OneActiveWorker
    Reopenable
    BookkeepingValid
    InputAccounted
PROPERTIES
    SpawnOnlyWhenAsked
    ResultsAreFinal
\* the bounds on requests, restarts and crashes end every behaviour
CHECK_DEADLOCK FALSE
