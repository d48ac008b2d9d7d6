SPECIFICATION Spec
CONSTANTS
    Ours = ours
    Foreign = {f1, f2}
    None = None
    MaxCrashes = 1
INVARIANTS
    FilesKept
    DisplacedIsReported
    RemovedIsAbsent
