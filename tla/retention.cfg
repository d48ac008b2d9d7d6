SPECIFICATION Spec
CONSTANTS
    Rooms = 4
    Limit = 2
    Parts = {dir, engine_log}
    Directory = dir
    MaxFaults = 1
    MaxCrashes = 1
INVARIANTS
    FilesHaveRecord
    ForeignKept
PROPERTIES
    NobodyStarves
