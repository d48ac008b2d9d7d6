SPECIFICATION Spec
CONSTANTS
    a = a
    b = b
    Char = {a, b}
    SuccessAll <- Success
    FailureAny <- Failure
    Chunk = 2
    Keep = 2
    MaxLog = 5
    MaxFiles = 2
INVARIANTS
    FoundIsRead
PROPERTIES
    ReadyIsEarned
    CatchesUp
