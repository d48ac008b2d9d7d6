SPECIFICATION Spec
CONSTANTS
    Runs = {r1, r2}
    None = None
    Texts <- SomeTexts
    Edits <- OtherTexts
    Tokens <- AllTokens
    Bytes <- TextBytes
    MaxBytes = 26
    MaxTokens = 14
    MaxDepth = 3
    MaxEdits = 2
    MaxKills = 1
SYMMETRY Symmetry
INVARIANTS
    MergeIsFaithful
    ResultIsTrue
PROPERTIES
    OriginalIsKept
\* every run of the command ends
CHECK_DEADLOCK FALSE
