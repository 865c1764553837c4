SPECIFICATION Spec
CONSTANTS
    MaxStatements = 2
    MaxTokens = 3
INVARIANTS
    ParsesAsWritten
    OtherLoopsEnd
CHECK_DEADLOCK FALSE
