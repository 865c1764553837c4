\* Two arrays and a loop, in programs of five steps; each operator on values.
SPECIFICATION MCSpec
CONSTANTS
    Arrays = {a1, a2}
    NoArray = NoArray
    Blocks = {1, 2, 3, 4, 5, 6}
    Elems = {0, 1}
    Undefined = 0
    Rank <- MCRank
    Spare = {0, 1}
    Starts <- MCStarts
    MaxItems = 1
    MaxLen = 2
    MaxSteps = 5
    Integral <- MCIntegral
    Collation <- MCCollation
VIEW View
SYMMETRY Spares
INVARIANTS LoopVisits OperatorsAgree
PROPERTIES ImplementsValues
CHECK_DEADLOCK FALSE
