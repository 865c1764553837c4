SPECIFICATION Spec
CONSTANTS
    MaxExecSteps = 60
    MaxCallDepth = 4
    MaxEdits = 4
    Simples <- MCSimples
    Wrappers <- MCWrappers
    Statement <- MCStatement
    Wrapped <- MCWrapped
    Framing <- MCFraming
    Allowed <- Anywhere
INVARIANTS
    SlotsTransparent
    FinallyRuns
    AcceptedRuns
CHECK_DEADLOCK FALSE
