SPECIFICATION ServersSpec
CONSTANTS
    Requests = {r1}
    Timers = {t1}
    Scripts = {r1}
    MaxConns = 2
    Methods = {"GET"}
    Paths <- MCPaths
    Entries <- MCEntries
    MaxRoutes = 2
    MaxCalls = 2
    Window = 1
    MaxMessages = 1
    Uses = {"http", "ws", "both"}
INVARIANTS
    AnsweredOnce
    AnswerCarries
    GuardsRun
    NoneCut
    ClientsFollow
    FramesInOrder

    
CHECK_DEADLOCK FALSE
