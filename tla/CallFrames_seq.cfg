\* One goroutine: calls, blocks, scopes, closures and function-level defers.
SPECIFICATION Spec
CONSTANTS
    NoEnv = NoEnv
    TopEnv = TopEnv
    LibEnv = LibEnv
    Main = g1
    MainFile = MainFile
    LibFile = LibFile
    NoFile = NoFile
    Envs = {TopEnv, LibEnv, e1, e2, e3}
    Goroutines = {g1}
    Sites = {d1, d2}
    Statements = {"block", "scope", "new", "defer"}
    MaxCallDepth = 2
    MaxFrames = 4
    MaxFunctions = 3
    MaxDefers = 2
    MaxLost = 0
INVARIANTS DeferredLive CallStateRestored
SYMMETRY Spares
PROPERTY KeepsDeferPromise
