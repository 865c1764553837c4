\* Two goroutines: calls, blocks, scopes, closures, spawn and its panics.
SPECIFICATION Spec
CONSTANTS
    NoEnv = NoEnv
    TopEnv = TopEnv
    LibEnv = LibEnv
    Main = g1
    MainFile = MainFile
    LibFile = LibFile
    NoFile = NoFile
    Envs = {TopEnv, LibEnv, e1, e2, e3}
    Goroutines = {g1, g2}
    Sites = {d1}
    Statements = {"block", "scope", "spawn"}
    MaxCallDepth = 2
    MaxFrames = 3
    MaxFunctions = 3
    MaxDefers = 1
    MaxLost = 1
SYMMETRY Spares
INVARIANTS NoDangling UnescapedPrivate
