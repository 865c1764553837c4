\* Every statement kind but defer, two goroutines, panics. The frame of a component is
\* recycled under it, and may end up in a cycle that exhausts the bounded pool.
SPECIFICATION Spec
CONSTANTS
    NoEnv = NoEnv
    TopEnv = TopEnv
    LibEnv = LibEnv
    Main = g1
    MainFile = MainFile
    LibFile = LibFile
    NoFile = NoFile
    Envs = {TopEnv, LibEnv, e1, e2, e3}
    Goroutines = {g1, g2}
    Sites = {d1}
    Statements = {"block", "new", "spawn", "select", "component"}
    MaxCallDepth = 2
    MaxFrames = 3
    MaxFunctions = 3
    MaxDefers = 1
    MaxLost = 0
SYMMETRY Spares
INVARIANTS DepthBalanced
CHECK_DEADLOCK FALSE
