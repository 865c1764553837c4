\* A tree of imports with two goroutines: shared modules, namesakes, failures, late imports.
SPECIFICATION Spec
CONSTANTS
    Goroutines = {main, g}
    Main = main
    Dirs = {"app", "lib", "store"}
    Paths <- ThePaths
    Files <- TreeFiles
    Target <- TreeTarget
    NoFile = NoFile
    Cwd = "app"
    Store = "store"
    Entry <- TheEntry
    Imports <- TreeImports
    Serial = TRUE
    MaxSteps = 6
    MaxDepth = 4
    MaxRuns = 2
    MaxLost = 1
CHECK_DEADLOCK FALSE
INVARIANTS OneInstance OnlyComplete FilenameFollows LoadDepthCovers
