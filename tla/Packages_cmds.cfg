SPECIFICATION PackagesSpec
CONSTANTS
    Procs = {p1, p2}
    Files <- TwoFiles
    Names = {l1, l2}
    Roots = {"local"}
    Texts <- FewTexts
    Sources = {"github", "release", "local"}
    Manifests <- SomeManifests
    MaxTag = 1
    MaxCommands = 2
INVARIANTS
    InstalledWhole
    LockKept
SYMMETRY Symmetric
CHECK_DEADLOCK FALSE
