\* One goroutine that uses the whole interface, and two that insert, delete and declare the
\* schema, on a first run and on a later one, with restarts at every point.
SPECIFICATION Spec
CONSTANTS
    g1 = g1
    g2 = g2
    x = x
    NoHandle = NoHandle
    Goroutines = {g1, g2}
    Handles = {h1}
    Programs <- AllPrograms
    Refs = {1, 2, 3, 4, 5}
    Ids = {i1, i2, i3}
    Us = {a, b}
    Ns = {x, y}
VIEW View
SYMMETRY Spares
INVARIANTS CacheCoherent WatcherFollows RowsOnDisk UniqueKept
