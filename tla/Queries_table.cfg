SPECIFICATION QueriesSpec
CONSTANTS
    Collation <- MCCollation
    TextTests <- MCTextTests
    Lower <- MCLower
    MaxNumeral = 10
    Passes <- MatchFilter
    AsStored <- Native
    Keys = {"i1", "i2", "i3"}
    Docs <- MCDocs
    Existing <- MCExisting
    Schemas <- MCSchemas
    Probes <- MCProbes
    Patches <- MCPatches
    SortFields = {"n", "s"}
    MaxSteps = 3
INVARIANTS
    PipelineAgrees
    PagesInOrder
    ReadersAgree
    InsertedConform
CHECK_DEADLOCK FALSE
