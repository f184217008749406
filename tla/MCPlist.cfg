SPECIFICATION Spec
CONSTANTS
    Trees <- MCTrees
    Keys <- MCKeys
    Items <- MCItems
    Indexes <- MCIndexes
    Initial <- MCInitial
    Floats <- MCFloats
    Reals <- MCReals
    Documents <- MCDocuments
    PAGE_SIZE = 16
    TableFrom = 2
    CopiesTables = FALSE
    RemovesBesideFirst = FALSE
INVARIANTS
    LookupFindsItem
    ListsWhole
PROPERTY Refines
CHECK_DEADLOCK FALSE
