SPECIFICATION Spec
CONSTANTS
    l1 = l1
    l2 = l2
    l3 = l3
    Contents = {"a", "b"}
    Counterparties = {1, 2}
    Files <- SmallFiles
    Loads = {l1, l2, l3}
SYMMETRY LoadSymmetry
CHECK_DEADLOCK FALSE
INVARIANTS
    TypeOK
    TableIsSaved
    StoredAsListed
PROPERTIES
    ReadingAgainAddsNothing
