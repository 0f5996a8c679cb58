CONSTANTS
    a1 = a1
    a2 = a2
    c1 = c1
    c2 = c2
    Analyses = {a1, a2}
    CreatorOf <- MCCreators
    Writers = {w1, w2}
    Readers = {r1, r2}
    Faults = TRUE
    MaxSaves = 3
SPECIFICATION Spec
INVARIANTS
    TypeOK
PROPERTIES
    ProcessedInOrder
    ServesStore
    SavesEnd
    ReadersCatchUp
CHECK_DEADLOCK FALSE
