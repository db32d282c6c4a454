CONSTANTS
    PstCells = 4
    MemoryCells = 3
    BumpCount = 1
    Bitmaps = {"icon", "photo"}
    Puts <- MCPuts
    LateLock = FALSE
SPECIFICATION Spec
INVARIANTS
    ListMatchesCells
    DrawsWhatWasPut
PROPERTIES
    KeepsOrderOfUse
    StartsInSavedOrder
