SPECIFICATION FairSpec
CONSTANTS
    VectorSize = 2
    max_chunks = 2
    MaxRows = 6
    LossyDriver = TRUE
INVARIANTS
    RowsInOrder
    ReadyMeansComplete
    EndOfStreamMeansFinalized
    BufferBounded
    CtasKeepsExistingTable
    NoLostWakeup
    NobodyStuck
PROPERTIES
    ImplementsBulkInsert
    StepsRunOut
    StatementEnds

