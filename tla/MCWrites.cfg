SPECIFICATION FairSpec
CONSTANTS
    ann = ann
    bob = bob
    none = none
    Users = {ann, bob}
    Failed = none
    MaxPendingWrites = 2
    MaxTasks = 2
    MaxBatchId = 3
    MaxFaults = 2
INVARIANTS
    PipelineIsFront
    StreamAsNeeded
    OneTokenAwaited
    CallOfUser
    AnswersInOrder
    BatchIdsUnique
    NoWriteStranded
PROPERTIES
    Implements
    WritesSettle
