SPECIFICATION Spec
CONSTANTS
    ann = ann
    bob = bob
    none = none
    Users = {ann}
    Failed = none
    MaxPendingWrites = 4
    MaxTasks = 1
    MaxBatchId = 4
    MaxFaults = 0
INVARIANTS
    GivenUpWasRefused
