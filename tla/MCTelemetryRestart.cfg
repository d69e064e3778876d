\* Enough batches of one kind for sequences to start again and collide.
CONSTANTS
    Kinds = {"logs"}
    MaxBatch = 4
    MaxSpool = 2
    MaxFaults = 2
    FaultKinds = {"outage", "timeout", "died", "crash", "unsaved", "full", "reset"}
SPECIFICATION Spec
INVARIANTS  RetriesStoreOnce
