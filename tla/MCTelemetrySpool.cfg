\* Logs and probes share a full spool while the backend cannot be reached.
CONSTANTS
    Kinds = {"logs", "probes"}
    MaxBatch = 3
    MaxSpool = 1
    MaxFaults = 2
    FaultKinds = {"outage", "died", "full"}
SPECIFICATION FairSpec
INVARIANT SpoolInv
PROPERTIES SpoolDrains
