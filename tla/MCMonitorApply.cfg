\* Three bundles, any three failures, a monitor that keeps running.
CONSTANTS
    MaxBundle = 3
    MaxFaults = 3
SPECIFICATION FairSpec
INVARIANT MonitorInv
PROPERTIES RollbackRestoresPolicy ImplementsAgent Converges
