\* One backend, two tasks of one source, one of them cancelled; two faults.
CONSTANTS
    t1 = t1  t2 = t2  w1 = w1  w2 = w2
    Task <- MCTasks
    Worker = {w1}
    Cancellable = {t1}
    FaultKinds <- AllFaults
    MaxRetries = 3
    MaxFaults = 2
SPECIFICATION FairSpec
INVARIANTS TypeOK ActiveMatchesStatus AttemptsBounded
PROPERTY TasksFinish
CHECK_DEADLOCK FALSE
