----------------------------- MODULE MCTaskQueue -----------------------------
(* Small instances of TaskQueue.                                           *)
EXTENDS TaskQueue

CONSTANTS t1, t2, w1, w2

MCTasks == {t1, t2}
MCWorkers == {w1, w2}
AllFaults == {"crash", "overrun", "error"}
=============================================================================
