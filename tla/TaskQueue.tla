------------------------------ MODULE TaskQueue ------------------------------
(***************************************************************************)
(* The MongoDB task queue (tasks.py) as the subscription refresh worker    *)
(* uses it: enqueue_refresh_task, the worker loop with reclaim, claim and  *)
(* execute, and POST /tasks/{id}/cancel.  All tasks refresh one source.    *)
(*                                                                         *)
(* A Task document is read into memory and later saved whole, so each      *)
(* actor carries the copy it read and a save overwrites what others wrote  *)
(* in between.  Only claim_due_task updates the document in place.  The    *)
(* partial unique index on active refuses a save that would make a second  *)
(* task of the source active.                                              *)
(***************************************************************************)
EXTENDS Naturals, FiniteSets

CONSTANTS
    Task,         \* task ids, each with the request that enqueues it
    Worker,       \* refresh workers, one per backend process
    Cancellable,  \* tasks an operator cancels
    MaxRetries,   \* Task.max_retries
    FaultKinds,   \* the faults of this instance: "crash", "overrun", "error"
    MaxFaults     \* bound: faults in a behaviour

ASSUME CancellableAssumption == Cancellable \subseteq Task
ASSUME WorkerAssumption == IsFiniteSet(Worker)
ASSUME MaxRetriesAssumption == MaxRetries \in Nat \ {0}
ASSUME MaxFaultsAssumption == MaxFaults \in Nat

VARIABLES
    task,      \* the Task collection
    enqueue,   \* where each enqueue_refresh_task call is
    cancel,    \* each cancel_task call and the document it read
    worker,    \* each worker: where it is, its task and the document it read
    faults,
    attempts   \* history: refreshes started for each task

vars == <<task, enqueue, cancel, worker, faults, attempts>>

Live == {"queued", "running", "cancel_requested"}
Terminal == {"succeeded", "cancelled", "dead_letter"}

(* due: next_run_at has passed.  lease: lease_expires_at against now.      *)
Document == [status : {"none"} \cup Live \cup Terminal, active : BOOLEAN,
             cancel_requested : BOOLEAN, retry_count : Nat,
             due : BOOLEAN, lease : {"none", "live", "expired"}]

NoDocument == [status |-> "none", active |-> FALSE, cancel_requested |-> FALSE,
               retry_count |-> 0, due |-> FALSE, lease |-> "none"]

NewDocument == [status |-> "queued", active |-> TRUE, cancel_requested |-> FALSE,
                retry_count |-> 0, due |-> TRUE, lease |-> "none"]

(* batch: the expired documents that reclaim_expired_tasks still has to    *)
(* save; held: the claimed task and the copy Task.get returned.            *)
Copy == [id : Task, doc : Document]

WorkerState == [pc : {"loop", "reclaim", "claim", "get", "execute", "refresh", "dead", "down"},
                batch : SUBSET Copy, held : SUBSET Copy]

AtLoop == [pc |-> "loop", batch |-> {}, held |-> {}]

TypeOK ==
    /\ task \in [Task -> Document]
    /\ enqueue \in [Task -> {"look", "insert", "relook", "created", "joined", "raised"}]
    /\ cancel \in [Task -> [pc : {"none", "read", "done"}, doc : Document]]
    /\ worker \in [Worker -> WorkerState]
    /\ faults \in 0..MaxFaults
    /\ attempts \in [Task -> Nat]

Init ==
    /\ task = [t \in Task |-> NoDocument]
    /\ enqueue = [t \in Task |-> "look"]
    /\ cancel = [t \in Task |-> [pc |-> "none", doc |-> NoDocument]]
    /\ worker = [w \in Worker |-> AtLoop]
    /\ faults = 0
    /\ attempts = [t \in Task |-> 0]

Fault(kind) ==
    /\ kind \in FaultKinds
    /\ faults < MaxFaults
    /\ faults' = faults + 1

(* unique_active_subscription_refresh                                      *)
IndexAllows(t, doc) == doc.active => \A u \in Task \ {t} : ~task[u].active

Save(t, doc) == IndexAllows(t, doc) /\ task' = [task EXCEPT ![t] = doc]

LiveTasks == {t \in Task : task[t].status \in Live}

-----------------------------------------------------------------------------
(* enqueue_refresh_task                                                    *)
LookForActive(t) ==
    /\ enqueue[t] = "look"
    /\ enqueue' = [enqueue EXCEPT ![t] = IF LiveTasks = {} THEN "insert" ELSE "joined"]
    /\ UNCHANGED <<task, cancel, worker, faults, attempts>>

(* create_task: a DuplicateKeyError of the partial index, with no task     *)
(* under the key, reaches enqueue_refresh_task.                            *)
InsertTask(t) ==
    /\ enqueue[t] = "insert"
    /\ \/ /\ Save(t, NewDocument)
          /\ enqueue' = [enqueue EXCEPT ![t] = "created"]
       \/ /\ ~IndexAllows(t, NewDocument)
          /\ enqueue' = [enqueue EXCEPT ![t] = "relook"]
          /\ UNCHANGED task
    /\ UNCHANGED <<cancel, worker, faults, attempts>>

(* The task that was in the way is joined, or has ended meanwhile.         *)
LookAgain(t) ==
    /\ enqueue[t] = "relook"
    /\ enqueue' = [enqueue EXCEPT ![t] = IF LiveTasks = {} THEN "raised" ELSE "joined"]
    /\ UNCHANGED <<task, cancel, worker, faults, attempts>>

-----------------------------------------------------------------------------
(* POST /tasks/{id}/cancel                                                 *)
ReadToCancel(t) ==
    /\ t \in Cancellable
    /\ cancel[t].pc = "none"
    /\ task[t].status # "none"
    /\ cancel' = [cancel EXCEPT ![t] = [pc |-> "read", doc |-> task[t]]]
    /\ UNCHANGED <<task, enqueue, worker, faults, attempts>>

Cancelled(doc) == [doc EXCEPT !.status = "cancelled", !.active = FALSE, !.lease = "none"]

Bug_CancelKeepsActive(doc) ==
    IF doc.status = "queued" THEN [doc EXCEPT !.status = "cancelled"]
    ELSE doc

CancelEffect(doc) ==
    IF doc.status = "queued" THEN Cancelled(doc)
    ELSE IF doc.status = "running"
         THEN [doc EXCEPT !.status = "cancel_requested", !.cancel_requested = TRUE]
         ELSE doc

(* A save the index refuses answers 500.                                   *)
SaveCancel(t) ==
    /\ cancel[t].pc = "read"
    /\ \/ Save(t, CancelEffect(cancel[t].doc))
       \/ ~IndexAllows(t, CancelEffect(cancel[t].doc)) /\ UNCHANGED task
    /\ cancel' = [cancel EXCEPT ![t] = [pc |-> "done", doc |-> NoDocument]]
    /\ UNCHANGED <<enqueue, worker, faults, attempts>>

-----------------------------------------------------------------------------
(* complete_task and fail_task on the copy in memory                       *)
Completed(doc) ==
    [doc EXCEPT !.status = IF doc.cancel_requested THEN "cancelled" ELSE "succeeded",
                !.active = FALSE, !.lease = "none"]

Bug_RetryNotCounted(doc, retryable) ==
    IF doc.cancel_requested THEN Cancelled(doc)
    ELSE IF ~retryable THEN [doc EXCEPT !.status = "dead_letter", !.active = FALSE, !.lease = "none"]
    ELSE [doc EXCEPT !.status = "queued", !.active = TRUE, !.lease = "none", !.due = FALSE]

Bug_FailedStatus(doc, retryable) ==
    [doc EXCEPT !.status = "failed", !.active = FALSE, !.lease = "none"]

FailedDocument(doc, retryable) ==
    IF doc.cancel_requested THEN Cancelled(doc)
    ELSE IF ~retryable \/ doc.retry_count + 1 >= MaxRetries
         THEN [doc EXCEPT !.retry_count = @ + 1, !.status = "dead_letter",
                          !.active = FALSE, !.lease = "none"]
         ELSE [doc EXCEPT !.retry_count = @ + 1, !.status = "queued",
                          !.active = TRUE, !.due = FALSE, !.lease = "none"]

MoveTo(w, state) == worker' = [worker EXCEPT ![w] = state]

(* Any exception that reaches run(), or the last handler of execute(), is  *)
(* reported with `logging`, which the module never imports: the NameError  *)
(* ends the coroutine, and nothing starts it again.                        *)
Die(w) == MoveTo(w, [AtLoop EXCEPT !.pc = "dead"]) /\ UNCHANGED task

(* A save by a worker.                                                     *)
SaveAndMoveTo(w, t, doc, state) ==
    \/ Save(t, doc) /\ MoveTo(w, state)
    \/ ~IndexAllows(t, doc) /\ Die(w)

-----------------------------------------------------------------------------
(* The worker loop                                                         *)
Expired(doc) == doc.status \in {"running", "cancel_requested"} /\ doc.lease = "expired"

Bug_ReclaimNothing(w) ==
    /\ worker[w].pc = "loop"
    /\ MoveTo(w, [worker[w] EXCEPT !.pc = "claim"])
    /\ UNCHANGED <<task, enqueue, cancel, faults, attempts>>

(* reclaim_expired_tasks: the query, then one save per document.           *)
FindExpired(w) ==
    /\ worker[w].pc = "loop"
    /\ MoveTo(w, [AtLoop EXCEPT !.pc = "reclaim",
                    !.batch = {[id |-> t, doc |-> task[t]] : t \in {u \in Task : Expired(task[u])}}])
    /\ UNCHANGED <<task, enqueue, cancel, faults, attempts>>

ReclaimOne(w) ==
    /\ worker[w].pc = "reclaim"
    /\ \E c \in worker[w].batch :
        SaveAndMoveTo(w, c.id, FailedDocument(c.doc, TRUE),
                      [worker[w] EXCEPT !.batch = @ \ {c}])
    /\ UNCHANGED <<enqueue, cancel, faults, attempts>>

ReclaimDone(w) ==
    /\ worker[w].pc = "reclaim"
    /\ worker[w].batch = {}
    /\ MoveTo(w, [worker[w] EXCEPT !.pc = "claim"])
    /\ UNCHANGED <<task, enqueue, cancel, faults, attempts>>

Claimable(t) == task[t].status = "queued" /\ task[t].active /\ task[t].due

(* claim_due_task, find_one_and_update                                     *)
Claim(w) ==
    /\ worker[w].pc = "claim"
    /\ \/ \E t \in Task :
            /\ Claimable(t)
            /\ task' = [task EXCEPT ![t] = [@ EXCEPT !.status = "running", !.lease = "live"]]
            /\ MoveTo(w, [AtLoop EXCEPT !.pc = "get", !.held = {[id |-> t, doc |-> NoDocument]}])
       \/ /\ \A t \in Task : ~Claimable(t)
          /\ MoveTo(w, AtLoop)
          /\ UNCHANGED task
    /\ UNCHANGED <<enqueue, cancel, faults, attempts>>

(* claim_due_task, Task.get                                                *)
GetClaimed(w) ==
    /\ worker[w].pc = "get"
    /\ \E c \in worker[w].held :
        MoveTo(w, [AtLoop EXCEPT !.pc = "execute", !.held = {[id |-> c.id, doc |-> task[c.id]]}])
    /\ UNCHANGED <<task, enqueue, cancel, faults, attempts>>

(* execute: the source is gone or disabled.                                *)
SkipSource(w) ==
    /\ worker[w].pc = "execute"
    /\ \E c \in worker[w].held :
        \/ SaveAndMoveTo(w, c.id, FailedDocument(c.doc, FALSE), AtLoop)
        \/ SaveAndMoveTo(w, c.id, Completed([c.doc EXCEPT !.cancel_requested = TRUE]), AtLoop)
    /\ UNCHANGED <<enqueue, cancel, faults, attempts>>

(* execute: heartbeat_task, then refresh_subscription_source starts.       *)
HeartbeatTask(w) ==
    /\ worker[w].pc = "execute"
    /\ \E c \in worker[w].held :
        LET doc == [c.doc EXCEPT !.lease = "live"]
        IN  /\ SaveAndMoveTo(w, c.id, doc,
                             [AtLoop EXCEPT !.pc = "refresh", !.held = {[id |-> c.id, doc |-> doc]}])
            /\ attempts' = IF IndexAllows(c.id, doc)
                           THEN [attempts EXCEPT ![c.id] = @ + 1] ELSE attempts
    /\ UNCHANGED <<enqueue, cancel, faults>>

(* The refresh ended well or with a SubscriptionError.                     *)
FinishRefresh(w) ==
    /\ worker[w].pc = "refresh"
    /\ \E c \in worker[w].held :
        \/ SaveAndMoveTo(w, c.id, Completed(c.doc), AtLoop)
        \/ \E retryable \in BOOLEAN :
            SaveAndMoveTo(w, c.id, FailedDocument(c.doc, retryable), AtLoop)
    /\ UNCHANGED <<enqueue, cancel, faults, attempts>>

(* MongoDB is briefly unavailable, or the refresh raises something else    *)
(* than a SubscriptionError.                                               *)
UnexpectedError(w) ==
    /\ Fault("error")
    /\ worker[w].pc \notin {"dead", "down"}
    /\ Die(w)
    /\ UNCHANGED <<enqueue, cancel, attempts>>

CrashBackend(w) ==
    /\ Fault("crash")
    /\ worker[w].pc # "down"
    /\ MoveTo(w, [AtLoop EXCEPT !.pc = "down"])
    /\ UNCHANGED <<task, enqueue, cancel, attempts>>

RestartBackend(w) ==
    /\ worker[w].pc = "down"
    /\ MoveTo(w, AtLoop)
    /\ UNCHANGED <<task, enqueue, cancel, faults, attempts>>

-----------------------------------------------------------------------------
(* Time.  The lease of a task nobody works on runs out; that of a task a   *)
(* worker holds runs out only if the refresh outlasts it.                  *)
Held(t) == \E w \in Worker : \E c \in worker[w].held : c.id = t

LeaseExpires(t) ==
    /\ task[t].lease = "live"
    /\ IF Held(t) THEN Fault("overrun") ELSE UNCHANGED faults
    /\ task' = [task EXCEPT ![t] = [@ EXCEPT !.lease = "expired"]]
    /\ UNCHANGED <<enqueue, cancel, worker, attempts>>

BackoffElapses(t) ==
    /\ task[t].status = "queued"
    /\ ~task[t].due
    /\ task' = [task EXCEPT ![t] = [@ EXCEPT !.due = TRUE]]
    /\ UNCHANGED <<enqueue, cancel, worker, faults, attempts>>

-----------------------------------------------------------------------------
WorkerStep(w) ==
    \/ FindExpired(w) \/ ReclaimOne(w) \/ ReclaimDone(w)
    \/ Claim(w) \/ GetClaimed(w) \/ SkipSource(w) \/ HeartbeatTask(w)
    \/ FinishRefresh(w)

RequestStep(t) ==
    \/ LookForActive(t) \/ InsertTask(t) \/ LookAgain(t)
    \/ ReadToCancel(t) \/ SaveCancel(t)

Next ==
    \/ \E w \in Worker : WorkerStep(w) \/ RestartBackend(w)
    \/ \E w \in Worker : UnexpectedError(w) \/ CrashBackend(w)
    \/ \E t \in Task : RequestStep(t) \/ LeaseExpires(t) \/ BackoffElapses(t)

Spec == Init /\ [][Next]_vars

(* Workers poll for ever, systemd restarts a dead backend, time passes.    *)
Fairness ==
    /\ \A w \in Worker : WF_vars(WorkerStep(w)) /\ WF_vars(RestartBackend(w))
    /\ \A t \in Task :
        /\ WF_vars(LeaseExpires(t) /\ UNCHANGED faults)
        /\ WF_vars(BackoffElapses(t))
        /\ WF_vars(SaveCancel(t))

FairSpec == Spec /\ Fairness

-----------------------------------------------------------------------------
(* Safety                                                                  *)

(* The index looks at `active` and enqueue_refresh_task at `status`: if    *)
(* the two disagreed, a source would be blocked for good or be refreshed   *)
(* twice.  Every save, of however stale a copy, keeps them in agreement.   *)
(* (cancel_task, complete_task, fail_task, reclaim_expired_tasks)          *)
ActiveMatchesStatus == \A t \in Task : task[t].active <=> task[t].status \in Live

(* With one backend a task that nobody cancels is tried at most            *)
(* max_retries times, whatever crashes and lease expiries it meets.  (A    *)
(* slow cancel_task can put an older retry_count back.)                    *)
(* (fail_task, reclaim_expired_tasks)                                      *)
AttemptsBounded ==
    Cardinality(Worker) = 1 => \A t \in Task \ Cancellable : attempts[t] <= MaxRetries

(* Every task ends, although backends crash in the middle of it and leases *)
(* run out, unless the last worker died of an unexpected error.            *)
(* (run, reclaim_expired_tasks, fail_task)                                 *)
TasksFinish ==
    \A t \in Task : task[t].status \in Live ~>
        task[t].status \in Terminal \/ \A w \in Worker : worker[w].pc = "dead"

(* Why ActiveMatchesStatus survives stale saves: it also holds of every    *)
(* copy that some actor may still save.                                    *)
Agrees(doc) == doc.active <=> doc.status \in Live

CopiesAgree ==
    /\ \A t \in Task : Agrees(task[t]) /\ Agrees(cancel[t].doc)
    /\ \A w \in Worker : \A c \in worker[w].batch \cup worker[w].held : Agrees(c.doc)
=============================================================================
