----------------------------- MODULE TaskProofs -----------------------------
(***************************************************************************)
(* What the two sides of a task guarantee.  TaskQueue: its types,          *)
(* ActiveMatchesStatus and AttemptsBounded, for any number of tasks,       *)
(* workers, retries and faults.  TaskFollow: FollowInv for any nodes,      *)
(* tasks and requests; that an end is announced once rests on the whole    *)
(* path of a task through the page, because a second call may join the     *)
(* task that is followed already, so the inductive invariant says which    *)
(* tasks an answer under way can still bring.                              *)
(***************************************************************************)
EXTENDS TaskQueue, TaskFollow, FiniteSetTheorems, TLAPS

-----------------------------------------------------------------------------
(* What the functions on documents return                                  *)

(* Every document a save can write has its type and agrees, if the copy it *)
(* is computed from does.  (CancelEffect, Completed, FailedDocument)       *)
LEMMA DocumentEffects ==
    ASSUME NEW doc \in Document, Agrees(doc), NEW retryable \in BOOLEAN
    PROVE  /\ CancelEffect(doc) \in Document /\ Agrees(CancelEffect(doc))
           /\ Completed(doc) \in Document /\ Agrees(Completed(doc))
           /\ FailedDocument(doc, retryable) \in Document
           /\ Agrees(FailedDocument(doc, retryable))
<1>1. Cancelled(doc) \in Document /\ Agrees(Cancelled(doc))
  BY DEF Cancelled, Document, Agrees, Live, Terminal
<1>2. CancelEffect(doc) \in Document /\ Agrees(CancelEffect(doc))
  BY <1>1 DEF CancelEffect, Document, Agrees, Live, Terminal
<1>3. Completed(doc) \in Document /\ Agrees(Completed(doc))
  BY DEF Completed, Document, Agrees, Live, Terminal
<1>4. /\ FailedDocument(doc, retryable) \in Document
      /\ Agrees(FailedDocument(doc, retryable))
  <2>1. doc.retry_count + 1 \in Nat  BY DEF Document
  <2> DEFINE dead == [doc EXCEPT !.retry_count = @ + 1, !.status = "dead_letter",
                                 !.active = FALSE, !.lease = "none"]
             again == [doc EXCEPT !.retry_count = @ + 1, !.status = "queued",
                                  !.active = TRUE, !.due = FALSE, !.lease = "none"]
  <2>2. dead \in Document /\ Agrees(dead)
    BY <2>1 DEF Document, Agrees, Live, Terminal
  <2>3. again \in Document /\ Agrees(again)
    BY <2>1 DEF Document, Agrees, Live, Terminal
  <2>4. FailedDocument(doc, retryable) \in {Cancelled(doc), dead, again}
    BY DEF FailedDocument
  <2> QED  BY <1>1, <2>2, <2>3, <2>4
<1> QED  BY <1>2, <1>3, <1>4

LEMMA FieldUpdates ==
    ASSUME NEW doc \in Document, Agrees(doc)
    PROVE  /\ [doc EXCEPT !.lease = "live"] \in Document
           /\ Agrees([doc EXCEPT !.lease = "live"])
           /\ [doc EXCEPT !.lease = "expired"] \in Document
           /\ Agrees([doc EXCEPT !.lease = "expired"])
           /\ [doc EXCEPT !.due = TRUE] \in Document
           /\ Agrees([doc EXCEPT !.due = TRUE])
           /\ [doc EXCEPT !.cancel_requested = TRUE] \in Document
           /\ Agrees([doc EXCEPT !.cancel_requested = TRUE])
BY DEF Document, Agrees

LEMMA InitialDocuments ==
    /\ NoDocument \in Document /\ Agrees(NoDocument)
    /\ NewDocument \in Document /\ Agrees(NewDocument)
BY DEF NoDocument, NewDocument, Document, Agrees, Live, Terminal

-----------------------------------------------------------------------------
(* The parts of the invariant                                              *)
TasksGood == task \in [Task -> Document] /\ \A t \in Task : Agrees(task[t])

CancelsGood ==
    /\ cancel \in [Task -> [pc : {"none", "read", "done"}, doc : Document]]
    /\ \A t \in Task : Agrees(cancel[t].doc)

GoodWorkerState ==
    {s \in WorkerState : \A c \in s.batch \cup s.held : Agrees(c.doc)}

WorkersGood == worker \in [Worker -> GoodWorkerState]

RestGood ==
    /\ enqueue \in [Task -> {"look", "insert", "relook", "created", "joined", "raised"}]
    /\ faults \in 0..MaxFaults
    /\ attempts \in [Task -> Nat]

IInv == TasksGood /\ CancelsGood /\ WorkersGood /\ RestGood

LEMMA AtLoopGood ==
    ASSUME NEW p \in {"loop", "reclaim", "claim", "get", "execute", "refresh", "dead", "down"}
    PROVE  [AtLoop EXCEPT !.pc = p] \in GoodWorkerState /\ AtLoop \in GoodWorkerState
BY DEF AtLoop, GoodWorkerState, WorkerState

LEMMA SavePreserves ==
    ASSUME TasksGood, NEW t \in Task, NEW doc \in Document, Agrees(doc), Save(t, doc)
    PROVE  TasksGood'
BY DEF TasksGood, Save

LEMMA MovePreserves ==
    ASSUME WorkersGood, NEW w \in Worker, NEW s \in GoodWorkerState, MoveTo(w, s)
    PROVE  WorkersGood'
BY DEF WorkersGood, MoveTo

LEMMA SaveAndMovePreserves ==
    ASSUME TasksGood, WorkersGood, NEW w \in Worker, NEW t \in Task,
           NEW doc \in Document, Agrees(doc), NEW s \in GoodWorkerState,
           SaveAndMoveTo(w, t, doc, s)
    PROVE  TasksGood' /\ WorkersGood'
<1>1. CASE Save(t, doc) /\ MoveTo(w, s)
  BY <1>1, SavePreserves, MovePreserves
<1>2. CASE Die(w)
  <2>1. [AtLoop EXCEPT !.pc = "dead"] \in GoodWorkerState  BY AtLoopGood
  <2>2. WorkersGood'  BY <1>2, <2>1, MovePreserves DEF Die
  <2>3. TasksGood'  BY <1>2 DEF Die, TasksGood
  <2> QED  BY <2>2, <2>3
<1> QED  BY <1>1, <1>2 DEF SaveAndMoveTo

(* A worker that holds one good copy is in a good state.                   *)
LEMMA HoldingGood ==
    ASSUME NEW p \in {"get", "execute", "refresh"}, NEW t \in Task,
           NEW doc \in Document, Agrees(doc)
    PROVE  [AtLoop EXCEPT !.pc = p, !.held = {[id |-> t, doc |-> doc]}] \in GoodWorkerState
<1> DEFINE h == {[id |-> t, doc |-> doc]}
<1>1. h \subseteq Copy  BY DEF Copy
<1>2. \A c \in h : Agrees(c.doc)  OBVIOUS
<1> HIDE DEF h
<1>3. [AtLoop EXCEPT !.pc = p, !.held = h] \in GoodWorkerState
  BY <1>1, <1>2 DEF AtLoop, GoodWorkerState, WorkerState
<1> QED  BY <1>3 DEF h

LEMMA HeldCopy ==
    ASSUME WorkersGood, NEW w \in Worker, NEW c \in worker[w].batch \cup worker[w].held
    PROVE  c.id \in Task /\ c.doc \in Document /\ Agrees(c.doc)
<1>1. worker[w] \in GoodWorkerState  BY DEF WorkersGood
<1>2. worker[w].batch \subseteq Copy /\ worker[w].held \subseteq Copy
  BY <1>1 DEF GoodWorkerState, WorkerState
<1>3. Agrees(c.doc)  BY <1>1 DEF GoodWorkerState
<1> QED  BY <1>2, <1>3 DEF Copy

-----------------------------------------------------------------------------
LEMMA WorkerStepInv ==
    ASSUME IInv, NEW w \in Worker, WorkerStep(w)
    PROVE  IInv'
<1> USE DEF IInv
<1>1. CASE FindExpired(w)
  <2> DEFINE s == [AtLoop EXCEPT !.pc = "reclaim",
                    !.batch = {[id |-> t, doc |-> task[t]] : t \in {u \in Task : Expired(task[u])}}]
  <2> DEFINE found == {[id |-> t, doc |-> task[t]] : t \in {u \in Task : Expired(task[u])}}
  <2>1. s \in GoodWorkerState
    <3>1. found \subseteq Copy  BY DEF TasksGood, Copy
    <3>2. \A c \in found : Agrees(c.doc)  BY DEF TasksGood
    <3> HIDE DEF found
    <3>3. [AtLoop EXCEPT !.pc = "reclaim", !.batch = found] \in GoodWorkerState
      BY <3>1, <3>2 DEF AtLoop, GoodWorkerState, WorkerState
    <3> QED  BY <3>3 DEF found
  <2>2. WorkersGood'  BY <1>1, <2>1, MovePreserves DEF FindExpired
  <2> QED  BY <1>1, <2>2 DEF FindExpired, TasksGood, CancelsGood, RestGood
<1>2. CASE ReclaimOne(w)
  <2>1. PICK c \in worker[w].batch :
          SaveAndMoveTo(w, c.id, FailedDocument(c.doc, TRUE), [worker[w] EXCEPT !.batch = @ \ {c}])
    BY <1>2 DEF ReclaimOne
  <2>2. c.id \in Task /\ c.doc \in Document /\ Agrees(c.doc)  BY HeldCopy
  <2>3. FailedDocument(c.doc, TRUE) \in Document /\ Agrees(FailedDocument(c.doc, TRUE))
    BY <2>2, DocumentEffects
  <2>4. [worker[w] EXCEPT !.batch = @ \ {c}] \in GoodWorkerState
    BY DEF WorkersGood, GoodWorkerState, WorkerState
  <2>5. TasksGood' /\ WorkersGood'
    BY <2>1, <2>2, <2>3, <2>4, SaveAndMovePreserves
  <2> QED  BY <1>2, <2>5 DEF ReclaimOne, CancelsGood, RestGood
<1>3. CASE ReclaimDone(w)
  <2>1. [worker[w] EXCEPT !.pc = "claim"] \in GoodWorkerState
    BY DEF WorkersGood, GoodWorkerState, WorkerState
  <2>2. WorkersGood'  BY <1>3, <2>1, MovePreserves DEF ReclaimDone
  <2> QED  BY <1>3, <2>2 DEF ReclaimDone, TasksGood, CancelsGood, RestGood
<1>4. CASE Claim(w)
  <2>1. CASE \E t \in Task :
              /\ Claimable(t)
              /\ task' = [task EXCEPT ![t] = [@ EXCEPT !.status = "running", !.lease = "live"]]
              /\ MoveTo(w, [AtLoop EXCEPT !.pc = "get", !.held = {[id |-> t, doc |-> NoDocument]}])
    <3>1. PICK t \in Task :
              /\ Claimable(t)
              /\ task' = [task EXCEPT ![t] = [@ EXCEPT !.status = "running", !.lease = "live"]]
              /\ MoveTo(w, [AtLoop EXCEPT !.pc = "get", !.held = {[id |-> t, doc |-> NoDocument]}])
      BY <2>1
    <3>2. [AtLoop EXCEPT !.pc = "get", !.held = {[id |-> t, doc |-> NoDocument]}] \in GoodWorkerState
      BY HoldingGood, InitialDocuments
    <3>3. WorkersGood'  BY <3>1, <3>2, MovePreserves
    <3>4. TasksGood'
      <4>1. task[t] \in Document /\ task[t].active  BY <3>1 DEF Claimable, TasksGood
      <4>2. /\ [task[t] EXCEPT !.status = "running", !.lease = "live"] \in Document
            /\ Agrees([task[t] EXCEPT !.status = "running", !.lease = "live"])
        BY <4>1 DEF Document, Agrees, Live, Terminal
      <4> QED  BY <3>1, <4>2 DEF TasksGood
    <3> QED  BY <1>4, <3>3, <3>4 DEF Claim, CancelsGood, RestGood
  <2>2. CASE MoveTo(w, AtLoop) /\ UNCHANGED task
    <3>1. WorkersGood'  BY <2>2, AtLoopGood, MovePreserves
    <3> QED  BY <1>4, <2>2, <3>1 DEF Claim, TasksGood, CancelsGood, RestGood
  <2> QED  BY <1>4, <2>1, <2>2 DEF Claim
<1>5. CASE GetClaimed(w)
  <2>1. PICK c \in worker[w].held :
          MoveTo(w, [AtLoop EXCEPT !.pc = "execute", !.held = {[id |-> c.id, doc |-> task[c.id]]}])
    BY <1>5 DEF GetClaimed
  <2>2. c.id \in Task  BY HeldCopy
  <2>3. task[c.id] \in Document /\ Agrees(task[c.id])  BY <2>2 DEF TasksGood
  <2>4. [AtLoop EXCEPT !.pc = "execute", !.held = {[id |-> c.id, doc |-> task[c.id]]}] \in GoodWorkerState
    BY <2>2, <2>3, HoldingGood
  <2>5. WorkersGood'  BY <2>1, <2>4, MovePreserves
  <2> QED  BY <1>5, <2>5 DEF GetClaimed, TasksGood, CancelsGood, RestGood
<1>6. CASE SkipSource(w)
  <2>1. PICK c \in worker[w].held :
          \/ SaveAndMoveTo(w, c.id, FailedDocument(c.doc, FALSE), AtLoop)
          \/ SaveAndMoveTo(w, c.id, Completed([c.doc EXCEPT !.cancel_requested = TRUE]), AtLoop)
    BY <1>6 DEF SkipSource
  <2>2. c.id \in Task /\ c.doc \in Document /\ Agrees(c.doc)  BY HeldCopy
  <2>3. FailedDocument(c.doc, FALSE) \in Document /\ Agrees(FailedDocument(c.doc, FALSE))
    BY <2>2, DocumentEffects
  <2>4. /\ [c.doc EXCEPT !.cancel_requested = TRUE] \in Document
        /\ Agrees([c.doc EXCEPT !.cancel_requested = TRUE])
    BY <2>2, FieldUpdates
  <2>5. /\ Completed([c.doc EXCEPT !.cancel_requested = TRUE]) \in Document
        /\ Agrees(Completed([c.doc EXCEPT !.cancel_requested = TRUE]))
    BY <2>4, DocumentEffects
  <2>6. AtLoop \in GoodWorkerState  BY AtLoopGood
  <2>7. TasksGood' /\ WorkersGood'
    BY <2>1, <2>2, <2>3, <2>5, <2>6, SaveAndMovePreserves
  <2> QED  BY <1>6, <2>7 DEF SkipSource, CancelsGood, RestGood
<1>7. CASE HeartbeatTask(w)
  <2>1. PICK c \in worker[w].held :
          /\ SaveAndMoveTo(w, c.id, [c.doc EXCEPT !.lease = "live"],
                [AtLoop EXCEPT !.pc = "refresh",
                               !.held = {[id |-> c.id, doc |-> [c.doc EXCEPT !.lease = "live"]]}])
          /\ attempts' = IF IndexAllows(c.id, [c.doc EXCEPT !.lease = "live"])
                         THEN [attempts EXCEPT ![c.id] = @ + 1] ELSE attempts
    BY <1>7 DEF HeartbeatTask
  <2>2. c.id \in Task /\ c.doc \in Document /\ Agrees(c.doc)  BY HeldCopy
  <2>3. [c.doc EXCEPT !.lease = "live"] \in Document /\ Agrees([c.doc EXCEPT !.lease = "live"])
    BY <2>2, FieldUpdates
  <2>4. [AtLoop EXCEPT !.pc = "refresh",
            !.held = {[id |-> c.id, doc |-> [c.doc EXCEPT !.lease = "live"]]}] \in GoodWorkerState
    BY <2>2, <2>3, HoldingGood
  <2>5. TasksGood' /\ WorkersGood'
    BY <2>1, <2>2, <2>3, <2>4, SaveAndMovePreserves
  <2>6. attempts' \in [Task -> Nat]  BY <2>1, <2>2 DEF RestGood
  <2> QED  BY <1>7, <2>5, <2>6 DEF HeartbeatTask, CancelsGood, RestGood
<1>8. CASE FinishRefresh(w)
  <2>1. PICK c \in worker[w].held :
          \/ SaveAndMoveTo(w, c.id, Completed(c.doc), AtLoop)
          \/ \E retryable \in BOOLEAN :
                SaveAndMoveTo(w, c.id, FailedDocument(c.doc, retryable), AtLoop)
    BY <1>8 DEF FinishRefresh
  <2>2. c.id \in Task /\ c.doc \in Document /\ Agrees(c.doc)  BY HeldCopy
  <2>3. AtLoop \in GoodWorkerState  BY AtLoopGood
  <2>4. CASE SaveAndMoveTo(w, c.id, Completed(c.doc), AtLoop)
    <3>1. Completed(c.doc) \in Document /\ Agrees(Completed(c.doc))
      BY <2>2, DocumentEffects
    <3> QED  BY <1>8, <2>2, <2>3, <2>4, <3>1, SaveAndMovePreserves
             DEF FinishRefresh, CancelsGood, RestGood
  <2>5. CASE \E retryable \in BOOLEAN :
                SaveAndMoveTo(w, c.id, FailedDocument(c.doc, retryable), AtLoop)
    <3>1. PICK retryable \in BOOLEAN :
                SaveAndMoveTo(w, c.id, FailedDocument(c.doc, retryable), AtLoop)
      BY <2>5
    <3>2. /\ FailedDocument(c.doc, retryable) \in Document
          /\ Agrees(FailedDocument(c.doc, retryable))
      BY <2>2, DocumentEffects
    <3> QED  BY <1>8, <2>2, <2>3, <3>1, <3>2, SaveAndMovePreserves
             DEF FinishRefresh, CancelsGood, RestGood
  <2> QED  BY <2>1, <2>4, <2>5
<1> QED  BY <1>1, <1>2, <1>3, <1>4, <1>5, <1>6, <1>7, <1>8 DEF WorkerStep

LEMMA FaultType == ASSUME faults \in 0..MaxFaults, NEW kind, Fault(kind) PROVE faults' \in 0..MaxFaults
BY MaxFaultsAssumption DEF Fault

LEMMA WorkerFaultInv ==
    ASSUME IInv, NEW w \in Worker,
           RestartBackend(w) \/ UnexpectedError(w) \/ CrashBackend(w)
    PROVE  IInv'
<1> USE DEF IInv
<1>1. CASE RestartBackend(w)
  <2>1. WorkersGood'  BY <1>1, AtLoopGood, MovePreserves DEF RestartBackend
  <2> QED  BY <1>1, <2>1 DEF RestartBackend, TasksGood, CancelsGood, RestGood
<1>2. CASE UnexpectedError(w)
  <2>1. [AtLoop EXCEPT !.pc = "dead"] \in GoodWorkerState  BY AtLoopGood
  <2>2. WorkersGood'  BY <1>2, <2>1, MovePreserves DEF UnexpectedError, Die
  <2>3. faults' \in 0..MaxFaults  BY <1>2, FaultType DEF UnexpectedError, RestGood
  <2> QED  BY <1>2, <2>2, <2>3 DEF UnexpectedError, Die, TasksGood, CancelsGood, RestGood
<1>3. CASE CrashBackend(w)
  <2>1. [AtLoop EXCEPT !.pc = "down"] \in GoodWorkerState  BY AtLoopGood
  <2>2. WorkersGood'  BY <1>3, <2>1, MovePreserves DEF CrashBackend
  <2>3. faults' \in 0..MaxFaults  BY <1>3, FaultType DEF CrashBackend, RestGood
  <2> QED  BY <1>3, <2>2, <2>3 DEF CrashBackend, TasksGood, CancelsGood, RestGood
<1> QED  BY <1>1, <1>2, <1>3

LEMMA TaskStepInv ==
    ASSUME IInv, NEW t \in Task,
           RequestStep(t) \/ LeaseExpires(t) \/ BackoffElapses(t)
    PROVE  IInv'
<1> USE DEF IInv
<1>1. CASE LookForActive(t) \/ LookAgain(t)
  BY <1>1 DEF LookForActive, LookAgain, TasksGood, CancelsGood, WorkersGood, RestGood
<1>2. CASE InsertTask(t)
  <2>1. CASE Save(t, NewDocument)
    <3>1. TasksGood'  BY <2>1, SavePreserves, InitialDocuments
    <3> QED  BY <1>2, <3>1 DEF InsertTask, CancelsGood, WorkersGood, RestGood
  <2>2. CASE UNCHANGED task
    BY <1>2, <2>2 DEF InsertTask, TasksGood, CancelsGood, WorkersGood, RestGood
  <2> QED  BY <1>2, <2>1, <2>2 DEF InsertTask
<1>3. CASE ReadToCancel(t)
  <2>1. task[t] \in Document /\ Agrees(task[t])  BY DEF TasksGood
  <2>2. CancelsGood'  BY <1>3, <2>1 DEF ReadToCancel, CancelsGood
  <2> QED  BY <1>3, <2>2 DEF ReadToCancel, TasksGood, WorkersGood, RestGood
<1>4. CASE SaveCancel(t)
  <2>1. cancel[t].doc \in Document /\ Agrees(cancel[t].doc)  BY DEF CancelsGood
  <2>2. CancelEffect(cancel[t].doc) \in Document /\ Agrees(CancelEffect(cancel[t].doc))
    BY <2>1, DocumentEffects
  <2>3. CancelsGood'  BY <1>4, InitialDocuments DEF SaveCancel, CancelsGood
  <2>4. TasksGood'
    <3>1. CASE Save(t, CancelEffect(cancel[t].doc))  BY <3>1, <2>2, SavePreserves
    <3>2. CASE UNCHANGED task  BY <3>2 DEF TasksGood
    <3> QED  BY <1>4, <3>1, <3>2 DEF SaveCancel
  <2> QED  BY <1>4, <2>3, <2>4 DEF SaveCancel, WorkersGood, RestGood
<1>5. CASE LeaseExpires(t)
  <2>1. task[t] \in Document /\ Agrees(task[t])  BY DEF TasksGood
  <2>2. /\ [task[t] EXCEPT !.lease = "expired"] \in Document
        /\ Agrees([task[t] EXCEPT !.lease = "expired"])
    BY <2>1, FieldUpdates
  <2>3. TasksGood'  BY <1>5, <2>2 DEF LeaseExpires, TasksGood
  <2>4. faults' \in 0..MaxFaults  BY <1>5, FaultType DEF LeaseExpires, RestGood
  <2> QED  BY <1>5, <2>3, <2>4 DEF LeaseExpires, CancelsGood, WorkersGood, RestGood
<1>6. CASE BackoffElapses(t)
  <2>1. task[t] \in Document /\ Agrees(task[t])  BY DEF TasksGood
  <2>2. /\ [task[t] EXCEPT !.due = TRUE] \in Document
        /\ Agrees([task[t] EXCEPT !.due = TRUE])
    BY <2>1, FieldUpdates
  <2>3. TasksGood'  BY <1>6, <2>2 DEF BackoffElapses, TasksGood
  <2> QED  BY <1>6, <2>3 DEF BackoffElapses, CancelsGood, WorkersGood, RestGood
<1> QED  BY <1>1, <1>2, <1>3, <1>4, <1>5, <1>6 DEF RequestStep

LEMMA InitInv == Init => IInv
<1> SUFFICES ASSUME Init PROVE IInv  OBVIOUS
<1>1. TasksGood  BY InitialDocuments DEF Init, TasksGood
<1>2. CancelsGood  BY InitialDocuments DEF Init, CancelsGood
<1>3. WorkersGood  BY AtLoopGood DEF Init, WorkersGood
<1>4. RestGood  BY MaxFaultsAssumption DEF Init, RestGood
<1> QED  BY <1>1, <1>2, <1>3, <1>4 DEF IInv

LEMMA StepInv == ASSUME IInv, [Next]_vars PROVE IInv'
<1>1. CASE UNCHANGED vars
  BY <1>1 DEF IInv, vars, TasksGood, CancelsGood, WorkersGood, RestGood
<1>2. CASE Next
  BY <1>2, WorkerStepInv, WorkerFaultInv, TaskStepInv DEF Next
<1> QED  BY <1>1, <1>2

(* The documents of the queue and every copy of them keep their types.     *)
(* (tasks.py)                                                              *)
THEOREM TaskQueueTypeCorrect == Spec => []TypeOK
<1>1. IInv => TypeOK
  BY DEF IInv, TypeOK, TasksGood, CancelsGood, WorkersGood, RestGood, GoodWorkerState
<1> QED  BY InitInv, StepInv, <1>1, PTL DEF Spec

(* However many backends, cancellations, crashes and stale saves: active   *)
(* and status of a task never disagree.  (cancel_task, complete_task,      *)
(* fail_task, reclaim_expired_tasks)                                       *)
THEOREM ActiveAlwaysMatches == Spec => []ActiveMatchesStatus
<1>1. IInv => ActiveMatchesStatus
  BY DEF IInv, TasksGood, ActiveMatchesStatus, Agrees
<1> QED  BY InitInv, StepInv, <1>1, PTL DEF Spec

-----------------------------------------------------------------------------
(* Why a task is tried at most max_retries times, for one worker and a     *)
(* task t that nobody cancels: retry_count, on the document and on every   *)
(* copy that will be saved, keeps up with the refreshes started.           *)

NotCancelled(t) == cancel[t].pc = "none"

DocumentTried(t) ==
    /\ attempts[t] <= MaxRetries
    /\ task[t].status = "none" => attempts[t] = 0
    /\ task[t].status = "queued" =>
          attempts[t] <= task[t].retry_count /\ task[t].retry_count < MaxRetries
    /\ task[t].status \in {"running", "cancel_requested"} =>
          attempts[t] <= task[t].retry_count + 1 /\ task[t].retry_count < MaxRetries

(* No document, and no copy of one, before the insert                      *)
NotYetInserted(t) ==
    enqueue[t] \in {"look", "insert"} =>
        /\ task[t].status = "none"
        /\ \A w \in Worker : \A c \in worker[w].batch \cup worker[w].held : c.id # t

BatchTried(t) ==
    \A w \in Worker : \A c \in worker[w].batch :
        /\ worker[w].pc = "reclaim"
        /\ c.id = t => /\ c.doc.retry_count < MaxRetries
                       /\ attempts[t] <= c.doc.retry_count + 1

HeldTried(t) ==
    \A w \in Worker : \A c \in worker[w].held :
        /\ worker[w].pc \in {"get", "execute", "refresh"}
        /\ c.id = t =>
              \/ /\ worker[w].pc = "get"
                 /\ task[t].status = "running"
                 /\ attempts[t] <= task[t].retry_count
              \/ /\ worker[w].pc = "execute" /\ c.doc.status = "running"
                 /\ c.doc.retry_count < MaxRetries
                 /\ attempts[t] <= c.doc.retry_count
              \/ /\ worker[w].pc = "refresh" /\ c.doc.status = "running"
                 /\ c.doc.retry_count < MaxRetries
                 /\ attempts[t] <= c.doc.retry_count + 1

TriedInv(t) ==
    /\ NotCancelled(t) /\ DocumentTried(t) /\ NotYetInserted(t)
    /\ BatchTried(t) /\ HeldTried(t)

(* What the functions on documents say about tries                         *)
LEMMA FailedTried ==
    ASSUME NEW doc \in Document, NEW retryable \in BOOLEAN
    PROVE  LET failed == FailedDocument(doc, retryable)
           IN  \/ failed.status \in {"cancelled", "dead_letter"}
               \/ /\ failed.status = "queued"
                  /\ failed.retry_count = doc.retry_count + 1
                  /\ failed.retry_count < MaxRetries
<1>1. doc.retry_count \in Nat  BY DEF Document
<1>2. Cancelled(doc).status = "cancelled"  BY DEF Cancelled, Document
<1> DEFINE dead == [doc EXCEPT !.retry_count = @ + 1, !.status = "dead_letter",
                               !.active = FALSE, !.lease = "none"]
           again == [doc EXCEPT !.retry_count = @ + 1, !.status = "queued",
                                !.active = TRUE, !.due = FALSE, !.lease = "none"]
<1>3. dead.status = "dead_letter"  BY DEF Document
<1>4. again.status = "queued" /\ again.retry_count = doc.retry_count + 1  BY DEF Document
<1>5. \/ FailedDocument(doc, retryable) \in {Cancelled(doc), dead}
      \/ FailedDocument(doc, retryable) = again /\ ~(doc.retry_count + 1 >= MaxRetries)
  BY DEF FailedDocument
<1> HIDE DEF dead, again
<1>6. CASE FailedDocument(doc, retryable) \in {Cancelled(doc), dead}
  BY <1>2, <1>3, <1>6
<1>7. CASE FailedDocument(doc, retryable) = again /\ ~(doc.retry_count + 1 >= MaxRetries)
  <2>1. doc.retry_count + 1 < MaxRetries  BY <1>1, <1>7, MaxRetriesAssumption
  <2> QED  BY <1>4, <1>7, <2>1
<1> QED  BY <1>5, <1>6, <1>7

LEMMA CompletedTried ==
    ASSUME NEW doc \in Document
    PROVE  Completed(doc).status \in {"cancelled", "succeeded"}
BY DEF Completed, Document

LEMMA OneMoves ==
    ASSUME NEW w, Worker = {w}, WorkersGood, NEW s, MoveTo(w, s)
    PROVE  worker'[w] = s
BY DEF WorkersGood, MoveTo

LEMMA TriedTypes ==
    ASSUME IInv, NEW t \in Task
    PROVE  attempts[t] \in Nat /\ task[t] \in Document /\ task[t].retry_count \in Nat
BY DEF IInv, RestGood, TasksGood, Document

(* A worker that lets go of everything: what matters is the document.      *)
LEMMA LetGo ==
    ASSUME NEW w, Worker = {w}, IInv, NEW t \in Task, TriedInv(t),
           NEW s, s.batch = {}, s.held = {}, MoveTo(w, s),
           UNCHANGED <<cancel, enqueue, attempts>>,
           task'[t] = task[t]
    PROVE  TriedInv(t)'
<1>1. worker'[w] = s  BY OneMoves DEF IInv
<1>2. BatchTried(t)' /\ HeldTried(t)'  BY <1>1 DEF BatchTried, HeldTried
<1>3. NotYetInserted(t)'  BY <1>1 DEF NotYetInserted, TriedInv
<1> QED  BY <1>2, <1>3 DEF TriedInv, NotCancelled, DocumentTried

(* The save that ends an attempt at u, whether u is t or not               *)
LEMMA EndOfAttempt ==
    ASSUME NEW w, Worker = {w}, IInv, NEW t \in Task, TriedInv(t),
           NEW c \in worker[w].batch \cup worker[w].held, NEW doc, NEW s,
           SaveAndMoveTo(w, c.id, doc, s), UNCHANGED <<cancel, enqueue, attempts>>,
           s.held = {}, s.batch \subseteq worker[w].batch,
           s.batch # {} => s.pc = "reclaim",
           c.id = t =>
              \/ doc.status \in Terminal
              \/ doc.status = "queued" /\ attempts[t] <= doc.retry_count
                                       /\ doc.retry_count < MaxRetries
    PROVE  TriedInv(t)'
<1>0. c.id \in Task  BY HeldCopy DEF IInv
<1>1. CASE Die(w)
  <2>1. [AtLoop EXCEPT !.pc = "dead"].batch = {} /\ [AtLoop EXCEPT !.pc = "dead"].held = {}
    BY DEF AtLoop
  <2> QED  BY <1>1, <2>1, LetGo DEF Die
<1>2. CASE Save(c.id, doc) /\ MoveTo(w, s)
  <2>1. worker'[w] = s  BY <1>2, OneMoves DEF IInv
  <2>2. IF c.id = t THEN task'[t] = doc ELSE task'[t] = task[t]
    BY <1>0, <1>2 DEF Save, IInv, TasksGood
  <2>3. BatchTried(t)' /\ HeldTried(t)'
    BY <2>1 DEF TriedInv, BatchTried, HeldTried
  <2>4. NotYetInserted(t)'
    BY <2>1, <2>2 DEF TriedInv, NotYetInserted
  <2>5. DocumentTried(t)'
    BY <2>2 DEF TriedInv, DocumentTried, Terminal
  <2> QED  BY <2>3, <2>4, <2>5 DEF TriedInv, NotCancelled
<1> QED  BY <1>1, <1>2 DEF SaveAndMoveTo

LEMMA WorkerStepTried ==
    ASSUME NEW w, Worker = {w}, IInv, NEW t \in Task, TriedInv(t), WorkerStep(w)
    PROVE  TriedInv(t)'
<1> USE DEF IInv
<1>a. worker[w] \in WorkerState  BY DEF WorkersGood, GoodWorkerState
<1>b. attempts[t] \in Nat /\ task[t] \in Document /\ task[t].retry_count \in Nat
  BY TriedTypes
<1>c. AtLoop.batch = {} /\ AtLoop.held = {}  BY DEF AtLoop
<1>1. CASE FindExpired(w)
  <2> DEFINE found == {[id |-> u, doc |-> task[u]] : u \in {v \in Task : Expired(task[v])}}
             s == [AtLoop EXCEPT !.pc = "reclaim", !.batch = found]
  <2>1. worker'[w] = s  BY <1>1, OneMoves DEF FindExpired
  <2>2. s.pc = "reclaim" /\ s.batch = found /\ s.held = {}  BY DEF AtLoop
  <2>3. \A c \in found : c.id = t => c.doc = task[t] /\ Expired(task[t])
    OBVIOUS
  <2>4. UNCHANGED <<task, enqueue, cancel, attempts>>  BY <1>1 DEF FindExpired
  <2> HIDE DEF found, s
  <2>5. BatchTried(t)'
    BY <2>1, <2>2, <2>3, <2>4 DEF BatchTried, TriedInv, DocumentTried, Expired
  <2>6. NotYetInserted(t)'
    BY <2>1, <2>2, <2>3, <2>4 DEF NotYetInserted, TriedInv, Expired
  <2>7. HeldTried(t)'  BY <2>1, <2>2 DEF HeldTried
  <2> QED  BY <2>4, <2>5, <2>6, <2>7 DEF TriedInv, NotCancelled, DocumentTried
<1>2. CASE ReclaimOne(w)
  <2>1. PICK c \in worker[w].batch :
          SaveAndMoveTo(w, c.id, FailedDocument(c.doc, TRUE), [worker[w] EXCEPT !.batch = @ \ {c}])
    BY <1>2 DEF ReclaimOne
  <2> DEFINE s == [worker[w] EXCEPT !.batch = @ \ {c}]
  <2>2. worker[w].pc = "reclaim"  BY <1>2 DEF ReclaimOne
  <2>3. worker[w].held = {}  BY <2>2 DEF TriedInv, HeldTried
  <2>4. s.held = {} /\ s.batch \subseteq worker[w].batch /\ s.pc = "reclaim"
    BY <1>a, <2>2, <2>3 DEF WorkerState
  <2>5. c.doc \in Document /\ c.doc.retry_count \in Nat  BY HeldCopy DEF Document
  <2>6. c.id = t => attempts[t] <= c.doc.retry_count + 1  BY DEF TriedInv, BatchTried
  <2>7. c.id = t =>
           \/ FailedDocument(c.doc, TRUE).status \in Terminal
           \/ /\ FailedDocument(c.doc, TRUE).status = "queued"
              /\ attempts[t] <= FailedDocument(c.doc, TRUE).retry_count
              /\ FailedDocument(c.doc, TRUE).retry_count < MaxRetries
    BY <2>5, <2>6, FailedTried DEF Terminal
  <2>8. UNCHANGED <<cancel, enqueue, attempts>>  BY <1>2 DEF ReclaimOne
  <2>9. SaveAndMoveTo(w, c.id, FailedDocument(c.doc, TRUE), s)  BY <2>1
  <2> HIDE DEF s
  <2> QED  BY <2>4, <2>7, <2>8, <2>9, EndOfAttempt
<1>3. CASE ReclaimDone(w)
  <2> DEFINE s == [worker[w] EXCEPT !.pc = "claim"]
  <2>1. worker[w].held = {} /\ worker[w].batch = {}
    BY <1>3 DEF ReclaimDone, TriedInv, HeldTried
  <2>2. s.held = {} /\ s.batch = {}  BY <1>a, <2>1 DEF WorkerState
  <2> QED  BY <1>3, <2>2, LetGo DEF ReclaimDone
<1>4. CASE Claim(w)
  <2>1. CASE MoveTo(w, AtLoop) /\ UNCHANGED task
    BY <1>4, <1>c, <2>1, LetGo DEF Claim
  <2>2. ASSUME NEW u \in Task, Claimable(u),
               task' = [task EXCEPT ![u] = [@ EXCEPT !.status = "running", !.lease = "live"]],
               MoveTo(w, [AtLoop EXCEPT !.pc = "get", !.held = {[id |-> u, doc |-> NoDocument]}])
        PROVE  TriedInv(t)'
    <3> DEFINE s == [AtLoop EXCEPT !.pc = "get", !.held = {[id |-> u, doc |-> NoDocument]}]
    <3>1. worker'[w] = s  BY <2>2, OneMoves
    <3>2. s.pc = "get" /\ s.batch = {} /\ \A c \in s.held : c.id = u  BY DEF AtLoop
    <3> HIDE DEF s
    <3>3. UNCHANGED <<enqueue, cancel, attempts>>  BY <1>4 DEF Claim
    <3>4. IF u = t THEN /\ task'[t].status = "running"
                        /\ task'[t].retry_count = task[t].retry_count
                        /\ task[t].status = "queued"
                   ELSE task'[t] = task[t]
      BY <1>b, <2>2 DEF TasksGood, Document, Claimable
    <3>5. DocumentTried(t)'  BY <1>b, <3>3, <3>4 DEF TriedInv, DocumentTried
    <3>6. HeldTried(t)'
      BY <1>b, <3>1, <3>2, <3>3, <3>4 DEF TriedInv, HeldTried, DocumentTried
    <3>7. BatchTried(t)' /\ NotYetInserted(t)'
      BY <3>1, <3>2, <3>3, <3>4 DEF TriedInv, BatchTried, NotYetInserted
    <3> QED  BY <3>3, <3>5, <3>6, <3>7 DEF TriedInv, NotCancelled
  <2> QED  BY <1>4, <2>1, <2>2 DEF Claim
<1>5. CASE GetClaimed(w)
  <2>1. PICK c \in worker[w].held :
          MoveTo(w, [AtLoop EXCEPT !.pc = "execute", !.held = {[id |-> c.id, doc |-> task[c.id]]}])
    BY <1>5 DEF GetClaimed
  <2> DEFINE s == [AtLoop EXCEPT !.pc = "execute", !.held = {[id |-> c.id, doc |-> task[c.id]]}]
  <2>2. worker'[w] = s  BY <2>1, OneMoves
  <2>3. /\ s.pc = "execute" /\ s.batch = {}
        /\ \A x \in s.held : x.id = c.id /\ x.doc = task[c.id]
    BY DEF AtLoop
  <2> HIDE DEF s
  <2>4. worker[w].pc = "get" /\ UNCHANGED <<task, enqueue, cancel, attempts>>
    BY <1>5 DEF GetClaimed
  <2>5. c.id = t => task[t].status = "running" /\ attempts[t] <= task[t].retry_count
    BY <2>4 DEF TriedInv, HeldTried
  <2>6. HeldTried(t)'
    BY <2>2, <2>3, <2>4, <2>5 DEF TriedInv, HeldTried, DocumentTried
  <2>7. BatchTried(t)' /\ NotYetInserted(t)'
    BY <2>2, <2>3, <2>4 DEF TriedInv, BatchTried, NotYetInserted
  <2> QED  BY <2>4, <2>6, <2>7 DEF TriedInv, NotCancelled, DocumentTried
<1>6. CASE SkipSource(w)
  <2>1. PICK c \in worker[w].held :
          \/ SaveAndMoveTo(w, c.id, FailedDocument(c.doc, FALSE), AtLoop)
          \/ SaveAndMoveTo(w, c.id, Completed([c.doc EXCEPT !.cancel_requested = TRUE]), AtLoop)
    BY <1>6 DEF SkipSource
  <2>2. c.doc \in Document /\ Agrees(c.doc) /\ c.doc.retry_count \in Nat
    BY HeldCopy DEF Document
  <2>3. [c.doc EXCEPT !.cancel_requested = TRUE] \in Document  BY <2>2, FieldUpdates
  <2>4. Completed([c.doc EXCEPT !.cancel_requested = TRUE]).status \in Terminal
    BY <2>3, CompletedTried DEF Terminal
  <2>5. worker[w].pc = "execute"  BY <1>6 DEF SkipSource
  <2>a. c.id = t => attempts[t] <= c.doc.retry_count  BY <2>5 DEF TriedInv, HeldTried
  <2>6. c.id = t => attempts[t] <= c.doc.retry_count + 1  BY <1>b, <2>2, <2>a
  <2>7. c.id = t =>
           \/ FailedDocument(c.doc, FALSE).status \in Terminal
           \/ /\ FailedDocument(c.doc, FALSE).status = "queued"
              /\ attempts[t] <= FailedDocument(c.doc, FALSE).retry_count
              /\ FailedDocument(c.doc, FALSE).retry_count < MaxRetries
    BY <2>2, <2>6, FailedTried DEF Terminal
  <2>8. UNCHANGED <<cancel, enqueue, attempts>>  BY <1>6 DEF SkipSource
  <2> QED  BY <1>c, <2>1, <2>4, <2>7, <2>8, EndOfAttempt
<1>7. CASE HeartbeatTask(w)
  <2>1. PICK c \in worker[w].held :
          /\ SaveAndMoveTo(w, c.id, [c.doc EXCEPT !.lease = "live"],
                [AtLoop EXCEPT !.pc = "refresh",
                               !.held = {[id |-> c.id, doc |-> [c.doc EXCEPT !.lease = "live"]]}])
          /\ attempts' = IF IndexAllows(c.id, [c.doc EXCEPT !.lease = "live"])
                         THEN [attempts EXCEPT ![c.id] = @ + 1] ELSE attempts
    BY <1>7 DEF HeartbeatTask
  <2> DEFINE doc == [c.doc EXCEPT !.lease = "live"]
             s == [AtLoop EXCEPT !.pc = "refresh", !.held = {[id |-> c.id, doc |-> doc]}]
  <2>2. c.id \in Task /\ c.doc \in Document /\ c.doc.retry_count \in Nat
    BY HeldCopy DEF Document
  <2>3. doc.status = c.doc.status /\ doc.retry_count = c.doc.retry_count
    BY <2>2 DEF Document
  <2>4. s.pc = "refresh" /\ s.batch = {} /\ \A x \in s.held : x.id = c.id /\ x.doc = doc
    BY DEF AtLoop
  <2>5. SaveAndMoveTo(w, c.id, doc, s)  BY <2>1
  <2>6. attempts' = IF IndexAllows(c.id, doc) THEN [attempts EXCEPT ![c.id] = @ + 1] ELSE attempts
    BY <2>1
  <2> HIDE DEF doc, s
  <2>7. UNCHANGED <<enqueue, cancel>> /\ worker[w].pc = "execute"
    BY <1>7 DEF HeartbeatTask
  <2>8. c.id = t => /\ c.doc.status = "running" /\ c.doc.retry_count < MaxRetries
                    /\ attempts[t] <= c.doc.retry_count
    BY <2>7 DEF TriedInv, HeldTried
  <2>9. CASE ~IndexAllows(c.id, doc)
    <3>1. Die(w) /\ attempts' = attempts  BY <2>5, <2>6, <2>9 DEF SaveAndMoveTo, Save
    <3>2. [AtLoop EXCEPT !.pc = "dead"].batch = {} /\ [AtLoop EXCEPT !.pc = "dead"].held = {}
      BY DEF AtLoop
    <3> QED  BY <2>7, <3>1, <3>2, LetGo DEF Die
  <2>10. CASE IndexAllows(c.id, doc)
    <3>1. Save(c.id, doc) /\ MoveTo(w, s)  BY <2>5, <2>10 DEF SaveAndMoveTo
    <3>2. worker'[w] = s  BY <3>1, OneMoves
    <3>3. IF c.id = t THEN task'[t] = doc /\ attempts'[t] = attempts[t] + 1
                      ELSE task'[t] = task[t] /\ attempts'[t] = attempts[t]
      BY <2>2, <2>6, <2>10, <3>1 DEF Save, TasksGood, RestGood
    <3>4. DocumentTried(t)'
      BY <1>b, <2>2, <2>3, <2>8, <3>3, MaxRetriesAssumption DEF TriedInv, DocumentTried
    <3>5. HeldTried(t)'
      BY <1>b, <2>2, <2>3, <2>4, <2>8, <3>2, <3>3 DEF HeldTried
    <3>6. BatchTried(t)' /\ NotYetInserted(t)'
      BY <2>4, <2>7, <3>2, <3>3 DEF TriedInv, BatchTried, NotYetInserted
    <3> QED  BY <2>7, <3>4, <3>5, <3>6 DEF TriedInv, NotCancelled
  <2> QED  BY <2>9, <2>10
<1>8. CASE FinishRefresh(w)
  <2>1. PICK c \in worker[w].held :
          \/ SaveAndMoveTo(w, c.id, Completed(c.doc), AtLoop)
          \/ \E retryable \in BOOLEAN :
                SaveAndMoveTo(w, c.id, FailedDocument(c.doc, retryable), AtLoop)
    BY <1>8 DEF FinishRefresh
  <2>2. c.doc \in Document /\ c.doc.retry_count \in Nat  BY HeldCopy DEF Document
  <2>3. Completed(c.doc).status \in Terminal  BY <2>2, CompletedTried DEF Terminal
  <2>4. worker[w].pc = "refresh" /\ UNCHANGED <<cancel, enqueue, attempts>>
    BY <1>8 DEF FinishRefresh
  <2>5. c.id = t => attempts[t] <= c.doc.retry_count + 1  BY <2>4 DEF TriedInv, HeldTried
  <2>6. CASE SaveAndMoveTo(w, c.id, Completed(c.doc), AtLoop)
    BY <1>c, <2>3, <2>4, <2>6, EndOfAttempt
  <2>7. ASSUME NEW retryable \in BOOLEAN,
               SaveAndMoveTo(w, c.id, FailedDocument(c.doc, retryable), AtLoop)
        PROVE  TriedInv(t)'
    <3>1. c.id = t =>
             \/ FailedDocument(c.doc, retryable).status \in Terminal
             \/ /\ FailedDocument(c.doc, retryable).status = "queued"
                /\ attempts[t] <= FailedDocument(c.doc, retryable).retry_count
                /\ FailedDocument(c.doc, retryable).retry_count < MaxRetries
      BY <2>2, <2>5, FailedTried DEF Terminal
    <3> QED  BY <1>c, <2>4, <2>7, <3>1, EndOfAttempt
  <2> QED  BY <2>1, <2>6, <2>7
<1> QED  BY <1>1, <1>2, <1>3, <1>4, <1>5, <1>6, <1>7, <1>8 DEF WorkerStep

LEMMA WorkerFaultTried ==
    ASSUME NEW w, Worker = {w}, IInv, NEW t \in Task, TriedInv(t),
           RestartBackend(w) \/ UnexpectedError(w) \/ CrashBackend(w)
    PROVE  TriedInv(t)'
<1>1. \A p \in {"loop", "dead", "down"} :
        [AtLoop EXCEPT !.pc = p].batch = {} /\ [AtLoop EXCEPT !.pc = p].held = {}
  BY DEF AtLoop
<1>2. AtLoop.batch = {} /\ AtLoop.held = {}  BY DEF AtLoop
<1> QED  BY <1>1, <1>2, LetGo DEF RestartBackend, UnexpectedError, CrashBackend, Die

(* Requests, cancellations of other tasks, and time                        *)
LEMMA TaskStepTried ==
    ASSUME IInv, NEW t \in Task \ Cancellable, TriedInv(t), NEW u \in Task,
           RequestStep(u) \/ LeaseExpires(u) \/ BackoffElapses(u)
    PROVE  TriedInv(t)'
<1> USE DEF IInv
<1>b. attempts[t] \in Nat /\ task[t] \in Document /\ task[t].retry_count \in Nat
  BY TriedTypes
<1>1. CASE LookForActive(u) \/ LookAgain(u)
  BY <1>1 DEF LookForActive, LookAgain, TriedInv, NotCancelled, DocumentTried,
       NotYetInserted, BatchTried, HeldTried, RestGood
<1>2. CASE InsertTask(u)
  <2>1. UNCHANGED <<cancel, worker, attempts>>  BY <1>2 DEF InsertTask
  <2>2. CASE u = t /\ Save(t, NewDocument)
    <3>1. task'[t] = NewDocument /\ enqueue[t] = "insert" /\ enqueue'[t] = "created"
      BY <1>2, <2>2 DEF InsertTask, Save, TasksGood, RestGood
    <3>2. attempts[t] = 0 /\ \A w \in Worker :
            \A c \in worker[w].batch \cup worker[w].held : c.id # t
      BY <3>1 DEF TriedInv, NotYetInserted, DocumentTried
    <3>3. DocumentTried(t)'
      BY <2>1, <3>1, <3>2, MaxRetriesAssumption DEF DocumentTried, NewDocument
    <3>4. BatchTried(t)' /\ HeldTried(t)' /\ NotYetInserted(t)' /\ NotCancelled(t)'
      BY <2>1, <3>1, <3>2 DEF TriedInv, BatchTried, HeldTried, NotYetInserted, NotCancelled
    <3> QED  BY <3>3, <3>4 DEF TriedInv
  <2>3. CASE ~(u = t /\ Save(t, NewDocument))
    <3>1. task'[t] = task[t]
      BY <1>2, <2>3 DEF InsertTask, Save, TasksGood
    <3>2. enqueue'[t] \in {"look", "insert"} => enqueue[t] \in {"look", "insert"}
      BY <1>2 DEF InsertTask, RestGood
    <3> QED  BY <2>1, <3>1, <3>2 DEF TriedInv, NotCancelled, DocumentTried,
               NotYetInserted, BatchTried, HeldTried
  <2> QED  BY <2>2, <2>3
<1>3. CASE ReadToCancel(u) \/ SaveCancel(u)
  <2>1. u # t  BY <1>3 DEF ReadToCancel, SaveCancel, TriedInv, NotCancelled
  <2>2. task'[t] = task[t] /\ cancel'[t] = cancel[t]
    BY <1>3, <2>1 DEF ReadToCancel, SaveCancel, Save, TasksGood, CancelsGood
  <2>3. UNCHANGED <<enqueue, worker, attempts>>  BY <1>3 DEF ReadToCancel, SaveCancel
  <2> QED  BY <2>2, <2>3 DEF TriedInv, NotCancelled, DocumentTried,
               NotYetInserted, BatchTried, HeldTried
<1>4. CASE LeaseExpires(u) \/ BackoffElapses(u)
  <2>1. task'[t].status = task[t].status /\ task'[t].retry_count = task[t].retry_count
    BY <1>4, <1>b DEF LeaseExpires, BackoffElapses, TasksGood, Document
  <2>2. UNCHANGED <<enqueue, cancel, worker, attempts>>
    BY <1>4 DEF LeaseExpires, BackoffElapses
  <2> QED  BY <2>1, <2>2 DEF TriedInv, NotCancelled, DocumentTried,
               NotYetInserted, BatchTried, HeldTried
<1> QED  BY <1>1, <1>2, <1>3, <1>4 DEF RequestStep

LEMMA TriedStep ==
    ASSUME NEW w, Worker = {w}, IInv, NEW t \in Task \ Cancellable, TriedInv(t), [Next]_vars
    PROVE  TriedInv(t)'
<1>1. CASE UNCHANGED vars
  BY <1>1 DEF vars, TriedInv, NotCancelled, DocumentTried, NotYetInserted, BatchTried, HeldTried
<1>2. CASE Next
  BY <1>2, WorkerStepTried, WorkerFaultTried, TaskStepTried DEF Next
<1> QED  BY <1>1, <1>2

LEMMA TriedInit == ASSUME Init, NEW t \in Task PROVE TriedInv(t)
BY MaxRetriesAssumption DEF Init, TriedInv, NotCancelled, DocumentTried, NotYetInserted,
     BatchTried, HeldTried, NoDocument, AtLoop

AllTried == Cardinality(Worker) = 1 => \A t \in Task \ Cancellable : TriedInv(t)

(* With one backend a task that nobody cancels is refreshed at most        *)
(* max_retries times, for any number of tasks, crashes, lease expiries and *)
(* errors (fail_task, reclaim_expired_tasks, claim_due_task).              *)
THEOREM AttemptsAreBounded == Spec => []AttemptsBounded
<1>1. Init => AllTried
  BY TriedInit DEF AllTried
<1>2. IInv /\ AllTried /\ [Next]_vars => AllTried'
  <2> SUFFICES ASSUME IInv, AllTried, [Next]_vars, Cardinality(Worker) = 1,
                      NEW t \in Task \ Cancellable
               PROVE  TriedInv(t)'
    BY DEF AllTried
  <2>1. PICK w : Worker = {w}
    BY WorkerAssumption, FS_Singleton
  <2> QED  BY <2>1, TriedStep DEF AllTried
<1>3. AllTried => AttemptsBounded
  BY DEF AllTried, AttemptsBounded, TriedInv, DocumentTried
<1> QED  BY InitInv, StepInv, <1>1, <1>2, <1>3, PTL DEF Spec

-----------------------------------------------------------------------------
(* The pages that follow a task                                            *)

TaskDoc == [target : Targets, status : Statuses]
OwnProbes == {r \in requests : r.own /\ r.target \in Nodes}

(* An answer brings a task as it was found active.                         *)
AnswersActive ==
    /\ \A r \in requests : IF r.step = "answer"
                           THEN r.task.id \in DOMAIN tasks /\ r.task.status = "active"
                           ELSE r.task = NoTask
    /\ created = NoTask \/ created.status = "active"

(* What the page knows of a task is of a task that exists, and an end that *)
(* it knows of is an end.                                                  *)
PolledTrue ==
    /\ polled = NoTask \/ polled.id \in DOMAIN tasks
    /\ FinishedProbe(polled) => /\ tasks[polled.id].status \in Ends
                                /\ completed = polled.id

(* One probe is called at a time.                                          *)
OneOwnProbe ==
    /\ \A r, s \in OwnProbes : r = s
    /\ OwnProbes # {} => running = "call"

OneActive ==
    \A target \in Targets : \A j, k \in Active(target) : j = k

Announced(k) == toasts[k] >= 1

(* An announced task has ended, is not followed again once another end was *)
(* announced, and an answer that brings it finds it polled to its end.     *)
AnnouncedInv ==
    /\ \A k \in TaskIds : Announced(k) => k \in DOMAIN tasks /\ tasks[k].status \in Ends
    /\ \A k \in TaskIds : Announced(k) /\ k # completed => probeTaskId # k
    /\ \A r \in OwnProbes : r.step = "answer" /\ Announced(r.task.id) =>
          /\ completed = r.task.id /\ polled.id = r.task.id /\ FinishedProbe(polled)
          /\ probeTaskId \in {None, r.task.id}

FollowedInv ==
    /\ FollowTypeOK /\ LockHasCall /\ AnnouncedOnce /\ OneActive
    /\ AnswersActive /\ PolledTrue /\ OneOwnProbe /\ AnnouncedInv

-----------------------------------------------------------------------------
(* The types, as the steps below need them                                 *)

LEMMA TaskIdType ==
    ASSUME FollowTypeOK
    PROVE  /\ DOMAIN tasks \subseteq TaskIds /\ None \notin DOMAIN tasks
           /\ \A k \in DOMAIN tasks : tasks[k] \in TaskDoc
  BY BoundsAssumption DEF FollowTypeOK, TaskIds, None, TaskDoc

LEMMA SeenType ==
    ASSUME FollowTypeOK, NEW k \in DOMAIN tasks
    PROVE  Seen(k) \in TaskData /\ Seen(k).id = k /\ Seen(k).status = tasks[k].status
  BY TaskIdType DEF Seen, TaskData, TaskDoc

(* NoTask is no task, and not finished.                                    *)
LEMMA NoTaskType ==
    /\ NoTask \in TaskData /\ ~FinishedProbe(NoTask)
    /\ \A d \in TaskData : d # NoTask => d.id \in TaskIds /\ d.status \in Statuses
  BY DEF NoTask, TaskData, FinishedProbe, Ends, TaskIds

(* The tracked task is finished only if the polled one is: an answer never *)
(* brings an end.                                                          *)
LEMMA TrackedEnd ==
    ASSUME NEW p, NEW c, c = NoTask \/ c.status = "active", FinishedProbe(Tracked(p, c))
    PROVE  p # NoTask /\ Tracked(p, c) = p /\ FinishedProbe(p)
  BY NoTaskType DEF Tracked, FinishedProbe, Ends

(* A finished task that was announced is no news.                          *)
LEMMA NoNews ==
    ASSUME NEW c, c = NoTask \/ c.status = "active", PolledTrue,
           Announce(polled, c, completed, toasts)
    PROVE  completed' = completed /\ toasts' = toasts
  BY TrackedEnd DEF Announce, PolledTrue

(* One step of the handler of a request                                    *)
LEMMA StepRequests ==
    ASSUME NEW r \in requests, NEW s, Step(r, s)
    PROVE  \A q \in requests' : q = s \/ (q \in requests /\ q # r)
  BY DEF Step

LEMMA NewRequestType ==
    ASSUME NEW target \in Targets, NEW own \in BOOLEAN
    PROVE  /\ NewRequest(target, own) \in Request
           /\ NewRequest(target, own).own = own /\ NewRequest(target, own).target = target
           /\ NewRequest(target, own).step = "find" /\ NewRequest(target, own).task = NoTask
  BY NoTaskType DEF NewRequest, Request

-----------------------------------------------------------------------------
(* What a request may look like: the part of FollowedInv that is about one        *)

RequestInv(r) ==
    /\ r \in Request
    /\ IF r.step = "answer" THEN r.task.id \in DOMAIN tasks /\ r.task.status = "active"
                            ELSE r.task = NoTask
    /\ r.own /\ r.target \in Nodes /\ r.step = "answer" /\ Announced(r.task.id) =>
          /\ completed = r.task.id /\ polled.id = r.task.id /\ FinishedProbe(polled)
          /\ probeTaskId \in {None, r.task.id}

(* The part about the page                                                 *)
ShownInv ==
    /\ LockHasCall /\ AnnouncedOnce /\ PolledTrue
    /\ created = NoTask \/ created.status = "active"
    /\ \A k \in TaskIds : Announced(k) => k \in DOMAIN tasks /\ tasks[k].status \in Ends
    /\ \A k \in TaskIds : Announced(k) /\ k # completed => probeTaskId # k

LEMMA IInvParts ==
    ASSUME FollowedInv
    PROVE  FollowTypeOK /\ OneActive /\ ShownInv /\ OneOwnProbe /\ \A r \in requests : RequestInv(r)
  BY DEF FollowedInv, ShownInv, RequestInv, AnswersActive, AnnouncedInv, OwnProbes, FollowTypeOK

LEMMA PartsIInv ==
    ASSUME FollowTypeOK', OneActive', ShownInv', OneOwnProbe', \A r \in requests' : RequestInv(r)'
    PROVE  FollowedInv'
  BY DEF FollowedInv, ShownInv, RequestInv, AnswersActive, AnnouncedInv, OwnProbes

(* The page is as it was.                                                  *)
LEMMA ShownUnchanged ==
    ASSUME ShownInv, UNCHANGED <<tasks, probePage>>
    PROVE  ShownInv'
  BY DEF ShownInv, probePage, LockHasCall, AnnouncedOnce, PolledTrue, Announced

LEMMA InitHolds == FollowInit => FollowedInv
<1> SUFFICES ASSUME FollowInit PROVE FollowedInv
  OBVIOUS
<1>1. tasks \in [1..0 -> TaskDoc] /\ DOMAIN tasks = {}
  BY DEF FollowInit
<1>2. FollowTypeOK
  <2>1. \E n \in 0..MaxTasks : tasks \in [1..n -> [target : Targets, status : Statuses]]
    <3>. 0 \in 0..MaxTasks
      BY BoundsAssumption
    <3>. QED
      BY <1>1 DEF TaskDoc
  <2>2. toasts \in [TaskIds -> Nat] /\ requests \subseteq Request
    BY DEF FollowInit
  <2>. QED
    BY <2>1, <2>2, NoTaskType DEF FollowInit, FollowTypeOK
<1>3. OneActive /\ OneOwnProbe /\ LockHasCall
  BY <1>1 DEF FollowInit, OneActive, Active, OneOwnProbe, OwnProbes, LockHasCall
<1>4. AnswersActive /\ PolledTrue
  BY NoTaskType DEF FollowInit, AnswersActive, PolledTrue
<1>5. AnnouncedOnce /\ AnnouncedInv
  BY DEF FollowInit, AnnouncedOnce, AnnouncedInv, Announced, OwnProbes, TaskIds
<1>. QED
  BY <1>2, <1>3, <1>4, <1>5 DEF FollowedInv

-----------------------------------------------------------------------------
(* The requests.  own and target stay, so at most the one probe of the     *)
(* page is its own.                                                        *)

LEMMA StepOwn ==
    ASSUME OneOwnProbe, UNCHANGED running,
           NEW r \in requests, NEW s, s.own = r.own, s.target = r.target, Step(r, s)
    PROVE  OneOwnProbe'
  BY StepRequests DEF OneOwnProbe, OwnProbes

(* The handler has an answer, or goes on.                                  *)
LEMMA AnswerRecord ==
    ASSUME NEW r \in Request, NEW d
    PROVE  [r EXCEPT !.step = "answer", !.task = d]
             = [target |-> r.target, own |-> r.own, step |-> "answer", task |-> d]
<1> DEFINE q == [r EXCEPT !.step = "answer"]
<1>1. [r EXCEPT !.step = "answer", !.task = d] = [q EXCEPT !.task = d]
  OBVIOUS
<1>2. q = [target |-> r.target, own |-> r.own, step |-> "answer", task |-> r.task]
  BY DEF Request
<1>. HIDE DEF q
<1>3. q \in Request
  BY <1>2 DEF Request
<1>4. [q EXCEPT !.task = d] = [target |-> q.target, own |-> q.own, step |-> q.step, task |-> d]
  BY <1>3 DEF Request
<1>5. q.target = r.target /\ q.own = r.own /\ q.step = "answer"
  BY <1>2
<1>. QED
  BY <1>1, <1>4, <1>5

LEMMA AnswerInv ==
    ASSUME NEW r \in Request, NEW d \in TaskData, d.status = "active",
           d.id \in DOMAIN tasks', ~Announced(d.id)'
    PROVE  LET s == [r EXCEPT !.step = "answer", !.task = d]
           IN  RequestInv(s)' /\ s.own = r.own /\ s.target = r.target
<1> DEFINE s == [r EXCEPT !.step = "answer", !.task = d]
<1>1. s = [target |-> r.target, own |-> r.own, step |-> "answer", task |-> d]
  BY AnswerRecord
<1>2. s \in Request
  BY <1>1 DEF Request
<1>. HIDE DEF s
<1>3. RequestInv(s)'
  BY <1>1, <1>2 DEF RequestInv
<1>4. RequestInv(s)' /\ s.own = r.own /\ s.target = r.target
  BY <1>1, <1>3
<1>. QED
  BY <1>4 DEF s

LEMMA GoesOnInv ==
    ASSUME NEW r \in Request, NEW step \in {"insert", "again"}, r.task = NoTask
    PROVE  LET s == [r EXCEPT !.step = step]
           IN  RequestInv(s)' /\ s.own = r.own /\ s.target = r.target
<1> DEFINE s == [r EXCEPT !.step = step]
<1>1. s = [target |-> r.target, own |-> r.own, step |-> step, task |-> NoTask]
  BY DEF Request
<1>2. s \in Request
  BY <1>1, NoTaskType DEF Request
<1>. HIDE DEF s
<1>3. RequestInv(s)'
  BY <1>1, <1>2 DEF RequestInv
<1>4. RequestInv(s)' /\ s.own = r.own /\ s.target = r.target
  BY <1>1, <1>3
<1>. QED
  BY <1>4 DEF s

(* Tasks are only added, and the page is as it was.                        *)
LEMMA RequestKept ==
    ASSUME NEW r, RequestInv(r), DOMAIN tasks \subseteq DOMAIN tasks', UNCHANGED probePage
    PROVE  RequestInv(r)'
  BY DEF RequestInv, Announced, probePage

(* Requests change, and nothing else does.                                 *)
LEMMA RequestsOnly ==
    ASSUME FollowedInv, UNCHANGED <<tasks, probePage, refreshButton>>,
           OneOwnProbe', \A r \in requests' : RequestInv(r)'
    PROVE  FollowedInv'
<1>. FollowTypeOK /\ OneActive /\ ShownInv
  BY IInvParts
<1>1. FollowTypeOK'
  BY DEF RequestInv, FollowTypeOK, probePage, refreshButton
<1>2. OneActive'
  BY DEF OneActive, Active
<1>3. ShownInv'
  BY ShownUnchanged
<1>. QED
  BY <1>1, <1>2, <1>3, PartsIInv

LEMMA FindActiveStep ==
    ASSUME FollowedInv, NEW r \in requests, FindActive(r)
    PROVE  FollowedInv'
<1>. FollowTypeOK /\ ShownInv /\ OneOwnProbe /\ \A q \in requests : RequestInv(q)
  BY IInvParts
<1>. UNCHANGED <<tasks, probePage, refreshButton>>
  BY DEF FindActive
<1>1. r \in Request /\ r.step = "find" /\ r.task = NoTask
  BY DEF RequestInv, FindActive
<1>2. PICK s : Step(r, s) /\ RequestInv(s)' /\ s.own = r.own /\ s.target = r.target
  <2>1. CASE \E k \in Active(r.target) : Step(r, [r EXCEPT !.step = "answer", !.task = Seen(k)])
    <3>1. PICK k \in Active(r.target) : Step(r, [r EXCEPT !.step = "answer", !.task = Seen(k)])
      BY <2>1
    <3>2. k \in DOMAIN tasks /\ tasks[k].status = "active"
      BY DEF Active
    <3>3. Seen(k) \in TaskData /\ Seen(k).id = k /\ Seen(k).status = "active"
      BY <3>2, SeenType
    <3>4. ~Announced(k)'
      BY <3>2, TaskIdType DEF ShownInv, Ends, Announced, probePage
    <3>. QED
      BY <1>1, <3>1, <3>2, <3>3, <3>4, AnswerInv
  <2>2. CASE Step(r, [r EXCEPT !.step = "insert"])
    BY <1>1, <2>2, GoesOnInv
  <2>. QED
    BY <2>1, <2>2 DEF FindActive
<1>3. \A q \in requests' : RequestInv(q)'
  BY <1>2, StepRequests, RequestKept
<1>4. OneOwnProbe'
  BY <1>2, StepOwn DEF probePage
<1>. QED
  BY <1>3, <1>4, RequestsOnly

LEMMA FindWinnerStep ==
    ASSUME FollowedInv, NEW r \in requests, FindWinner(r)
    PROVE  FollowedInv'
<1>. FollowTypeOK /\ ShownInv /\ OneOwnProbe /\ \A q \in requests : RequestInv(q)
  BY IInvParts
<1>. UNCHANGED <<tasks, probePage, refreshButton>>
  BY DEF FindWinner
<1>1. PICK k \in Active(r.target) : Step(r, [r EXCEPT !.step = "answer", !.task = Seen(k)])
  BY DEF FindWinner
<1>2. k \in DOMAIN tasks /\ tasks[k].status = "active"
  BY DEF Active
<1>3. Seen(k) \in TaskData /\ Seen(k).id = k /\ Seen(k).status = "active"
  BY <1>2, SeenType
<1>4. ~Announced(k)'
  BY <1>2, TaskIdType DEF ShownInv, Ends, Announced, probePage
<1>5. PICK s : Step(r, s) /\ RequestInv(s)' /\ s.own = r.own /\ s.target = r.target
  BY <1>1, <1>2, <1>3, <1>4, AnswerInv DEF RequestInv
<1>6. \A q \in requests' : RequestInv(q)'
  BY <1>5, StepRequests, RequestKept
<1>7. OneOwnProbe'
  BY <1>5, StepOwn DEF probePage
<1>. QED
  BY <1>6, <1>7, RequestsOnly

LEMMA InsertTaskStep ==
    ASSUME FollowedInv, NEW r \in requests, CreateTask(r)
    PROVE  FollowedInv'
<1>. FollowTypeOK /\ OneActive /\ ShownInv /\ OneOwnProbe /\ \A q \in requests : RequestInv(q)
  BY IInvParts
<1>. UNCHANGED <<probePage, refreshButton>>
  BY DEF CreateTask
<1>0. r \in Request /\ r.step = "insert" /\ r.task = NoTask
  BY DEF RequestInv, CreateTask
<1>1. CASE UNCHANGED tasks /\ Step(r, [r EXCEPT !.step = "again"])
  <2>1. PICK s : Step(r, s) /\ RequestInv(s)' /\ s.own = r.own /\ s.target = r.target
    BY <1>0, <1>1, GoesOnInv
  <2>2. \A q \in requests' : RequestInv(q)'
    BY <1>1, <2>1, StepRequests, RequestKept
  <2>3. OneOwnProbe'
    BY <2>1, StepOwn DEF probePage
  <2>. QED
    BY <1>1, <2>2, <2>3, RequestsOnly
<1>2. CASE LET k == Cardinality(DOMAIN tasks) + 1
           IN  /\ Active(r.target) = {} /\ k <= MaxTasks
               /\ tasks' = [i \in 1..k |-> IF i = k THEN [target |-> r.target, status |-> "active"]
                                                    ELSE tasks[i]]
               /\ Step(r, [r EXCEPT !.step = "answer", !.task = [id |-> k, status |-> "active"]])
  <2>1. PICK n \in 0..MaxTasks : tasks \in [1..n -> TaskDoc]
    BY DEF FollowTypeOK, TaskDoc
  <2> DEFINE k == n + 1
             new == [target |-> r.target, status |-> "active"]
  <2>2. n \in Nat /\ DOMAIN tasks = 1..n
    BY <2>1, BoundsAssumption
  <2>3. Cardinality(DOMAIN tasks) = n
    BY <2>2, FS_Interval
  <2>4. /\ Active(r.target) = {} /\ k <= MaxTasks
        /\ tasks' = [i \in 1..k |-> IF i = k THEN new ELSE tasks[i]]
        /\ Step(r, [r EXCEPT !.step = "answer", !.task = [id |-> k, status |-> "active"]])
    BY <1>2, <2>3
  <2>5. k \in TaskIds /\ k \notin DOMAIN tasks /\ k \in DOMAIN tasks'
        /\ DOMAIN tasks' = 1..k /\ DOMAIN tasks \subseteq DOMAIN tasks'
        /\ k \in 0..MaxTasks
    BY <2>2, <2>4, BoundsAssumption DEF TaskIds
  <2>6. new \in TaskDoc /\ new.target = r.target
    BY <1>0 DEF Request, TaskDoc, Statuses
  <2>7. tasks'[k] = new /\ \A j \in DOMAIN tasks : tasks'[j] = tasks[j]
    BY <2>2, <2>4, <2>5
  <2>8. tasks' \in [1..k -> TaskDoc]
    BY <2>1, <2>2, <2>4, <2>6
  <2>. HIDE DEF k, new
  <2>9. [id |-> k, status |-> "active"] \in TaskData
    BY <2>5 DEF TaskData, Statuses
  <2>10. ~Announced(k)'
    BY <2>5 DEF ShownInv, Announced, probePage
  <2>11. PICK s : Step(r, s) /\ RequestInv(s)' /\ s.own = r.own /\ s.target = r.target
    BY <1>0, <2>4, <2>5, <2>9, <2>10, AnswerInv
  <2>12. \A q \in requests' : RequestInv(q)'
    BY <2>5, <2>11, StepRequests, RequestKept
  <2>13. OneOwnProbe'
    BY <2>11, StepOwn DEF probePage
  <2>14. FollowTypeOK'
    <3>1. \E m \in 0..MaxTasks : tasks' \in [1..m -> [target : Targets, status : Statuses]]
      BY <2>5, <2>8 DEF TaskDoc
    <3>. QED
      BY <2>5, <2>12, <3>1 DEF FollowTypeOK, RequestInv, probePage, refreshButton
  <2>15. OneActive'
    <3> SUFFICES ASSUME NEW target \in Targets, NEW i \in Active(target)', NEW j \in Active(target)'
                 PROVE  i = j
      BY DEF OneActive
    <3>1. \A m \in Active(target)' : m = k \/ m \in Active(target)
      BY <2>2, <2>5, <2>7 DEF Active, k
    <3>2. k \in Active(target)' => target = r.target
      BY <2>6, <2>7 DEF Active
    <3>. QED
      BY <2>4, <3>1, <3>2 DEF OneActive
  <2>16. ShownInv'
    <3>1. \A m \in DOMAIN tasks : m \in DOMAIN tasks' /\ tasks'[m] = tasks[m]
      BY <2>5, <2>7
    <3>2. PolledTrue'
      BY <3>1, NoTaskType DEF ShownInv, PolledTrue, probePage
    <3>3. \A m \in TaskIds : Announced(m)' => m \in DOMAIN tasks' /\ tasks'[m].status \in Ends
      BY <3>1 DEF ShownInv, Announced, probePage
    <3>. QED
      BY <3>2, <3>3 DEF ShownInv, LockHasCall, AnnouncedOnce, Announced, probePage
  <2>. QED
    BY <2>12, <2>13, <2>14, <2>15, <2>16, PartsIInv
<1>. QED
  BY <1>1, <1>2 DEF CreateTask

LEMMA EndTaskStep ==
    ASSUME FollowedInv, NEW k \in DOMAIN tasks, NEW status \in Outcomes, EndTask(k, status)
    PROVE  FollowedInv'
<1>. FollowTypeOK /\ OneActive /\ ShownInv /\ OneOwnProbe /\ \A q \in requests : RequestInv(q)
  BY IInvParts
<1>1. UNCHANGED <<requests, probePage, refreshButton>> /\ tasks[k].status = "active"
  BY DEF EndTask
<1>2. status \in Ends /\ status # "active"
  BY OutcomesAssumption DEF Ends
<1>3. PICK n \in 0..MaxTasks : tasks \in [1..n -> TaskDoc]
  BY DEF FollowTypeOK, TaskDoc
<1>4. DOMAIN tasks' = DOMAIN tasks /\ \A j \in DOMAIN tasks : j # k => tasks'[j] = tasks[j]
  BY <1>3 DEF EndTask
<1>5. tasks'[k] = [target |-> tasks[k].target, status |-> status] /\ tasks'[k].status = status
  BY <1>3 DEF EndTask, TaskDoc
<1>6. tasks' \in [1..n -> TaskDoc]
  <2>1. tasks'[k] \in TaskDoc
    BY <1>2, <1>3, <1>5 DEF TaskDoc, Statuses
  <2>2. tasks' = [j \in DOMAIN tasks |-> tasks'[j]]
    BY <1>3 DEF EndTask
  <2>. QED
    BY <1>3, <1>4, <2>1, <2>2
<1>7. FollowTypeOK'
  BY <1>1, <1>3, <1>4, <1>6 DEF FollowTypeOK, TaskDoc, probePage, refreshButton
<1>8. OneActive'
  <2>1. \A target \in Targets : Active(target)' \subseteq Active(target)
    BY <1>2, <1>4, <1>5 DEF Active
  <2>. QED
    BY <2>1 DEF OneActive
<1>9. ShownInv'
  <2>1. \A j \in DOMAIN tasks : tasks[j].status \in Ends => tasks'[j].status \in Ends
    BY <1>2, <1>4, <1>5
  <2>2. PolledTrue'
    BY <1>1, <1>4, <2>1, NoTaskType DEF ShownInv, PolledTrue, probePage
  <2>3. \A m \in TaskIds : Announced(m)' => m \in DOMAIN tasks' /\ tasks'[m].status \in Ends
    BY <1>1, <1>4, <2>1 DEF ShownInv, Announced, probePage
  <2>. QED
    BY <1>1, <2>2, <2>3 DEF ShownInv, LockHasCall, AnnouncedOnce, Announced, probePage
<1>10. OneOwnProbe'
  BY <1>1 DEF OneOwnProbe, OwnProbes, probePage
<1>11. \A q \in requests' : RequestInv(q)'
  BY <1>1, <1>4, RequestKept
<1>. QED
  BY <1>7, <1>8, <1>9, <1>10, <1>11, PartsIInv

LEMMA OtherRequestStep ==
    ASSUME FollowedInv, NEW target \in Targets, OtherRequest(target)
    PROVE  FollowedInv'
<1>. OneOwnProbe /\ \A q \in requests : RequestInv(q)
  BY IInvParts
<1>. UNCHANGED <<tasks, probePage, refreshButton>>
  BY DEF OtherRequest
<1>1. requests' = requests \cup {NewRequest(target, FALSE)}
  BY DEF OtherRequest
<1>2. RequestInv(NewRequest(target, FALSE))'
  BY NewRequestType DEF RequestInv
<1>3. \A q \in requests' : RequestInv(q)'
  BY <1>1, <1>2, RequestKept
<1>4. OneOwnProbe'
  BY <1>1, NewRequestType DEF OneOwnProbe, OwnProbes, probePage
<1>. QED
  BY <1>3, <1>4, RequestsOnly

LEMMA OtherFailsStep ==
    ASSUME FollowedInv, NEW r \in requests, OtherFails(r)
    PROVE  FollowedInv'
<1>. OneOwnProbe /\ \A q \in requests : RequestInv(q)
  BY IInvParts
<1>. UNCHANGED <<tasks, probePage, refreshButton>> /\ requests' = requests \ {r}
  BY DEF OtherFails
<1>1. \A q \in requests' : RequestInv(q)'
  BY RequestKept
<1>2. OneOwnProbe'
  BY DEF OneOwnProbe, OwnProbes, probePage
<1>. QED
  BY <1>1, <1>2, RequestsOnly

-----------------------------------------------------------------------------
(* The probes page                                                         *)

LEMMA StartProbeStep ==
    ASSUME FollowedInv, StartProbe
    PROVE  FollowedInv'
<1>. FollowTypeOK /\ OneActive /\ ShownInv /\ OneOwnProbe /\ \A q \in requests : RequestInv(q)
  BY IInvParts
<1> DEFINE new == NewRequest(selectedNodeId, TRUE)
<1>1. /\ requests' = requests \cup {new} /\ running = "no"
      /\ lock' = TRUE /\ running' = "call" /\ created' = NoTask
      /\ UNCHANGED <<tasks, selectedNodeId, probeTaskId, polled, completed, toasts, button, waiting>>
  BY DEF StartProbe, refreshButton
<1>2. /\ new \in Request /\ new.step = "find" /\ new.task = NoTask
  BY NewRequestType DEF FollowTypeOK, Targets
<1>. HIDE DEF new
<1>3. \A q \in requests' : RequestInv(q)'
  BY <1>1, <1>2 DEF RequestInv, Announced
<1>4. OneOwnProbe'
  BY <1>1 DEF OneOwnProbe, OwnProbes
<1>5. FollowTypeOK'
  BY <1>1, <1>3, NoTaskType DEF FollowTypeOK, RequestInv
<1>6. OneActive'
  BY <1>1 DEF OneActive, Active
<1>7. ShownInv'
  BY <1>1 DEF ShownInv, LockHasCall, AnnouncedOnce, PolledTrue, Announced
<1>. QED
  BY <1>3, <1>4, <1>5, <1>6, <1>7, PartsIInv

(* The answer is never news, and it may be followed: if it was announced,  *)
(* it is what was announced last.                                          *)
LEMMA ProbeCreatedStep ==
    ASSUME FollowedInv, NEW r \in requests, ProbeCreated(r)
    PROVE  FollowedInv'
<1>. FollowTypeOK /\ OneActive /\ ShownInv /\ OneOwnProbe /\ \A q \in requests : RequestInv(q)
  BY IInvParts
<1>1. /\ r.own /\ r.target \in Nodes /\ r.step = "answer"
      /\ requests' = requests \ {r} /\ probeTaskId' = r.task.id
      /\ created' = r.task /\ running' = "refetch"
      /\ UNCHANGED <<tasks, selectedNodeId, polled, lock, button, waiting>>
  BY DEF ProbeCreated, refreshButton
<1>2. r.task \in TaskData /\ r.task.id \in DOMAIN tasks /\ r.task.status = "active"
  BY <1>1 DEF RequestInv, Request
<1>3. Announce(polled, r.task, completed, toasts)
  BY <1>1 DEF ProbeCreated
<1>4. UNCHANGED <<completed, toasts>>
  BY <1>2, <1>3, NoNews DEF ShownInv
<1>5. \A q \in requests' : q \in requests /\ ~(q.own /\ q.target \in Nodes)
  BY <1>1 DEF OneOwnProbe, OwnProbes
<1>6. \A q \in requests' : RequestInv(q)'
  BY <1>1, <1>5 DEF RequestInv
<1>7. OneOwnProbe'
  BY <1>5 DEF OneOwnProbe, OwnProbes
<1>8. FollowTypeOK'
  BY <1>1, <1>2, <1>4 DEF FollowTypeOK
<1>9. OneActive'
  BY <1>1 DEF OneActive, Active
<1>10. ShownInv'
  <2>1. \A k \in TaskIds : Announced(k)' /\ k # completed' => probeTaskId' # k
    BY <1>1, <1>4 DEF RequestInv, Announced
  <2>. QED
    BY <1>1, <1>2, <1>4, <2>1 DEF ShownInv, LockHasCall, AnnouncedOnce, PolledTrue, Announced
<1>. QED
  BY <1>6, <1>7, <1>8, <1>9, <1>10, PartsIInv

LEMMA ProbeSettledStep ==
    ASSUME FollowedInv, ProbeSettled
    PROVE  FollowedInv'
<1>. FollowTypeOK /\ OneActive /\ ShownInv /\ OneOwnProbe /\ \A q \in requests : RequestInv(q)
  BY IInvParts
<1>1. /\ running = "refetch" /\ running' = "no" /\ lock' = FALSE
      /\ UNCHANGED <<tasks, requests, selectedNodeId, probeTaskId, polled, created, completed,
                     toasts, button, waiting>>
  BY DEF ProbeSettled, refreshButton
<1>2. \A q \in requests' : RequestInv(q)'
  BY <1>1 DEF RequestInv, Announced
<1>3. OneOwnProbe'
  BY <1>1 DEF OneOwnProbe, OwnProbes
<1>4. FollowTypeOK'
  BY <1>1 DEF FollowTypeOK
<1>5. OneActive'
  BY <1>1 DEF OneActive, Active
<1>6. ShownInv'
  BY <1>1 DEF ShownInv, LockHasCall, AnnouncedOnce, PolledTrue, Announced
<1>. QED
  BY <1>2, <1>3, <1>4, <1>5, <1>6, PartsIInv

LEMMA ProbeFailsStep ==
    ASSUME FollowedInv, NEW r \in requests, ProbeFails(r)
    PROVE  FollowedInv'
<1>. FollowTypeOK /\ OneActive /\ ShownInv /\ OneOwnProbe /\ \A q \in requests : RequestInv(q)
  BY IInvParts
<1>1. /\ r.own /\ r.target \in Nodes
      /\ requests' = requests \ {r} /\ running' = "no" /\ lock' = FALSE
      /\ UNCHANGED <<tasks, selectedNodeId, probeTaskId, polled, created, completed, toasts,
                     button, waiting>>
  BY DEF ProbeFails, refreshButton
<1>2. \A q \in requests' : q \in requests /\ ~(q.own /\ q.target \in Nodes)
  BY <1>1 DEF OneOwnProbe, OwnProbes
<1>3. \A q \in requests' : RequestInv(q)'
  BY <1>1, <1>2 DEF RequestInv
<1>4. OneOwnProbe'
  BY <1>2 DEF OneOwnProbe, OwnProbes
<1>5. FollowTypeOK'
  BY <1>1 DEF FollowTypeOK
<1>6. OneActive'
  BY <1>1 DEF OneActive, Active
<1>7. ShownInv'
  BY <1>1 DEF ShownInv, LockHasCall, AnnouncedOnce, PolledTrue, Announced
<1>. QED
  BY <1>3, <1>4, <1>5, <1>6, <1>7, PartsIInv

(* An end that is polled is news only if it was not announced before: a    *)
(* task that was is followed again only while it is the last announced.    *)
LEMMA PollTaskStep ==
    ASSUME FollowedInv, PollTask
    PROVE  FollowedInv'
<1>. FollowTypeOK /\ OneActive /\ ShownInv /\ OneOwnProbe /\ \A q \in requests : RequestInv(q)
  BY IInvParts
<1> DEFINE j == probeTaskId
           news == tasks[j].status \in Ends /\ completed # j
<1>1. /\ j # None /\ polled' = Seen(j)
      /\ UNCHANGED <<tasks, requests, selectedNodeId, probeTaskId, created, lock, running,
                     button, waiting>>
  BY DEF PollTask, refreshButton
<1>2. j \in DOMAIN tasks /\ j \in TaskIds
  BY <1>1, TaskIdType DEF FollowTypeOK
<1>3. Seen(j) \in TaskData /\ Seen(j).id = j /\ Seen(j).status = tasks[j].status /\ Seen(j) # NoTask
  BY <1>1, <1>2, SeenType DEF NoTask
<1>4. Tracked(Seen(j), created) = Seen(j)
  BY <1>3 DEF Tracked
<1>5. Announce(Seen(j), created, completed, toasts)
  BY <1>1 DEF PollTask
<1>6. /\ completed' = IF news THEN j ELSE completed
      /\ toasts' = IF news THEN [toasts EXCEPT ![j] = @ + 1] ELSE toasts
  BY <1>3, <1>4, <1>5 DEF Announce, FinishedProbe
<1>7. toasts \in [TaskIds -> Nat]
  BY DEF FollowTypeOK
<1>8. news => toasts[j] = 0
  BY <1>2, <1>7 DEF ShownInv, Announced
<1>9. \A k \in TaskIds : k # j => toasts'[k] = toasts[k]
  BY <1>6, <1>7
<1>10. news => toasts'[j] = 1
  BY <1>2, <1>6, <1>7, <1>8
<1>11. FollowTypeOK'
  <2>1. toasts' \in [TaskIds -> Nat]
    BY <1>2, <1>6, <1>7
  <2>2. completed' \in {None} \cup DOMAIN tasks'
    BY <1>1, <1>2, <1>6 DEF FollowTypeOK
  <2>. QED
    BY <1>1, <1>3, <2>1, <2>2 DEF FollowTypeOK
<1>12. OneActive'
  BY <1>1 DEF OneActive, Active
<1>13. OneOwnProbe'
  BY <1>1 DEF OneOwnProbe, OwnProbes
<1>14. ShownInv'
  <2>1. AnnouncedOnce'
    BY <1>2, <1>6, <1>9, <1>10 DEF ShownInv, AnnouncedOnce
  <2>2. PolledTrue'
    BY <1>1, <1>2, <1>3, <1>6 DEF PolledTrue, FinishedProbe
  <2>3. \A k \in TaskIds : Announced(k)' => k \in DOMAIN tasks' /\ tasks'[k].status \in Ends
    BY <1>1, <1>2, <1>6, <1>9 DEF ShownInv, Announced
  <2>4. \A k \in TaskIds : Announced(k)' /\ k # completed' => probeTaskId' # k
    BY <1>1, <1>6, <1>9 DEF ShownInv, Announced
  <2>. QED
    BY <1>1, <2>1, <2>2, <2>3, <2>4 DEF ShownInv, LockHasCall
<1>15. \A q \in requests' : RequestInv(q)'
  <2> SUFFICES ASSUME NEW q \in requests PROVE RequestInv(q)'
    BY <1>1
  <2>1. RequestInv(q)
    OBVIOUS
  <2>2. SUFFICES ASSUME q.own, q.target \in Nodes, q.step = "answer", Announced(q.task.id)'
                 PROVE  /\ completed' = q.task.id /\ polled'.id = q.task.id /\ FinishedProbe(polled)'
                        /\ probeTaskId' \in {None, q.task.id}
    BY <1>1, <2>1 DEF RequestInv
  <2>3. q.task.id \in TaskIds
    BY <2>1, <2>2, TaskIdType DEF RequestInv
  <2>4. q.task.id = j
    BY <1>1, <1>9, <2>1, <2>2, <2>3 DEF RequestInv, Announced
  <2>5. tasks[j].status \in Ends
    BY <1>2, <1>6, <2>2, <2>4 DEF ShownInv, Announced
  <2>6. completed' = j
    BY <1>6, <2>5
  <2>. QED
    BY <1>1, <1>3, <2>4, <2>5, <2>6 DEF FinishedProbe
<1>. QED
  BY <1>11, <1>12, <1>13, <1>14, <1>15, PartsIInv

(* The record of what was announced starts anew, with the task the query   *)
(* still shows if that one has ended.                                      *)
LEMMA SelectNodeStep ==
    ASSUME FollowedInv, NEW n \in Nodes, SelectNode(n)
    PROVE  FollowedInv'
<1>. FollowTypeOK /\ OneActive /\ ShownInv /\ OneOwnProbe /\ \A q \in requests : RequestInv(q)
  BY IInvParts
<1> DEFINE none == [k \in TaskIds |-> 0]
<1>1. /\ selectedNodeId' = n /\ probeTaskId' = None
      /\ Announce(polled, created, None, none)
      /\ UNCHANGED <<tasks, requests, polled, created, lock, running, button, waiting>>
  BY DEF SelectNode, refreshButton
<1>2. FinishedProbe(polled) => polled # NoTask /\ polled.id \in DOMAIN tasks
                               /\ polled.id \in TaskIds /\ polled.id # None
  BY NoTaskType, TaskIdType DEF ShownInv, PolledTrue
<1>3. /\ completed' = IF FinishedProbe(polled) THEN polled.id ELSE None
      /\ toasts' = IF FinishedProbe(polled) THEN [none EXCEPT ![polled.id] = @ + 1] ELSE none
  <2>1. CASE FinishedProbe(polled)
    BY <1>1, <1>2, <2>1 DEF Announce, Tracked
  <2>2. CASE ~FinishedProbe(polled)
    <3>1. ~FinishedProbe(Tracked(polled, created))
      BY <2>2, TrackedEnd DEF ShownInv
    <3>. QED
      BY <1>1, <2>2, <3>1 DEF Announce
  <2>. QED
    BY <2>1, <2>2
<1>4. /\ toasts' \in [TaskIds -> Nat]
      /\ \A k \in TaskIds : toasts'[k] = IF FinishedProbe(polled) /\ k = polled.id THEN 1 ELSE 0
  BY <1>2, <1>3
<1>5. FollowTypeOK'
  BY <1>1, <1>2, <1>3, <1>4 DEF FollowTypeOK
<1>6. OneActive'
  BY <1>1 DEF OneActive, Active
<1>7. OneOwnProbe'
  BY <1>1 DEF OneOwnProbe, OwnProbes
<1>8. ShownInv'
  <2>1. AnnouncedOnce'
    BY <1>4 DEF AnnouncedOnce
  <2>2. PolledTrue'
    BY <1>1, <1>3 DEF ShownInv, PolledTrue, FinishedProbe
  <2>3. \A k \in TaskIds : Announced(k)' => FinishedProbe(polled) /\ k = polled.id
    BY <1>4 DEF Announced
  <2>4. \A k \in TaskIds : k # None
    BY DEF TaskIds, None
  <2>. QED
    BY <1>1, <1>2, <2>1, <2>2, <2>3, <2>4 DEF ShownInv, LockHasCall, PolledTrue
<1>9. \A q \in requests' : RequestInv(q)'
  <2> SUFFICES ASSUME NEW q \in requests PROVE RequestInv(q)'
    BY <1>1
  <2>1. RequestInv(q)
    OBVIOUS
  <2>2. q.step = "answer" /\ Announced(q.task.id)' => FinishedProbe(polled) /\ q.task.id = polled.id
    BY <1>4, <2>1, TaskIdType DEF RequestInv, Announced
  <2>. QED
    BY <1>1, <1>3, <2>1, <2>2 DEF RequestInv, FinishedProbe
<1>. QED
  BY <1>5, <1>6, <1>7, <1>8, <1>9, PartsIInv

LEMMA LeaveProbesStep ==
    ASSUME FollowedInv, LeaveProbes
    PROVE  FollowedInv'
<1>. FollowTypeOK /\ OneActive /\ \A q \in requests : RequestInv(q)
  BY IInvParts
<1> DEFINE left(r) == IF r.target \in Nodes THEN [r EXCEPT !.own = FALSE] ELSE r
<1>1. /\ requests' = {left(r) : r \in requests}
      /\ probeTaskId' = None /\ polled' = NoTask /\ created' = NoTask /\ completed' = None
      /\ lock' = FALSE /\ running' = "no" /\ toasts' = [k \in TaskIds |-> 0]
      /\ UNCHANGED <<tasks, selectedNodeId, button, waiting>>
  BY DEF LeaveProbes, refreshButton
<1>2. ASSUME NEW q \in requests'
      PROVE  RequestInv(q)' /\ ~(q.own /\ q.target \in Nodes)
  <2>1. PICK r \in requests : q = left(r)
    BY <1>1
  <2>2. RequestInv(r) /\ r \in Request
    BY DEF RequestInv
  <2>3. CASE r.target \in Nodes
    <3>1. q = [target |-> r.target, own |-> FALSE, step |-> r.step, task |-> r.task]
      BY <2>1, <2>2, <2>3 DEF Request
    <3>2. q \in Request
      BY <2>2, <3>1 DEF Request
    <3>3. q.step = r.step /\ q.task = r.task /\ ~q.own
      BY <3>1
    <3>. QED
      BY <1>1, <2>2, <3>2, <3>3 DEF RequestInv
  <2>4. CASE r.target \notin Nodes
    BY <1>1, <2>1, <2>2, <2>4 DEF RequestInv
  <2>. QED
    BY <2>3, <2>4
<1>. HIDE DEF left
<1>3. OneOwnProbe'
  BY <1>2 DEF OneOwnProbe, OwnProbes
<1>4. FollowTypeOK'
  <2>1. requests' \subseteq Request
    BY <1>2 DEF RequestInv
  <2>2. toasts' \in [TaskIds -> Nat]
    BY <1>1
  <2>. QED
    BY <1>1, <2>1, <2>2, NoTaskType DEF FollowTypeOK
<1>5. OneActive'
  BY <1>1 DEF OneActive, Active
<1>6. ShownInv'
  BY <1>1, NoTaskType DEF ShownInv, LockHasCall, AnnouncedOnce, PolledTrue, Announced, FinishedProbe
<1>. QED
  BY <1>2, <1>3, <1>4, <1>5, <1>6, PartsIInv

-----------------------------------------------------------------------------
(* The refresh button: its request is not the one of the probes page.      *)

LEMMA ButtonStep ==
    ASSUME FollowedInv, UNCHANGED <<tasks, probePage>>,
           button' \in {"idle", "refreshing", "succeeded"}, waiting' \in {None} \cup DOMAIN tasks,
           \A q \in requests' : q \in requests \/ q = NewRequest(Source, TRUE)
    PROVE  FollowedInv'
<1>. FollowTypeOK /\ OneActive /\ ShownInv /\ OneOwnProbe /\ \A q \in requests : RequestInv(q)
  BY IInvParts
<1>1. \A q \in requests : RequestInv(q)'
  BY RequestKept
<1>2. \A q \in requests' : RequestInv(q)'
  <2>1. RequestInv(NewRequest(Source, TRUE))'
    BY NewRequestType DEF RequestInv, Targets
  <2>. QED
    BY <1>1, <2>1
<1>3. OneOwnProbe'
  <2>1. NewRequest(Source, TRUE).target \notin Nodes
    BY TargetsAssumption DEF NewRequest
  <2>2. OwnProbes' \subseteq OwnProbes
    BY <2>1 DEF OwnProbes
  <2>. QED
    BY <2>2 DEF OneOwnProbe, probePage
<1>4. FollowTypeOK'
  BY <1>2 DEF FollowTypeOK, RequestInv, probePage
<1>5. OneActive'
  BY DEF OneActive, Active
<1>6. ShownInv'
  BY ShownUnchanged
<1>. QED
  BY <1>2, <1>3, <1>4, <1>5, <1>6, PartsIInv

LEMMA RefreshButtonStep ==
    ASSUME FollowedInv,
           \/ ClickRefresh \/ WaitEnds \/ WaitFails \/ ResetButton
           \/ \E r \in requests : RefreshCreated(r) \/ RefreshFails(r)
    PROVE  FollowedInv'
<1>. FollowTypeOK /\ \A q \in requests : RequestInv(q)
  BY IInvParts
<1>0. button \in {"idle", "refreshing", "succeeded"} /\ waiting \in {None} \cup DOMAIN tasks
  BY DEF FollowTypeOK
<1> DEFINE FreshOrOld(q) == q \in requests \/ q = NewRequest(Source, TRUE)
<1>1. CASE ClickRefresh
  <2>1. UNCHANGED <<tasks, probePage>> /\ button' = "refreshing" /\ waiting' = waiting
    BY <1>1 DEF ClickRefresh
  <2>2. requests' = requests \cup {NewRequest(Source, TRUE)}
    BY <1>1 DEF ClickRefresh
  <2>3. \A q \in requests' : FreshOrOld(q)
    BY <2>2
  <2>. QED
    BY <1>0, <2>1, <2>3, ButtonStep
<1>2. CASE WaitEnds \/ WaitFails \/ ResetButton
  <2>1. UNCHANGED <<tasks, probePage, requests>>
    BY <1>2 DEF WaitEnds, WaitFails, ResetButton
  <2>2. button' \in {"idle", "refreshing", "succeeded"} /\ waiting' \in {None} \cup DOMAIN tasks
    BY <1>0, <1>2 DEF WaitEnds, WaitFails, ResetButton
  <2>3. \A q \in requests' : FreshOrOld(q)
    BY <2>1
  <2>. QED
    BY <2>1, <2>2, <2>3, ButtonStep
<1>3. ASSUME NEW r \in requests, RefreshCreated(r) \/ RefreshFails(r) PROVE FollowedInv'
  <2>1. UNCHANGED <<tasks, probePage>> /\ requests' = requests \ {r}
    BY <1>3 DEF RefreshCreated, RefreshFails
  <2>2. button' \in {"idle", "refreshing", "succeeded"} /\ waiting' \in {None} \cup DOMAIN tasks
    BY <1>0, <1>3 DEF RefreshCreated, RefreshFails, RequestInv
  <2>3. \A q \in requests' : FreshOrOld(q)
    BY <2>1
  <2>. QED
    BY <2>1, <2>2, <2>3, ButtonStep
<1>. QED
  BY <1>1, <1>2, <1>3

-----------------------------------------------------------------------------
LEMMA StepHolds ==
    ASSUME FollowedInv, [FollowNext]_followVars
    PROVE  FollowedInv'
<1>1. CASE UNCHANGED followVars
  <2>1. UNCHANGED <<tasks, requests, probePage, refreshButton>>
    BY <1>1 DEF followVars
  <2>2. OneOwnProbe' /\ \A q \in requests' : RequestInv(q)'
    BY <2>1, IInvParts, RequestKept DEF OneOwnProbe, OwnProbes, probePage
  <2>. QED
    BY <2>1, <2>2, RequestsOnly
<1>2. ASSUME NEW r \in requests, Handler(r) \/ OtherFails(r) PROVE FollowedInv'
  BY <1>2, FindActiveStep, InsertTaskStep, FindWinnerStep, OtherFailsStep DEF Handler
<1>3. ASSUME NEW r \in requests, Answer(r) PROVE FollowedInv'
  BY <1>3, ProbeCreatedStep, ProbeFailsStep, RefreshButtonStep DEF Answer
<1>4. ASSUME NEW target \in Targets, OtherRequest(target) PROVE FollowedInv'
  BY <1>4, OtherRequestStep
<1>5. CASE Tasks
  BY <1>5, EndTaskStep DEF Tasks
<1>6. CASE Operator
  BY <1>6, StartProbeStep, LeaveProbesStep, SelectNodeStep, RefreshButtonStep DEF Operator
<1>7. CASE Page
  BY <1>7, PollTaskStep, ProbeSettledStep, RefreshButtonStep DEF Page
<1>. QED
  BY <1>1, <1>2, <1>3, <1>4, <1>5, <1>6, <1>7 DEF FollowNext

(* Tasks that are pairwise the same are at most one.                       *)
LEMMA OneActiveCounted ==
    ASSUME FollowTypeOK, OneActive
    PROVE  OneActiveTask
<1> SUFFICES ASSUME NEW target \in Targets PROVE Cardinality(Active(target)) <= 1
  BY DEF OneActiveTask
<1>1. CASE Active(target) = {}
  BY <1>1, FS_EmptySet
<1>2. CASE Active(target) # {}
  <2>1. PICK k : Active(target) = {k}
    BY <1>2 DEF OneActive
  <2>2. Cardinality({k}) = 1
    BY FS_Singleton
  <2>. QED
    BY <2>1, <2>2
<1>. QED
  BY <1>1, <1>2

(* However requests, ends, polls and the operator's choices interleave, a  *)
(* target has one active task, an end is announced at most once while a    *)
(* node stays selected, and probeStartLock does not outlive its call.      *)
THEOREM FollowedOnce == FollowSpec => []FollowInv
<1>1. FollowInit => FollowedInv
  BY InitHolds
<1>2. FollowedInv /\ [FollowNext]_followVars => FollowedInv'
  BY StepHolds
<1>3. FollowedInv => FollowInv
  BY OneActiveCounted DEF FollowedInv, FollowInv
<1>. QED
  BY <1>1, <1>2, <1>3, PTL DEF FollowSpec
=============================================================================
