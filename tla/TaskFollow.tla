----------------------------- MODULE TaskFollow -----------------------------
(***************************************************************************)
(* How the dashboard starts a task of the backend and follows it to its    *)
(* end: the probes page (app/probes/page.tsx) with a query that polls the  *)
(* task, and the refresh button of a subscription source (RefreshButton    *)
(* with waitForRefreshTask) with a loop.  The operator may turn to another *)
(* node or leave the page at any time; other operators and the scheduler   *)
(* start tasks for the same targets.                                       *)
(***************************************************************************)
EXTENDS Naturals, FiniteSets

CONSTANTS
    Nodes,
    Source,       \* the subscription source of the refresh button
    Outcomes,     \* bound: the ways tasks end in a behaviour
    MaxTasks,     \* bound: tasks created
    MaxRequests   \* bound: requests under way that create a task

ASSUME BoundsAssumption == MaxTasks \in Nat \ {0} /\ MaxRequests \in Nat \ {0}
ASSUME OutcomesAssumption ==
    Outcomes # {} /\ Outcomes \subseteq {"succeeded", "failed", "cancelled", "dead_letter"}
ASSUME TargetsAssumption == Source \notin Nodes

VARIABLES
    tasks,        \* backend: target and status of every task, by number
    requests,     \* requests under way that create a task
    selectedNodeId,
    probeTaskId,  \* the task the page polls
    polled,       \* probeTask.data: what the query last had
    created,      \* runProbe.data: the answer of the last call
    completed,    \* completedTaskRef: the task that was announced
    lock,         \* probeStartLock
    running,      \* runProbe.isPending
    toasts,       \* history: tasks announced since the node was selected
    button,       \* RefreshButton: its state
    waiting       \* the task waitForRefreshTask waits for

probePage == <<selectedNodeId, probeTaskId, polled, created, completed, lock, running, toasts>>
refreshButton == <<button, waiting>>
followVars == <<tasks, requests, probePage, refreshButton>>

None == 0
TaskIds == 1..MaxTasks
Targets == Nodes \cup {Source}
Ends == {"succeeded", "failed", "cancelled", "dead_letter"}
Statuses == {"active"} \cup Ends
NoTask == [id |-> None, status |-> "none"]
TaskData == {NoTask} \cup [id : TaskIds, status : Statuses]

(* own: the page that sent it waits for the answer.  step: the statement   *)
(* of the handler, or "answer" on the way back.                            *)
Request == [target : Targets, own : BOOLEAN,
            step : {"find", "insert", "again", "answer"}, task : TaskData]

FollowTypeOK ==
    /\ \E n \in 0..MaxTasks : tasks \in [1..n -> [target : Targets, status : Statuses]]
    /\ requests \subseteq Request
    /\ selectedNodeId \in Nodes
    /\ probeTaskId \in {None} \cup DOMAIN tasks
    /\ polled \in TaskData /\ created \in TaskData
    /\ completed \in {None} \cup DOMAIN tasks
    /\ lock \in BOOLEAN /\ running \in {"no", "call", "refetch"}
    /\ toasts \in [TaskIds -> Nat]
    /\ button \in {"idle", "refreshing", "succeeded"}
    /\ waiting \in {None} \cup DOMAIN tasks

FollowInit ==
    /\ tasks = <<>> /\ requests = {}
    /\ selectedNodeId \in Nodes
    /\ probeTaskId = None /\ polled = NoTask /\ created = NoTask /\ completed = None
    /\ lock = FALSE /\ running = "no" /\ toasts = [k \in TaskIds |-> 0]
    /\ button = "idle" /\ waiting = None

Seen(k) == [id |-> k, status |-> tasks[k].status]

-----------------------------------------------------------------------------
(* The backend                                                             *)

Active(target) == {k \in DOMAIN tasks : tasks[k] = [target |-> target, status |-> "active"]}

(* Nobody here waits for the answers to others.                            *)
Step(r, s) ==
    requests' = (requests \ {r}) \cup (IF s.own \/ s.step # "answer" THEN {s} ELSE {})

(* create_node_probe and enqueue_refresh_task: join the active task of the *)
(* target, if there is one.                                                *)
FindActive(r) ==
    /\ r.step = "find"
    /\ \/ \E k \in Active(r.target) :
             Step(r, [r EXCEPT !.step = "answer", !.task = Seen(k)])
       \/ Active(r.target) = {} /\ Step(r, [r EXCEPT !.step = "insert"])
    /\ UNCHANGED <<tasks, probePage, refreshButton>>

(* create_task under the unique index on active tasks                      *)
CreateTask(r) ==
    /\ r.step = "insert"
    /\ \/ /\ Active(r.target) # {}
          /\ Step(r, [r EXCEPT !.step = "again"])
          /\ UNCHANGED tasks
       \/ LET k == Cardinality(DOMAIN tasks) + 1
          IN  /\ Active(r.target) = {} /\ k <= MaxTasks
              /\ tasks' = [i \in 1..k |-> IF i = k THEN [target |-> r.target, status |-> "active"]
                                                   ELSE tasks[i]]
              /\ Step(r, [r EXCEPT !.step = "answer", !.task = [id |-> k, status |-> "active"]])
    /\ UNCHANGED <<probePage, refreshButton>>

(* The second look-up finds the task that won, unless it has ended.        *)
FindWinner(r) ==
    /\ r.step = "again"
    /\ \E k \in Active(r.target) :
          Step(r, [r EXCEPT !.step = "answer", !.task = Seen(k)])
    /\ UNCHANGED <<tasks, probePage, refreshButton>>

(* The worker, the monitor, an operator or the lease ends a task.          *)
EndTask(k, status) ==
    /\ tasks[k].status = "active"
    /\ tasks' = [tasks EXCEPT ![k].status = status]
    /\ UNCHANGED <<requests, probePage, refreshButton>>

(* Another operator, or the scheduler                                      *)
NewRequest(target, own) ==
    [target |-> target, own |-> own, step |-> "find", task |-> NoTask]

OtherRequest(target) ==
    /\ Cardinality(requests) < MaxRequests
    /\ NewRequest(target, FALSE) \notin requests
    /\ requests' = requests \cup {NewRequest(target, FALSE)}
    /\ UNCHANGED <<tasks, probePage, refreshButton>>

(* Another's request is lost or fails.                                     *)
OtherFails(r) ==
    /\ ~r.own
    /\ requests' = requests \ {r}
    /\ UNCHANGED <<tasks, probePage, refreshButton>>

-----------------------------------------------------------------------------
(* The probes page                                                         *)

Bug_FinishedProbe(task) == task.status \in Ends \ {"dead_letter"}

(* isFinishedProbeTask                                                     *)
FinishedProbe(task) == task.status \in Ends

(* trackedTask: the query keeps its last data when its key changes, also   *)
(* to no task at all.                                                      *)
Tracked(p, c) == IF p # NoTask THEN p ELSE c

ProbeActive ==
    LET task == Tracked(polled, created) IN task # NoTask /\ ~FinishedProbe(task)

Bug_Announce(p, c, done, told) ==
    LET task == Tracked(p, c)
        news == FinishedProbe(task)
    IN  /\ completed' = IF news THEN task.id ELSE done
        /\ toasts' = IF news THEN [told EXCEPT ![task.id] = @ + 1] ELSE told

(* The effect on the tracked task after a rendering                        *)
Announce(p, c, done, told) ==
    LET task == Tracked(p, c)
        news == FinishedProbe(task) /\ done # task.id
    IN  /\ completed' = IF news THEN task.id ELSE done
        /\ toasts' = IF news THEN [told EXCEPT ![task.id] = @ + 1] ELSE told

(* startProbe                                                              *)
StartProbe ==
    /\ ~lock /\ running = "no" /\ ~ProbeActive
    /\ Cardinality(requests) < MaxRequests
    /\ requests' = requests \cup {NewRequest(selectedNodeId, TRUE)}
    /\ lock' = TRUE /\ running' = "call"
    /\ created' = NoTask
    /\ UNCHANGED <<tasks, selectedNodeId, probeTaskId, polled, completed, toasts, refreshButton>>

(* onSuccess up to its await: the task is followed, whichever node is      *)
(* selected by now.                                                        *)
ProbeCreated(r) ==
    /\ r.own /\ r.target \in Nodes /\ r.step = "answer"
    /\ requests' = requests \ {r}
    /\ probeTaskId' = r.task.id
    /\ created' = r.task /\ running' = "refetch"
    /\ Announce(polled, created', completed, toasts)
    /\ UNCHANGED <<tasks, selectedNodeId, polled, lock, refreshButton>>

(* The invalidated queries were read: onSettled                            *)
ProbeSettled ==
    /\ running = "refetch"
    /\ running' = "no" /\ lock' = FALSE
    /\ UNCHANGED <<tasks, requests, selectedNodeId, probeTaskId, polled, created, completed,
                   toasts, refreshButton>>

(* Refused, failed or lost: onSettled                                      *)
ProbeFails(r) ==
    /\ r.own /\ r.target \in Nodes
    /\ requests' = requests \ {r}
    /\ running' = "no" /\ lock' = FALSE
    /\ UNCHANGED <<tasks, selectedNodeId, probeTaskId, polled, created, completed, toasts,
                   refreshButton>>

(* The poll of the task; it stops once its data is finished.  A reading    *)
(* that fails changes nothing.                                             *)
PollTask ==
    /\ probeTaskId # None
    /\ ~(polled.id = probeTaskId /\ FinishedProbe(polled))
    /\ polled' = Seen(probeTaskId)
    /\ Announce(polled', created, completed, toasts)
    /\ UNCHANGED <<tasks, requests, selectedNodeId, probeTaskId, created, lock, running,
                   refreshButton>>

(* Another node: the effect on selectedNodeId, then the one on the task    *)
SelectNode(n) ==
    /\ n # selectedNodeId
    /\ selectedNodeId' = n
    /\ probeTaskId' = None
    /\ Announce(polled, created, None, [k \in TaskIds |-> 0])
    /\ UNCHANGED <<tasks, requests, polled, created, lock, running, refreshButton>>

(* The page is left and comes back new; its call goes on without it.       *)
LeaveProbes ==
    /\ requests' = {IF r.target \in Nodes THEN [r EXCEPT !.own = FALSE] ELSE r : r \in requests}
    /\ probeTaskId' = None /\ polled' = NoTask /\ created' = NoTask /\ completed' = None
    /\ lock' = FALSE /\ running' = "no" /\ toasts' = [k \in TaskIds |-> 0]
    /\ UNCHANGED <<tasks, selectedNodeId, refreshButton>>

-----------------------------------------------------------------------------
(* The refresh button of a source                                          *)

Bug_FinishedRefresh(status) == status \in {"succeeded", "failed"}

(* isFinishedRefreshTask                                                   *)
FinishedRefresh(status) == status \in Ends

(* refresh, up to the await of the mutation                                *)
ClickRefresh ==
    /\ button = "idle"
    /\ Cardinality(requests) < MaxRequests
    /\ requests' = requests \cup {NewRequest(Source, TRUE)}
    /\ button' = "refreshing"
    /\ UNCHANGED <<tasks, probePage, waiting>>

RefreshCreated(r) ==
    /\ r.own /\ r.target = Source /\ r.step = "answer"
    /\ requests' = requests \ {r}
    /\ waiting' = r.task.id
    /\ UNCHANGED <<tasks, probePage, button>>

(* The mutation failed: a toast, and the button is free again.             *)
RefreshFails(r) ==
    /\ r.own /\ r.target = Source
    /\ requests' = requests \ {r}
    /\ button' = "idle"
    /\ UNCHANGED <<tasks, probePage, waiting>>

(* A turn of waitForRefreshTask that finds the task finished; the others   *)
(* change nothing.                                                         *)
WaitEnds ==
    /\ waiting # None
    /\ FinishedRefresh(tasks[waiting].status)
    /\ button' = IF tasks[waiting].status = "succeeded" THEN "succeeded" ELSE "idle"
    /\ waiting' = None
    /\ UNCHANGED <<tasks, requests, probePage>>

(* A turn in which the task cannot be read: the loop ends with an error.   *)
WaitFails ==
    /\ waiting # None
    /\ button' = "idle" /\ waiting' = None
    /\ UNCHANGED <<tasks, requests, probePage>>

(* successDurationMs is over.                                              *)
ResetButton ==
    /\ button = "succeeded"
    /\ button' = "idle"
    /\ UNCHANGED <<tasks, requests, probePage, waiting>>

-----------------------------------------------------------------------------
Handler(r) == FindActive(r) \/ CreateTask(r) \/ FindWinner(r)

Tasks == \E k \in DOMAIN tasks : \E status \in Outcomes : EndTask(k, status)

Answer(r) == ProbeCreated(r) \/ ProbeFails(r) \/ RefreshCreated(r) \/ RefreshFails(r)

Operator == StartProbe \/ LeaveProbes \/ ClickRefresh \/ \E n \in Nodes : SelectNode(n)

Page == PollTask \/ ProbeSettled \/ WaitEnds \/ WaitFails \/ ResetButton

FollowNext ==
    \/ \E r \in requests : Handler(r) \/ Answer(r) \/ OtherFails(r)
    \/ \E target \in Targets : OtherRequest(target)
    \/ Tasks \/ Operator \/ Page

FollowSpec == FollowInit /\ [][FollowNext]_followVars

(* Handlers and timers run, every call is answered or fails, and tasks end *)
(* (TaskQueue shows under which conditions).  The operator does as he      *)
(* likes, and a loop need not meet an error.                               *)
FairFollowSpec ==
    /\ FollowSpec
    /\ WF_followVars(\E r \in requests : r.own /\ r.target = Source /\ (Handler(r) \/ Answer(r)))
    /\ WF_followVars(\E r \in requests : r.own /\ r.target \in Nodes /\ (Handler(r) \/ Answer(r)))
    /\ \A k \in TaskIds :
          WF_followVars(k \in DOMAIN tasks /\ \E status \in Outcomes : EndTask(k, status))
    /\ WF_followVars(PollTask) /\ WF_followVars(ProbeSettled)
    /\ WF_followVars(WaitEnds) /\ WF_followVars(ResetButton)

-----------------------------------------------------------------------------
(* However many operators click and however their requests interleave, a   *)
(* target has one active task: clicks do not build up a backlog.           *)
OneActiveTask == \A target \in Targets : Cardinality(Active(target)) <= 1

(* probeStartLock is held only while the call it guards is under way: the  *)
(* button is not dead after a failure.                                     *)
LockHasCall == lock => running # "no"

(* An end is announced once while a node stays selected.                   *)
AnnouncedOnce == \A k \in TaskIds : toasts[k] <= 1

(* A probe that the page follows is announced when it has ended, however   *)
(* it ended, unless the operator turns away.                               *)
ProbeAnnounced ==
    \A k \in TaskIds : (probeTaskId = k) ~> (probeTaskId # k \/ toasts[k] = 1)

(* A refresh button that was clicked can be clicked again in the end.      *)
ButtonComesBack == (button # "idle") ~> (button = "idle")

(* The invariant of following a task: one active task of a target, one     *)
(* announcement of its end, and no lock that outlives its call.            *)
FollowInv == FollowTypeOK /\ OneActiveTask /\ LockHasCall /\ AnnouncedOnce
=============================================================================
