------------------------------ MODULE Telemetry ------------------------------
(***************************************************************************)
(* Telemetry from one monitor to the backend: collectLogs and executeProbe *)
(* with the sequence numbers of their kinds, the spool with its limit,     *)
(* replaySpool, and _accept_telemetry_batch with cursor and batch markers. *)
(*                                                                         *)
(* The monitor's main loop replays the spool and then collects logs; a     *)
(* probe runs beside it in a goroutine, one at a time (probeMu), and uses  *)
(* the same spool.  A call the monitor gave up on (10 seconds) may still   *)
(* be handled while its batch is sent again, so a handler is split at its  *)
(* awaits.  Both answers, accepted and duplicate, are 200 and make the     *)
(* monitor forget the batch.                                               *)
(***************************************************************************)
EXTENDS Naturals, Sequences, FiniteSets, Functions

CONSTANTS
    Kinds,        \* the kinds of telemetry of this instance
    MaxBatch,     \* bound: batches collected in a behaviour
    MaxSpool,     \* SpoolMaxBytes, in batches
    FaultKinds,   \* the faults of this instance
    MaxFaults     \* bound: faults in a behaviour

ASSUME BoundsAssumption ==
    MaxBatch \in Nat /\ MaxSpool \in Nat \ {0} /\ MaxFaults \in Nat

(* outage: requests do not arrive; timeout: the monitor gives up while the *)
(* handler goes on; died: the handler ends in the middle; crash: the monitor   *)
(* dies; unsaved: state.Save fails; full: the spool cannot be written;     *)
(* reset: the state directory or its state file is lost.                   *)
Faults == {"outage", "timeout", "died", "crash", "unsaved", "full", "reset"}

ASSUME FaultKindsAssumption == FaultKinds \subseteq Faults

ASSUME KindsAssumption == Kinds \subseteq {"logs", "probes"}

(* The main loop and the probe goroutine                                   *)
Actors == {"loop", "prober"}

VARIABLES
    pc,         \* where an actor is
    current,    \* the batch it is sending or spooling, as a set
    todo,       \* the spool files that replaySpool has listed and not sent
    spool,      \* the batches in the spool directory, in the order written
    sequence,   \* state.LogSequence and state.ProbeSequence
    saved,      \* the same in monitor-state.json
    collected,  \* history: the batches so far
    cursor,     \* TelemetryCursor.last_sequence of a kind, 0 without one
    marker,     \* the TelemetryBatch collection
    handler,    \* ingestion calls in progress
    stored,     \* history: how often the entries of a batch were inserted
    down,       \* the backend cannot be reached
    faults,     \* faults so far
    happened,   \* history: their kinds
    dropped,    \* history: batches given up by the monitor
    overlapped  \* history: kinds of which two calls were handled at once

monitorVars == <<pc, current, todo, spool, sequence, saved, collected, dropped>>
backendVars == <<cursor, marker, stored>>
faultVars == <<faults, happened, down>>
vars == <<monitorVars, backendVars, handler, overlapped, faultVars>>

Batch == [id : 1..MaxBatch, kind : Kinds, seq : 1..MaxBatch, deny : BOOLEAN]

Marker == [id : 1..MaxBatch, kind : Kinds, seq : 1..MaxBatch]

(* since = 0: the sender waits for this call; otherwise the fault with     *)
(* which it stopped waiting.                                               *)
Handler == [batch : Batch, by : Actors, since : 0..MaxFaults,
            pc : {"find", "advance", "restart", "create", "retry", "purge",
                  "insert", "collide", "repurge", "reinsert", "store"}]

TypeOK ==
    /\ pc \in [Actors -> {"idle", "replay", "replaying", "collect", "sending",
                          "trim", "check", "write"}]
    /\ current \in [Actors -> SUBSET Batch]
    /\ todo \in Seq(Batch)
    /\ spool \in Seq(Batch)
    /\ sequence \in [Kinds -> 0..MaxBatch]
    /\ saved \in [Kinds -> 0..MaxBatch]
    /\ collected \in Seq(Batch)
    /\ cursor \in [Kinds -> 0..MaxBatch]
    /\ marker \subseteq Marker
    /\ handler \subseteq Handler
    /\ stored \in [1..MaxBatch -> Nat]
    /\ down \in BOOLEAN
    /\ faults \in 0..MaxFaults
    /\ happened \subseteq FaultKinds
    /\ dropped \subseteq Batch
    /\ overlapped \subseteq Kinds

Init ==
    /\ pc = [a \in Actors |-> "idle"]
    /\ current = [a \in Actors |-> {}]
    /\ todo = <<>> /\ spool = <<>> /\ dropped = {}
    /\ sequence = [k \in Kinds |-> 0]
    /\ saved = [k \in Kinds |-> 0]
    /\ collected = <<>>
    /\ cursor = [k \in Kinds |-> 0]
    /\ marker = {} /\ handler = {}
    /\ stored = [i \in 1..MaxBatch |-> 0]
    /\ down = FALSE
    /\ faults = 0 /\ happened = {} /\ overlapped = {}

Fault(kind) ==
    /\ kind \in FaultKinds
    /\ faults < MaxFaults
    /\ faults' = faults + 1
    /\ happened' = happened \cup {kind}
    /\ down' = (down \/ kind = "outage")

-----------------------------------------------------------------------------
(* The files at some positions, in their order                             *)
Pick(files, positions) ==
    LET Nth(k) == CHOOSE i \in positions : Cardinality({j \in positions : j <= i}) = k
    IN  [k \in 1..Cardinality(positions) |-> files[Nth(k)]]

(* The spool: file names sort by priority (0 for deny) and then by time.   *)
Deny(files) == Pick(files, {i \in DOMAIN files : files[i].deny})
Sampled(files) == Pick(files, {i \in DOMAIN files : ~files[i].deny})

ReplayOrder(files) == Deny(files) \o Sampled(files)

(* trimSpool: sampled data first, oldest first.                            *)
EvictionOrder(files) == Sampled(files) \o Deny(files)

(* What trimSpool removes to make room for one batch of the common size    *)
Evicted ==
    IF Len(spool) < MaxSpool
    THEN {}
    ELSE Range(SubSeq(EvictionOrder(spool), 1, Len(spool) + 1 - MaxSpool))

Without(files, gone) == Pick(files, {i \in DOMAIN files : files[i] \notin gone})

(* An actor posts a batch.                                                 *)
Send(a, b, label) ==
    /\ pc' = [pc EXCEPT ![a] = label]
    /\ current' = [current EXCEPT ![a] = {b}]
    /\ handler' = handler \cup {[batch |-> b, by |-> a, since |-> 0, pc |-> "find"]}
    /\ overlapped' = overlapped \cup
           {k \in Kinds : k = b.kind /\ \E h \in handler : h.batch.kind = k}

(* A step of the actor that no other actor sees                            *)
MoveTo(a, label) ==
    /\ pc' = [pc EXCEPT ![a] = label]
    /\ UNCHANGED <<sequence, saved, collected, backendVars, handler, overlapped>>

-----------------------------------------------------------------------------
(* sendTelemetry, once per heartbeat: replaySpool lists the files.         *)
StartReplay ==
    /\ pc["loop"] = "idle"
    /\ MoveTo("loop", "replay")
    /\ todo' = ReplayOrder(spool)
    /\ UNCHANGED <<current, spool, dropped, faultVars>>

(* A file that trimSpool removed meanwhile cannot be read and is skipped.  *)
ReplayNext ==
    /\ pc["loop"] = "replay"
    /\ todo # <<>>
    /\ todo' = Tail(todo)
    /\ IF Head(todo) \in Range(spool)
       THEN Send("loop", Head(todo), "replaying")
       ELSE UNCHANGED <<pc, current, handler, overlapped>>
    /\ UNCHANGED <<spool, sequence, saved, collected, dropped,
                   backendVars, faultVars>>

ReplayDone ==
    /\ pc["loop"] = "replay"
    /\ todo = <<>>
    /\ MoveTo("loop", "collect")
    /\ UNCHANGED <<current, todo, spool, dropped, faultVars>>

(* nextTelemetrySequence, and the call.  state.Save writes every counter.  *)
SendNew(a, kind, deny) ==
    /\ kind \in Kinds
    /\ Len(collected) < MaxBatch
    /\ sequence' = [sequence EXCEPT ![kind] = @ + 1]
    /\ \/ saved' = sequence' /\ UNCHANGED faultVars
       \/ Fault("unsaved") /\ UNCHANGED saved
    /\ LET b == [id |-> Len(collected) + 1, kind |-> kind,
                 seq |-> sequence'[kind], deny |-> deny]
       IN  Send(a, b, "sending") /\ collected' = Append(collected, b)
    /\ UNCHANGED <<todo, spool, dropped, backendVars>>

(* collectLogs found entries, whose log offset it saved already.           *)
CollectLogs ==
    /\ pc["loop"] = "collect"
    /\ \E deny \in BOOLEAN : SendNew("loop", "logs", deny)

CollectNothing ==
    /\ pc["loop"] = "collect"
    /\ MoveTo("loop", "idle")
    /\ UNCHANGED <<current, todo, spool, dropped, faultVars>>

(* executeProbe has its results.                                           *)
ExecuteProbe ==
    /\ pc["prober"] = "idle"
    /\ SendNew("prober", "probes", FALSE)

Bug_KeepReplayed(a) ==
    /\ pc' = [pc EXCEPT ![a] = IF @ = "replaying" THEN "replay" ELSE "idle"]
    /\ current' = [current EXCEPT ![a] = {}]
    /\ UNCHANGED <<todo, spool, sequence, saved, collected, dropped>>

(* The answer arrives: the replayed file is removed.                       *)
Succeed(a) ==
    /\ pc' = [pc EXCEPT ![a] = IF @ = "replaying" THEN "replay" ELSE "idle"]
    /\ current' = [current EXCEPT ![a] = {}]
    /\ spool' = IF pc[a] = "replaying" THEN Without(spool, current[a]) ELSE spool
    /\ UNCHANGED <<todo, sequence, saved, collected, dropped>>

Bug_IgnoreCap(a) ==
    /\ IF pc[a] = "replaying"
       THEN /\ pc' = [pc EXCEPT ![a] = "collect"]
            /\ current' = [current EXCEPT ![a] = {}]
            /\ todo' = <<>>
       ELSE /\ pc' = [pc EXCEPT ![a] = "write"]
            /\ UNCHANGED <<current, todo>>
    /\ UNCHANGED <<spool, sequence, saved, collected, dropped>>

(* The call fails: replaySpool stops, a new batch goes to enqueueSpool.    *)
GiveUp(a) ==
    /\ IF pc[a] = "replaying"
       THEN /\ pc' = [pc EXCEPT ![a] = "collect"]
            /\ current' = [current EXCEPT ![a] = {}]
            /\ todo' = <<>>
       ELSE /\ pc' = [pc EXCEPT ![a] = "trim"]
            /\ UNCHANGED <<current, todo>>
    /\ UNCHANGED <<spool, sequence, saved, collected, dropped>>

CallFails(h) ==
    /\ h.since = 0
    /\ GiveUp(h.by)
    /\ \/ h.pc = "find" /\ down /\ handler' = handler \ {h} /\ UNCHANGED faultVars
       \/ Fault("died") /\ handler' = handler \ {h}
       \/ /\ Fault("timeout")
          /\ handler' = (handler \ {h}) \cup {[h EXCEPT !.since = faults']}
    /\ UNCHANGED <<backendVars, overlapped>>

(* enqueueSpool looks at the size and trims, looks again, and writes; the  *)
(* other actor may write in between.                                       *)
TrimSpool(a) ==
    /\ pc[a] = "trim"
    /\ MoveTo(a, "check")
    /\ spool' = Without(spool, Evicted)
    /\ dropped' = dropped \cup Evicted
    /\ UNCHANGED <<current, todo, faultVars>>

CheckSize(a) ==
    /\ pc[a] = "check"
    /\ IF Len(spool) < MaxSpool
       THEN MoveTo(a, "write") /\ UNCHANGED <<current, dropped>>
       ELSE /\ MoveTo(a, "idle")
            /\ dropped' = dropped \cup current[a]
            /\ current' = [current EXCEPT ![a] = {}]
    /\ UNCHANGED <<todo, spool, faultVars>>

WriteSpool(a) ==
    /\ pc[a] = "write"
    /\ MoveTo(a, "idle")
    /\ \/ /\ \E b \in current[a] : spool' = Append(spool, b)
          /\ UNCHANGED <<dropped, faultVars>>
       \/ /\ Fault("full")
          /\ dropped' = dropped \cup current[a]
          /\ UNCHANGED spool
    /\ current' = [current EXCEPT ![a] = {}]
    /\ UNCHANGED todo

(* The monitor ends: calls go on unheard, unspooled batches are gone.      *)
Abandon ==
    /\ pc' = [a \in Actors |-> "idle"]
    /\ current' = [a \in Actors |-> {}]
    /\ todo' = <<>>
    /\ handler' = {IF h.since = 0 THEN [h EXCEPT !.since = faults'] ELSE h : h \in handler}
    /\ UNCHANGED <<collected, overlapped, backendVars>>

Unspooled ==
    UNION {current[a] : a \in {x \in Actors : pc[x] \in {"sending", "trim", "check", "write"}}}

Crash ==
    /\ Fault("crash")
    /\ Abandon
    /\ dropped' = dropped \cup Unspooled
    /\ sequence' = saved
    /\ UNCHANGED <<spool, saved>>

(* The node is installed anew, or its state file is lost.                  *)
ResetState ==
    /\ Fault("reset")
    /\ Abandon
    /\ spool' \in {spool, <<>>}
    /\ dropped' = dropped \cup Unspooled \cup (Range(spool) \ Range(spool'))
    /\ sequence' = [k \in Kinds |-> 0]
    /\ saved' = [k \in Kinds |-> 0]

-----------------------------------------------------------------------------
(* agent_logs and agent_probes                                             *)
Goto(h, label) ==
    /\ handler' = (handler \ {h}) \cup {[h EXCEPT !.pc = label]}
    /\ UNCHANGED <<monitorVars, overlapped, faultVars>>

(* The answer of an abandoned call reaches nobody.                         *)
Answer(h) ==
    /\ handler' = handler \ {h}
    /\ IF h.since = 0 THEN Succeed(h.by) ELSE UNCHANGED monitorVars
    /\ UNCHANGED <<overlapped, faultVars>>

FindExisting(h) ==
    /\ h.pc = "find"
    /\ ~down
    /\ IF \E m \in marker : m.id = h.batch.id THEN Answer(h) ELSE Goto(h, "advance")
    /\ UNCHANGED backendVars

(* The cursor's update_one with a condition on last_sequence               *)
UpdateCursor(h, matches, hit, miss) ==
    /\ IF matches
       THEN cursor' = [cursor EXCEPT ![h.batch.kind] = h.batch.seq] /\ Goto(h, hit)
       ELSE Goto(h, miss) /\ UNCHANGED cursor
    /\ UNCHANGED <<marker, stored>>

(* last_sequence $lt sequence                                              *)
AdvanceCursor(h) ==
    /\ h.pc = "advance"
    /\ UpdateCursor(h, cursor[h.batch.kind] \in 1..(h.batch.seq - 1), "insert", "restart")

Bug_RefuseOlder(h) ==
    /\ h.pc = "restart"
    /\ IF cursor[h.batch.kind] > h.batch.seq THEN Answer(h) ELSE Goto(h, "create")
    /\ UNCHANGED backendVars

(* last_sequence $gt sequence: taken for a monitor that started anew       *)
RestartCursor(h) ==
    /\ h.pc = "restart"
    /\ UpdateCursor(h, cursor[h.batch.kind] > h.batch.seq, "purge", "create")

CreateCursor(h) ==
    /\ h.pc = "create"
    /\ UpdateCursor(h, cursor[h.batch.kind] = 0, "insert", "retry")

RetryCursor(h) ==
    /\ h.pc = "retry"
    /\ \/ /\ cursor[h.batch.kind] < h.batch.seq
          /\ UpdateCursor(h, TRUE, "insert", "insert")
       \/ /\ cursor[h.batch.kind] >= h.batch.seq
          /\ Answer(h)
          /\ UNCHANGED backendVars

(* _purge_telemetry_batches                                                *)
Purge(h) ==
    /\ \/ h.pc = "purge" /\ Goto(h, "insert")
       \/ h.pc = "repurge" /\ Goto(h, "reinsert")
    /\ marker' = {m \in marker : m.kind # h.batch.kind}
    /\ UNCHANGED <<cursor, stored>>

(* The unique indexes on batch_id and on sequence                          *)
Clash(b) == {m \in marker : m.kind = b.kind /\ (m.id = b.id \/ m.seq = b.seq)}

Bug_ForgetMarker(h) ==
    /\ h.pc \in {"insert", "reinsert"}
    /\ Goto(h, "store")
    /\ UNCHANGED backendVars

InsertMarker(h) ==
    /\ h.pc \in {"insert", "reinsert"}
    /\ \/ /\ Clash(h.batch) = {}
          /\ marker' = marker \cup
                 {[id |-> h.batch.id, kind |-> h.batch.kind, seq |-> h.batch.seq]}
          /\ Goto(h, "store")
       \/ /\ Clash(h.batch) # {}
          /\ IF h.pc = "insert" THEN Goto(h, "collide") ELSE Answer(h)
          /\ UNCHANGED marker
    /\ UNCHANGED <<cursor, stored>>

FindCollision(h) ==
    /\ h.pc = "collide"
    /\ IF \E m \in Clash(h.batch) : m.seq = h.batch.seq /\ m.id # h.batch.id
       THEN Goto(h, "repurge")
       ELSE Answer(h)
    /\ UNCHANGED backendVars

(* The documents are inserted, and the answer sent.                        *)
StoreEntries(h) ==
    /\ h.pc = "store"
    /\ stored' = [stored EXCEPT ![h.batch.id] = @ + 1]
    /\ Answer(h)
    /\ UNCHANGED <<cursor, marker>>

HandlerStep(h) ==
    \/ FindExisting(h) \/ AdvanceCursor(h) \/ RestartCursor(h) \/ CreateCursor(h)
    \/ RetryCursor(h) \/ Purge(h) \/ InsertMarker(h) \/ FindCollision(h)
    \/ StoreEntries(h)

(* The backend dies with an abandoned call.                                *)
HandlerDies(h) ==
    /\ h.since # 0
    /\ Fault("died")
    /\ handler' = handler \ {h}
    /\ UNCHANGED <<monitorVars, backendVars, overlapped>>

Outage ==
    /\ ~down
    /\ Fault("outage")
    /\ UNCHANGED <<monitorVars, handler, overlapped, backendVars>>

OutageEnds ==
    /\ down
    /\ down' = FALSE
    /\ UNCHANGED <<monitorVars, handler, overlapped, backendVars, faults, happened>>

-----------------------------------------------------------------------------
EnqueueSpool(a) == TrimSpool(a) \/ CheckSize(a) \/ WriteSpool(a)

LoopStep ==
    \/ StartReplay \/ ReplayNext \/ ReplayDone \/ CollectLogs \/ CollectNothing
    \/ EnqueueSpool("loop")

Next ==
    \/ LoopStep
    \/ ExecuteProbe
    \/ EnqueueSpool("prober")
    \/ Crash \/ ResetState \/ Outage \/ OutageEnds
    \/ \E h \in handler : HandlerStep(h) \/ CallFails(h) \/ HandlerDies(h)

Spec == Init /\ [][Next]_vars

(* The ticker repeats sendTelemetry, goroutines run, and the event loop    *)
(* runs handlers; outages end.                                             *)
FairSpec ==
    /\ Spec
    /\ WF_vars(LoopStep)
    /\ WF_vars(EnqueueSpool("prober"))
    /\ WF_vars(OutageEnds)
    /\ WF_vars(\E h \in handler : HandlerStep(h))

-----------------------------------------------------------------------------
(* The spool exceeds its limit by one batch at most, although its size is  *)
(* checked before the write: only the probe goroutine races the main loop, *)
(* and an excess does not add up.  (enqueueSpool, trimSpool, probeMu)      *)
SpoolBounded == Len(spool) <= MaxSpool + 1

(* The invariant of the spool: its types, and its limit whoever writes.    *)
SpoolInv == TypeOK /\ SpoolBounded

(* A batch that the monitor did not itself give up is stored, spooled, or  *)
(* on its way, in whatever order spooled and new batches arrive, whatever  *)
(* is lost, and with sequences that start again, provided that no handler  *)
(* of the backend dies half-way, no two calls of the kind overlap and no   *)
(* two of its batches have the same number.  (collectLogs, replaySpool,    *)
(* _accept_telemetry_batch)                                                *)
NoBatchLost ==
    \A i \in 1..Len(collected) :
        LET b == collected[i]
        IN  \/ stored[i] > 0
            \/ b \in Range(spool) \cup dropped \cup UNION Range(current)
            \/ \E h \in handler : h.batch = b
            \/ b.kind \in overlapped
            \/ "died" \in happened
            \/ \E j \in 1..Len(collected) :
                   j # i /\ collected[j].kind = b.kind /\ collected[j].seq = b.seq

(* A batch sent again after a timeout or a crash is not stored again, as   *)
(* long as no two calls of its kind overlap and batches arrive in order:   *)
(* an outage, a handler that dies and a sequence that starts again change  *)
(* the order, and the purge then forgets what was stored.                  *)
(* (replaySpool, _accept_telemetry_batch)                                  *)
RetriesStoreOnce ==
    \A i \in 1..Len(collected) :
        \/ stored[i] <= 1
        \/ collected[i].kind \in overlapped
        \/ happened \cap {"outage", "died", "reset"} # {}
        \/ {"unsaved", "crash"} \subseteq happened

(* Once failures are over, the spool is emptied and stays empty: no batch  *)
(* is refused for ever.  (replaySpool, _accept_telemetry_batch)            *)
SpoolDrains == <>[](spool = <<>>)
=============================================================================
