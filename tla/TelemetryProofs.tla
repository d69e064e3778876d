-------------------------- MODULE TelemetryProofs --------------------------
(***************************************************************************)
(* Telemetry for any kinds, batches, spool size and faults: the limit of   *)
(* the spool, that no batch is lost, and that retries store it once.       *)
(***************************************************************************)
EXTENDS Telemetry, FiniteSetTheorems, SequenceTheorems, TLAPS

-----------------------------------------------------------------------------
(* The batches: a number is given once, and sequences count batches.       *)
Known(b) == b.id \in 1..Len(collected) /\ collected[b.id] = b

CollectedInv ==
    /\ Len(collected) <= MaxBatch
    /\ \A i \in 1..Len(collected) : collected[i].id = i
    /\ \A k \in Kinds : sequence[k] <= Len(collected) /\ saved[k] <= Len(collected)
    /\ \A i \in 1..MaxBatch : i > Len(collected) => stored[i] = 0

(* Both actors may have found room for one batch.                          *)
Writing(a) == IF pc[a] = "write" THEN 1 ELSE 0
SpoolLimit == Len(spool) + Writing("loop") + Writing("prober") <= MaxSpool + 1

(* What an actor holds: one batch while it sends or spools it, and a batch *)
(* that it replays is in the spool unless the other actor removed it.      *)
ActorInv(a) ==
    /\ pc[a] \in {"idle", "replay", "collect"} => current[a] = {}
    /\ pc[a] = "replaying" => current[a] \subseteq Range(spool) \cup dropped
    /\ \A b, c \in current[a] : b = c
    /\ \A b \in current[a] : Known(b)

CallInv(h) ==
    /\ Known(h.batch)
    /\ h.since = 0 => current[h.by] = {h.batch} /\ pc[h.by] \in {"sending", "replaying"}

HoldInv ==
    /\ pc["prober"] # "replaying"
    /\ \A a \in Actors : ActorInv(a)
    /\ \A b \in Range(spool) : Known(b)
    /\ \A h \in handler : CallInv(h)
    /\ \A g, h \in handler : g.since = 0 /\ h.since = 0 /\ g.by = h.by => g = h

BaseInv == TypeOK /\ CollectedInv /\ SpoolLimit /\ HoldInv

-----------------------------------------------------------------------------
(* The backend.  A kind whose calls do not overlap has one handler, which  *)
(* finds cursor and markers as it left them.                               *)
Alone(k) == k \in Kinds /\ k \notin overlapped

OneHandler ==
    \A g, h \in handler : g.batch.kind = h.batch.kind /\ Alone(h.batch.kind) => g = h

PlaceInv(h) ==
    LET c == cursor[h.batch.kind]
    IN  /\ h.pc = "restart" => c = 0 \/ c >= h.batch.seq
        /\ h.pc = "create" => c \in {0, h.batch.seq}
        /\ h.pc = "retry" => c = h.batch.seq
        /\ h.pc = "collide" => Clash(h.batch) # {}
        /\ h.pc = "reinsert" => Clash(h.batch) = {}

Stores(i) == \E h \in handler : h.batch.id = i /\ h.pc = "store"

(* A marker is of a batch that was stored or is about to be.               *)
MarkerInv(m) ==
    /\ m.id \in 1..Len(collected)
    /\ m.kind = collected[m.id].kind /\ m.seq = collected[m.id].seq
    /\ "died" \in happened \/ stored[m.id] > 0 \/ Stores(m.id)

(* The cases that NoBatchLost leaves out                                   *)
Excused(i) ==
    \/ collected[i].kind \in overlapped
    \/ "died" \in happened
    \/ \E j \in 1..Len(collected) :
          j # i /\ collected[j].kind = collected[i].kind /\ collected[j].seq = collected[i].seq

PastCursor == {"purge", "insert", "collide", "repurge", "reinsert", "store"}

(* The cursor is at a batch that was stored or is about to be.             *)
CursorInv(i) ==
    \/ Excused(i)
    \/ cursor[collected[i].kind] # collected[i].seq
    \/ stored[i] > 0
    \/ \E h \in handler : h.batch = collected[i] /\ h.pc \in PastCursor

CursorSource(k) ==
    cursor[k] = 0 \/ \E j \in 1..Len(collected) : collected[j].kind = k /\ collected[j].seq = cursor[k]

BackendInv ==
    /\ OneHandler
    /\ \A k \in Kinds : CursorSource(k)
    /\ \A h \in handler : Alone(h.batch.kind) => PlaceInv(h)
    /\ \A m \in marker : MarkerInv(m)
    /\ \A i \in 1..Len(collected) : CursorInv(i)

-----------------------------------------------------------------------------
(* Batches in order: calls are only delayed, and no sequence starts again. *)
Calm == happened \cap {"outage", "died", "reset"} = {} /\ ~({"unsaved", "crash"} \subseteq happened)

OrderInv ==
    /\ ~down
    /\ "unsaved" \notin happened => saved = sequence
    /\ \A i \in 1..Len(collected) : collected[i].seq <= sequence[collected[i].kind]
    /\ \A i, j \in 1..Len(collected) :
          i < j /\ collected[i].kind = collected[j].kind => collected[i].seq < collected[j].seq
    /\ \A k \in Kinds : cursor[k] <= sequence[k]

MarkerOf(i) == [id |-> i, kind |-> collected[i].kind, seq |-> collected[i].seq]

(* A batch is stored and has its marker, and a call finds that, ...        *)
Done(i) ==
    /\ stored[i] = 1 /\ MarkerOf(i) \in marker
    /\ \A h \in handler : h.batch.id = i => h.pc = "find"

(* ... or its first call is under way, ahead of the cursor.                *)
First(i) ==
    /\ stored[i] = 0
    /\ \E h \in handler :
          /\ h.batch = collected[i]
          /\ h.pc \in {"find", "advance", "restart", "create", "insert", "store"}
          /\ h.pc \in {"find", "advance"} => cursor[h.batch.kind] < h.batch.seq
          /\ h.pc \in {"restart", "create"} => cursor[h.batch.kind] = 0
          /\ IF h.pc = "store" THEN MarkerOf(i) \in marker ELSE \A m \in marker : m.id # i

CalmInv ==
    Calm => /\ OrderInv
            /\ \A i \in 1..Len(collected) : Alone(collected[i].kind) => Done(i) \/ First(i)

IInv == BaseInv /\ BackendInv /\ CalmInv /\ NoBatchLost

-----------------------------------------------------------------------------
(* Pick returns the files at the positions, each of them once: counting    *)
(* numbers the positions from 1 without a gap.                             *)
LEMMA PickProperties ==
    ASSUME NEW S, NEW files \in Seq(S), NEW I \in SUBSET DOMAIN files
    PROVE  /\ Pick(files, I) \in Seq(S)
           /\ Len(Pick(files, I)) = Cardinality(I)
           /\ Cardinality(I) \in Nat /\ Cardinality(I) <= Len(files)
           /\ Range(Pick(files, I)) = {files[i] : i \in I}
<1> DEFINE N == Len(files)
           n == Cardinality(I)
           upto(i) == {j \in I : j <= i}
           f == [i \in I |-> Cardinality(upto(i))]
           nth(k) == CHOOSE i \in I : Cardinality(upto(i)) = k
<1>1. N \in Nat /\ DOMAIN files = 1..N /\ \A i \in 1..N : files[i] \in S
  OBVIOUS
<1>2. IsFiniteSet(1..N) /\ Cardinality(1..N) = N
  BY <1>1, FS_Interval
<1>3. IsFiniteSet(I) /\ n \in Nat /\ n <= N
  BY <1>1, <1>2, FS_Subset, FS_CardinalityType
<1>4. \A i \in I : IsFiniteSet(upto(i)) /\ Cardinality(upto(i)) \in Nat /\ Cardinality(upto(i)) <= n
  BY <1>3, FS_Subset, FS_CardinalityType
<1>5. \A i \in I : Cardinality(upto(i)) # 0
  <2> SUFFICES ASSUME NEW i \in I PROVE Cardinality(upto(i)) # 0
    OBVIOUS
  <2>1. i \in upto(i)
    BY <1>1
  <2>. QED
    BY <1>4, <2>1, FS_EmptySet
<1>6. \A i, j \in I : Cardinality(upto(i)) = Cardinality(upto(j)) => i = j
  <2>1. \A i, j \in I : i < j => Cardinality(upto(i)) # Cardinality(upto(j))
    <3> SUFFICES ASSUME NEW i \in I, NEW j \in I, i < j
                 PROVE  Cardinality(upto(i)) # Cardinality(upto(j))
      OBVIOUS
    <3>1. upto(i) \in SUBSET upto(j) /\ j \in upto(j) /\ j \notin upto(i)
      BY <1>1
    <3>. QED
      BY <1>4, <3>1, FS_Subset
  <2>2. \A i, j \in I : i < j \/ j < i \/ i = j
    BY <1>1
  <2>. QED
    BY <2>1, <2>2
<1>7. f \in Injection(I, 1..n)
  <2>. HIDE DEF upto, n
  <2>1. \A i \in I : Cardinality(upto(i)) \in 1..n
    BY <1>3, <1>4, <1>5
  <2>. QED
    BY <1>6, <2>1 DEF Injection, IsInjective
<1>8. IsFiniteSet(1..n) /\ Cardinality(1..n) = n
  BY <1>3, FS_Interval
<1>9. f \in Surjection(I, 1..n)
  <2>. HIDE DEF f
  <2>. QED
    BY <1>7, <1>8, FS_Injection
<1>10. \A k \in 1..n : \E i \in I : Cardinality(upto(i)) = k
  <2>. HIDE DEF upto, n
  <2>. QED
    BY <1>9 DEF Surjection
<1>. HIDE DEF upto, n
<1>11. \A k \in 1..n : nth(k) \in I /\ Cardinality(upto(nth(k))) = k
  BY <1>10
<1>12. \A i \in I : Cardinality(upto(i)) \in 1..n /\ nth(Cardinality(upto(i))) = i
  <2>1. \A i \in I : Cardinality(upto(i)) \in 1..n
    BY <1>3, <1>4, <1>5
  <2>. QED
    BY <1>6, <1>11, <2>1
<1>13. Pick(files, I) = [k \in 1..n |-> files[nth(k)]]
  BY DEF Pick, n, upto
<1>. HIDE DEF nth
<1>14. Pick(files, I) \in Seq(S) /\ Len(Pick(files, I)) = n
  BY <1>1, <1>3, <1>11, <1>13
<1>15. Range(Pick(files, I)) = {files[i] : i \in I}
  BY <1>11, <1>12, <1>13 DEF Range
<1>. QED
  BY <1>3, <1>14, <1>15 DEF n

(* The spool with some batches removed, and the orders of its files        *)
LEMMA WithoutProperties ==
    ASSUME NEW files \in Seq(Batch), NEW gone
    PROVE  /\ Without(files, gone) \in Seq(Batch)
           /\ Len(Without(files, gone)) \in Nat /\ Len(Without(files, gone)) <= Len(files)
           /\ Range(Without(files, gone)) = Range(files) \ gone
<1> DEFINE I == {i \in DOMAIN files : files[i] \notin gone}
<1>1. /\ Pick(files, I) \in Seq(Batch) /\ Len(Pick(files, I)) = Cardinality(I)
      /\ Cardinality(I) \in Nat /\ Cardinality(I) <= Len(files)
      /\ Range(Pick(files, I)) = {files[i] : i \in I}
  BY PickProperties
<1>2. {files[i] : i \in I} = Range(files) \ gone
  BY DEF Range
<1>. QED
  BY <1>1, <1>2 DEF Without

LEMMA OrderProperties ==
    ASSUME NEW files \in Seq(Batch)
    PROVE  /\ ReplayOrder(files) \in Seq(Batch)
           /\ EvictionOrder(files) \in Seq(Batch)
           /\ Len(EvictionOrder(files)) = Len(files)
           /\ Range(EvictionOrder(files)) = Range(files)
<1> DEFINE D == {i \in DOMAIN files : files[i].deny}
           E == {i \in DOMAIN files : ~files[i].deny}
<1>1. /\ Deny(files) \in Seq(Batch) /\ Len(Deny(files)) = Cardinality(D)
      /\ Range(Deny(files)) = {files[i] : i \in D}
  BY PickProperties DEF Deny
<1>2. /\ Sampled(files) \in Seq(Batch) /\ Len(Sampled(files)) = Cardinality(E)
      /\ Range(Sampled(files)) = {files[i] : i \in E}
  BY PickProperties DEF Sampled
<1>3. Cardinality(D) + Cardinality(E) = Len(files)
  <2>1. IsFiniteSet(DOMAIN files) /\ Cardinality(DOMAIN files) = Len(files)
    <3>1. DOMAIN files = 1..Len(files) /\ Len(files) \in Nat
      OBVIOUS
    <3>. QED
      BY <3>1, FS_Interval
  <2>2. IsFiniteSet(D) /\ IsFiniteSet(E) /\ D \cap E = {} /\ D \cup E = DOMAIN files
    BY <2>1, FS_Subset
  <2>3. Cardinality(D \cup E) = Cardinality(D) + Cardinality(E) - Cardinality(D \cap E)
    <3>. HIDE DEF D, E
    <3>. QED
      BY <2>2, FS_Union
  <2>4. Cardinality(D \cap E) = 0 /\ Cardinality(D) \in Nat /\ Cardinality(E) \in Nat
    BY <2>2, FS_EmptySet, FS_CardinalityType
  <2>. HIDE DEF D, E
  <2>. QED
    BY <2>1, <2>2, <2>3, <2>4
<1>4. ReplayOrder(files) \in Seq(Batch) /\ EvictionOrder(files) \in Seq(Batch)
  BY <1>1, <1>2 DEF ReplayOrder, EvictionOrder
<1>5. Len(EvictionOrder(files)) = Len(files)
  BY <1>1, <1>2, <1>3 DEF EvictionOrder
<1>6. Range(EvictionOrder(files)) = Range(files)
  <2>1. Range(EvictionOrder(files)) = Range(Sampled(files)) \cup Range(Deny(files))
    BY <1>1, <1>2, RangeConcatenation DEF EvictionOrder
  <2>. QED
    BY <1>1, <1>2, <2>1 DEF Range
<1>. QED
  BY <1>4, <1>5, <1>6

LEMMA EvictedProperties ==
    ASSUME spool \in Seq(Batch)
    PROVE  Evicted \subseteq Range(spool)
<1> DEFINE n == Len(spool) + 1 - MaxSpool
           order == EvictionOrder(spool)
<1>1. CASE Len(spool) < MaxSpool
  BY <1>1 DEF Evicted
<1>2. CASE ~(Len(spool) < MaxSpool)
  <2>1. order \in Seq(Batch) /\ Len(order) = Len(spool) /\ Range(order) = Range(spool)
    BY OrderProperties
  <2>2. n \in 1..Len(spool)
    BY <1>2, BoundsAssumption
  <2>3. Evicted = Range(SubSeq(order, 1, n))
    BY <1>2 DEF Evicted
  <2>. HIDE DEF n, order
  <2>4. DOMAIN SubSeq(order, 1, n) = 1..n /\ \A i \in 1..n : SubSeq(order, 1, n)[i] = order[i]
    BY <2>1, <2>2
  <2>5. \A i \in 1..n : i \in DOMAIN order
    BY <2>1, <2>2
  <2>. QED
    BY <2>1, <2>3, <2>4, <2>5 DEF Range
<1>. QED
  BY <1>1, <1>2

LEMMA RangeAppend ==
    ASSUME NEW s \in Seq(Batch), NEW b \in Batch
    PROVE  /\ Append(s, b) \in Seq(Batch) /\ Len(Append(s, b)) = Len(s) + 1
           /\ Range(Append(s, b)) = Range(s) \cup {b}
<1>1. /\ Append(s, b) \in Seq(Batch) /\ Len(Append(s, b)) = Len(s) + 1
      /\ DOMAIN Append(s, b) = 1..(Len(s) + 1) /\ DOMAIN s = 1..Len(s) /\ Len(s) \in Nat
      /\ Append(s, b)[Len(s) + 1] = b /\ \A i \in 1..Len(s) : Append(s, b)[i] = s[i]
  OBVIOUS
<1>2. \A i \in 1..(Len(s) + 1) : i = Len(s) + 1 \/ i \in 1..Len(s)
  BY <1>1
<1>3. Len(s) + 1 \in 1..(Len(s) + 1) /\ 1..Len(s) \subseteq 1..(Len(s) + 1)
  BY <1>1
<1>. QED
  BY <1>1, <1>2, <1>3 DEF Range

-----------------------------------------------------------------------------
(* Types                                                                   *)
Labels == {"idle", "replay", "replaying", "collect", "sending", "trim", "check", "write"}

LEMMA HandlerMoved ==
    ASSUME NEW h \in Handler,
           NEW label \in {"find", "advance", "restart", "create", "retry", "purge",
                          "insert", "collide", "repurge", "reinsert", "store"},
           NEW g, g = [h EXCEPT !.pc = label]
    PROVE  g \in Handler /\ g.batch = h.batch /\ g.by = h.by /\ g.since = h.since /\ g.pc = label
<1>1. [h EXCEPT !.pc = label] = [batch |-> h.batch, by |-> h.by, since |-> h.since, pc |-> label]
  BY DEF Handler
<1>2. [batch |-> h.batch, by |-> h.by, since |-> h.since, pc |-> label] \in Handler
  BY DEF Handler
<1>. QED
  BY <1>1, <1>2

LEMMA HandlerLeft ==
    ASSUME NEW h \in Handler, NEW n \in 0..MaxFaults
    PROVE  LET g == [h EXCEPT !.since = n]
           IN  g \in Handler /\ g.batch = h.batch /\ g.by = h.by /\ g.since = n /\ g.pc = h.pc
<1>1. [h EXCEPT !.since = n] = [batch |-> h.batch, by |-> h.by, since |-> n, pc |-> h.pc]
  BY DEF Handler
<1>2. [batch |-> h.batch, by |-> h.by, since |-> n, pc |-> h.pc] \in Handler
  BY DEF Handler
<1>. QED
  BY <1>1, <1>2

LEMMA HandlerType ==
    ASSUME TypeOK, NEW h \in handler
    PROVE  /\ h \in Handler /\ h.batch \in Batch /\ h.by \in Actors /\ h.since \in Nat
           /\ h.batch.id \in 1..MaxBatch /\ h.batch.kind \in Kinds /\ h.batch.seq \in 1..MaxBatch
  BY BoundsAssumption DEF TypeOK, Handler, Batch

LEMMA RangeSpool ==
    ASSUME NEW s \in Seq(Batch)
    PROVE  Range(s) \subseteq Batch
  BY RangeOfSeq

(* The faults: their kinds add up.                                         *)
FaultsGrow ==
    /\ faults' \in 0..MaxFaults /\ happened' \subseteq FaultKinds /\ down' \in BOOLEAN
    /\ happened \subseteq happened'
    /\ down' => down \/ "outage" \in happened'

LEMMA FaultType ==
    ASSUME TypeOK, NEW kind, Fault(kind)
    PROVE  FaultsGrow /\ happened' = happened \cup {kind} /\ faults' > 0
<1>1. faults \in Nat /\ faults < MaxFaults /\ faults' = faults + 1
  BY BoundsAssumption DEF TypeOK, Fault
<1>2. faults' \in 0..MaxFaults /\ faults' > 0
  BY <1>1, BoundsAssumption
<1>3. down' = (down \/ kind = "outage") /\ happened' = happened \cup {kind} /\ kind \in FaultKinds
  BY DEF Fault
<1>4. happened' \subseteq FaultKinds /\ happened \subseteq happened'
  BY <1>3 DEF TypeOK
<1>5. down' \in BOOLEAN
  BY <1>3
<1>6. down' => down \/ "outage" \in happened'
  BY <1>3
<1>. QED
  BY <1>2, <1>3, <1>4, <1>5, <1>6 DEF FaultsGrow

LEMMA NoFault ==
    ASSUME TypeOK, UNCHANGED faultVars
    PROVE  FaultsGrow
  BY DEF TypeOK, faultVars, FaultsGrow

-----------------------------------------------------------------------------
(* One actor moves, and neither calls nor the backend do.                  *)
OthersStay(a) == \A c \in Actors \ {a} : pc'[c] = pc[c] /\ current'[c] = current[c]

LEMMA LimitKept ==
    ASSUME TypeOK, SpoolLimit, NEW a \in Actors, NEW label \in Labels, label # "write",
           pc' = [pc EXCEPT ![a] = label],
           spool' \in Seq(Batch), Len(spool') <= Len(spool)
    PROVE  SpoolLimit'
<1>1. pc \in [Actors -> Labels] /\ "loop" \in Actors /\ "prober" \in Actors
  BY DEF TypeOK, Labels, Actors
<1>2. \A c \in Actors : Writing(c)' <= Writing(c) /\ Writing(c) \in Nat /\ Writing(c)' \in Nat
  BY <1>1 DEF Writing
<1>3. Len(spool) \in Nat /\ Len(spool') \in Nat /\ MaxSpool \in Nat
  BY BoundsAssumption DEF TypeOK
<1>. QED
  BY <1>1, <1>2, <1>3 DEF SpoolLimit

LEMMA HoldMoved ==
    ASSUME BaseInv, NEW a \in Actors, OthersStay(a),
           pc[a] \notin {"sending", "replaying"}, pc'[a] \notin {"sending", "replaying"},
           current'[a] = {} \/ (current'[a] = current[a] /\ pc'[a] \notin {"idle", "replay", "collect"}),
           UNCHANGED <<handler, collected>>,
           Range(spool') \subseteq Range(spool) \cup current[a],
           Range(spool) \cup dropped \subseteq Range(spool') \cup dropped'
    PROVE  HoldInv'
<1>. TypeOK /\ HoldInv
  BY DEF BaseInv
<1>1. \A b : Known(b) => Known(b)'
  BY DEF Known
<1>2. ASSUME NEW c \in Actors PROVE ActorInv(c)'
  <2>1. CASE c = a
    BY <1>1, <2>1 DEF HoldInv, ActorInv
  <2>2. CASE c # a
    <3>1. pc'[c] = pc[c] /\ current'[c] = current[c] /\ ActorInv(c)
      BY <2>2 DEF OthersStay, HoldInv
    <3>. QED
      BY <1>1, <3>1 DEF ActorInv
  <2>. QED
    BY <2>1, <2>2
<1>3. \A b \in Range(spool') : Known(b)'
  BY <1>1 DEF HoldInv, ActorInv
<1>4. ASSUME NEW h \in handler PROVE CallInv(h)'
  <2>1. CallInv(h) /\ h.by \in Actors
    BY HandlerType DEF HoldInv
  <2>2. h.since = 0 => h.by \in Actors \ {a}
    BY <2>1 DEF CallInv
  <2>. QED
    BY <1>1, <2>1, <2>2 DEF CallInv, OthersStay
<1>5. pc'["prober"] # "replaying"
  BY DEF HoldInv, OthersStay, Actors
<1>. QED
  BY <1>2, <1>3, <1>4, <1>5 DEF HoldInv

(* The step of an actor keeps BaseInv.                                     *)
LEMMA ActorBase ==
    ASSUME BaseInv, NEW a \in Actors, NEW label \in Labels, pc' = [pc EXCEPT ![a] = label],
           pc[a] \notin {"sending", "replaying"}, label \notin {"sending", "replaying"},
           label = "write" => UNCHANGED spool /\ Len(spool) < MaxSpool,
           NEW cur, current' = [current EXCEPT ![a] = cur],
           cur = {} \/ (cur = current[a] /\ label \notin {"idle", "replay", "collect"}),
           UNCHANGED <<sequence, saved, collected, backendVars, handler, overlapped>>,
           todo' \in Seq(Batch), spool' \in Seq(Batch), dropped' \subseteq Batch, FaultsGrow,
           Len(spool') <= Len(spool) \/ (pc[a] = "write" /\ Len(spool') = Len(spool) + 1),
           Range(spool') \subseteq Range(spool) \cup current[a],
           Range(spool) \cup dropped \subseteq Range(spool') \cup dropped'
    PROVE  BaseInv'
<1>. TypeOK /\ CollectedInv /\ SpoolLimit /\ HoldInv
  BY DEF BaseInv
<1>1. pc \in [Actors -> Labels] /\ current \in [Actors -> SUBSET Batch]
  BY DEF TypeOK, Labels
<1>2. /\ pc' \in [Actors -> Labels] /\ current' \in [Actors -> SUBSET Batch]
      /\ pc'[a] = label /\ current'[a] = cur /\ OthersStay(a)
  BY <1>1 DEF OthersStay
<1>3. TypeOK'
  BY <1>2 DEF TypeOK, Labels, backendVars, FaultsGrow
<1>4. CollectedInv'
  BY DEF CollectedInv, backendVars
<1>5. HoldInv'
  BY <1>2, HoldMoved
<1>6. SpoolLimit'
  <2>0. CASE label = "write"
    <3>1. \A c \in Actors : Writing(c)' \in 0..1
      BY DEF Writing
    <3>2. "loop" \in Actors /\ "prober" \in Actors /\ Len(spool) \in Nat /\ MaxSpool \in Nat
      BY BoundsAssumption DEF Actors, TypeOK
    <3>. QED
      BY <2>0, <3>1, <3>2 DEF SpoolLimit
  <2>1. CASE Len(spool') <= Len(spool) /\ label # "write"
    BY <2>1, LimitKept
  <2>2. CASE pc[a] = "write" /\ Len(spool') = Len(spool) + 1 /\ label # "write"
    <3>1. \A c \in Actors \ {a} : Writing(c)' = Writing(c)
      BY <1>2 DEF Writing, OthersStay
    <3>2. Writing(a) = 1 /\ Writing(a)' = 0
      BY <1>2, <2>2 DEF Writing
    <3>3. Actors = {"loop", "prober"} /\ Len(spool) \in Nat /\ MaxSpool \in Nat
          /\ \A c \in Actors : Writing(c) \in Nat
      BY BoundsAssumption DEF Actors, Writing, TypeOK
    <3>4. CASE a = "loop"
      BY <2>2, <3>1, <3>2, <3>3, <3>4 DEF SpoolLimit
    <3>5. CASE a = "prober"
      BY <2>2, <3>1, <3>2, <3>3, <3>5 DEF SpoolLimit
    <3>. QED
      BY <3>3, <3>4, <3>5
  <2>. QED
    BY <2>0, <2>1, <2>2
<1>. QED
  BY <1>3, <1>4, <1>5, <1>6 DEF BaseInv

-----------------------------------------------------------------------------
(* The parts that a step of an actor does not touch                        *)
LEMMA BackendKept ==
    ASSUME BackendInv, UNCHANGED <<cursor, marker, stored, handler, collected, overlapped>>,
           happened \subseteq happened'
    PROVE  BackendInv'
<1>1. OneHandler' /\ \A h \in handler' : Alone(h.batch.kind)' => PlaceInv(h)'
  BY DEF BackendInv, OneHandler, PlaceInv, Alone, Clash
<1>2. \A m \in marker' : MarkerInv(m)'
  BY DEF BackendInv, MarkerInv, Stores
<1>3. \A i \in 1..Len(collected') : CursorInv(i)'
  BY DEF BackendInv, CursorInv, Excused
<1>4. \A k \in Kinds : CursorSource(k)'
  BY DEF BackendInv, CursorSource
<1>. QED
  BY <1>1, <1>2, <1>3, <1>4 DEF BackendInv

LEMMA CalmBefore ==
    ASSUME happened \subseteq happened', Calm'
    PROVE  Calm
  BY DEF Calm

LEMMA CalmKept ==
    ASSUME CalmInv, FaultsGrow,
           UNCHANGED <<cursor, marker, stored, handler, collected, overlapped, sequence, saved>>
    PROVE  CalmInv'
<1> SUFFICES ASSUME Calm'
             PROVE  /\ OrderInv'
                    /\ \A i \in 1..Len(collected') : Alone(collected[i].kind)' => (Done(i) \/ First(i))'
  BY DEF CalmInv
<1>1. Calm /\ happened \subseteq happened'
  BY CalmBefore DEF FaultsGrow
<1>2. ~down'
  BY <1>1 DEF CalmInv, OrderInv, Calm, FaultsGrow
<1>3. OrderInv'
  BY <1>1, <1>2 DEF CalmInv, OrderInv
<1>4. \A i \in 1..Len(collected') : Alone(collected[i].kind)' => (Done(i) \/ First(i))'
  BY <1>1 DEF CalmInv, Alone, Done, First, MarkerOf
<1>. QED
  BY <1>3, <1>4

(* NoBatchLost, in the terms used here                                     *)
Held(b) == b \in Range(spool) \cup dropped \/ \E a \in Actors : b \in current[a]
Carried(b) == Held(b) \/ \E h \in handler : h.batch = b

LEMMA LostMeans ==
    ASSUME current \in [Actors -> SUBSET Batch]
    PROVE  NoBatchLost <=>
             \A i \in 1..Len(collected) : stored[i] > 0 \/ Carried(collected[i]) \/ Excused(i)
<1>1. \A b : b \in UNION Range(current) <=> \E a \in Actors : b \in current[a]
  BY DEF Range
<1>. QED
  BY <1>1 DEF NoBatchLost, Carried, Held, Excused

LEMMA LostMeansNext ==
    ASSUME current' \in [Actors -> SUBSET Batch],
           \A i \in 1..Len(collected') : stored'[i] > 0 \/ Carried(collected[i])' \/ Excused(i)'
    PROVE  NoBatchLost'
<1>1. \A b : b \in UNION Range(current') <=> \E a \in Actors : b \in current'[a]
  BY DEF Range
<1>. QED
  BY <1>1 DEF NoBatchLost, Carried, Held, Excused

LEMMA LostKept ==
    ASSUME TypeOK, TypeOK', NoBatchLost, UNCHANGED <<collected, stored>>,
           happened \subseteq happened', overlapped \subseteq overlapped',
           \A i \in 1..Len(collected) :
               Carried(collected[i]) => stored[i] > 0 \/ Carried(collected[i])' \/ Excused(i)'
    PROVE  NoBatchLost'
<1>1. current \in [Actors -> SUBSET Batch] /\ current' \in [Actors -> SUBSET Batch]
  BY DEF TypeOK
<1>2. \A i \in 1..Len(collected) : stored[i] > 0 \/ Carried(collected[i]) \/ Excused(i)
  BY <1>1, LostMeans
<1>3. \A i \in 1..Len(collected) : Excused(i) => Excused(i)'
  BY DEF Excused
<1>. QED
  BY <1>1, <1>2, <1>3, LostMeansNext

(* The step of an actor                                                    *)
LEMMA ActorStep ==
    ASSUME IInv, NEW a \in Actors, NEW label \in Labels, pc' = [pc EXCEPT ![a] = label],
           pc[a] \notin {"sending", "replaying"}, label \notin {"sending", "replaying"},
           label = "write" => UNCHANGED spool /\ Len(spool) < MaxSpool,
           NEW cur, current' = [current EXCEPT ![a] = cur],
           cur = {} \/ (cur = current[a] /\ label \notin {"idle", "replay", "collect"}),
           UNCHANGED <<sequence, saved, collected, backendVars, handler, overlapped>>,
           todo' \in Seq(Batch), spool' \in Seq(Batch), dropped' \subseteq Batch, FaultsGrow,
           Len(spool') <= Len(spool) \/ (pc[a] = "write" /\ Len(spool') = Len(spool) + 1),
           Range(spool') \subseteq Range(spool) \cup current[a],
           Range(spool) \cup dropped \subseteq Range(spool') \cup dropped',
           current[a] \subseteq cur \cup Range(spool') \cup dropped'
    PROVE  IInv'
<1>. BaseInv /\ BackendInv /\ CalmInv /\ NoBatchLost /\ TypeOK
  BY DEF IInv, BaseInv
<1>1. BaseInv'
  BY ActorBase
<1>2. BackendInv' /\ CalmInv'
  BY BackendKept, CalmKept DEF backendVars, FaultsGrow
<1>3. \A c \in Actors : current'[c] = IF c = a THEN cur ELSE current[c]
  BY DEF TypeOK
<1>4. \A b : Carried(b) => Carried(b)'
  BY <1>3 DEF Carried, Held
<1>5. NoBatchLost'
  BY <1>1, <1>4, LostKept DEF BaseInv, backendVars, FaultsGrow
<1>. QED
  BY <1>1, <1>2, <1>5 DEF IInv

LEMMA CurrentSame ==
    ASSUME TypeOK, UNCHANGED current, NEW a \in Actors
    PROVE  current' = [current EXCEPT ![a] = current[a]]
  BY DEF TypeOK

(* The steps between two sendings: nothing is held.                        *)
LEMMA IdleStep ==
    ASSUME IInv, NEW label \in {"idle", "replay", "collect"},
           pc["loop"] \in {"idle", "replay", "collect"}, MoveTo("loop", label),
           todo' \in Seq(Batch), UNCHANGED <<current, spool, dropped, faultVars>>
    PROVE  IInv'
<1> DEFINE a == "loop"
<1>. TypeOK /\ HoldInv
  BY DEF IInv, BaseInv
<1>1. a \in Actors /\ label \in Labels
  BY DEF Actors, Labels
<1>. HIDE DEF a
<1>2. pc' = [pc EXCEPT ![a] = label] /\ pc[a] \in {"idle", "replay", "collect"}
      /\ UNCHANGED <<sequence, saved, collected, backendVars, handler, overlapped>>
  BY DEF MoveTo, a
<1>3. current[a] = {} /\ current' = [current EXCEPT ![a] = {}]
  BY <1>1, <1>2, CurrentSame DEF HoldInv, ActorInv
<1>4. FaultsGrow
  BY NoFault
<1>5. spool' \in Seq(Batch) /\ dropped' \subseteq Batch /\ Len(spool') <= Len(spool)
  BY DEF TypeOK
<1>6. /\ Range(spool') \subseteq Range(spool) \cup current[a]
      /\ Range(spool) \cup dropped \subseteq Range(spool') \cup dropped'
      /\ current[a] \subseteq {} \cup Range(spool') \cup dropped'
  BY <1>3
<1>. QED
  BY <1>1, <1>2, <1>3, <1>4, <1>5, <1>6, ActorStep

LEMMA LoopIdleStep ==
    ASSUME IInv, StartReplay \/ ReplayDone \/ CollectNothing
    PROVE  IInv'
<1>1. TypeOK /\ todo \in Seq(Batch) /\ ReplayOrder(spool) \in Seq(Batch)
  BY OrderProperties DEF IInv, BaseInv, TypeOK
<1>2. CASE StartReplay
  BY <1>1, <1>2, IdleStep DEF StartReplay
<1>3. CASE ReplayDone
  BY <1>1, <1>3, IdleStep DEF ReplayDone
<1>4. CASE CollectNothing
  BY <1>1, <1>4, IdleStep DEF CollectNothing
<1>. QED
  BY <1>2, <1>3, <1>4

LEMMA TrimSpoolStep ==
    ASSUME IInv, NEW a \in Actors, TrimSpool(a)
    PROVE  IInv'
<1>. TypeOK
  BY DEF IInv, BaseInv
<1>1. /\ pc[a] = "trim" /\ pc' = [pc EXCEPT ![a] = "check"] /\ spool' = Without(spool, Evicted)
      /\ dropped' = dropped \cup Evicted /\ UNCHANGED <<current, todo, faultVars>>
      /\ UNCHANGED <<sequence, saved, collected, backendVars, handler, overlapped>>
  BY DEF TrimSpool, MoveTo
<1>2. spool \in Seq(Batch) /\ Evicted \subseteq Range(spool) /\ Range(spool) \subseteq Batch
  BY EvictedProperties, RangeSpool DEF TypeOK
<1>3. /\ spool' \in Seq(Batch) /\ Len(spool') <= Len(spool)
      /\ Range(spool') = Range(spool) \ Evicted
  BY <1>1, <1>2, WithoutProperties
<1>4. dropped' \subseteq Batch /\ todo' \in Seq(Batch)
  BY <1>1, <1>2 DEF TypeOK
<1>5. current' = [current EXCEPT ![a] = current[a]] /\ FaultsGrow
  BY <1>1, CurrentSame, NoFault
<1>6. /\ Range(spool') \subseteq Range(spool) \cup current[a]
      /\ Range(spool) \cup dropped \subseteq Range(spool') \cup dropped'
      /\ current[a] \subseteq current[a] \cup Range(spool') \cup dropped'
  BY <1>1, <1>3
<1>7. "check" \in Labels /\ pc[a] \notin {"sending", "replaying"}
  BY <1>1 DEF Labels
<1>8. UNCHANGED <<sequence, saved, collected, backendVars, handler, overlapped>>
  BY <1>1
<1>9. PICK label, cur : label \in Labels /\ label = "check" /\ cur = current[a]
  BY <1>7
<1>10. /\ pc' = [pc EXCEPT ![a] = label] /\ current' = [current EXCEPT ![a] = cur]
       /\ label \notin {"sending", "replaying", "write", "idle", "replay", "collect"}
  BY <1>1, <1>5, <1>9
<1>. QED
  BY <1>3, <1>4, <1>5, <1>6, <1>7, <1>8, <1>9, <1>10, ActorStep

LEMMA CheckSizeStep ==
    ASSUME IInv, NEW a \in Actors, CheckSize(a)
    PROVE  IInv'
<1>. TypeOK
  BY DEF IInv, BaseInv
<1>1. pc[a] = "check" /\ UNCHANGED <<todo, spool, faultVars>> /\ FaultsGrow
      /\ UNCHANGED <<sequence, saved, collected, backendVars, handler, overlapped>>
  BY NoFault DEF CheckSize, MoveTo
<1>2. spool' \in Seq(Batch) /\ todo' \in Seq(Batch) /\ Len(spool') <= Len(spool)
  BY <1>1 DEF TypeOK
<1>3. current[a] \subseteq Batch /\ dropped \subseteq Batch
  BY DEF TypeOK
<1>4. CASE Len(spool) < MaxSpool
  <2>1. pc' = [pc EXCEPT ![a] = "write"] /\ UNCHANGED <<current, dropped>>
    BY <1>4 DEF CheckSize, MoveTo
  <2>2. current' = [current EXCEPT ![a] = current[a]] /\ dropped' \subseteq Batch /\ "write" \in Labels
    BY <1>3, <2>1, CurrentSame DEF Labels
  <2>3. /\ Range(spool') \subseteq Range(spool) \cup current[a]
        /\ Range(spool) \cup dropped \subseteq Range(spool') \cup dropped'
        /\ current[a] \subseteq current[a] \cup Range(spool') \cup dropped'
    BY <1>1, <2>1
  <2>4. PICK label, cur : label \in Labels /\ label = "write" /\ cur = current[a]
    BY <2>2
  <2>5. /\ pc' = [pc EXCEPT ![a] = label] /\ current' = [current EXCEPT ![a] = cur]
        /\ label \notin {"sending", "replaying", "idle", "replay", "collect"}
    BY <2>1, <2>2, <2>4
  <2>6. pc[a] \notin {"sending", "replaying"} /\ UNCHANGED spool /\ FaultsGrow
        /\ UNCHANGED <<sequence, saved, collected, backendVars, handler, overlapped>>
    BY <1>1
  <2>. QED
    BY <1>2, <1>4, <2>2, <2>3, <2>4, <2>5, <2>6, ActorStep
<1>5. CASE ~(Len(spool) < MaxSpool)
  <2>1. /\ pc' = [pc EXCEPT ![a] = "idle"] /\ current' = [current EXCEPT ![a] = {}]
        /\ dropped' = dropped \cup current[a]
    BY <1>5 DEF CheckSize, MoveTo
  <2>2. dropped' \subseteq Batch /\ "idle" \in Labels
    BY <1>3, <2>1 DEF Labels
  <2>3. /\ Range(spool') \subseteq Range(spool) \cup current[a]
        /\ Range(spool) \cup dropped \subseteq Range(spool') \cup dropped'
        /\ current[a] \subseteq {} \cup Range(spool') \cup dropped'
    BY <1>1, <2>1
  <2>. QED
    BY <1>1, <1>2, <2>1, <2>2, <2>3, ActorStep
<1>. QED
  BY <1>4, <1>5

LEMMA WriteSpoolStep ==
    ASSUME IInv, NEW a \in Actors, WriteSpool(a)
    PROVE  IInv'
<1>. TypeOK /\ HoldInv
  BY DEF IInv, BaseInv
<1>1. /\ pc[a] = "write" /\ pc' = [pc EXCEPT ![a] = "idle"]
      /\ current' = [current EXCEPT ![a] = {}] /\ UNCHANGED todo
      /\ UNCHANGED <<sequence, saved, collected, backendVars, handler, overlapped>>
  BY DEF WriteSpool, MoveTo
<1>2. todo' \in Seq(Batch) /\ "idle" \in Labels /\ spool \in Seq(Batch)
      /\ current[a] \subseteq Batch /\ dropped \subseteq Batch
  BY <1>1 DEF TypeOK, Labels
<1>3. CASE (\E b \in current[a] : spool' = Append(spool, b)) /\ UNCHANGED <<dropped, faultVars>>
  <2>1. PICK b \in current[a] : spool' = Append(spool, b)
    BY <1>3
  <2>2. current[a] = {b}
    BY DEF HoldInv, ActorInv
  <2>3. spool' \in Seq(Batch) /\ Len(spool') = Len(spool) + 1 /\ Range(spool') = Range(spool) \cup {b}
    BY <1>2, <2>1, RangeAppend
  <2>4. dropped' \subseteq Batch /\ FaultsGrow
    BY <1>2, <1>3, NoFault
  <2>5. /\ Range(spool') \subseteq Range(spool) \cup current[a]
        /\ Range(spool) \cup dropped \subseteq Range(spool') \cup dropped'
        /\ current[a] \subseteq {} \cup Range(spool') \cup dropped'
    BY <1>3, <2>2, <2>3
  <2>. QED
    BY <1>1, <1>2, <2>3, <2>4, <2>5, ActorStep
<1>4. CASE Fault("full") /\ dropped' = dropped \cup current[a] /\ UNCHANGED spool
  <2>1. FaultsGrow
    BY <1>4, FaultType
  <2>2. dropped' \subseteq Batch /\ spool' \in Seq(Batch) /\ Len(spool') <= Len(spool)
    BY <1>2, <1>4
  <2>3. /\ Range(spool') \subseteq Range(spool) \cup current[a]
        /\ Range(spool) \cup dropped \subseteq Range(spool') \cup dropped'
        /\ current[a] \subseteq {} \cup Range(spool') \cup dropped'
    BY <1>4
  <2>. QED
    BY <1>1, <1>2, <2>1, <2>2, <2>3, ActorStep
<1>. QED
  BY <1>3, <1>4 DEF WriteSpool

-----------------------------------------------------------------------------
(* An actor sends a batch: a new one, or one of the spool.                 *)
Collects(b) ==
    /\ collected' \in Seq(Batch) /\ Len(collected) <= Len(collected')
    /\ \A i \in 1..Len(collected) : collected'[i] = collected[i]
    /\ \A i \in 1..Len(collected') : i \in 1..Len(collected) \/ collected'[i] = b
    /\ Known(b)'

NewHandler(a, b) == [batch |-> b, by |-> a, since |-> 0, pc |-> "find"]

LEMMA CollectedLength ==
    ASSUME TypeOK
    PROVE  Len(collected) \in Nat /\ \A i \in 1..Len(collected) : collected[i] \in Batch
  BY DEF TypeOK

LEMMA KnownGrows ==
    ASSUME TypeOK, NEW b, Collects(b)
    PROVE  /\ \A c : Known(c) => Known(c)'
           /\ 1..Len(collected) \subseteq 1..Len(collected')
           /\ \A i \in 1..Len(collected) : Excused(i) /\ happened \subseteq happened'
                /\ overlapped \subseteq overlapped' => Excused(i)'
<1>1. Len(collected) \in Nat /\ Len(collected') \in Nat /\ Len(collected) <= Len(collected')
  BY DEF TypeOK, Collects
<1>2. 1..Len(collected) \subseteq 1..Len(collected')
  BY <1>1
<1>. QED
  BY <1>2 DEF Collects, Known, Excused

LEMMA SendBase ==
    ASSUME BaseInv, NEW a \in Actors, NEW label \in {"sending", "replaying"}, NEW b \in Batch,
           Send(a, b, label), pc[a] \in {"idle", "replay", "collect"},
           UNCHANGED <<spool, dropped, backendVars>>, todo' \in Seq(Batch), FaultsGrow, Collects(b),
           sequence' \in [Kinds -> 0..MaxBatch], saved' \in [Kinds -> 0..MaxBatch], CollectedInv',
           label = "replaying" => b \in Range(spool) /\ a = "loop"
    PROVE  BaseInv'
<1>. TypeOK /\ SpoolLimit /\ HoldInv
  BY DEF BaseInv
<1> DEFINE new == NewHandler(a, b)
<1>1. /\ pc' = [pc EXCEPT ![a] = label] /\ current' = [current EXCEPT ![a] = {b}]
      /\ handler' = handler \cup {new}
      /\ overlapped' = overlapped \cup {k \in Kinds : k = b.kind /\ \E h \in handler : h.batch.kind = k}
  BY DEF Send, NewHandler
<1>2. new \in Handler /\ new.batch = b /\ new.by = a /\ new.since = 0
  BY BoundsAssumption DEF Handler, NewHandler
<1>. HIDE DEF new
<1>3. pc \in [Actors -> Labels] /\ current \in [Actors -> SUBSET Batch] /\ label \in Labels
  BY DEF TypeOK, Labels
<1>4. /\ pc' \in [Actors -> Labels] /\ current' \in [Actors -> SUBSET Batch]
      /\ pc'[a] = label /\ current'[a] = {b} /\ OthersStay(a)
  BY <1>1, <1>3 DEF OthersStay
<1>5. TypeOK'
  BY <1>1, <1>2, <1>4 DEF TypeOK, Labels, backendVars, FaultsGrow, Collects
<1>6. SpoolLimit'
  <2>1. spool' \in Seq(Batch) /\ Len(spool') <= Len(spool) /\ label # "write"
    BY DEF TypeOK
  <2>. QED
    BY <1>1, <1>3, <2>1, LimitKept
<1>7. \A c : Known(c) => Known(c)'
  BY KnownGrows
<1>8. Known(b)'
  BY DEF Collects
<1>9. ASSUME NEW c \in Actors PROVE ActorInv(c)'
  <2>1. CASE c = a
    BY <1>4, <1>8, <2>1 DEF ActorInv
  <2>2. CASE c # a
    <3>1. pc'[c] = pc[c] /\ current'[c] = current[c] /\ ActorInv(c)
      BY <1>4, <2>2 DEF OthersStay, HoldInv
    <3>. QED
      BY <1>7, <3>1 DEF ActorInv
  <2>. QED
    BY <2>1, <2>2
<1>10. \A c \in Range(spool') : Known(c)'
  BY <1>7 DEF HoldInv
<1>11. \A h \in handler : h.since = 0 => h.by \in Actors \ {a}
  BY HandlerType DEF HoldInv, CallInv
<1>12. ASSUME NEW h \in handler' PROVE CallInv(h)'
  <2>1. CASE h = new
    BY <1>2, <1>4, <1>8, <2>1 DEF CallInv
  <2>2. CASE h \in handler
    BY <1>4, <1>7, <1>11, <2>2 DEF HoldInv, CallInv, OthersStay
  <2>. QED
    BY <1>1, <2>1, <2>2
<1>13. \A g, h \in handler' : g.since = 0 /\ h.since = 0 /\ g.by = h.by => g = h
  BY <1>1, <1>2, <1>11 DEF HoldInv
<1>14. pc'["prober"] # "replaying"
  BY <1>4 DEF HoldInv, OthersStay, Actors
<1>15. HoldInv'
  BY <1>9, <1>10, <1>12, <1>13, <1>14 DEF HoldInv
<1>. QED
  BY <1>5, <1>6, <1>15 DEF BaseInv

(* Either the kind overlaps from now on, or this is its only call.         *)
LEMMA SendAlone ==
    ASSUME TypeOK, NEW a, NEW b \in Batch, NEW label, Send(a, b, label)
    PROVE  /\ handler' = handler \cup {NewHandler(a, b)} /\ NewHandler(a, b).batch = b
           /\ NewHandler(a, b).pc = "find" /\ overlapped \subseteq overlapped'
           /\ \A k : Alone(k)' => Alone(k)
           /\ Alone(b.kind)' => \A h \in handler : h.batch.kind # b.kind
  BY DEF Send, NewHandler, Alone

LEMMA SendBackend ==
    ASSUME TypeOK, BackendInv, NEW a, NEW b \in Batch, NEW label, Send(a, b, label),
           UNCHANGED backendVars, Collects(b), happened \subseteq happened'
    PROVE  BackendInv'
<1> DEFINE new == NewHandler(a, b)
<1>1. /\ handler' = handler \cup {new} /\ new.batch = b /\ new.pc = "find"
      /\ overlapped \subseteq overlapped' /\ \A k : Alone(k)' => Alone(k)
      /\ Alone(b.kind)' => \A h \in handler : h.batch.kind # b.kind
  BY SendAlone
<1>. HIDE DEF new
<1>2. UNCHANGED <<cursor, marker, stored>>
  BY DEF backendVars
<1>3. OneHandler'
  BY <1>1 DEF BackendInv, OneHandler
<1>4. \A h \in handler' : Alone(h.batch.kind)' => PlaceInv(h)'
  BY <1>1, <1>2 DEF BackendInv, PlaceInv, Clash
<1>5. \A i \in 1..Len(collected) : i \in 1..Len(collected') /\ collected'[i] = collected[i]
  BY KnownGrows DEF Collects
<1>6. ASSUME NEW m \in marker' PROVE MarkerInv(m)'
  <2>1. MarkerInv(m) /\ (Stores(m.id) => Stores(m.id)')
    BY <1>1, <1>2 DEF BackendInv, Stores
  <2>. QED
    BY <1>2, <1>5, <2>1 DEF MarkerInv
<1>7. ASSUME NEW k \in Kinds PROVE CursorSource(k)'
  BY <1>2, <1>5 DEF BackendInv, CursorSource
<1>8. ASSUME NEW i \in 1..Len(collected') PROVE CursorInv(i)'
  <2>1. CASE i \in 1..Len(collected)
    <3>1. CursorInv(i) /\ collected'[i] = collected[i] /\ (Excused(i) => Excused(i)')
      BY <1>1, <1>5, <2>1, KnownGrows DEF BackendInv
    <3>. QED
      BY <1>1, <1>2, <3>1 DEF CursorInv
  <2>2. CASE i \notin 1..Len(collected)
    <3>1. collected'[i] = b /\ b.kind \in Kinds /\ b.seq # 0
      BY <2>2 DEF Collects, Batch
    <3>2. CASE cursor[b.kind] = b.seq
      <4>1. PICK j \in 1..Len(collected) : collected[j].kind = b.kind /\ collected[j].seq = b.seq
        BY <3>1, <3>2 DEF BackendInv, CursorSource
      <4>2. Excused(i)'
        BY <1>5, <2>2, <3>1, <4>1 DEF Excused
      <4>. QED
        BY <4>2 DEF CursorInv
    <3>3. CASE cursor[b.kind] # b.seq
      BY <1>2, <3>1, <3>3 DEF CursorInv
    <3>. QED
      BY <3>2, <3>3
  <2>. QED
    BY <2>1, <2>2
<1>. QED
  BY <1>3, <1>4, <1>6, <1>7, <1>8 DEF BackendInv

LEMMA SendLost ==
    ASSUME TypeOK, TypeOK', HoldInv, NoBatchLost, NEW a \in Actors, NEW b \in Batch, NEW label,
           Send(a, b, label), pc[a] \in {"idle", "replay", "collect"},
           UNCHANGED <<spool, dropped, backendVars>>, Collects(b), happened \subseteq happened'
    PROVE  NoBatchLost'
<1>1. current \in [Actors -> SUBSET Batch] /\ current' \in [Actors -> SUBSET Batch]
  BY DEF TypeOK
<1>2. \A i \in 1..Len(collected) : stored[i] > 0 \/ Carried(collected[i]) \/ Excused(i)
  BY <1>1, LostMeans
<1>3. handler' = handler \cup {NewHandler(a, b)} /\ NewHandler(a, b).batch = b
      /\ overlapped \subseteq overlapped'
  BY SendAlone
<1>4. \A c \in Actors : current[c] \subseteq current'[c]
  BY <1>1 DEF Send, HoldInv, ActorInv
<1>5. \A c : Carried(c) => Carried(c)'
  BY <1>3, <1>4 DEF Carried, Held
<1>6. Carried(b)'
  BY <1>3 DEF Carried
<1>7. ASSUME NEW i \in 1..Len(collected')
      PROVE  stored'[i] > 0 \/ Carried(collected[i])' \/ Excused(i)'
  <2>1. CASE i \in 1..Len(collected)
    <3>1. collected'[i] = collected[i] /\ (Excused(i) => Excused(i)')
      BY <1>3, <2>1, KnownGrows DEF Collects
    <3>. QED
      BY <1>2, <1>5, <2>1, <3>1 DEF backendVars
  <2>2. CASE i \notin 1..Len(collected)
    BY <1>6, <2>2 DEF Collects
  <2>. QED
    BY <2>1, <2>2
<1>. QED
  BY <1>1, <1>7, LostMeansNext

(* What is known of the batches before a call of their kind                *)
LEMMA SendCalm ==
    ASSUME TypeOK, CollectedInv, CalmInv, Calm, NEW a, NEW b \in Batch, NEW label, Send(a, b, label),
           UNCHANGED backendVars, Collects(b),
           NEW i \in 1..Len(collected), Alone(collected[i].kind)'
    PROVE  Done(i)' \/ First(i)'
<1> DEFINE new == NewHandler(a, b)
<1>1. /\ handler' = handler \cup {new} /\ new.batch = b /\ new.pc = "find"
      /\ \A k : Alone(k)' => Alone(k)
      /\ Alone(b.kind)' => \A h \in handler : h.batch.kind # b.kind
  BY SendAlone
<1>. HIDE DEF new
<1>2. UNCHANGED <<cursor, marker, stored>>
  BY DEF backendVars
<1>3. i \in 1..Len(collected') /\ collected'[i] = collected[i] /\ collected[i].id = i
  BY KnownGrows DEF Collects, CollectedInv
<1>4. Alone(collected[i].kind)
  BY <1>1, <1>3
<1>5. Done(i) \/ First(i)
  BY <1>4 DEF CalmInv
<1>6. Done(i) => Done(i)'
  BY <1>1, <1>2, <1>3 DEF Done, MarkerOf
<1>7. First(i) => First(i)'
  BY <1>1, <1>2, <1>3 DEF First, MarkerOf
<1>. QED
  BY <1>5, <1>6, <1>7

LEMMA ReplayNextStep ==
    ASSUME IInv, ReplayNext
    PROVE  IInv'
<1>. /\ BaseInv /\ BackendInv /\ CalmInv /\ NoBatchLost
     /\ TypeOK /\ CollectedInv /\ HoldInv
  BY DEF IInv, BaseInv
<1> DEFINE a == "loop"
<1>0. PICK b : b = Head(todo)
  OBVIOUS
<1>1. /\ pc[a] = "replay" /\ todo # <<>> /\ todo' = Tail(todo)
      /\ UNCHANGED <<spool, sequence, saved, collected, dropped, backendVars, faultVars>>
      /\ IF b \in Range(spool) THEN Send(a, b, "replaying")
                               ELSE UNCHANGED <<pc, current, handler, overlapped>>
  BY <1>0 DEF ReplayNext
<1>2. todo' \in Seq(Batch) /\ a \in Actors /\ b \in Batch /\ FaultsGrow
  BY <1>0, <1>1, NoFault DEF TypeOK, Actors
<1>3. CASE b \notin Range(spool)
  <2>1. pc' = [pc EXCEPT !["loop"] = "replay"]
    BY <1>1, <1>3 DEF TypeOK
  <2>2. MoveTo("loop", "replay")
    BY <1>1, <1>3, <2>1 DEF MoveTo
  <2>. QED
    BY <1>1, <1>2, <1>3, <2>2, IdleStep
<1>4. CASE b \in Range(spool)
  <2>1. Send(a, b, "replaying")
    BY <1>1, <1>4
  <2>2. Collects(b)
    <3>1. Known(b) /\ UNCHANGED collected
      BY <1>1, <1>4 DEF HoldInv
    <3>2. Known(b)'
      BY <3>1 DEF Known
    <3>3. Len(collected) \in Nat /\ collected \in Seq(Batch)
      BY DEF TypeOK
    <3>4. Len(collected) <= Len(collected)
      BY <3>3
    <3>. QED
      BY <3>1, <3>2, <3>3, <3>4 DEF Collects
  <2>3. CollectedInv' /\ sequence' \in [Kinds -> 0..MaxBatch] /\ saved' \in [Kinds -> 0..MaxBatch]
    BY <1>1 DEF CollectedInv, TypeOK, backendVars
  <2>4. BaseInv'
    BY <1>1, <1>2, <1>4, <2>1, <2>2, <2>3, SendBase
  <2>5. happened \subseteq happened'
    BY <1>2 DEF FaultsGrow
  <2>6. BackendInv'
    BY <1>1, <1>2, <2>1, <2>2, <2>5, SendBackend
  <2>7. NoBatchLost'
    BY <1>1, <1>2, <2>1, <2>2, <2>4, <2>5, SendLost DEF BaseInv
  <2>8. CalmInv'
    <3>1. Calm' => Calm
      BY <2>5, CalmBefore
    <3>2. Calm' => OrderInv'
      BY <1>1, <3>1 DEF CalmInv, OrderInv, backendVars, faultVars
    <3>3. ASSUME Calm', NEW i \in 1..Len(collected'), Alone(collected[i].kind)' PROVE Done(i)' \/ First(i)'
      BY <1>1, <1>2, <2>1, <2>2, <3>1, <3>3, SendCalm
    <3>. QED
      BY <3>2, <3>3 DEF CalmInv
  <2>. QED
    BY <2>4, <2>6, <2>7, <2>8 DEF IInv
<1>. QED
  BY <1>3, <1>4

(* A new batch has the next number of its kind.                            *)
LEMMA SendNewStep ==
    ASSUME IInv, NEW a \in Actors, NEW kind, NEW deny \in BOOLEAN, SendNew(a, kind, deny),
           pc[a] \in {"idle", "collect"}
    PROVE  IInv'
<1>. /\ BaseInv /\ BackendInv /\ CalmInv /\ NoBatchLost
     /\ TypeOK /\ CollectedInv /\ HoldInv
  BY DEF IInv, BaseInv
<1> DEFINE n == Len(collected)
           seq == sequence[kind] + 1
<1>0. PICK b : b = [id |-> n + 1, kind |-> kind, seq |-> seq, deny |-> deny]
  OBVIOUS
<1>1. /\ kind \in Kinds /\ n \in Nat /\ n < MaxBatch /\ MaxBatch \in Nat
      /\ sequence \in [Kinds -> 0..MaxBatch] /\ saved \in [Kinds -> 0..MaxBatch]
      /\ sequence[kind] \in Nat /\ sequence[kind] <= n
  BY BoundsAssumption DEF SendNew, TypeOK, CollectedInv
<1>2. /\ sequence' = [sequence EXCEPT ![kind] = seq] /\ sequence'[kind] = seq
      /\ saved' = sequence' \/ saved' = saved
      /\ UNCHANGED <<todo, spool, dropped, backendVars>>
  BY <1>1 DEF SendNew
<1>3. Send(a, b, "sending") /\ collected' = Append(collected, b)
  BY <1>0, <1>2 DEF SendNew
<1>4. FaultsGrow /\ ("unsaved" \notin happened' => saved' = sequence')
  <2>1. CASE saved' = sequence' /\ UNCHANGED faultVars
    BY <2>1, NoFault
  <2>2. CASE Fault("unsaved")
    BY <2>2, FaultType
  <2>. QED
    BY <2>1, <2>2 DEF SendNew
<1>5. seq \in 1..(n + 1) /\ seq \in 1..MaxBatch /\ n + 1 \in 1..MaxBatch
  BY <1>1
<1>6. b \in Batch /\ b.id = n + 1 /\ b.kind = kind /\ b.seq = seq
  BY <1>0, <1>1, <1>5 DEF Batch
<1>7. /\ collected' \in Seq(Batch) /\ Len(collected') = n + 1 /\ collected'[n + 1] = b
      /\ \A i \in 1..n : collected'[i] = collected[i]
  BY <1>3, <1>6 DEF TypeOK
<1>8. n + 1 \in 1..(n + 1) /\ 1..n \subseteq 1..(n + 1) /\ \A i \in 1..(n + 1) : i \in 1..n \/ i = n + 1
  BY <1>1
<1>9. Collects(b)
  <2>1. Known(b)'
    BY <1>6, <1>7, <1>8 DEF Known
  <2>2. Len(collected) <= Len(collected')
    BY <1>1, <1>7
  <2>. QED
    BY <1>7, <1>8, <2>1, <2>2 DEF Collects
<1>10. sequence' \in [Kinds -> 0..MaxBatch] /\ \A k \in Kinds : sequence'[k] <= n + 1
  BY <1>1, <1>2, <1>5 DEF CollectedInv
<1>11. saved' \in [Kinds -> 0..MaxBatch] /\ \A k \in Kinds : saved'[k] <= n + 1
  <2>1. \A k \in Kinds : saved[k] \in Nat /\ saved[k] <= n
    BY <1>1 DEF CollectedInv
  <2>2. CASE saved' = saved
    BY <1>1, <2>1, <2>2
  <2>3. CASE saved' = sequence'
    BY <1>10, <2>3
  <2>. QED
    BY <1>2, <2>2, <2>3
<1>12. CollectedInv'
  <2>1. \A i \in 1..(n + 1) : collected'[i].id = i
    BY <1>6, <1>7, <1>8 DEF CollectedInv
  <2>2. \A i \in 1..MaxBatch : i > n + 1 => stored'[i] = 0
    BY <1>1, <1>2 DEF CollectedInv, backendVars
  <2>. QED
    BY <1>1, <1>7, <1>10, <1>11, <2>1, <2>2 DEF CollectedInv
<1>13. todo' \in Seq(Batch) /\ happened \subseteq happened'
  BY <1>2, <1>4 DEF TypeOK, FaultsGrow
<1>14. BaseInv'
  BY <1>2, <1>3, <1>4, <1>6, <1>9, <1>10, <1>11, <1>12, <1>13, SendBase
<1>15. BackendInv'
  BY <1>2, <1>3, <1>6, <1>9, <1>13, SendBackend
<1>16. NoBatchLost'
  BY <1>2, <1>3, <1>6, <1>9, <1>13, <1>14, SendLost DEF BaseInv
<1>17. CalmInv'
  <2> SUFFICES ASSUME Calm'
               PROVE  /\ OrderInv'
                      /\ \A i \in 1..Len(collected') : Alone(collected[i].kind)' => (Done(i) \/ First(i))'
    BY DEF CalmInv
  <2>1. Calm /\ OrderInv
    BY <1>13, CalmBefore DEF CalmInv
  <2>2. ~down'
    BY <1>4, <2>1 DEF OrderInv, FaultsGrow, Calm
  <2>3. UNCHANGED <<cursor, marker, stored>>
    BY <1>2 DEF backendVars
  <2>4. \A k \in Kinds : sequence[k] <= sequence'[k] /\ sequence[k] \in Nat /\ sequence'[k] \in Nat
                         /\ cursor[k] \in Nat
    BY <1>1, <1>2, <1>5 DEF TypeOK
  <2>5. \A i \in 1..n : collected[i] \in Batch /\ collected[i].kind \in Kinds /\ collected[i].seq \in Nat
                        /\ collected[i].seq <= sequence[collected[i].kind]
    BY <2>1, CollectedLength DEF OrderInv, Batch
  <2>6. OrderInv'
    <3>1. \A i \in 1..(n + 1) : collected'[i].seq <= sequence'[collected'[i].kind]
      <4> SUFFICES ASSUME NEW i \in 1..(n + 1)
                   PROVE  collected'[i].seq <= sequence'[collected'[i].kind]
        OBVIOUS
      <4>1. CASE i \in 1..n
        <5>1. /\ collected'[i] = collected[i] /\ collected[i].kind \in Kinds
              /\ collected[i].seq \in Nat /\ collected[i].seq <= sequence[collected[i].kind]
          BY <1>7, <2>5, <4>1
        <5>. QED
          BY <2>4, <5>1
      <4>2. CASE i = n + 1
        BY <1>1, <1>2, <1>6, <1>7, <2>4, <4>2
      <4>. QED
        BY <1>8, <4>1, <4>2
    <3>2. \A i, j \in 1..(n + 1) :
            i < j /\ collected'[i].kind = collected'[j].kind => collected'[i].seq < collected'[j].seq
      <4> SUFFICES ASSUME NEW i \in 1..(n + 1), NEW j \in 1..(n + 1), i < j,
                          collected'[i].kind = collected'[j].kind
                   PROVE  collected'[i].seq < collected'[j].seq
        OBVIOUS
      <4>1. i \in 1..n
        BY <1>1
      <4>2. CASE j \in 1..n
        BY <1>7, <2>1, <4>1, <4>2 DEF OrderInv
      <4>3. CASE j = n + 1
        <5>1. /\ collected'[i] = collected[i] /\ collected'[j] = b
              /\ collected[i].seq \in Nat /\ collected[i].seq <= sequence[collected[i].kind]
          BY <1>7, <2>5, <4>1, <4>3
        <5>2. collected[i].kind = kind
          BY <1>6, <5>1
        <5>. QED
          BY <1>1, <1>6, <5>1, <5>2
      <4>. QED
        BY <1>8, <4>2, <4>3
    <3>3. \A k \in Kinds : cursor'[k] <= sequence'[k]
      BY <2>1, <2>3, <2>4 DEF OrderInv
    <3>. QED
      BY <1>4, <1>7, <2>2, <3>1, <3>2, <3>3 DEF OrderInv
  <2>7. ASSUME NEW i \in 1..Len(collected'), Alone(collected[i].kind)'
        PROVE  Done(i)' \/ First(i)'
    <3>1. CASE i \in 1..n
      <4>1. Alone(collected[i].kind)'
        BY <2>7
      <4>. QED
        BY <1>2, <1>3, <1>6, <1>9, <2>1, <3>1, <4>1, SendCalm
    <3>2. CASE i = n + 1
      <4>1. collected'[i] = b /\ stored'[i] = 0
        BY <1>1, <1>5, <1>7, <2>3, <3>2 DEF CollectedInv
      <4>2. NewHandler(a, b) \in handler' /\ NewHandler(a, b).batch = b /\ NewHandler(a, b).pc = "find"
        BY <1>3, <1>6, SendAlone
      <4>3. cursor'[b.kind] < b.seq
        BY <1>1, <1>6, <2>1, <2>3, <2>4 DEF OrderInv
      <4>4. \A m \in marker' : m.id # i
        BY <1>1, <2>3, <3>2 DEF BackendInv, MarkerInv
      <4>. QED
        BY <4>1, <4>2, <4>3, <4>4 DEF First
    <3>. QED
      BY <1>7, <1>8, <2>7, <3>1, <3>2
  <2>. QED
    BY <2>6, <2>7
<1>. QED
  BY <1>14, <1>15, <1>16, <1>17 DEF IInv

-----------------------------------------------------------------------------
(* Calls whose sender no longer waits, or that are gone                    *)
WorkComesFrom == \A h \in handler' : \E g \in handler : g.batch = h.batch /\ g.pc = h.pc
WorkGoesOn == \A g \in handler : \E h \in handler' : g.batch = h.batch /\ g.pc = h.pc
StartedGoesOn ==
    \A g \in handler : g.pc # "find" => \E h \in handler' : g.batch = h.batch /\ g.pc = h.pc

LEMMA WorkBackend ==
    ASSUME BackendInv, WorkComesFrom, StartedGoesOn \/ "died" \in happened', OneHandler',
           UNCHANGED <<cursor, marker, stored, collected, overlapped>>, happened \subseteq happened'
    PROVE  BackendInv'
<1>1. ASSUME NEW h \in handler', Alone(h.batch.kind)' PROVE PlaceInv(h)'
  <2>1. PICK g \in handler : g.batch = h.batch /\ g.pc = h.pc
    BY DEF WorkComesFrom
  <2>2. PlaceInv(g)
    BY <1>1, <2>1 DEF BackendInv, Alone
  <2>. QED
    BY <2>1, <2>2 DEF PlaceInv, Clash
<1>2. ASSUME NEW m \in marker' PROVE MarkerInv(m)'
  <2>1. MarkerInv(m)
    BY DEF BackendInv
  <2>2. Stores(m.id) => Stores(m.id)' \/ "died" \in happened'
    BY DEF Stores, StartedGoesOn
  <2>. QED
    BY <2>1, <2>2 DEF MarkerInv
<1>3. ASSUME NEW i \in 1..Len(collected') PROVE CursorInv(i)'
  <2>1. CursorInv(i) /\ (Excused(i) => Excused(i)')
    BY DEF BackendInv, Excused
  <2>2. "died" \in happened' => Excused(i)'
    BY DEF Excused
  <2>3. \A h \in PastCursor : h # "find"
    BY DEF PastCursor
  <2>. QED
    BY <2>1, <2>2, <2>3 DEF CursorInv, StartedGoesOn
<1>4. \A k \in Kinds : CursorSource(k)'
  BY DEF BackendInv, CursorSource
<1>. QED
  BY <1>1, <1>2, <1>3, <1>4 DEF BackendInv

LEMMA WorkCalm ==
    ASSUME CalmInv, FaultsGrow, WorkComesFrom, WorkGoesOn \/ ~Calm',
           Calm' => sequence' = sequence /\ ("unsaved" \notin happened' => saved' = sequence'),
           UNCHANGED <<cursor, marker, stored, collected, overlapped>>
    PROVE  CalmInv'
<1> SUFFICES ASSUME Calm'
             PROVE  /\ OrderInv'
                    /\ \A i \in 1..Len(collected') : Alone(collected[i].kind)' => (Done(i) \/ First(i))'
  BY DEF CalmInv
<1>1. Calm /\ happened \subseteq happened' /\ OrderInv
  BY CalmBefore DEF FaultsGrow, CalmInv
<1>2. ~down'
  BY <1>1 DEF OrderInv, Calm, FaultsGrow
<1>3. OrderInv'
  BY <1>1, <1>2 DEF OrderInv
<1>4. ASSUME NEW i \in 1..Len(collected'), Alone(collected[i].kind)' PROVE Done(i)' \/ First(i)'
  <2>1. Done(i) \/ First(i)
    BY <1>1, <1>4 DEF CalmInv, Alone
  <2>2. Done(i) => Done(i)'
    BY DEF Done, MarkerOf, WorkComesFrom
  <2>3. ASSUME First(i) PROVE First(i)'
    <3>1. PICK g \in handler :
            /\ g.batch = collected[i]
            /\ g.pc \in {"find", "advance", "restart", "create", "insert", "store"}
            /\ g.pc \in {"find", "advance"} => cursor[g.batch.kind] < g.batch.seq
            /\ g.pc \in {"restart", "create"} => cursor[g.batch.kind] = 0
            /\ IF g.pc = "store" THEN MarkerOf(i) \in marker ELSE \A m \in marker : m.id # i
      BY <2>3 DEF First
    <3>2. PICK h \in handler' : g.batch = h.batch /\ g.pc = h.pc
      BY DEF WorkGoesOn
    <3>. QED
      BY <2>3, <3>1, <3>2 DEF First, MarkerOf
  <2>. QED
    BY <2>1, <2>2, <2>3
<1>. QED
  BY <1>3, <1>4

LEMMA DropOne ==
    ASSUME BackendInv, NEW h \in handler, handler' = handler \ {h}, UNCHANGED overlapped
    PROVE  WorkComesFrom /\ OneHandler' /\ (h.pc = "find" => StartedGoesOn)
  BY DEF WorkComesFrom, StartedGoesOn, BackendInv, OneHandler, Alone

LEMMA LeaveOne ==
    ASSUME TypeOK, BackendInv, NEW h \in handler, NEW n \in 0..MaxFaults, UNCHANGED overlapped,
           handler' = (handler \ {h}) \cup {[h EXCEPT !.since = n]}
    PROVE  WorkComesFrom /\ OneHandler' /\ WorkGoesOn
<1> DEFINE g == [h EXCEPT !.since = n]
<1>1. g.batch = h.batch /\ g.pc = h.pc
  BY HandlerLeft, HandlerType
<1>. HIDE DEF g
<1>2. handler' = (handler \ {h}) \cup {g}
  BY DEF g
<1>3. OneHandler'
  BY <1>1, <1>2 DEF BackendInv, OneHandler, Alone
<1>. QED
  BY <1>1, <1>2, <1>3 DEF WorkComesFrom, WorkGoesOn

LEMMA LeaveAll ==
    ASSUME TypeOK, BackendInv, NEW n \in 0..MaxFaults, n > 0, UNCHANGED overlapped,
           handler' = {IF h.since = 0 THEN [h EXCEPT !.since = n] ELSE h : h \in handler}
    PROVE  /\ WorkComesFrom /\ OneHandler' /\ WorkGoesOn
           /\ \A h \in handler' : h \in Handler /\ h.since # 0
<1> DEFINE left(h) == IF h.since = 0 THEN [h EXCEPT !.since = n] ELSE h
<1>1. \A h \in handler : /\ left(h).batch = h.batch /\ left(h).pc = h.pc
                         /\ left(h) \in Handler /\ left(h).since # 0
  BY HandlerLeft, HandlerType
<1>. HIDE DEF left
<1>2. handler' = {left(h) : h \in handler}
  BY DEF left
<1>3. OneHandler'
  BY <1>1, <1>2 DEF BackendInv, OneHandler, Alone
<1>. QED
  BY <1>1, <1>2, <1>3 DEF WorkComesFrom, WorkGoesOn

(* The monitor ends and starts again: what it held is given up or in the   *)
(* spool.                                                                  *)
LEMMA AbandonStep ==
    ASSUME IInv, Abandon, FaultsGrow, faults' > 0,
           spool' \in Seq(Batch), Range(spool') \subseteq Range(spool), Len(spool') <= Len(spool),
           dropped' \subseteq Batch, dropped \cup Unspooled \subseteq dropped',
           Range(spool) \subseteq Range(spool') \cup dropped',
           sequence' \in [Kinds -> 0..MaxBatch], saved' \in [Kinds -> 0..MaxBatch],
           \A k \in Kinds : sequence'[k] <= Len(collected) /\ saved'[k] <= Len(collected),
           Calm' => sequence' = sequence /\ ("unsaved" \notin happened' => saved' = sequence')
    PROVE  IInv'
<1>. /\ BaseInv /\ BackendInv /\ CalmInv /\ NoBatchLost
     /\ TypeOK /\ CollectedInv /\ HoldInv /\ SpoolLimit
  BY DEF IInv, BaseInv
<1>1. PICK n \in 0..MaxFaults : n = faults' /\ n > 0
  BY DEF FaultsGrow
<1>2. /\ pc' = [a \in Actors |-> "idle"] /\ current' = [a \in Actors |-> {}] /\ todo' = <<>>
      /\ handler' = {IF h.since = 0 THEN [h EXCEPT !.since = n] ELSE h : h \in handler}
      /\ UNCHANGED <<collected, overlapped, cursor, marker, stored>>
  BY <1>1 DEF Abandon, backendVars
<1>3. /\ WorkComesFrom /\ OneHandler' /\ WorkGoesOn
      /\ \A h \in handler' : h \in Handler /\ h.since # 0
  BY <1>1, <1>2, LeaveAll
<1>4. happened \subseteq happened'
  BY DEF FaultsGrow
<1>5. BackendInv'
  BY <1>2, <1>3, <1>4, WorkBackend DEF WorkGoesOn, StartedGoesOn
<1>6. CalmInv'
  BY <1>2, <1>3, WorkCalm
<1>7. TypeOK'
  <2>1. /\ pc' \in [Actors -> {"idle", "replay", "replaying", "collect", "sending",
                               "trim", "check", "write"}]
        /\ current' \in [Actors -> SUBSET Batch] /\ todo' \in Seq(Batch)
    BY <1>2
  <2>2. handler' \subseteq Handler
    BY <1>3
  <2>3. /\ collected' \in Seq(Batch) /\ cursor' \in [Kinds -> 0..MaxBatch] /\ marker' \subseteq Marker
        /\ stored' \in [1..MaxBatch -> Nat] /\ overlapped' \subseteq Kinds
    BY <1>2 DEF TypeOK
  <2>4. down' \in BOOLEAN /\ faults' \in 0..MaxFaults /\ happened' \subseteq FaultKinds
    BY DEF FaultsGrow
  <2>. QED
    BY <2>1, <2>2, <2>3, <2>4 DEF TypeOK
<1>8. CollectedInv'
  BY <1>2 DEF CollectedInv
<1>9. SpoolLimit'
  <2>1. "loop" \in Actors /\ "prober" \in Actors
    BY DEF Actors
  <2>2. Writing("loop")' = 0 /\ Writing("prober")' = 0
    BY <1>2, <2>1 DEF Writing
  <2>3. Len(spool) \in Nat /\ Len(spool') \in Nat /\ MaxSpool \in Nat
        /\ Writing("loop") \in Nat /\ Writing("prober") \in Nat
    BY BoundsAssumption DEF TypeOK, Writing
  <2>. QED
    BY <2>2, <2>3 DEF SpoolLimit
<1>10. HoldInv'
  <2>1. \A h \in handler' : Known(h.batch)'
    <3>1. \A h \in handler : Known(h.batch)
      BY DEF HoldInv, CallInv
    <3>2. \A h \in handler' : Known(h.batch)
      BY <1>3, <3>1 DEF WorkComesFrom
    <3>3. \A b : Known(b)' <=> Known(b)
      BY <1>2 DEF Known
    <3>. QED
      BY <3>2, <3>3
  <2>2. \A a \in Actors : ActorInv(a)'
    BY <1>2 DEF ActorInv
  <2>3. \A b \in Range(spool') : Known(b)'
    BY <1>2 DEF HoldInv, Known
  <2>4. pc'["prober"] # "replaying"
    BY <1>2 DEF Actors
  <2>. QED
    BY <1>3, <2>1, <2>2, <2>3, <2>4 DEF HoldInv, CallInv
<1>11. NoBatchLost'
  <2>1. ASSUME NEW b, Carried(b) PROVE Carried(b)'
    <3>1. ASSUME NEW a \in Actors, b \in current[a] PROVE b \in Range(spool') \cup dropped'
      <4>1. pc[a] \in {"sending", "trim", "check", "write"} => b \in Unspooled
        BY <3>1 DEF Unspooled
      <4>2. pc[a] \notin {"sending", "trim", "check", "write"} => pc[a] = "replaying"
        BY <3>1 DEF HoldInv, ActorInv, TypeOK
      <4>3. pc[a] = "replaying" => b \in Range(spool) \cup dropped
        BY <3>1 DEF HoldInv, ActorInv
      <4>. QED
        BY <4>1, <4>2, <4>3
    <3>. QED
      BY <1>3, <2>1, <3>1 DEF Carried, Held, WorkGoesOn
  <2>. QED
    BY <1>2, <1>4, <1>7, <2>1, LostKept
<1>. QED
  BY <1>5, <1>6, <1>7, <1>8, <1>9, <1>10, <1>11 DEF IInv, BaseInv

LEMMA UnspooledType ==
    ASSUME TypeOK
    PROVE  Unspooled \subseteq Batch
  BY DEF TypeOK, Unspooled

(* Without an unsaved number the sequences go on where they were.          *)
LEMMA CrashStep ==
    ASSUME IInv, Crash
    PROVE  IInv'
<1>. TypeOK /\ CollectedInv /\ CalmInv
  BY DEF IInv, BaseInv
<1>1. /\ Fault("crash") /\ Abandon /\ dropped' = dropped \cup Unspooled /\ sequence' = saved
      /\ UNCHANGED <<spool, saved>>
  BY DEF Crash
<1>2. FaultsGrow /\ faults' > 0 /\ happened' = happened \cup {"crash"}
  BY <1>1, FaultType
<1>3. /\ spool' \in Seq(Batch) /\ Range(spool') \subseteq Range(spool) /\ Len(spool') <= Len(spool)
      /\ Range(spool) \subseteq Range(spool') \cup dropped'
  BY <1>1 DEF TypeOK
<1>4. dropped' \subseteq Batch /\ dropped \cup Unspooled \subseteq dropped'
  BY <1>1, UnspooledType DEF TypeOK
<1>5. /\ sequence' \in [Kinds -> 0..MaxBatch] /\ saved' \in [Kinds -> 0..MaxBatch]
      /\ \A k \in Kinds : sequence'[k] <= Len(collected) /\ saved'[k] <= Len(collected)
  BY <1>1 DEF TypeOK, CollectedInv
<1>6. Calm' => sequence' = sequence /\ ("unsaved" \notin happened' => saved' = sequence')
  <2> SUFFICES ASSUME Calm' PROVE sequence' = sequence
    BY <1>1
  <2>1. "unsaved" \notin happened /\ Calm
    BY <1>2 DEF Calm
  <2>. QED
    BY <1>1, <2>1 DEF CalmInv, OrderInv
<1>. QED
  BY <1>1, <1>2, <1>3, <1>4, <1>5, <1>6, AbandonStep

LEMMA ResetStateStep ==
    ASSUME IInv, ResetState
    PROVE  IInv'
<1>. TypeOK /\ CollectedInv
  BY DEF IInv, BaseInv
<1>1. /\ Fault("reset") /\ Abandon /\ spool' \in {spool, <<>>}
      /\ dropped' = dropped \cup Unspooled \cup (Range(spool) \ Range(spool'))
      /\ sequence' = [k \in Kinds |-> 0] /\ saved' = [k \in Kinds |-> 0]
  BY DEF ResetState
<1>2. FaultsGrow /\ faults' > 0 /\ happened' = happened \cup {"reset"}
  BY <1>1, FaultType
<1>3. /\ spool' \in Seq(Batch) /\ Range(spool') \subseteq Range(spool) /\ Len(spool') <= Len(spool)
      /\ Range(spool) \subseteq Batch
  <2>1. spool \in Seq(Batch) /\ Len(spool) \in Nat
    BY DEF TypeOK
  <2>2. Range(spool) \subseteq Batch
    BY <2>1, RangeSpool
  <2>3. <<>> \in Seq(Batch) /\ Len(<<>>) = 0 /\ Range(<<>>) = {}
    BY DEF Range
  <2>4. CASE spool' = spool
    BY <2>1, <2>2, <2>4
  <2>5. CASE spool' = <<>>
    BY <2>1, <2>2, <2>3, <2>5
  <2>. QED
    BY <1>1, <2>4, <2>5
<1>4. /\ dropped' \subseteq Batch /\ dropped \cup Unspooled \subseteq dropped'
      /\ Range(spool) \subseteq Range(spool') \cup dropped'
  BY <1>1, <1>3, UnspooledType DEF TypeOK
<1>5. /\ sequence' \in [Kinds -> 0..MaxBatch] /\ saved' \in [Kinds -> 0..MaxBatch]
      /\ \A k \in Kinds : sequence'[k] <= Len(collected) /\ saved'[k] <= Len(collected)
  BY <1>1, BoundsAssumption, CollectedLength
<1>6. ~Calm'
  BY <1>2 DEF Calm
<1>. QED
  BY <1>1, <1>2, <1>3, <1>4, <1>5, <1>6, AbandonStep

-----------------------------------------------------------------------------
(* Nothing but the faults changes.                                         *)
LEMMA FaultOnly ==
    ASSUME IInv, FaultsGrow, UNCHANGED <<monitorVars, handler, overlapped, backendVars>>
    PROVE  IInv'
<1>. /\ BaseInv /\ BackendInv /\ CalmInv /\ NoBatchLost
     /\ TypeOK /\ CollectedInv /\ HoldInv /\ SpoolLimit
  BY DEF IInv, BaseInv
<1>1. UNCHANGED <<pc, current, todo, spool, sequence, saved, collected, dropped, handler,
                  overlapped, cursor, marker, stored>> /\ happened \subseteq happened'
  BY DEF monitorVars, backendVars, FaultsGrow
<1>2. TypeOK'
  BY <1>1 DEF TypeOK, FaultsGrow
<1>3. CollectedInv' /\ SpoolLimit'
  BY <1>1 DEF CollectedInv, SpoolLimit, Writing
<1>4. HoldInv'
  BY <1>1 DEF HoldInv, ActorInv, CallInv, Known
<1>5. BackendInv' /\ CalmInv'
  BY <1>1, BackendKept, CalmKept
<1>6. \A b : Carried(b) => Carried(b)'
  BY <1>1 DEF Carried, Held
<1>7. NoBatchLost'
  BY <1>1, <1>2, <1>6, LostKept
<1>. QED
  BY <1>2, <1>3, <1>4, <1>5, <1>7 DEF IInv, BaseInv

LEMMA OutageStep ==
    ASSUME IInv, Outage \/ OutageEnds
    PROVE  IInv'
<1>1. CASE Outage
  BY <1>1, FaultType, FaultOnly DEF Outage, IInv, BaseInv
<1>2. CASE OutageEnds
  <2>1. FaultsGrow
    BY <1>2 DEF OutageEnds, FaultsGrow, IInv, BaseInv, TypeOK
  <2>. QED
    BY <1>2, <2>1, FaultOnly DEF OutageEnds
<1>. QED
  BY <1>1, <1>2

LEMMA HandlerDiesStep ==
    ASSUME IInv, NEW h \in handler, HandlerDies(h)
    PROVE  IInv'
<1>. /\ BaseInv /\ BackendInv /\ CalmInv /\ NoBatchLost
     /\ TypeOK /\ CollectedInv /\ HoldInv /\ SpoolLimit
  BY DEF IInv, BaseInv
<1>1. /\ Fault("died") /\ handler' = handler \ {h} /\ UNCHANGED overlapped
      /\ UNCHANGED <<pc, current, todo, spool, sequence, saved, collected, dropped>>
      /\ UNCHANGED <<cursor, marker, stored>>
  BY DEF HandlerDies, monitorVars, backendVars
<1>2. FaultsGrow /\ "died" \in happened' /\ happened \subseteq happened'
  BY <1>1, FaultType DEF FaultsGrow
<1>3. WorkComesFrom /\ OneHandler'
  BY <1>1, DropOne
<1>4. BackendInv'
  BY <1>1, <1>2, <1>3, WorkBackend
<1>5. ~Calm'
  BY <1>2 DEF Calm
<1>6. CalmInv'
  BY <1>5 DEF CalmInv
<1>7. TypeOK'
  BY <1>1, <1>2 DEF TypeOK, FaultsGrow
<1>8. CollectedInv' /\ SpoolLimit'
  BY <1>1 DEF CollectedInv, SpoolLimit, Writing
<1>9. HoldInv'
  BY <1>1 DEF HoldInv, ActorInv, CallInv, Known
<1>10. NoBatchLost'
  <2>1. \A i \in 1..Len(collected) : Excused(i)'
    BY <1>2 DEF Excused
  <2>. QED
    BY <1>1, <1>2, <1>7, <2>1, LostKept
<1>. QED
  BY <1>4, <1>6, <1>7, <1>8, <1>9, <1>10 DEF IInv, BaseInv

-----------------------------------------------------------------------------
(* A sender hears of its call, or gives up on it.                          *)
BackendTyped ==
    cursor' \in [Kinds -> 0..MaxBatch] /\ marker' \subseteq Marker /\ stored' \in [1..MaxBatch -> Nat]

LEMMA SenderBase ==
    ASSUME BaseInv, NEW h \in handler, h.since = 0,
           NEW label \in {"idle", "replay", "collect", "trim"}, pc' = [pc EXCEPT ![h.by] = label],
           NEW cur, current' = [current EXCEPT ![h.by] = cur],
           cur = {} \/ (cur = current[h.by] /\ label = "trim"),
           todo' \in Seq(Batch), spool' \in Seq(Batch), Len(spool') <= Len(spool),
           Range(spool') \subseteq Range(spool), UNCHANGED spool \/ h.by = "loop",
           UNCHANGED <<dropped, sequence, saved, collected, overlapped>>,
           handler' \subseteq (handler \ {h}) \cup {g \in Handler : g.since # 0 /\ g.batch = h.batch},
           FaultsGrow, BackendTyped, CollectedInv'
    PROVE  BaseInv'
<1>. TypeOK /\ SpoolLimit /\ HoldInv
  BY DEF BaseInv
<1>1. PICK a \in Actors : a = h.by
  BY HandlerType
<1>2. pc \in [Actors -> Labels] /\ current \in [Actors -> SUBSET Batch] /\ label \in Labels /\ label # "write"
  BY DEF TypeOK, Labels
<1>3. CallInv(h) /\ current[a] = {h.batch} /\ h.batch \in Batch /\ Known(h.batch)
  BY <1>1, HandlerType DEF HoldInv, CallInv
<1>4. cur \subseteq current[a]
  BY <1>1
<1>5. /\ pc' \in [Actors -> Labels] /\ current' \in [Actors -> SUBSET Batch]
      /\ pc'[a] = label /\ current'[a] = cur /\ OthersStay(a)
  BY <1>1, <1>2, <1>4 DEF OthersStay
<1>6. handler' \subseteq Handler
  BY DEF TypeOK
<1>7. TypeOK'
  BY <1>5, <1>6 DEF TypeOK, Labels, FaultsGrow, BackendTyped
<1>8. SpoolLimit'
  BY <1>1, <1>2, LimitKept
<1>9. \A b : Known(b) => Known(b)'
  BY DEF Known
<1>10. ASSUME NEW c \in Actors PROVE ActorInv(c)'
  <2>1. CASE c = a
    BY <1>1, <1>3, <1>4, <1>5, <1>9, <2>1 DEF ActorInv
  <2>2. CASE c # a
    <3>1. pc'[c] = pc[c] /\ current'[c] = current[c] /\ ActorInv(c)
      BY <1>5, <2>2 DEF OthersStay, HoldInv
    <3>2. pc[c] = "replaying" => UNCHANGED spool
      BY <1>1, <2>2 DEF HoldInv, Actors
    <3>. QED
      BY <1>9, <3>1, <3>2 DEF ActorInv
  <2>. QED
    BY <2>1, <2>2
<1>11. \A b \in Range(spool') : Known(b)'
  BY <1>9 DEF HoldInv
<1>12. ASSUME NEW g \in handler' PROVE CallInv(g)' /\ (g.since = 0 => g \in handler /\ g.by # a)
  <2>1. CASE g \in handler \ {h}
    <3>1. CallInv(g) /\ g.by \in Actors
      BY <2>1, HandlerType DEF HoldInv
    <3>2. g.since = 0 => g.by # a
      BY <1>1, <2>1 DEF HoldInv
    <3>3. g.since = 0 => pc'[g.by] = pc[g.by] /\ current'[g.by] = current[g.by]
      BY <1>5, <3>1, <3>2 DEF OthersStay
    <3>. QED
      BY <1>9, <2>1, <3>1, <3>2, <3>3 DEF CallInv
  <2>2. CASE g.since # 0 /\ g.batch = h.batch
    BY <1>3, <1>9, <2>2 DEF CallInv
  <2>. QED
    BY <2>1, <2>2
<1>13. pc'["prober"] # "replaying"
  BY <1>5 DEF HoldInv, OthersStay, Actors
<1>14. HoldInv'
  BY <1>10, <1>11, <1>12, <1>13 DEF HoldInv
<1>. QED
  BY <1>7, <1>8, <1>14 DEF BaseInv

(* GiveUp: the batch stays with the actor, or it is one of the spool.      *)
LEMMA GiveUpHolds ==
    ASSUME BaseInv, NEW h \in handler, h.since = 0, GiveUp(h.by),
           handler' \subseteq (handler \ {h}) \cup {g \in Handler : g.since # 0 /\ g.batch = h.batch},
           FaultsGrow, UNCHANGED <<cursor, marker, stored, overlapped>>
    PROVE  BaseInv' /\ \A b : Held(b) => Held(b)'
<1>. TypeOK /\ CollectedInv /\ HoldInv
  BY DEF BaseInv
<1>1. PICK a \in Actors : a = h.by
  BY HandlerType
<1>2. /\ UNCHANGED <<spool, sequence, saved, collected, dropped>> /\ spool' \in Seq(Batch)
      /\ Len(spool') <= Len(spool) /\ Range(spool') \subseteq Range(spool)
  BY DEF GiveUp, TypeOK
<1>3. BackendTyped /\ CollectedInv'
  BY <1>2 DEF BackendTyped, CollectedInv, TypeOK
<1>4. CASE pc[a] = "replaying"
  <2>1. pc' = [pc EXCEPT ![h.by] = "collect"] /\ current' = [current EXCEPT ![h.by] = {}] /\ todo' = <<>>
    BY <1>1, <1>4 DEF GiveUp
  <2>2. todo' \in Seq(Batch)
    BY <2>1
  <2>3. BaseInv'
    BY <1>2, <1>3, <2>1, <2>2, SenderBase
  <2>4. current[a] \subseteq Range(spool) \cup dropped
    BY <1>4 DEF HoldInv, ActorInv
  <2>5. \A c \in Actors : current'[c] = IF c = a THEN {} ELSE current[c]
    BY <1>1, <2>1 DEF TypeOK
  <2>. QED
    BY <1>2, <2>3, <2>4, <2>5 DEF Held
<1>5. CASE pc[a] # "replaying"
  <2>1. pc' = [pc EXCEPT ![h.by] = "trim"] /\ UNCHANGED <<current, todo>>
    BY <1>1, <1>5 DEF GiveUp
  <2>2. todo' \in Seq(Batch)
    BY <2>1 DEF TypeOK
  <2>3. current' = [current EXCEPT ![h.by] = current[h.by]]
    BY <1>1, <2>1, CurrentSame
  <2>4. BaseInv'
    BY <1>2, <1>3, <2>1, <2>2, <2>3, SenderBase
  <2>. QED
    BY <1>2, <2>1, <2>4 DEF Held
<1>. QED
  BY <1>4, <1>5

LEMMA CallFailsStep ==
    ASSUME IInv, NEW h \in handler, CallFails(h)
    PROVE  IInv'
<1>. BaseInv /\ BackendInv /\ CalmInv /\ NoBatchLost /\ TypeOK /\ HoldInv
  BY DEF IInv, BaseInv
<1>1. /\ h.since = 0 /\ GiveUp(h.by) /\ UNCHANGED <<cursor, marker, stored, overlapped>>
      /\ UNCHANGED <<sequence, saved, collected, dropped>>
  BY DEF CallFails, GiveUp, backendVars
<1>2. CallInv(h) /\ h.batch \in current[h.by] /\ h.by \in Actors
  BY <1>1, HandlerType DEF HoldInv, CallInv
<1>3. Held(h.batch)
  BY <1>2 DEF Held
<1>4. ASSUME FaultsGrow, WorkComesFrom, OneHandler', StartedGoesOn \/ "died" \in happened',
             WorkGoesOn \/ ~Calm',
             handler' \subseteq (handler \ {h}) \cup {g \in Handler : g.since # 0 /\ g.batch = h.batch},
             handler \ {h} \subseteq handler'
      PROVE  IInv'
  <2>1. BaseInv' /\ \A b : Held(b) => Held(b)'
    BY <1>1, <1>4, GiveUpHolds
  <2>2. happened \subseteq happened'
    BY <1>4 DEF FaultsGrow
  <2>3. BackendInv'
    BY <1>1, <1>4, <2>2, WorkBackend
  <2>4. Calm' => ("unsaved" \notin happened' => saved' = sequence')
    BY <1>1, <2>2, CalmBefore DEF CalmInv, OrderInv
  <2>5. CalmInv'
    BY <1>1, <1>4, <2>4, WorkCalm
  <2>6. \A b : Carried(b) => Carried(b)'
    BY <1>3, <1>4, <2>1 DEF Carried
  <2>7. NoBatchLost'
    BY <1>1, <2>1, <2>2, <2>6, LostKept DEF BaseInv
  <2>. QED
    BY <2>1, <2>3, <2>5, <2>7 DEF IInv
<1>5. CASE h.pc = "find" /\ down /\ handler' = handler \ {h} /\ UNCHANGED faultVars
  <2>1. FaultsGrow
    BY <1>5, NoFault
  <2>2. WorkComesFrom /\ OneHandler' /\ StartedGoesOn
    BY <1>1, <1>5, DropOne
  <2>3. ~Calm'
    BY <1>5 DEF CalmInv, OrderInv, Calm, faultVars
  <2>. QED
    BY <1>4, <1>5, <2>1, <2>2, <2>3
<1>6. CASE Fault("died") /\ handler' = handler \ {h}
  <2>1. FaultsGrow /\ "died" \in happened'
    BY <1>6, FaultType
  <2>2. WorkComesFrom /\ OneHandler'
    BY <1>1, <1>6, DropOne
  <2>3. ~Calm'
    BY <2>1 DEF Calm
  <2>. QED
    BY <1>4, <1>6, <2>1, <2>2, <2>3
<1>7. CASE Fault("timeout") /\ handler' = (handler \ {h}) \cup {[h EXCEPT !.since = faults']}
  <2>1. FaultsGrow /\ faults' > 0
    BY <1>7, FaultType
  <2>2. PICK n \in 0..MaxFaults : n = faults' /\ n > 0
    BY <2>1 DEF FaultsGrow
  <2>3. handler' = (handler \ {h}) \cup {[h EXCEPT !.since = n]}
    BY <1>7, <2>2
  <2>4. WorkComesFrom /\ OneHandler' /\ WorkGoesOn
    BY <1>1, <2>3, LeaveOne
  <2>5. [h EXCEPT !.since = n] \in {g \in Handler : g.since # 0 /\ g.batch = h.batch}
    <3> DEFINE left == [h EXCEPT !.since = n]
    <3>1. left \in Handler /\ left.batch = h.batch /\ left.since = n
      BY HandlerType, HandlerLeft
    <3>. HIDE DEF left
    <3>2. left \in {g \in Handler : g.since # 0 /\ g.batch = h.batch}
      BY <2>2, <3>1
    <3>. QED
      BY <3>2 DEF left
  <2>6. StartedGoesOn
    BY <2>4 DEF StartedGoesOn, WorkGoesOn
  <2>. QED
    BY <1>4, <2>1, <2>3, <2>4, <2>5, <2>6
<1>. QED
  BY <1>5, <1>6, <1>7 DEF CallFails

-----------------------------------------------------------------------------
(* One handler goes on, as the call in new, or ends.  It changes cursor,   *)
(* markers and entries of its own kind only.                               *)
HandlerWorks(h, new) ==
    /\ handler' = (handler \ {h}) \cup new
    /\ \A g \in new : g.batch = h.batch
    /\ \A f, g \in new : f = g
    /\ UNCHANGED <<collected, overlapped, happened>>
    /\ \A i \in 1..MaxBatch : stored[i] <= stored'[i] /\ (i # h.batch.id => stored'[i] = stored[i])
    /\ \A k \in Kinds : k # h.batch.kind => cursor'[k] = cursor[k]
    /\ \/ cursor'[h.batch.kind] = cursor[h.batch.kind]
       \/ cursor'[h.batch.kind] = h.batch.seq /\ \E g \in new : g.pc \in PastCursor
    /\ \A m \in Marker : m.kind # h.batch.kind => (m \in marker' <=> m \in marker)
    /\ \A m \in marker' : m \in marker \/ (m = MarkerOf(h.batch.id) /\ \E g \in new : g.pc = "store")

LEMMA CallKnown ==
    ASSUME BaseInv, NEW h \in handler
    PROVE  /\ h.batch.id \in 1..Len(collected) /\ collected[h.batch.id] = h.batch
           /\ h.batch.id \in 1..MaxBatch /\ h.batch.kind \in Kinds /\ h.batch.seq \in 1..MaxBatch
           /\ 1..Len(collected) \subseteq 1..MaxBatch
<1>1. Known(h.batch) /\ Len(collected) <= MaxBatch
  BY DEF BaseInv, HoldInv, CallInv, CollectedInv
<1>2. TypeOK /\ Len(collected) \in Nat
  BY DEF BaseInv, TypeOK
<1>. QED
  BY <1>1, <1>2, HandlerType, BoundsAssumption DEF Known

(* A kind without overlapping calls has no other handler for the batch.    *)
LEMMA SameBatch ==
    ASSUME BaseInv, BackendInv, NEW g \in handler, NEW h \in handler, g.batch.id = h.batch.id,
           Alone(h.batch.kind)
    PROVE  g = h
<1>1. g.batch = h.batch
  BY CallKnown
<1>. QED
  BY <1>1 DEF BackendInv, OneHandler

LEMMA HandlerBackend ==
    ASSUME BaseInv, BackendInv, BackendTyped, NEW h \in handler, NEW new, HandlerWorks(h, new),
           Alone(h.batch.kind) => \A g \in new : PlaceInv(g)',
           h.pc = "store" => stored'[h.batch.id] > 0,
           h.pc \in PastCursor =>
               (\E g \in new : g.pc \in PastCursor) \/ stored'[h.batch.id] > 0 \/ Excused(h.batch.id)
    PROVE  BackendInv'
<1> DEFINE id == h.batch.id
           kind == h.batch.kind
<1>. TypeOK /\ CollectedInv
  BY DEF BaseInv
<1>1. /\ id \in 1..Len(collected) /\ collected[id] = h.batch /\ kind \in Kinds
      /\ id \in 1..MaxBatch /\ 1..Len(collected) \subseteq 1..MaxBatch
  BY CallKnown
<1>2. /\ handler' = (handler \ {h}) \cup new /\ \A g \in new : g.batch = h.batch
      /\ UNCHANGED <<collected, overlapped, happened>>
  BY DEF HandlerWorks
<1>3. \A i \in 1..Len(collected) : stored[i] > 0 => stored'[i] > 0
  <2>1. \A i \in 1..MaxBatch : stored[i] \in Nat /\ stored'[i] \in Nat
    BY DEF TypeOK, BackendTyped
  <2>2. \A i \in 1..MaxBatch : stored[i] <= stored'[i]
    BY DEF HandlerWorks
  <2>. QED
    BY <1>1, <2>1, <2>2
<1>4. \A k : Alone(k)' <=> Alone(k)
  BY <1>2 DEF Alone
<1>5. OneHandler'
  BY <1>2, <1>4 DEF HandlerWorks, BackendInv, OneHandler
<1>6. ASSUME NEW k \in Kinds PROVE CursorSource(k)'
  <2>1. CASE cursor'[k] = cursor[k]
    BY <1>2, <2>1 DEF BackendInv, CursorSource
  <2>2. CASE k = kind /\ cursor'[k] = h.batch.seq
    BY <1>1, <1>2, <2>2 DEF CursorSource
  <2>. QED
    BY <2>1, <2>2 DEF HandlerWorks
<1>7. ASSUME NEW f \in handler', Alone(f.batch.kind)' PROVE PlaceInv(f)'
  <2>1. CASE f \in new
    BY <1>2, <1>4, <1>7, <2>1
  <2>2. CASE f \in handler \ {h}
    <3>1. f.batch.kind # kind /\ f.batch.kind \in Kinds /\ PlaceInv(f)
      BY <1>4, <1>7, <2>2 DEF BackendInv, OneHandler, Alone
    <3>2. cursor'[f.batch.kind] = cursor[f.batch.kind]
      BY <3>1 DEF HandlerWorks
    <3>3. \A m \in Marker : m.kind = f.batch.kind => (m \in marker' <=> m \in marker)
      BY <3>1 DEF HandlerWorks
    <3>4. Clash(f.batch)' = Clash(f.batch)
      BY <3>3 DEF Clash, TypeOK, BackendTyped
    <3>. QED
      BY <3>1, <3>2, <3>4 DEF PlaceInv
  <2>. QED
    BY <1>2, <2>1, <2>2
<1>8. ASSUME NEW m \in marker' PROVE MarkerInv(m)'
  <2>1. CASE m \in marker
    <3>1. MarkerInv(m) /\ m.id \in 1..Len(collected)
      BY <2>1 DEF BackendInv, MarkerInv
    <3>2. ASSUME NEW f \in handler, f.batch.id = m.id, f.pc = "store"
          PROVE  stored'[m.id] > 0 \/ Stores(m.id)'
      BY <1>2, <3>2 DEF Stores
    <3>3. Stores(m.id) => stored'[m.id] > 0 \/ Stores(m.id)'
      BY <3>2 DEF Stores
    <3>. QED
      BY <1>2, <1>3, <3>1, <3>3 DEF MarkerInv
  <2>2. CASE m = MarkerOf(id) /\ \E g \in new : g.pc = "store"
    <3>1. m.id = id /\ m.kind = collected[id].kind /\ m.seq = collected[id].seq
      BY <2>2 DEF MarkerOf
    <3>2. Stores(id)'
      BY <1>2, <2>2 DEF Stores
    <3>. QED
      BY <1>1, <1>2, <3>1, <3>2 DEF MarkerInv
  <2>. QED
    BY <2>1, <2>2 DEF HandlerWorks
<1>9. ASSUME NEW i \in 1..Len(collected') PROVE CursorInv(i)'
  <2>1. CursorInv(i) /\ (Excused(i)' <=> Excused(i)) /\ collected'[i] = collected[i]
        /\ i \in 1..Len(collected)
    BY <1>2 DEF BackendInv, Excused
  <2>2. collected[i].kind \in Kinds /\ collected[i].id = i
    BY <2>1, CollectedLength DEF CollectedInv, Batch
  <2>3. CASE collected[i].kind # kind
    <3>1. cursor'[collected[i].kind] = cursor[collected[i].kind]
      BY <2>2, <2>3 DEF HandlerWorks
    <3>2. \A f \in handler : f.batch = collected[i] => f \in handler'
      BY <1>2, <2>3
    <3>. QED
      BY <1>3, <2>1, <3>1, <3>2 DEF CursorInv
  <2>4. CASE collected[i].kind = kind /\ cursor'[kind] = cursor[kind]
    <3>1. ASSUME NEW f \in handler, f.batch = collected[i], f.pc \in PastCursor
          PROVE  CursorInv(i)'
      <4>1. CASE f = h
        <5>1. i = id
          BY <2>2, <3>1, <4>1
        <5>. QED
          BY <1>1, <1>2, <2>1, <3>1, <4>1, <5>1 DEF CursorInv
      <4>2. CASE f # h
        BY <1>2, <3>1, <4>2 DEF CursorInv
      <4>. QED
        BY <4>1, <4>2
    <3>. QED
      BY <1>3, <2>1, <2>4, <3>1 DEF CursorInv
  <2>5. CASE /\ collected[i].kind = kind /\ cursor'[kind] = h.batch.seq
             /\ \E g \in new : g.pc \in PastCursor
    <3>1. CASE i = id
      BY <1>1, <1>2, <2>1, <2>5, <3>1 DEF CursorInv
    <3>2. CASE i # id
      <4>1. collected[i].seq = h.batch.seq => Excused(i)
        BY <1>1, <2>5, <3>2 DEF Excused
      <4>. QED
        BY <2>1, <2>5, <4>1 DEF CursorInv
    <3>. QED
      BY <3>1, <3>2
  <2>. QED
    BY <2>3, <2>4, <2>5 DEF HandlerWorks
<1>. QED
  BY <1>2, <1>5, <1>6, <1>7, <1>8, <1>9 DEF BackendInv

(* In calm, the other batches stay as they are.                            *)
LEMMA HandlerCalm ==
    ASSUME BaseInv, BackendInv, CalmInv, BackendTyped, NEW h \in handler, NEW new, HandlerWorks(h, new),
           UNCHANGED <<sequence, saved, down>>,
           Calm /\ Alone(h.batch.kind) =>
               marker \subseteq marker' /\ (Done(h.batch.id) \/ First(h.batch.id))'
    PROVE  CalmInv'
<1> DEFINE id == h.batch.id
           kind == h.batch.kind
<1> SUFFICES ASSUME Calm'
             PROVE  /\ OrderInv'
                    /\ \A i \in 1..Len(collected') : Alone(collected[i].kind)' => (Done(i) \/ First(i))'
  BY DEF CalmInv
<1>. TypeOK /\ CollectedInv
  BY DEF BaseInv
<1>1. /\ id \in 1..Len(collected) /\ collected[id] = h.batch /\ kind \in Kinds /\ h.batch.seq \in Nat
      /\ id \in 1..MaxBatch /\ 1..Len(collected) \subseteq 1..MaxBatch
  BY CallKnown
<1>2. /\ handler' = (handler \ {h}) \cup new /\ \A g \in new : g.batch = h.batch
      /\ UNCHANGED <<collected, overlapped, happened>>
  BY DEF HandlerWorks
<1>3. Calm /\ OrderInv /\ \A k : Alone(k)' <=> Alone(k)
  BY <1>2 DEF Calm, CalmInv, Alone
<1>4. OrderInv'
  <2>1. \A k \in Kinds : cursor'[k] \in {cursor[k], h.batch.seq} /\ (k # kind => cursor'[k] = cursor[k])
    BY DEF HandlerWorks
  <2>2. h.batch.seq <= sequence[kind]
    BY <1>1, <1>3 DEF OrderInv
  <2>3. \A k \in Kinds : cursor'[k] <= sequence'[k]
    BY <1>3, <2>1, <2>2 DEF OrderInv
  <2>. QED
    BY <1>2, <1>3, <2>3 DEF OrderInv
<1>5. ASSUME NEW i \in 1..Len(collected'), Alone(collected[i].kind)' PROVE Done(i)' \/ First(i)'
  <2>1. CASE i = id
    BY <1>1, <1>2, <1>3, <1>5, <2>1
  <2>2. CASE i # id
    <3>1. /\ Done(i) \/ First(i)
          /\ i \in 1..Len(collected) /\ i \in 1..MaxBatch /\ collected'[i] = collected[i]
          /\ collected[i].kind \in Kinds /\ collected[i].seq \in 1..MaxBatch /\ collected[i].id = i
      BY <1>1, <1>2, <1>3, <1>5, CollectedLength DEF CalmInv, CollectedInv, Batch
    <3>2. stored'[i] = stored[i] /\ MarkerOf(i)' = MarkerOf(i) /\ MarkerOf(i) \in Marker
          /\ MarkerOf(i).kind = collected[i].kind
      BY <1>2, <2>2, <3>1 DEF HandlerWorks, MarkerOf, Marker
    <3>3. \A f \in handler' : f.batch.id = i => f \in handler
      BY <1>2, <2>2
    <3>4. \A m \in marker' : m.id = i => m \in marker
      BY <2>2 DEF HandlerWorks, MarkerOf
    <3>5. CASE Done(i)
      <4>1. MarkerOf(i) \in marker
        BY <3>5 DEF Done
      <4>2. MarkerOf(i) \in marker'
        <5>1. CASE collected[i].kind # kind
          BY <3>2, <4>1, <5>1 DEF HandlerWorks
        <5>2. CASE collected[i].kind = kind
          BY <1>2, <1>3, <1>5, <4>1, <5>2
        <5>. QED
          BY <5>1, <5>2
      <4>. QED
        BY <3>2, <3>3, <3>5, <4>2 DEF Done
    <3>6. CASE First(i)
      <4>1. PICK f \in handler :
              /\ f.batch = collected[i]
              /\ f.pc \in {"find", "advance", "restart", "create", "insert", "store"}
              /\ f.pc \in {"find", "advance"} => cursor[f.batch.kind] < f.batch.seq
              /\ f.pc \in {"restart", "create"} => cursor[f.batch.kind] = 0
              /\ IF f.pc = "store" THEN MarkerOf(i) \in marker ELSE \A m \in marker : m.id # i
        BY <3>6 DEF First
      <4>2. f # h /\ f \in handler'
        BY <1>2, <2>2, <3>1, <4>1
      <4>3. collected[i].kind # kind
        BY <1>2, <1>3, <1>5, <4>1, <4>2 DEF BackendInv, OneHandler
      <4>4. cursor'[f.batch.kind] = cursor[f.batch.kind]
        BY <3>1, <4>1, <4>3 DEF HandlerWorks
      <4>5. MarkerOf(i) \in marker => MarkerOf(i) \in marker'
        BY <3>2, <4>3 DEF HandlerWorks
      <4>6. IF f.pc = "store" THEN MarkerOf(i)' \in marker' ELSE \A m \in marker' : m.id # i
        BY <3>2, <3>4, <4>1, <4>5
      <4>7. f.batch = collected'[i] /\ stored'[i] = 0
        BY <3>1, <3>2, <3>6, <4>1 DEF First
      <4>. QED
        BY <4>1, <4>2, <4>4, <4>6, <4>7 DEF First
    <3>. QED
      BY <3>1, <3>5, <3>6
  <2>. QED
    BY <2>1, <2>2
<1>. QED
  BY <1>4, <1>5

LEMMA HandlerLost ==
    ASSUME BaseInv, TypeOK', NoBatchLost, NEW h \in handler, NEW new, HandlerWorks(h, new),
           \A b : b # h.batch /\ Held(b) => Held(b)',
           new # {} \/ stored'[h.batch.id] > 0 \/ Excused(h.batch.id)
    PROVE  NoBatchLost'
<1>. TypeOK /\ CollectedInv
  BY DEF BaseInv
<1>1. /\ handler' = (handler \ {h}) \cup new /\ \A g \in new : g.batch = h.batch
      /\ UNCHANGED <<collected, overlapped, happened>>
  BY DEF HandlerWorks
<1>2. current \in [Actors -> SUBSET Batch] /\ current' \in [Actors -> SUBSET Batch]
  BY DEF TypeOK
<1>3. ASSUME NEW i \in 1..Len(collected')
      PROVE  stored'[i] > 0 \/ Carried(collected[i])' \/ Excused(i)'
  <2>1. /\ stored[i] > 0 \/ Carried(collected[i]) \/ Excused(i)
        /\ (Excused(i)' <=> Excused(i)) /\ collected[i].id = i /\ i \in 1..MaxBatch
    BY <1>1, <1>2, LostMeans, CallKnown DEF Excused, CollectedInv
  <2>2. stored[i] > 0 => stored'[i] > 0
    <3>1. stored[i] \in Nat /\ stored'[i] \in Nat
      BY <2>1 DEF TypeOK
    <3>2. stored[i] <= stored'[i]
      BY <2>1 DEF HandlerWorks
    <3>. QED
      BY <3>1, <3>2
  <2>3. CASE collected[i] = h.batch
    <3>1. new # {} => Carried(collected[i])'
      BY <1>1, <2>3 DEF Carried
    <3>. QED
      BY <2>1, <2>3, <3>1
  <2>4. CASE collected[i] # h.batch
    <3>1. Carried(collected[i]) => Carried(collected[i])'
      BY <1>1, <2>4 DEF Carried
    <3>. QED
      BY <2>1, <2>2, <3>1
  <2>. QED
    BY <2>3, <2>4
<1>. QED
  BY <1>2, <1>3, LostMeansNext

-----------------------------------------------------------------------------
(* A handler goes on, and the monitor does not notice.                     *)
HandlerLabels == {"find", "advance", "restart", "create", "retry", "purge",
                  "insert", "collide", "repurge", "reinsert", "store"}

LEMMA WorkBase ==
    ASSUME BaseInv, NEW h \in handler, NEW new, UNCHANGED <<monitorVars, overlapped, faultVars>>,
           handler' = (handler \ {h}) \cup new,
           \A g \in new : g \in Handler /\ g.batch = h.batch /\ g.by = h.by /\ g.since = h.since,
           \A f, g \in new : f = g, BackendTyped, CollectedInv'
    PROVE  BaseInv'
<1>. TypeOK /\ SpoolLimit /\ HoldInv
  BY DEF BaseInv
<1>1. UNCHANGED <<pc, current, todo, spool, sequence, saved, collected, dropped, overlapped,
                  faults, happened, down>>
  BY DEF monitorVars, faultVars
<1>2. TypeOK'
  BY <1>1 DEF TypeOK, BackendTyped
<1>3. SpoolLimit'
  BY <1>1 DEF SpoolLimit, Writing
<1>4. \A a \in Actors : ActorInv(a)'
  BY <1>1 DEF HoldInv, ActorInv, Known
<1>5. \A b \in Range(spool') : Known(b)'
  BY <1>1 DEF HoldInv, Known
<1>6. \A g \in handler' : CallInv(g)'
  <2>1. \A g \in handler' : \E f \in handler : g.batch = f.batch /\ g.by = f.by /\ g.since = f.since
    OBVIOUS
  <2>2. \A f \in handler : CallInv(f)
    BY DEF HoldInv
  <2>3. \A b : Known(b)' <=> Known(b)
    BY <1>1 DEF Known
  <2>. QED
    BY <1>1, <2>1, <2>2, <2>3 DEF CallInv
<1>7. \A f, g \in handler' : f.since = 0 /\ g.since = 0 /\ f.by = g.by => f = g
  BY DEF HoldInv
<1>8. pc'["prober"] # "replaying"
  BY <1>1 DEF HoldInv
<1>. QED
  BY <1>2, <1>3, <1>4, <1>5, <1>6, <1>7, <1>8 DEF BaseInv, HoldInv

LEMMA GotoStep ==
    ASSUME IInv, NEW h \in handler, NEW g \in Handler,
           g.batch = h.batch, g.by = h.by, g.since = h.since,
           UNCHANGED <<monitorVars, overlapped, faultVars>>, HandlerWorks(h, {g}),
           BackendTyped, UNCHANGED stored, Alone(h.batch.kind) => PlaceInv(g)',
           h.pc # "store", h.pc \in PastCursor => g.pc \in PastCursor,
           Calm /\ Alone(h.batch.kind) =>
               marker \subseteq marker' /\ (Done(h.batch.id) \/ First(h.batch.id))'
    PROVE  IInv'
<1>. BaseInv /\ BackendInv /\ CalmInv /\ NoBatchLost /\ TypeOK /\ CollectedInv
  BY DEF IInv, BaseInv
<1>1. handler' = (handler \ {h}) \cup {g}
  BY DEF HandlerWorks
<1>2. UNCHANGED <<collected, sequence, saved, down, spool, dropped, current>>
  BY DEF monitorVars, faultVars
<1>3. CollectedInv'
  BY <1>2 DEF CollectedInv
<1>4. BaseInv'
  <2>1. \A f \in {g} : f \in Handler /\ f.batch = h.batch /\ f.by = h.by /\ f.since = h.since
    OBVIOUS
  <2>2. \A e, f \in {g} : e = f
    OBVIOUS
  <2>. QED
    BY <1>1, <1>3, <2>1, <2>2, WorkBase
<1>5. BackendInv'
  BY HandlerBackend
<1>6. CalmInv'
  BY <1>2, HandlerCalm
<1>7. \A b : Held(b) => Held(b)'
  BY <1>2 DEF Held
<1>8. NoBatchLost'
  BY <1>4, <1>7, HandlerLost DEF BaseInv
<1>. QED
  BY <1>4, <1>5, <1>6, <1>8 DEF IInv

(* A handler answers: its batch is stored, or its loss excused.            *)
LEMMA AnswerStep ==
    ASSUME IInv, NEW h \in handler, Answer(h), BackendTyped, HandlerWorks(h, {}),
           stored'[h.batch.id] > 0 \/ (Excused(h.batch.id) /\ h.pc # "store"),
           Calm /\ Alone(h.batch.kind) =>
               marker \subseteq marker' /\ (Done(h.batch.id) \/ First(h.batch.id))'
    PROVE  IInv'
<1>. BaseInv /\ BackendInv /\ CalmInv /\ NoBatchLost /\ TypeOK /\ CollectedInv /\ HoldInv
  BY DEF IInv, BaseInv
<1>1. handler' = handler \ {h} /\ UNCHANGED <<overlapped, faultVars>>
  BY DEF Answer
<1>2. UNCHANGED <<collected, sequence, saved, down>> /\ FaultsGrow
  BY <1>1, NoFault DEF Answer, Succeed, monitorVars, faultVars
<1>3. CollectedInv'
  <2>1. \A i \in 1..MaxBatch : i > Len(collected) => i # h.batch.id
    BY CallKnown, CollectedLength
  <2>. QED
    BY <1>2, <2>1 DEF CollectedInv, HandlerWorks
<1>4. BaseInv' /\ \A b : b # h.batch /\ Held(b) => Held(b)'
  <2>1. CASE h.since # 0
    <3>1. UNCHANGED <<monitorVars, overlapped, faultVars>>
      BY <1>1, <2>1 DEF Answer
    <3>2. BaseInv'
      BY <1>1, <1>3, <3>1, WorkBase
    <3>. QED
      BY <3>1, <3>2 DEF Held, monitorVars
  <2>2. CASE h.since = 0
    <3>1. PICK a \in Actors : a = h.by
      BY HandlerType
    <3>2. PICK label \in {"idle", "replay"} : pc' = [pc EXCEPT ![h.by] = label]
      BY <2>2 DEF Answer, Succeed
    <3>3. /\ current' = [current EXCEPT ![h.by] = {}] /\ UNCHANGED <<todo, dropped, sequence, saved, collected>>
          /\ spool' = IF pc[a] = "replaying" THEN Without(spool, current[a]) ELSE spool
      BY <2>2, <3>1 DEF Answer, Succeed
    <3>4. current[a] = {h.batch}
      BY <2>2, <3>1 DEF HoldInv, CallInv
    <3>5. spool \in Seq(Batch) /\ Len(spool) \in Nat /\ todo' \in Seq(Batch)
      BY <3>3 DEF TypeOK
    <3>6. /\ spool' \in Seq(Batch) /\ Len(spool') <= Len(spool) /\ Range(spool') \subseteq Range(spool)
          /\ Range(spool) \ {h.batch} \subseteq Range(spool')
      <4>1. CASE pc[a] = "replaying"
        BY <3>3, <3>4, <3>5, <4>1, WithoutProperties
      <4>2. CASE pc[a] # "replaying"
        BY <3>3, <3>5, <4>2
      <4>. QED
        BY <4>1, <4>2
    <3>7. UNCHANGED spool \/ h.by = "loop"
      BY <3>1, <3>3 DEF HoldInv, Actors
    <3>8. handler' \subseteq (handler \ {h}) \cup {g \in Handler : g.since # 0 /\ g.batch = h.batch}
      BY <1>1
    <3>9. BaseInv'
      BY <1>1, <1>2, <1>3, <2>2, <3>2, <3>3, <3>5, <3>6, <3>7, <3>8, SenderBase
    <3>10. \A c \in Actors : current'[c] = IF c = a THEN {} ELSE current[c]
      BY <3>1, <3>3 DEF TypeOK
    <3>. QED
      BY <3>3, <3>4, <3>6, <3>9, <3>10 DEF Held
  <2>. QED
    BY <2>1, <2>2
<1>5. BackendInv'
  BY HandlerBackend
<1>6. CalmInv'
  BY <1>2, HandlerCalm
<1>7. NoBatchLost'
  BY <1>4, HandlerLost DEF BaseInv
<1>. QED
  BY <1>4, <1>5, <1>6, <1>7 DEF IInv

-----------------------------------------------------------------------------
(* Where the handler of a calm kind is                                     *)
FirstAt(h) ==
    /\ stored[h.batch.id] = 0
    /\ h.pc \in {"find", "advance", "restart", "create", "insert", "store"}
    /\ h.pc \in {"find", "advance"} => cursor[h.batch.kind] < h.batch.seq
    /\ h.pc \in {"restart", "create"} => cursor[h.batch.kind] = 0
    /\ IF h.pc = "store" THEN MarkerOf(h.batch.id) \in marker ELSE \A m \in marker : m.id # h.batch.id

LEMMA CalmPlace ==
    ASSUME IInv, NEW h \in handler, Calm, Alone(h.batch.kind)
    PROVE  (h.pc = "find" /\ Done(h.batch.id)) \/ FirstAt(h)
<1>. BaseInv /\ BackendInv /\ CalmInv /\ CollectedInv
  BY DEF IInv, BaseInv
<1>1. h.batch.id \in 1..Len(collected) /\ collected[h.batch.id] = h.batch
  BY CallKnown
<1>2. Done(h.batch.id) \/ First(h.batch.id)
  BY <1>1 DEF CalmInv
<1>3. CASE Done(h.batch.id)
  BY <1>3 DEF Done
<1>4. CASE First(h.batch.id)
  <2>1. PICK f \in handler :
          /\ f.batch = collected[h.batch.id]
          /\ f.pc \in {"find", "advance", "restart", "create", "insert", "store"}
          /\ f.pc \in {"find", "advance"} => cursor[f.batch.kind] < f.batch.seq
          /\ f.pc \in {"restart", "create"} => cursor[f.batch.kind] = 0
          /\ IF f.pc = "store" THEN MarkerOf(h.batch.id) \in marker ELSE \A m \in marker : m.id # h.batch.id
    BY <1>4 DEF First
  <2>2. f = h
    BY <1>1, <2>1, SameBatch
  <2>. QED
    BY <1>4, <2>1, <2>2 DEF FirstAt, First
<1>. QED
  BY <1>2, <1>3, <1>4

LEMMA FirstNext ==
    ASSUME BaseInv, NEW h \in handler, NEW g \in handler', g.batch = h.batch, FirstAt(g)',
           UNCHANGED collected
    PROVE  First(h.batch.id)'
<1>1. h.batch = collected[h.batch.id]
  BY CallKnown
<1>. QED
  BY <1>1 DEF FirstAt, First

(* An answer without an insertion: the marker or the cursor shows that the *)
(* batch was stored before, unless the loss is excused.                    *)
LEMMA AnswerOnly ==
    ASSUME IInv, NEW h \in handler, Answer(h), UNCHANGED backendVars, h.pc # "store",
           stored[h.batch.id] > 0 \/ Excused(h.batch.id),
           Calm /\ Alone(h.batch.kind) => Done(h.batch.id)
    PROVE  IInv'
<1>. BaseInv /\ BackendInv /\ TypeOK
  BY DEF IInv, BaseInv
<1>1. UNCHANGED <<cursor, marker, stored>> /\ BackendTyped
  BY DEF backendVars, BackendTyped, TypeOK
<1>2. handler' = handler \ {h} /\ UNCHANGED <<collected, overlapped, happened>>
  BY DEF Answer, Succeed, monitorVars, faultVars
<1>3. \A i \in 1..MaxBatch : stored[i] <= stored'[i]
  <2>1. \A i \in 1..MaxBatch : stored[i] \in Nat
    BY DEF TypeOK
  <2>. QED
    BY <1>1, <2>1
<1>4. HandlerWorks(h, {})
  BY <1>1, <1>2, <1>3 DEF HandlerWorks
<1>5. Done(h.batch.id) => Done(h.batch.id)'
  BY <1>1, <1>2 DEF Done, MarkerOf
<1>. QED
  BY <1>1, <1>4, <1>5, AnswerStep

(* A batch with a marker is stored, unless the loss is excused.            *)
LEMMA MarkedMeans ==
    ASSUME IInv, NEW h \in handler, h.pc # "store", NEW m \in marker, m.id = h.batch.id
    PROVE  stored[h.batch.id] > 0 \/ Excused(h.batch.id)
<1>. BaseInv /\ BackendInv
  BY DEF IInv
<1>1. MarkerInv(m) /\ collected[h.batch.id] = h.batch /\ h.batch.kind \in Kinds
  BY CallKnown DEF BackendInv
<1>2. Alone(h.batch.kind) => ~Stores(m.id)
  BY SameBatch DEF Stores
<1>. QED
  BY <1>1, <1>2 DEF MarkerInv, Excused, Alone

(* A handler goes on: it may have moved the cursor to its batch, purged    *)
(* the markers of its kind, or inserted its own.                           *)
LEMMA WorkStep ==
    ASSUME IInv, NEW h \in handler, NEW label \in HandlerLabels, Goto(h, label), UNCHANGED stored,
           \/ cursor' = cursor
           \/ cursor' = [cursor EXCEPT ![h.batch.kind] = h.batch.seq] /\ label \in PastCursor,
           \/ marker' = marker
           \/ marker' = {m \in marker : m.kind # h.batch.kind}
           \/ marker' = marker \cup {MarkerOf(h.batch.id)} /\ label = "store",
           \A g : g.batch = h.batch /\ g.pc = label /\ Alone(h.batch.kind) => PlaceInv(g)',
           h.pc # "store", h.pc \in PastCursor => label \in PastCursor,
           Calm /\ Alone(h.batch.kind) => marker \subseteq marker',
           \A g : g.batch = h.batch /\ g.pc = label /\ Calm /\ Alone(h.batch.kind) => FirstAt(g)'
    PROVE  IInv'
<1>. BaseInv /\ TypeOK
  BY DEF IInv, BaseInv
<1>1. PICK g : g = [h EXCEPT !.pc = label]
  OBVIOUS
<1>2. g \in Handler /\ g.batch = h.batch /\ g.by = h.by /\ g.since = h.since /\ g.pc = label
  <2>1. h \in Handler
    BY HandlerType
  <2>2. label \in {"find", "advance", "restart", "create", "retry", "purge",
                    "insert", "collide", "repurge", "reinsert", "store"}
    BY DEF HandlerLabels
  <2>. QED
    BY <1>1, <2>1, <2>2, HandlerMoved
<1>3. /\ handler' = (handler \ {h}) \cup {g} /\ g \in handler'
      /\ UNCHANGED <<monitorVars, overlapped, faultVars>>
      /\ UNCHANGED <<collected, overlapped, happened>>
  BY <1>1 DEF Goto, monitorVars, faultVars
<1>4. /\ h.batch.id \in 1..MaxBatch /\ h.batch.kind \in Kinds /\ h.batch.seq \in 1..MaxBatch
      /\ collected[h.batch.id] = h.batch
  BY CallKnown
<1>5. MarkerOf(h.batch.id) \in Marker /\ MarkerOf(h.batch.id).kind = h.batch.kind
  BY <1>4 DEF MarkerOf, Marker
<1>6. cursor \in [Kinds -> 0..MaxBatch] /\ marker \subseteq Marker /\ \A i \in 1..MaxBatch : stored[i] \in Nat
  BY DEF TypeOK
<1>7. cursor' \in [Kinds -> 0..MaxBatch] /\ \A k \in Kinds : k # h.batch.kind => cursor'[k] = cursor[k]
  <2>1. h.batch.seq \in 0..MaxBatch
    BY <1>4, BoundsAssumption
  <2>. QED
    BY <1>6, <2>1
<1>8. \/ cursor'[h.batch.kind] = cursor[h.batch.kind]
      \/ cursor'[h.batch.kind] = h.batch.seq /\ g.pc \in PastCursor
  BY <1>2, <1>4, <1>6
<1>9. /\ marker' \subseteq Marker
      /\ \A m \in Marker : m.kind # h.batch.kind => (m \in marker' <=> m \in marker)
      /\ \A m \in marker' : m \in marker \/ (m = MarkerOf(h.batch.id) /\ g.pc = "store")
  BY <1>2, <1>5, <1>6
<1>10. BackendTyped
  BY <1>7, <1>9 DEF BackendTyped, TypeOK
<1>11. \A i \in 1..MaxBatch : stored[i] <= stored'[i] /\ stored'[i] = stored[i]
  BY <1>6
<1>12. HandlerWorks(h, {g})
  BY <1>2, <1>3, <1>7, <1>8, <1>9, <1>11 DEF HandlerWorks
<1>13. Alone(h.batch.kind) => PlaceInv(g)'
  BY <1>2
<1>14. Calm /\ Alone(h.batch.kind) =>
         marker \subseteq marker' /\ (Done(h.batch.id) \/ First(h.batch.id))'
  BY <1>2, <1>3, FirstNext
<1>. QED
  BY <1>2, <1>3, <1>10, <1>12, <1>13, <1>14, GotoStep

LEMMA FindExistingStep ==
    ASSUME IInv, NEW h \in handler, FindExisting(h)
    PROVE  IInv'
<1>1. h.pc = "find" /\ UNCHANGED backendVars /\ UNCHANGED <<cursor, marker, stored>>
  BY DEF FindExisting, backendVars
<1>2. Done(h.batch.id) => \E m \in marker : m.id = h.batch.id
  BY DEF Done, MarkerOf
<1>3. CASE \E m \in marker : m.id = h.batch.id
  <2>1. Answer(h)
    BY <1>3 DEF FindExisting
  <2>2. stored[h.batch.id] > 0 \/ Excused(h.batch.id)
    BY <1>1, <1>3, MarkedMeans
  <2>3. Calm /\ Alone(h.batch.kind) => Done(h.batch.id)
    BY <1>1, <1>3, CalmPlace DEF FirstAt
  <2>. QED
    BY <1>1, <2>1, <2>2, <2>3, AnswerOnly
<1>4. CASE ~\E m \in marker : m.id = h.batch.id
  <2>1. Goto(h, "advance") /\ "advance" \in HandlerLabels
    BY <1>4 DEF FindExisting, HandlerLabels
  <2>2. \A g : g.batch = h.batch /\ g.pc = "advance" /\ Alone(h.batch.kind) => PlaceInv(g)'
    BY DEF PlaceInv
  <2>3. Calm /\ Alone(h.batch.kind) => FirstAt(h)
    BY <1>2, <1>4, CalmPlace
  <2>4. \A g : g.batch = h.batch /\ g.pc = "advance" /\ Calm /\ Alone(h.batch.kind) => FirstAt(g)'
    BY <1>1, <2>3 DEF FirstAt
  <2>5. h.pc \notin PastCursor
    BY <1>1 DEF PastCursor
  <2>. QED
    BY <1>1, <2>1, <2>2, <2>4, <2>5, WorkStep
<1>. QED
  BY <1>3, <1>4

(* The cursor of a handler that is past the lookup                         *)
LEMMA PlaceOf ==
    ASSUME IInv, NEW h \in handler
    PROVE  /\ Alone(h.batch.kind) => PlaceInv(h)
           /\ Calm /\ Alone(h.batch.kind) /\ h.pc # "find" => FirstAt(h)
           /\ cursor[h.batch.kind] \in Nat /\ h.batch.seq \in Nat /\ h.batch.seq > 0
<1>. BaseInv /\ TypeOK /\ BackendInv
  BY DEF IInv, BaseInv
<1>1. h.batch.kind \in Kinds /\ h.batch.seq \in 1..MaxBatch
  BY CallKnown
<1>2. cursor[h.batch.kind] \in Nat
  BY <1>1, BoundsAssumption DEF TypeOK
<1>. QED
  BY <1>1, <1>2, CalmPlace, BoundsAssumption DEF BackendInv

LEMMA AdvanceCursorStep ==
    ASSUME IInv, NEW h \in handler, AdvanceCursor(h)
    PROVE  IInv'
<1> DEFINE c == cursor[h.batch.kind]
           seq == h.batch.seq
<1>1. h.pc = "advance" /\ UNCHANGED <<marker, stored>>
  BY DEF AdvanceCursor, UpdateCursor
<1>2. c \in Nat /\ seq \in Nat /\ seq > 0
  BY PlaceOf
<1>3. Calm /\ Alone(h.batch.kind) => FirstAt(h) /\ c < seq
  BY <1>1, PlaceOf DEF FirstAt
<1>4. h.pc \notin PastCursor /\ "insert" \in PastCursor
  BY <1>1 DEF PastCursor
<1>5. CASE c \in 1..(seq - 1)
  <2>1. cursor' = [cursor EXCEPT ![h.batch.kind] = h.batch.seq] /\ Goto(h, "insert")
    BY <1>5 DEF AdvanceCursor, UpdateCursor
  <2>2. \A g : g.batch = h.batch /\ g.pc = "insert" /\ Alone(h.batch.kind) => PlaceInv(g)'
    BY DEF PlaceInv
  <2>3. \A g : g.batch = h.batch /\ g.pc = "insert" /\ Calm /\ Alone(h.batch.kind) => FirstAt(g)'
    BY <1>1, <1>3 DEF FirstAt
  <2>4. "insert" \in HandlerLabels
    BY DEF HandlerLabels
  <2>. QED
    BY <1>1, <1>4, <2>1, <2>2, <2>3, <2>4, WorkStep
<1>6. CASE c \notin 1..(seq - 1)
  <2>1. cursor' = cursor /\ Goto(h, "restart")
    BY <1>6 DEF AdvanceCursor, UpdateCursor
  <2>2. c = 0 \/ c >= seq
    BY <1>2, <1>6
  <2>3. \A g : g.batch = h.batch /\ g.pc = "restart" /\ Alone(h.batch.kind) => PlaceInv(g)'
    BY <2>1, <2>2 DEF PlaceInv
  <2>4. Calm /\ Alone(h.batch.kind) => c = 0
    BY <1>2, <1>3, <2>2
  <2>5. \A g : g.batch = h.batch /\ g.pc = "restart" /\ Calm /\ Alone(h.batch.kind) => FirstAt(g)'
    BY <1>1, <1>3, <2>1, <2>4 DEF FirstAt
  <2>6. "restart" \in HandlerLabels
    BY DEF HandlerLabels
  <2>. QED
    BY <1>1, <1>4, <2>1, <2>3, <2>5, <2>6, WorkStep
<1>. QED
  BY <1>5, <1>6

LEMMA RestartCursorStep ==
    ASSUME IInv, NEW h \in handler, RestartCursor(h)
    PROVE  IInv'
<1> DEFINE c == cursor[h.batch.kind]
           seq == h.batch.seq
<1>1. h.pc = "restart" /\ UNCHANGED <<marker, stored>>
  BY DEF RestartCursor, UpdateCursor
<1>2. c \in Nat /\ seq \in Nat /\ seq > 0
  BY PlaceOf
<1>3. Calm /\ Alone(h.batch.kind) => FirstAt(h) /\ c = 0
  BY <1>1, PlaceOf DEF FirstAt
<1>4. h.pc \notin PastCursor /\ "purge" \in PastCursor
  BY <1>1 DEF PastCursor
<1>5. CASE c > seq
  <2>1. cursor' = [cursor EXCEPT ![h.batch.kind] = h.batch.seq] /\ Goto(h, "purge")
    BY <1>5 DEF RestartCursor, UpdateCursor
  <2>2. \A g : g.batch = h.batch /\ g.pc = "purge" /\ Alone(h.batch.kind) => PlaceInv(g)'
    BY DEF PlaceInv
  <2>3. ~(Calm /\ Alone(h.batch.kind))
    BY <1>2, <1>3, <1>5
  <2>4. "purge" \in HandlerLabels
    BY DEF HandlerLabels
  <2>. QED
    BY <1>1, <1>4, <2>1, <2>2, <2>3, <2>4, WorkStep
<1>6. CASE ~(c > seq)
  <2>1. cursor' = cursor /\ Goto(h, "create")
    BY <1>6 DEF RestartCursor, UpdateCursor
  <2>2. Alone(h.batch.kind) => c \in {0, seq}
    BY <1>1, <1>2, <1>6, PlaceOf DEF PlaceInv
  <2>3. \A g : g.batch = h.batch /\ g.pc = "create" /\ Alone(h.batch.kind) => PlaceInv(g)'
    BY <2>1, <2>2 DEF PlaceInv
  <2>4. \A g : g.batch = h.batch /\ g.pc = "create" /\ Calm /\ Alone(h.batch.kind) => FirstAt(g)'
    BY <1>1, <1>3, <2>1 DEF FirstAt
  <2>5. "create" \in HandlerLabels
    BY DEF HandlerLabels
  <2>. QED
    BY <1>1, <1>4, <2>1, <2>3, <2>4, <2>5, WorkStep
<1>. QED
  BY <1>5, <1>6

LEMMA CreateCursorStep ==
    ASSUME IInv, NEW h \in handler, CreateCursor(h)
    PROVE  IInv'
<1> DEFINE c == cursor[h.batch.kind]
<1>1. h.pc = "create" /\ UNCHANGED <<marker, stored>>
  BY DEF CreateCursor, UpdateCursor
<1>2. Calm /\ Alone(h.batch.kind) => FirstAt(h) /\ c = 0
  BY <1>1, PlaceOf DEF FirstAt
<1>3. h.pc \notin PastCursor /\ "insert" \in PastCursor
  BY <1>1 DEF PastCursor
<1>4. CASE c = 0
  <2>1. cursor' = [cursor EXCEPT ![h.batch.kind] = h.batch.seq] /\ Goto(h, "insert")
    BY <1>4 DEF CreateCursor, UpdateCursor
  <2>2. \A g : g.batch = h.batch /\ g.pc = "insert" /\ Alone(h.batch.kind) => PlaceInv(g)'
    BY DEF PlaceInv
  <2>3. \A g : g.batch = h.batch /\ g.pc = "insert" /\ Calm /\ Alone(h.batch.kind) => FirstAt(g)'
    BY <1>1, <1>2 DEF FirstAt
  <2>4. "insert" \in HandlerLabels
    BY DEF HandlerLabels
  <2>. QED
    BY <1>1, <1>3, <2>1, <2>2, <2>3, <2>4, WorkStep
<1>5. CASE c # 0
  <2>1. cursor' = cursor /\ Goto(h, "retry")
    BY <1>5 DEF CreateCursor, UpdateCursor
  <2>2. Alone(h.batch.kind) => c = h.batch.seq
    BY <1>1, <1>5, PlaceOf DEF PlaceInv
  <2>3. \A g : g.batch = h.batch /\ g.pc = "retry" /\ Alone(h.batch.kind) => PlaceInv(g)'
    BY <2>1, <2>2 DEF PlaceInv
  <2>4. ~(Calm /\ Alone(h.batch.kind))
    BY <1>2, <1>5
  <2>5. "retry" \in HandlerLabels
    BY DEF HandlerLabels
  <2>. QED
    BY <1>1, <1>3, <2>1, <2>3, <2>4, <2>5, WorkStep
<1>. QED
  BY <1>4, <1>5

(* The cursor of the handler's kind is at its batch: the batch was stored, *)
(* for the handler itself has not moved the cursor yet.                    *)
LEMMA RetryCursorStep ==
    ASSUME IInv, NEW h \in handler, RetryCursor(h)
    PROVE  IInv'
<1> DEFINE c == cursor[h.batch.kind]
<1>. BaseInv /\ BackendInv
  BY DEF IInv
<1>1. h.pc = "retry" /\ UNCHANGED <<marker, stored>>
  BY DEF RetryCursor, UpdateCursor, backendVars
<1>2. ~(Calm /\ Alone(h.batch.kind))
  BY <1>1, PlaceOf DEF FirstAt
<1>3. h.pc \notin PastCursor /\ "insert" \in PastCursor
  BY <1>1 DEF PastCursor
<1>4. CASE c < h.batch.seq /\ UpdateCursor(h, TRUE, "insert", "insert")
  <2>1. cursor' = [cursor EXCEPT ![h.batch.kind] = h.batch.seq] /\ Goto(h, "insert")
    BY <1>4 DEF UpdateCursor
  <2>2. \A g : g.batch = h.batch /\ g.pc = "insert" /\ Alone(h.batch.kind) => PlaceInv(g)'
    BY DEF PlaceInv
  <2>3. "insert" \in HandlerLabels
    BY DEF HandlerLabels
  <2>. QED
    BY <1>1, <1>2, <1>3, <2>1, <2>2, <2>3, WorkStep
<1>5. CASE c >= h.batch.seq /\ Answer(h) /\ UNCHANGED backendVars
  <2>1. h.batch.id \in 1..Len(collected) /\ collected[h.batch.id] = h.batch /\ h.batch.kind \in Kinds
    BY CallKnown
  <2>2. CursorInv(h.batch.id)
    BY <2>1 DEF BackendInv
  <2>3. CASE Alone(h.batch.kind)
    <3>1. c = h.batch.seq
      BY <1>1, <2>3, PlaceOf DEF PlaceInv
    <3>2. ~\E f \in handler : f.batch = collected[h.batch.id] /\ f.pc \in PastCursor
      BY <1>3, <2>1, <2>3 DEF BackendInv, OneHandler
    <3>3. stored[h.batch.id] > 0 \/ Excused(h.batch.id)
      BY <2>1, <2>2, <3>1, <3>2 DEF CursorInv
    <3>. QED
      BY <1>1, <1>2, <1>5, <3>3, AnswerOnly
  <2>4. CASE ~Alone(h.batch.kind)
    <3>1. Excused(h.batch.id)
      BY <2>1, <2>4 DEF Excused, Alone
    <3>. QED
      BY <1>1, <1>2, <1>5, <3>1, AnswerOnly
  <2>. QED
    BY <2>3, <2>4
<1>. QED
  BY <1>4, <1>5 DEF RetryCursor

LEMMA PurgeStep ==
    ASSUME IInv, NEW h \in handler, Purge(h)
    PROVE  IInv'
<1>1. marker' = {m \in marker : m.kind # h.batch.kind} /\ UNCHANGED <<cursor, stored>>
  BY DEF Purge
<1>2. PICK label \in {"insert", "reinsert"} : Goto(h, label) /\ h.pc \in {"purge", "repurge"}
  BY DEF Purge
<1>3. label \in HandlerLabels /\ label \in PastCursor
  BY DEF HandlerLabels, PastCursor
<1>4. \A g : g.batch = h.batch => Clash(g.batch)' = {}
  BY <1>1 DEF Clash
<1>5. \A g : g.batch = h.batch /\ g.pc = label /\ Alone(h.batch.kind) => PlaceInv(g)'
  BY <1>4 DEF PlaceInv
<1>6. ~(Calm /\ Alone(h.batch.kind))
  BY <1>2, PlaceOf DEF FirstAt
<1>. QED
  BY <1>1, <1>2, <1>3, <1>5, <1>6, WorkStep

(* In calm no two batches of a kind have the same number, so the unique    *)
(* indexes let the first marker in.                                        *)
LEMMA NoClash ==
    ASSUME IInv, NEW h \in handler, Calm, Alone(h.batch.kind), FirstAt(h), h.pc # "store"
    PROVE  Clash(h.batch) = {}
<1>. BaseInv /\ TypeOK /\ BackendInv /\ OrderInv
  BY DEF IInv, BaseInv, CalmInv
<1>1. h.batch.id \in 1..Len(collected) /\ collected[h.batch.id] = h.batch /\ h.batch.seq \in Nat
  BY CallKnown
<1> SUFFICES ASSUME NEW m \in marker, m.kind = h.batch.kind, m.id = h.batch.id \/ m.seq = h.batch.seq
             PROVE  FALSE
  BY DEF Clash
<1>2. m.id # h.batch.id /\ m.seq = h.batch.seq
  BY DEF FirstAt
<1>3. m.id \in 1..Len(collected) /\ m.kind = collected[m.id].kind /\ m.seq = collected[m.id].seq
  BY DEF BackendInv, MarkerInv
<1>4. m.id < h.batch.id \/ h.batch.id < m.id
  BY <1>1, <1>2, <1>3, CollectedLength
<1>5. collected[m.id].seq < collected[h.batch.id].seq \/ collected[h.batch.id].seq < collected[m.id].seq
  BY <1>1, <1>3, <1>4 DEF OrderInv
<1>. QED
  BY <1>1, <1>2, <1>3, <1>5

LEMMA InsertMarkerStep ==
    ASSUME IInv, NEW h \in handler, InsertMarker(h)
    PROVE  IInv'
<1>. BaseInv /\ BackendInv
  BY DEF IInv
<1>1. h.pc \in {"insert", "reinsert"} /\ UNCHANGED <<cursor, stored>>
  BY DEF InsertMarker
<1>2. collected[h.batch.id] = h.batch /\ h.batch.kind \in Kinds
  BY CallKnown
<1>3. Calm /\ Alone(h.batch.kind) => FirstAt(h) /\ Clash(h.batch) = {}
  BY <1>1, PlaceOf, NoClash
<1>4. CASE Clash(h.batch) = {}
  <2>1. marker' = marker \cup {MarkerOf(h.batch.id)} /\ Goto(h, "store")
    BY <1>2, <1>4 DEF InsertMarker, MarkerOf
  <2>2. \A g : g.batch = h.batch /\ g.pc = "store" /\ Alone(h.batch.kind) => PlaceInv(g)'
    BY DEF PlaceInv
  <2>3. UNCHANGED collected
    BY <2>1 DEF Goto, monitorVars
  <2>4. MarkerOf(h.batch.id)' \in marker'
    BY <2>1, <2>3 DEF MarkerOf
  <2>5. \A g : g.batch = h.batch /\ g.pc = "store" /\ Calm /\ Alone(h.batch.kind) => FirstAt(g)'
    BY <1>1, <1>3, <2>4 DEF FirstAt
  <2>6. "store" \in HandlerLabels /\ "store" \in PastCursor
    BY DEF HandlerLabels, PastCursor
  <2>. QED
    BY <1>1, <2>1, <2>2, <2>5, <2>6, WorkStep
<1>5. CASE Clash(h.batch) # {} /\ h.pc = "insert"
  <2>1. marker' = marker /\ Goto(h, "collide")
    BY <1>5 DEF InsertMarker
  <2>2. \A g : g.batch = h.batch => Clash(g.batch)' # {}
    BY <1>5, <2>1 DEF Clash
  <2>3. \A g : g.batch = h.batch /\ g.pc = "collide" /\ Alone(h.batch.kind) => PlaceInv(g)'
    BY <2>2 DEF PlaceInv
  <2>4. "collide" \in HandlerLabels /\ "collide" \in PastCursor
    BY DEF HandlerLabels, PastCursor
  <2>. QED
    BY <1>1, <1>3, <1>5, <2>1, <2>3, <2>4, WorkStep
<1>6. CASE Clash(h.batch) # {} /\ h.pc = "reinsert"
  <2>1. Answer(h) /\ UNCHANGED backendVars
    BY <1>1, <1>6 DEF InsertMarker, backendVars
  <2>2. ~Alone(h.batch.kind)
    BY <1>6, PlaceOf DEF PlaceInv
  <2>3. Excused(h.batch.id)
    BY <1>2, <2>2 DEF Excused, Alone
  <2>. QED
    BY <1>6, <2>1, <2>2, <2>3, AnswerOnly
<1>. QED
  BY <1>1, <1>4, <1>5, <1>6

(* A collision that is not with another batch is with the batch itself.    *)
LEMMA FindCollisionStep ==
    ASSUME IInv, NEW h \in handler, FindCollision(h)
    PROVE  IInv'
<1>. BaseInv /\ BackendInv
  BY DEF IInv
<1>1. h.pc = "collide" /\ UNCHANGED backendVars /\ UNCHANGED <<cursor, marker, stored>>
  BY DEF FindCollision, backendVars
<1>2. ~(Calm /\ Alone(h.batch.kind))
  BY <1>1, PlaceOf DEF FirstAt
<1>3. CASE \E m \in Clash(h.batch) : m.seq = h.batch.seq /\ m.id # h.batch.id
  <2>1. Goto(h, "repurge")
    BY <1>3 DEF FindCollision
  <2>2. \A g : g.batch = h.batch /\ g.pc = "repurge" /\ Alone(h.batch.kind) => PlaceInv(g)'
    BY DEF PlaceInv
  <2>3. "repurge" \in HandlerLabels /\ "repurge" \in PastCursor
    BY DEF HandlerLabels, PastCursor
  <2>. QED
    BY <1>1, <1>2, <2>1, <2>2, <2>3, WorkStep
<1>4. CASE ~\E m \in Clash(h.batch) : m.seq = h.batch.seq /\ m.id # h.batch.id
  <2>1. Answer(h)
    BY <1>4 DEF FindCollision
  <2>2. collected[h.batch.id] = h.batch /\ h.batch.kind \in Kinds
    BY CallKnown
  <2>3. CASE Alone(h.batch.kind)
    <3>1. Clash(h.batch) # {}
      BY <1>1, <2>3, PlaceOf DEF PlaceInv
    <3>2. PICK m \in marker : m.id = h.batch.id
      BY <1>4, <3>1 DEF Clash
    <3>3. stored[h.batch.id] > 0 \/ Excused(h.batch.id)
      BY <1>1, <3>2, MarkedMeans
    <3>. QED
      BY <1>1, <1>2, <2>1, <3>3, AnswerOnly
  <2>4. CASE ~Alone(h.batch.kind)
    <3>1. Excused(h.batch.id)
      BY <2>2, <2>4 DEF Excused, Alone
    <3>. QED
      BY <1>1, <1>2, <2>1, <3>1, AnswerOnly
  <2>. QED
    BY <2>3, <2>4
<1>. QED
  BY <1>3, <1>4

LEMMA StoreEntriesStep ==
    ASSUME IInv, NEW h \in handler, StoreEntries(h)
    PROVE  IInv'
<1>. BaseInv /\ BackendInv /\ TypeOK
  BY DEF IInv, BaseInv
<1>1. /\ h.pc = "store" /\ stored' = [stored EXCEPT ![h.batch.id] = @ + 1] /\ Answer(h)
      /\ UNCHANGED <<cursor, marker>>
  BY DEF StoreEntries
<1>2. handler' = handler \ {h} /\ UNCHANGED <<collected, overlapped, happened>>
  BY <1>1 DEF Answer, Succeed, monitorVars, faultVars
<1>3. h.batch.id \in 1..MaxBatch /\ \A i \in 1..MaxBatch : stored[i] \in Nat
  BY CallKnown DEF TypeOK
<1>4. /\ stored' \in [1..MaxBatch -> Nat] /\ stored'[h.batch.id] = stored[h.batch.id] + 1
      /\ \A i \in 1..MaxBatch : i # h.batch.id => stored'[i] = stored[i]
  BY <1>1, <1>3 DEF TypeOK
<1>5. \A i \in 1..MaxBatch : stored[i] <= stored'[i]
  BY <1>3, <1>4
<1>6. BackendTyped
  BY <1>1, <1>4 DEF BackendTyped, TypeOK
<1>7. HandlerWorks(h, {})
  BY <1>1, <1>2, <1>4, <1>5 DEF HandlerWorks
<1>8. stored'[h.batch.id] > 0
  BY <1>3, <1>4
<1>9. ASSUME Calm, Alone(h.batch.kind) PROVE Done(h.batch.id)'
  <2>1. FirstAt(h)
    BY <1>1, <1>9, PlaceOf
  <2>2. stored'[h.batch.id] = 1 /\ MarkerOf(h.batch.id) \in marker
    BY <1>1, <1>4, <2>1 DEF FirstAt
  <2>3. MarkerOf(h.batch.id)' \in marker'
    BY <1>1, <1>2, <2>2 DEF MarkerOf
  <2>4. \A f \in handler' : f.batch.id # h.batch.id
    BY <1>2, <1>9, SameBatch
  <2>. QED
    BY <2>2, <2>3, <2>4 DEF Done
<1>. QED
  BY <1>1, <1>6, <1>7, <1>8, <1>9, AnswerStep

-----------------------------------------------------------------------------
(* The induction                                                           *)
LEMMA HandlerStepHolds ==
    ASSUME IInv, NEW h \in handler, HandlerStep(h)
    PROVE  IInv'
  BY FindExistingStep, AdvanceCursorStep, RestartCursorStep, CreateCursorStep, RetryCursorStep,
     PurgeStep, InsertMarkerStep, FindCollisionStep, StoreEntriesStep DEF HandlerStep

LEMMA CollectStep ==
    ASSUME IInv, CollectLogs \/ ExecuteProbe
    PROVE  IInv'
<1>1. "loop" \in Actors /\ "prober" \in Actors /\ FALSE \in BOOLEAN
  BY DEF Actors
<1>2. CASE CollectLogs
  <2>1. pc["loop"] \in {"idle", "collect"}
    BY <1>2 DEF CollectLogs
  <2>2. PICK deny \in BOOLEAN : SendNew("loop", "logs", deny)
    BY <1>2 DEF CollectLogs
  <2>. QED
    BY <1>1, <2>1, <2>2, SendNewStep
<1>3. CASE ExecuteProbe
  <2>1. pc["prober"] \in {"idle", "collect"} /\ SendNew("prober", "probes", FALSE)
    BY <1>3 DEF ExecuteProbe
  <2>. QED
    BY <1>1, <2>1, SendNewStep
<1>. QED
  BY <1>2, <1>3

LEMMA StutterStep ==
    ASSUME IInv, UNCHANGED vars
    PROVE  IInv'
<1>1. UNCHANGED faultVars /\ UNCHANGED <<monitorVars, handler, overlapped, backendVars>>
  BY DEF vars
<1>2. FaultsGrow
  BY <1>1, NoFault DEF IInv, BaseInv
<1>. QED
  BY <1>1, <1>2, FaultOnly

LEMMA StepHolds ==
    ASSUME IInv, [Next]_vars
    PROVE  IInv'
<1>1. "loop" \in Actors /\ "prober" \in Actors
  BY DEF Actors
<1>2. ASSUME NEW a \in Actors, EnqueueSpool(a) PROVE IInv'
  BY <1>2, TrimSpoolStep, CheckSizeStep, WriteSpoolStep DEF EnqueueSpool
<1>3. CASE LoopStep
  BY <1>1, <1>2, <1>3, LoopIdleStep, ReplayNextStep, CollectStep DEF LoopStep
<1>4. CASE ExecuteProbe
  BY <1>4, CollectStep
<1>5. CASE EnqueueSpool("prober")
  BY <1>1, <1>2, <1>5
<1>6. CASE Crash \/ ResetState \/ Outage \/ OutageEnds
  BY <1>6, CrashStep, ResetStateStep, OutageStep
<1>7. CASE \E h \in handler : HandlerStep(h) \/ CallFails(h) \/ HandlerDies(h)
  BY <1>7, HandlerStepHolds, CallFailsStep, HandlerDiesStep
<1>8. CASE UNCHANGED vars
  BY <1>8, StutterStep
<1>. QED
  BY <1>3, <1>4, <1>5, <1>6, <1>7, <1>8 DEF Next

LEMMA InitHolds ==
    ASSUME Init
    PROVE  IInv
<1>1. /\ pc = [a \in Actors |-> "idle"] /\ current = [a \in Actors |-> {}]
      /\ todo = <<>> /\ spool = <<>> /\ dropped = {} /\ collected = <<>>
      /\ sequence = [k \in Kinds |-> 0] /\ saved = [k \in Kinds |-> 0] /\ cursor = [k \in Kinds |-> 0]
      /\ marker = {} /\ handler = {} /\ stored = [i \in 1..MaxBatch |-> 0]
      /\ down = FALSE /\ faults = 0 /\ happened = {} /\ overlapped = {}
  BY DEF Init
<1>2. <<>> \in Seq(Batch) /\ Len(<<>>) = 0 /\ Range(<<>>) = {} /\ 1..0 = {}
  BY DEF Range
<1>3. 0 \in 0..MaxBatch /\ 0 \in 0..MaxFaults /\ MaxSpool \in Nat /\ MaxBatch \in Nat
  BY BoundsAssumption
<1>4. TypeOK
  BY <1>1, <1>2, <1>3 DEF TypeOK
<1>5. CollectedInv
  BY <1>1, <1>2, <1>3 DEF CollectedInv
<1>6. "loop" \in Actors /\ "prober" \in Actors
  BY DEF Actors
<1>7. SpoolLimit
  <2>1. Writing("loop") = 0 /\ Writing("prober") = 0
    BY <1>1, <1>6 DEF Writing
  <2>. QED
    BY <1>1, <1>2, <1>3, <2>1 DEF SpoolLimit
<1>8. HoldInv
  BY <1>1, <1>2, <1>6 DEF HoldInv, ActorInv
<1>9. BackendInv
  BY <1>1, <1>2 DEF BackendInv, OneHandler, CursorSource
<1>10. CalmInv
  BY <1>1, <1>2 DEF CalmInv, OrderInv
<1>11. NoBatchLost
  BY <1>1, <1>2 DEF NoBatchLost
<1>. QED
  BY <1>4, <1>5, <1>7, <1>8, <1>9, <1>10, <1>11 DEF IInv, BaseInv

-----------------------------------------------------------------------------
(* The spool of any size exceeds its limit by one batch at most, although  *)
(* the size is checked before the write and the probe goroutine writes     *)
(* beside the main loop.  (enqueueSpool, trimSpool, probeMu)               *)
THEOREM SpoolIsBounded == Spec => []SpoolInv
<1>1. IInv => SpoolInv
  <2> SUFFICES ASSUME IInv PROVE SpoolInv
    OBVIOUS
  <2>1. TypeOK /\ SpoolLimit
    BY DEF IInv, BaseInv
  <2>2. Len(spool) \in Nat /\ Writing("loop") \in Nat /\ Writing("prober") \in Nat /\ MaxSpool \in Nat
    BY <2>1, BoundsAssumption DEF TypeOK, Writing
  <2>. QED
    BY <2>1, <2>2 DEF SpoolLimit, SpoolInv, SpoolBounded
<1>. QED
  BY <1>1, InitHolds, StepHolds, PTL DEF Spec

(* Whatever is collected, sent, timed out, crashed, trimmed or started     *)
(* again, a batch that the monitor did not give up is stored, spooled or   *)
(* on its way, outside the three cases that NoBatchLost names.             *)
(* (collectLogs, replaySpool, _accept_telemetry_batch)                     *)
THEOREM NoBatchIsLost == Spec => []NoBatchLost
<1>1. IInv => NoBatchLost
  BY DEF IInv
<1>. QED
  BY <1>1, InitHolds, StepHolds, PTL DEF Spec

(* While batches arrive in order and no two calls of a kind overlap, a     *)
(* retry after a timeout or a crash never stores a batch a second time,    *)
(* for any number of batches and retries.  (replaySpool,                   *)
(* _accept_telemetry_batch)                                                *)
THEOREM RetriesAreStoredOnce == Spec => []RetriesStoreOnce
<1>1. IInv => RetriesStoreOnce
  <2> SUFFICES ASSUME IInv, NEW i \in 1..Len(collected), Calm, collected[i].kind \notin overlapped
               PROVE  stored[i] <= 1
    BY DEF RetriesStoreOnce, Calm
  <2>1. TypeOK /\ CalmInv
    BY DEF IInv, BaseInv
  <2>2. Alone(collected[i].kind)
    BY <2>1, CollectedLength DEF Alone, Batch
  <2>3. Done(i) \/ First(i)
    BY <2>1, <2>2 DEF CalmInv
  <2>. QED
    BY <2>3 DEF Done, First
<1>. QED
  BY <1>1, InitHolds, StepHolds, PTL DEF Spec
=============================================================================
