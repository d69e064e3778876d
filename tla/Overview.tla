------------------------------ MODULE Overview ------------------------------
(***************************************************************************)
(* What the overview page computes: the state of a site from its nodes,    *)
(* and the traffic series of a site from the connection snapshots of the   *)
(* last hour.  Snapshots and nodes are collected one by one, so that every *)
(* state is an input of the two functions and the properties compare them  *)
(* with what they are meant to say.                                        *)
(***************************************************************************)
EXTENDS Integers, Sequences, FiniteSetsExt, Ranks

CONSTANTS
    Agents,       \* node identifiers
    Times,        \* sampling times in seconds; a minute is Minute of them
    Minute,
    Rates,        \* tx_bps of a snapshot
    MaxEntries    \* bound: snapshots

ASSUME OverviewAssumption ==
    /\ Agents # {} /\ Times \subseteq Nat /\ 0 \in Times /\ 1 \in Rates
    /\ Minute \in Nat \ {0} /\ MaxEntries \in Nat

VARIABLES
    entries,    \* the snapshots in the order of the answer
    fleet       \* the nodes of the site
overviewVars == <<entries, fleet>>

Here == "here"
Snapshot == [site : {Here, "elsewhere"}, node : Agents, at : Times \cup {-1}, tx : Rates]
Counted == {s \in Snapshot : s.site = Here /\ s.at >= 0}

Node == [config : {"in_sync", "drift", "rollback_failed"},
         service : {"healthy", "unhealthy"}, liveness : {"online", "offline"}]

OverviewTypeOK ==
    /\ entries \in Seq(Snapshot) /\ Len(entries) <= MaxEntries
    /\ fleet \subseteq Node

OverviewInit == entries = <<>> /\ fleet = {}

(* Snapshots of another site or with an unreadable time are skipped        *)
(* whatever else they hold: one of each is enough.                         *)
Skipped == {[site |-> "elsewhere", node |-> CHOOSE a \in Agents : TRUE, at |-> 0, tx |-> 1],
            [site |-> Here, node |-> CHOOSE a \in Agents : TRUE, at |-> -1, tx |-> 1]}

Report(s) ==
    /\ Len(entries) < MaxEntries
    /\ entries' = Append(entries, s)
    /\ UNCHANGED fleet

Enrol(n) ==
    /\ entries = <<>>    \* the two inputs are independent: one at a time
    /\ n \notin fleet /\ fleet' = fleet \cup {n}
    /\ UNCHANGED entries

OverviewNext ==
    \/ fleet = {} /\ \E s \in Counted \cup Skipped : Report(s)
    \/ \E n \in Node : Enrol(n)

OverviewSpec == OverviewInit /\ [][OverviewNext]_overviewVars

-----------------------------------------------------------------------------
(* buildSiteTrafficSeries: one pass over the answer that keeps for every   *)
(* minute and node the snapshot with the latest time, then one point for   *)
(* every minute, with the sum over the nodes.                              *)
Bucket(s) == (s.at \div Minute) * Minute

Bug_Newer(kept, s) == TRUE

Newer(kept, s) == \A p \in kept : Bucket(p) = Bucket(s) /\ p.node = s.node => s.at > p.at

Keep(kept, s) ==
    IF s.site # Here \/ s.at < 0 \/ ~Newer(kept, s) THEN kept
    ELSE {p \in kept : Bucket(p) # Bucket(s) \/ p.node # s.node} \cup {s}

KeepAll(input) ==
    LET kept[n \in 0..Len(input)] == IF n = 0 THEN {} ELSE Keep(kept[n - 1], input[n])
    IN  kept[Len(input)]

Total(snapshots) == MapThenSumSet(LAMBDA s : s.tx, snapshots)

PointsOf(kept) ==
    LET times == Ascending({Bucket(s) : s \in kept})
    IN  [i \in DOMAIN times |-> [at |-> times[i],
                                 tx_bps |-> Total({s \in kept : Bucket(s) = times[i]})]]

buildSiteTrafficSeries(input) == PointsOf(KeepAll(input))

siteState(shutdown, nodes) ==
    IF shutdown THEN "shutdown"
    ELSE IF nodes = {} THEN "not_enrolled"
    ELSE IF \E n \in nodes : n.config = "rollback_failed" \/ n.service = "unhealthy" THEN "attention"
    ELSE IF \E n \in nodes : n.liveness # "online" \/ n.config # "in_sync" THEN "degraded"
    ELSE "healthy"

(* The tone the topology gives a state, worst last.                        *)
toneForState ==
    [s \in {"not_enrolled", "healthy", "degraded", "attention", "shutdown"} |->
       CASE s = "healthy" -> 1 [] s = "degraded" -> 2
         [] s \in {"attention", "shutdown"} -> 3 [] OTHER -> 0]

-----------------------------------------------------------------------------
Readings == {entries[i] : i \in {j \in DOMAIN entries : entries[j] \in Counted}}
Untied == \A i, j \in DOMAIN entries :
            i # j /\ entries[i] \in Counted /\ entries[j] \in Counted
                  /\ entries[i].node = entries[j].node => entries[i].at # entries[j].at

SameCell(p, q) == p.node = q.node /\ Bucket(p) = Bucket(q)
Latest(readings) == {r \in readings : \A q \in readings : SameCell(q, r) => q.at <= r.at}

(* The series does not depend on the order of the answer: every minute in  *)
(* which a node of the site reported has one point, in order, and counts   *)
(* the last report of each node once.  (Two reports of one node with the   *)
(* same time are told apart by the order only.)                            *)
SeriesCountsLatest ==
    LET series == buildSiteTrafficSeries(entries)
    IN  Untied =>
          /\ {series[i].at : i \in DOMAIN series} = {Bucket(r) : r \in Readings}
          /\ \A i \in DOMAIN series : i > 1 => series[i - 1].at < series[i].at
          /\ \A i \in DOMAIN series :
               series[i].tx_bps = Total({r \in Latest(Readings) : Bucket(r) = series[i].at})

(* A site is shown as bad as its worst node would be alone: no number of   *)
(* good nodes hides a bad one, and no node softens a shutdown.             *)
WorstNodeShows ==
    \A shutdown \in BOOLEAN :
      LET tone(nodes) == toneForState[siteState(shutdown, nodes)]
      IN  fleet # {} => tone(fleet) = Max({tone({n}) : n \in fleet})

(* The invariant of the overview: the series is that of the latest reports *)
(* and the state of a site that of its worst node.                         *)
OverviewInv == OverviewTypeOK /\ SeriesCountsLatest /\ WorstNodeShows
=============================================================================
