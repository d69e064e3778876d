------------------------------- MODULE Rollout -------------------------------
(***************************************************************************)
(* The control plane and the monitors of one site together: releases are   *)
(* created, monitors poll, apply or reject them and acknowledge over HTTP. *)
(*                                                                         *)
(* The monitor gives an ack 10 seconds (http.Client.Timeout) and never     *)
(* sends it again, while the backend may still process a request the       *)
(* monitor has given up on: acks are lost, delayed, reordered, and         *)
(* redelivered by an intermediary.  Faults draw on one bounded budget.     *)
(***************************************************************************)
EXTENDS ControlPlane, NodeAgent

CONSTANT MaxFaults

ASSUME MaxFaultsAssumption == MaxFaults \in Nat

VARIABLES
    net,     \* acks in flight
    faults   \* faults so far

vars == <<cpVars, agentVars, net, faults>>

TypeOK ==
    /\ CPTypeOK
    /\ AgentTypeOK
    /\ net \subseteq Ack
    /\ faults \in 0..MaxFaults

Init == CPInit /\ AgentInit /\ net = {} /\ faults = 0

Fault == faults < MaxFaults /\ faults' = faults + 1

-----------------------------------------------------------------------------
(* sync: the answer of GET /agent/v1/desired starts applyBundle.           *)
Poll(n) ==
    /\ LatestFor(n) # {}
    /\ DesiredStale(LatestDocument(n), mem[n].version, mem[n].release)
    /\ Fetch(n, LatestDocument(n))
    /\ UNCHANGED <<cpVars, net, faults>>

Bug_AckBeforeSave(n) ==
    \E d \in pending[n] :
        /\ CommitState(n, d, FALSE)
        /\ net' = net \cup {AckFor(n, d, TRUE, FALSE)}
        /\ UNCHANGED <<cpVars, faults>>

CommitBundle(n) ==
    \E d \in pending[n] :
        /\ CommitState(n, d, TRUE)
        /\ net' = net \cup {AckFor(n, d, TRUE, FALSE)}
        /\ UNCHANGED <<cpVars, faults>>

(* state.Save failed: applyBundle returns before sendAck.                  *)
CommitUnsaved(n) ==
    /\ Fault
    /\ \E d \in pending[n] : CommitState(n, d, FALSE)
    /\ UNCHANGED <<cpVars, net>>

(* ackFailure and rollback.  Only those that attempted a rollback can      *)
(* report it failed; ackFailure after a failed runtime.Apply does so while *)
(* it stores config_status "failed".                                       *)
RejectBundle(n, saved) ==
    /\ Fault
    /\ \E d \in pending[n] :
         \E s \in {"failed", "rollback_failed"}, rollbackFailed \in BOOLEAN :
            /\ s = "rollback_failed" => rollbackFailed
            /\ FailState(n, d, s, saved)
            /\ net' = net \cup {AckFor(n, d, FALSE, rollbackFailed)}
    /\ UNCHANGED cpVars

DiscardBundle(n) == Fault /\ Discard(n) /\ UNCHANGED <<cpVars, net>>

RestartMonitor(n) == Fault /\ Restart(n) /\ UNCHANGED <<cpVars, net>>

SendHeartbeat(n) ==
    /\ SaveForHeartbeat(n)
    /\ AcceptHeartbeat(n, mem[n].version, mem[n].config_status)
    /\ UNCHANGED <<net, faults>>

DeliverAck(m) ==
    /\ m \in net
    /\ StoreAck(m) \/ RefuseAck(m)
    /\ net' = net \ {m}
    /\ UNCHANGED <<agentVars, faults>>

DuplicateAck(m) ==
    /\ Fault
    /\ m \in net
    /\ StoreAck(m)
    /\ UNCHANGED <<agentVars, net>>

LoseAck(m) ==
    /\ Fault
    /\ m \in net
    /\ net' = net \ {m}
    /\ UNCHANGED <<cpVars, agentVars>>

-----------------------------------------------------------------------------
ControlPlaneStep == CPInternal /\ UNCHANGED <<agentVars, net, faults>>

BackendFault ==
    /\ Fault
    /\ \E h \in handler : AbortHandler(h)
    /\ UNCHANGED <<agentVars, net>>

MonitorStep(n) ==
    \/ Poll(n)
    \/ CommitBundle(n)
    \/ CommitUnsaved(n)
    \/ \E saved \in BOOLEAN : RejectBundle(n, saved)
    \/ DiscardBundle(n)
    \/ RestartMonitor(n)
    \/ SendHeartbeat(n)

NetworkStep == \E m \in net : DeliverAck(m) \/ DuplicateAck(m) \/ LoseAck(m)

Next ==
    \/ ControlPlaneStep
    \/ BackendFault
    \/ \E n \in Node : MonitorStep(n)
    \/ NetworkStep

Spec == Init /\ [][Next]_vars

-----------------------------------------------------------------------------
(* Safety                                                                  *)

(* A release that agent_ack marks succeeded is really in force: the state  *)
(* file of every node it was assigned to holds its version or a later one, *)
(* whatever acks were lost, late, repeated or out of order and whichever   *)
(* monitors crashed.  (agent_ack, applyBundle's order of Save and sendAck) *)
SucceededMeansApplied ==
    \A r \in Release : release[r].status = "succeeded" =>
        \A n \in release[r].nodes : disk[n].version >= request[r].version

(* The bundle a monitor is handed is never older than what it runs, so the *)
(* bundle_replay rejection never hits a bundle of the control plane.       *)
(* (latest_release, agent_desired, applyBundle)                            *)
BundleNeverOlder ==
    \A n \in Node : \A d \in pending[n] : d.version >= mem[n].version

(* Once a ConfigRelease exists, every node it names has its bundle, so     *)
(* agent_ack cannot answer desired_release_not_found.                      *)
(* (_create_release_from_draft)                                            *)
ReleaseHasBundles ==
    \A r \in Release : release[r].status # "none" =>
        \A n \in release[r].nodes :
            [release |-> r, node |-> n, version |-> request[r].version] \in desired

(* The version a monitor would come up with after a crash never decreases. *)
(* (applyBundle, ackFailure, sendHeartbeat, state.Load)                    *)
AppliedNeverRegresses ==
    [][\A n \in Node : disk'[n].version >= disk[n].version]_vars

(* The inductive invariant behind the properties above, in parts.          *)

(* Bundles exist only for requests that reached the insertion, and carry   *)
(* the version the request computed.                                       *)
BundlesOfRequests ==
    /\ \A d \in desired :
        /\ request[d.release].pc \in {"planned", "tasked", "done", "aborted"}
        /\ request[d.release].pc # "aborted" => d.version = request[d.release].version
    /\ \A r \in Release :
        request[r].pc \in {"admitted", "computed"} => request[r].nodes \subseteq request[r].todo
    /\ \A r \in Release : \A n \in request[r].nodes :
        \/ request[r].pc \in {"tasked", "done"}
        \/ request[r].pc = "planned" /\ n \notin request[r].todo
        => [release |-> r, node |-> n, version |-> request[r].version] \in desired

(* A stored release is that of a completed request.                        *)
ReleasesOfRequests ==
    \A r \in Release : release[r].status # "none" =>
        request[r].pc = "done" /\ release[r].nodes = request[r].nodes

(* Whatever a monitor runs, remembers or is applying was desired for it,   *)
(* and the three are ordered.                                              *)
MonitorsFollow ==
    \A n \in Node :
        /\ mem[n].version = 0 \/ \E d \in desired : d.node = n /\ d.version = mem[n].version
        /\ disk[n].version = 0 \/ \E d \in desired : d.node = n /\ d.version = disk[n].version
        /\ disk[n].version <= mem[n].version
        /\ \A d \in pending[n] : d \in desired /\ d.node = n /\ mem[n].version <= d.version

(* A positive ack, on its way or stored, or already turned into a verdict, *)
(* speaks of a version that the node's state file holds.                   *)
AcksAreTrue ==
    /\ \A m \in net : m.ok => m.version <= disk[m.node].version
    /\ \A r \in Release : \A n \in Node :
        lastAck[r][n] = "ok" => /\ request[r].pc = "done"
                               /\ request[r].version <= disk[n].version
    /\ \A h \in handler :
        /\ release[h.ack.release].status # "none"
        /\ h.verdict = "succeeded" =>
            \A n \in release[h.ack.release].nodes :
                request[h.ack.release].version <= disk[n].version

IInv ==
    /\ TypeOK
    /\ BundlesOfRequests
    /\ ReleasesOfRequests
    /\ MonitorsFollow
    /\ AcksAreTrue
    /\ SucceededMeansApplied

-----------------------------------------------------------------------------
(* Liveness.  The monitor loop polls and beats on tickers and the event    *)
(* loop runs every handler, so each of these steps happens once it stays   *)
(* enabled; the budget makes faults finite.                                *)
Fairness ==
    /\ \A r \in Release :
        /\ WF_vars(ComputeVersion(r) /\ UNCHANGED <<agentVars, net, faults>>)
        /\ WF_vars(SetRevision(r) /\ UNCHANGED <<agentVars, net, faults>>)
        /\ WF_vars(\E n \in Node : InsertDesired(r, n) /\ UNCHANGED <<agentVars, net, faults>>)
        /\ WF_vars(CreateTask(r) /\ UNCHANGED <<agentVars, net, faults>>)
        /\ WF_vars(InsertRelease(r) /\ UNCHANGED <<agentVars, net, faults>>)
    /\ WF_vars(\E h \in handler : (ReadAcks(h) \/ SaveVerdict(h)) /\ UNCHANGED <<agentVars, net, faults>>)
    /\ WF_vars(\E m \in net : DeliverAck(m))
    /\ \A n \in Node :
        /\ WF_vars(Poll(n))
        /\ WF_vars(CommitBundle(n))
        /\ WF_vars(SendHeartbeat(n))

FairSpec == Spec /\ Fairness

(* Once faults are over every node ends up running the bundle the control  *)
(* plane wants for it, and stays there.  (sync, agent_desired)             *)
NodesConverge ==
    \A n \in Node : <>[](LatestFor(n) # {} =>
                            /\ mem[n].version = LatestDocument(n).version
                            /\ mem[n].release = LatestDocument(n).release)

(* The dashboard's Node document ends up agreeing with the monitor, even   *)
(* when late acks overwrote it.  (agent_heartbeat, agent_ack)              *)
NodeDocConverges ==
    \A n \in Node : <>[](/\ nodeDoc[n].applied_version = mem[n].version
                         /\ nodeDoc[n].config_status = mem[n].config_status)
=============================================================================
