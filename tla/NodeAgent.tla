------------------------------ MODULE NodeAgent ------------------------------
(***************************************************************************)
(* The monitor of a node as the control plane sees it: what applyBundle,   *)
(* ackFailure, rollback, sendHeartbeat and a restart do to the monitor     *)
(* state, in memory and in monitor-state.json, and the acks they send.     *)
(* How a bundle is put into sing-box and nftables is in MonitorApply.      *)
(*                                                                         *)
(* poll and heartbeat run in one goroutine (run), so a monitor handles one *)
(* bundle at a time.  pending[n] holds it, or is empty.                    *)
(***************************************************************************)
EXTENDS Fleet

VARIABLES
    mem,      \* agent.state of each monitor
    disk,     \* monitor-state.json of each monitor
    pending   \* the bundle being applied, as a set of at most one

agentVars == <<mem, disk, pending>>

(* AppliedVersion and AppliedHash move together with LastGoodVersion and   *)
(* LastGoodHash.  sequence is shared with heartbeats and telemetry, which  *)
(* only leave gaps between the numbers of the acks.                        *)
State == [version : Nat, release : Release \cup {NoRelease}, sequence : Nat,
          config_status : ConfigStatus]

InitialState == [version |-> 0, release |-> NoRelease, sequence |-> 0,
                 config_status |-> "unknown"]

AgentTypeOK ==
    /\ mem \in [Node -> State]
    /\ disk \in [Node -> State]
    /\ pending \in [Node -> SUBSET Bundle]

AgentInit ==
    /\ mem = [n \in Node |-> InitialState]
    /\ disk = [n \in Node |-> InitialState]
    /\ pending = [n \in Node |-> {}]

(* sync received a bundle.                                                 *)
Fetch(n, d) ==
    /\ pending[n] = {}
    /\ pending' = [pending EXCEPT ![n] = {d}]
    /\ UNCHANGED <<mem, disk>>

(* sendAck: the payload is read from the state after it was updated.       *)
AckFor(n, d, ok, rollbackFailed) ==
    [node |-> n, release |-> d.release, version |-> d.version,
     applied |-> mem'[n].version, ok |-> ok, rollbackFailed |-> rollbackFailed,
     sequence |-> mem'[n].sequence]

(* The candidate survived the health window: the in-memory state moves to  *)
(* it and state.Save succeeds or fails.                                    *)
CommitState(n, d, saved) ==
    /\ d \in pending[n]
    /\ d.version >= mem[n].version
    /\ mem' = [mem EXCEPT ![n] =
         [version |-> d.version, release |-> d.release,
          sequence |-> mem[n].sequence + 1, config_status |-> "in_sync"]]
    /\ disk' = IF saved THEN [disk EXCEPT ![n] = mem'[n]] ELSE disk
    /\ pending' = [pending EXCEPT ![n] = {}]

(* ackFailure and rollback: the applied version stays; a failed Save is    *)
(* ignored.                                                                *)
FailState(n, d, status, saved) ==
    /\ d \in pending[n]
    /\ mem' = [mem EXCEPT ![n] =
         [version |-> mem[n].version, release |-> mem[n].release,
          sequence |-> mem[n].sequence + 1, config_status |-> status]]
    /\ disk' = IF saved THEN [disk EXCEPT ![n] = mem'[n]] ELSE disk
    /\ pending' = [pending EXCEPT ![n] = {}]

(* A local write failed before the state changed: applyBundle returns its  *)
(* error without an ack.                                                   *)
Discard(n) ==
    /\ pending[n] # {}
    /\ pending' = [pending EXCEPT ![n] = {}]
    /\ UNCHANGED <<mem, disk>>

Bug_RestartEmpty(n) ==
    /\ mem' = [mem EXCEPT ![n] = InitialState]
    /\ pending' = [pending EXCEPT ![n] = {}]
    /\ UNCHANGED disk

(* The process dies and is started again: state.Load.                      *)
Restart(n) ==
    /\ mem' = [mem EXCEPT ![n] = disk[n]]
    /\ pending' = [pending EXCEPT ![n] = {}]
    /\ UNCHANGED disk

(* sendHeartbeat saves the whole state before it sends it.                 *)
SaveForHeartbeat(n) ==
    /\ pending[n] = {}
    /\ disk' = [disk EXCEPT ![n] = mem[n]]
    /\ UNCHANGED <<mem, pending>>

(* One monitor on its own: what the rest of the system may rely on.        *)
AgentNext ==
    \E n \in Node :
        \/ \E d \in pending'[n] : d \in Bundle /\ d.node = n /\ Fetch(n, d)
        \/ \E d \in pending[n], saved \in BOOLEAN :
            \/ CommitState(n, d, saved)
            \/ FailState(n, d, "failed", saved)
            \/ FailState(n, d, "rollback_failed", saved)
        \/ Discard(n)
        \/ Restart(n)
        \/ SaveForHeartbeat(n)

AgentSpec == AgentInit /\ [][AgentNext]_agentVars
=============================================================================
