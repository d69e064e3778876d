---------------------------- MODULE RolloutProofs ----------------------------
(***************************************************************************)
(* Proofs about Rollout, for any nodes, releases, keys and bounds.         *)
(***************************************************************************)
EXTENDS Rollout, TLAPS

(* Initially every variable has its type.                                  *)
LEMMA InitType == Init => TypeOK
  BY NoReleaseAssumption, KeyOfAssumption, MaxFaultsAssumption
     DEF Init, CPInit, AgentInit, TypeOK, CPTypeOK, AgentTypeOK, InitialRequest,
         InitialState, RequestState, State, Status, ConfigStatus

(* A step of a request or of an ack handler keeps the backend's types.     *)
LEMMA CPInternalType == ASSUME CPTypeOK, CPInternal PROVE CPTypeOK'
  <1> USE KeyOfAssumption, MaxRevisionAssumption
  <1>a. request \in [Release -> RequestState]
    BY DEF CPTypeOK
  <1>1. CASE RaiseRevision
    BY <1>1 DEF CPTypeOK, RaiseRevision
  <1>2. ASSUME NEW r \in Release, JoinExisting(r) PROVE CPTypeOK'
    <2>1. request' \in [Release -> RequestState]
      BY <1>a, <1>2 DEF JoinExisting, RequestState
    <2> QED
      BY <1>2, <2>1 DEF CPTypeOK, JoinExisting
  <1>3. ASSUME NEW r \in Release, NEW nodes \in SUBSET Node, Admit(r, nodes) PROVE CPTypeOK'
    <2>0. config_revision \in Nat
      BY DEF CPTypeOK
    <2>1. request' \in [Release -> RequestState]
      BY <1>a, <1>3, <2>0 DEF Admit, RequestState
    <2> QED
      BY <1>3, <2>1 DEF CPTypeOK, Admit
  <1>4. ASSUME NEW r \in Release, ComputeVersion(r) PROVE CPTypeOK'
    <2>1. PICK latest \in {0} \cup {d.version : d \in desired} :
            request' = [request EXCEPT ![r] =
             [@ EXCEPT !.pc = "computed",
                       !.version = NextVersion(request[r].revision, latest)]]
      BY <1>4 DEF ComputeVersion
    <2>2. latest \in Nat
      BY <2>1 DEF CPTypeOK, Bundle
    <2>3. NextVersion(request[r].revision, latest) \in Nat
      BY <1>a, <2>2 DEF RequestState, NextVersion
    <2>4. request' \in [Release -> RequestState]
      BY <1>a, <2>1, <2>3 DEF RequestState
    <2> QED
      BY <1>4, <2>4 DEF CPTypeOK, ComputeVersion
  <1>5. ASSUME NEW r \in Release, SetRevision(r) PROVE CPTypeOK'
    <2>1. request' \in [Release -> RequestState]
      BY <1>a, <1>5 DEF SetRevision, RequestState
    <2>2. request[r].version \in Nat /\ request[r].nodes \in SUBSET Node
      BY <1>a DEF RequestState
    <2> QED
      BY <1>5, <2>1, <2>2 DEF CPTypeOK, SetRevision, Status
  <1>6. ASSUME NEW r \in Release, NEW n \in Node, InsertDesired(r, n) PROVE CPTypeOK'
    <2>1. request' \in [Release -> RequestState]
      BY <1>a, <1>6 DEF InsertDesired, RequestState
    <2>2. desired' \subseteq Bundle
      BY <1>a, <1>6 DEF CPTypeOK, InsertDesired, RequestState, Bundle
    <2> QED
      BY <1>6, <2>1, <2>2 DEF CPTypeOK, InsertDesired
  <1>7. ASSUME NEW r \in Release, CreateTask(r) PROVE CPTypeOK'
    <2>1. request' \in [Release -> RequestState]
      BY <1>a, <1>7 DEF CreateTask, RequestState
    <2> QED
      BY <1>7, <2>1 DEF CPTypeOK, CreateTask
  <1>8. ASSUME NEW r \in Release, InsertRelease(r) PROVE CPTypeOK'
    <2>1. request' \in [Release -> RequestState]
      BY <1>a, <1>8 DEF InsertRelease, RequestState
    <2>2. request[r].version \in Nat /\ request[r].nodes \in SUBSET Node
      BY <1>a DEF RequestState
    <2> QED
      BY <1>8, <2>1, <2>2 DEF CPTypeOK, InsertRelease, Status
  <1>9. ASSUME NEW r \in Release, AbortRequest(r) PROVE CPTypeOK'
    <2>1. request' \in [Release -> RequestState]
      BY <1>a, <1>9 DEF AbortRequest, RequestState, InitialRequest
    <2> QED
      BY <1>9, <2>1 DEF CPTypeOK, AbortRequest
  <1>10. ASSUME NEW h \in handler, ReadAcks(h) PROVE CPTypeOK'
    BY <1>10 DEF CPTypeOK, ReadAcks, Handler, ReleaseVerdict, Verdict
  <1>11. ASSUME NEW h \in handler, SaveVerdict(h) PROVE CPTypeOK'
    <2>1. h.verdict \in Verdict /\ h.ack.release \in Release
      BY <1>11 DEF CPTypeOK, SaveVerdict, Handler, Ack
    <2>2. release' \in [Release -> [status : Status, nodes : SUBSET Node]]
      <3>1. PICK r \in Release, v \in Status : r = h.ack.release /\ v = h.verdict
        BY <2>1 DEF Verdict, Status
      <3>2. release' = [release EXCEPT ![r] = [@ EXCEPT !.status = v]]
        BY <1>11, <3>1 DEF SaveVerdict
      <3>3. [release[r] EXCEPT !.status = v] \in [status : Status, nodes : SUBSET Node]
        BY DEF CPTypeOK
      <3> QED
        BY <3>2, <3>3 DEF CPTypeOK
    <2>3. task' \in [Key -> {"none", "queued", "succeeded", "failed"}]
      BY <1>11, <2>1 DEF CPTypeOK, SaveVerdict, Verdict
    <2>4. handler' \subseteq Handler
      BY <1>11 DEF CPTypeOK, SaveVerdict
    <2> QED
      BY <1>11, <2>2, <2>3, <2>4 DEF CPTypeOK, SaveVerdict
  <1> QED
    BY <1>1, <1>2, <1>3, <1>4, <1>5, <1>6, <1>7, <1>8, <1>9, <1>10, <1>11 DEF CPInternal

(* Storing an ack keeps the backend's types.                               *)
LEMMA StoreAckType == ASSUME CPTypeOK, NEW m \in Ack, StoreAck(m) PROVE CPTypeOK'
  <1>1. m.node \in Node /\ m.release \in Release /\ m.sequence \in Nat /\ m.applied \in Nat
    BY DEF Ack
  <1>2. lastAck' \in [Release -> [Node -> {"none", "ok", "bad"}]]
    BY <1>1 DEF CPTypeOK, StoreAck
  <1>3. ackSequence' \in [Node -> Nat]
    BY <1>1 DEF CPTypeOK, StoreAck
  <1>4. \A v \in {0} \cup {d.version : d \in desired} : v \in Nat
    BY DEF CPTypeOK, Bundle
  <1>5. nodeDoc' \in [Node -> [desired_version : Nat, applied_version : Nat,
                               config_status : ConfigStatus]]
    <2> DEFINE doc(v) == [desired_version |-> v, applied_version |-> m.applied,
                          config_status |-> IF m.ok THEN "in_sync"
                                            ELSE IF m.rollbackFailed THEN "rollback_failed"
                                            ELSE "failed"]
    <2>1. PICK v \in {0} \cup {d.version : d \in desired} :
            nodeDoc' = [nodeDoc EXCEPT ![m.node] = doc(v)]
      BY DEF StoreAck
    <2>2. doc(v) \in [desired_version : Nat, applied_version : Nat, config_status : ConfigStatus]
      BY <1>1, <1>4 DEF ConfigStatus
    <2> QED
      BY <1>1, <2>1, <2>2 DEF CPTypeOK
  <1>6. handler' \subseteq Handler
    BY DEF CPTypeOK, StoreAck, Handler
  <1> QED
    BY <1>2, <1>3, <1>5, <1>6 DEF CPTypeOK, StoreAck

(* An accepted heartbeat keeps the backend's types.                        *)
LEMMA HeartbeatType ==
  ASSUME CPTypeOK, NEW n \in Node, NEW a \in Nat, NEW s \in ConfigStatus,
         AcceptHeartbeat(n, a, s)
  PROVE  CPTypeOK'
  <1>1. \A v \in {0} \cup {d.version : d \in desired} : v \in Nat
    BY DEF CPTypeOK, Bundle
  <1>2. nodeDoc' \in [Node -> [desired_version : Nat, applied_version : Nat,
                               config_status : ConfigStatus]]
    <2>1. PICK v \in {0} \cup {d.version : d \in desired} :
            nodeDoc' = [nodeDoc EXCEPT ![n] = [desired_version |-> v,
                                               applied_version |-> a,
                                               config_status |-> s]]
      BY DEF AcceptHeartbeat
    <2> QED
      BY <1>1, <2>1 DEF CPTypeOK
  <1> QED
    BY <1>2 DEF CPTypeOK, AcceptHeartbeat

(* A commit keeps the monitor's types, and its ack is well formed.         *)
LEMMA CommitType ==
  ASSUME AgentTypeOK, NEW n \in Node, NEW d, NEW saved \in BOOLEAN, CommitState(n, d, saved)
  PROVE  AgentTypeOK' /\ AckFor(n, d, TRUE, FALSE) \in Ack
  <1>1. d \in Bundle /\ mem[n] \in State
    BY DEF AgentTypeOK, CommitState
  <1>2. mem'[n] = [version |-> d.version, release |-> d.release,
                   sequence |-> mem[n].sequence + 1, config_status |-> "in_sync"]
    BY DEF AgentTypeOK, CommitState
  <1>3. mem'[n] \in State
    BY <1>1, <1>2 DEF State, Bundle, ConfigStatus
  <1>4. mem' \in [Node -> State] /\ disk' \in [Node -> State]
    BY <1>2, <1>3 DEF AgentTypeOK, CommitState
  <1>5. AckFor(n, d, TRUE, FALSE) \in Ack
    BY <1>1, <1>3 DEF AckFor, Ack, Bundle, State
  <1> QED
    BY <1>4, <1>5 DEF AgentTypeOK, CommitState

(* A failure keeps the monitor's types, and its ack is well formed.        *)
LEMMA FailType ==
  ASSUME AgentTypeOK, NEW n \in Node, NEW d, NEW s \in ConfigStatus, NEW saved \in BOOLEAN,
         NEW rf \in BOOLEAN, FailState(n, d, s, saved)
  PROVE  AgentTypeOK' /\ AckFor(n, d, FALSE, rf) \in Ack
  <1>1. d \in Bundle /\ mem[n] \in State
    BY DEF AgentTypeOK, FailState
  <1>2. mem'[n] = [version |-> mem[n].version, release |-> mem[n].release,
                   sequence |-> mem[n].sequence + 1, config_status |-> s]
    BY DEF AgentTypeOK, FailState
  <1>3. mem'[n] \in State
    BY <1>1, <1>2 DEF State
  <1>4. mem' \in [Node -> State] /\ disk' \in [Node -> State]
    BY <1>2, <1>3 DEF AgentTypeOK, FailState
  <1>5. AckFor(n, d, FALSE, rf) \in Ack
    BY <1>1, <1>3 DEF AckFor, Ack, Bundle, State
  <1> QED
    BY <1>4, <1>5 DEF AgentTypeOK, FailState

(* Every step keeps every variable in its type.                            *)
LEMMA StepType == ASSUME TypeOK, [Next]_vars PROVE TypeOK'
  <1> USE MaxFaultsAssumption
  <1>a. CPTypeOK /\ AgentTypeOK /\ net \subseteq Ack /\ faults \in 0..MaxFaults
    BY DEF TypeOK
  <1>1. CASE ControlPlaneStep
    BY <1>1, <1>a, CPInternalType DEF ControlPlaneStep, agentVars, TypeOK, AgentTypeOK
  <1>2. CASE BackendFault
    BY <1>2, <1>a DEF BackendFault, Fault, AbortHandler, agentVars, TypeOK, CPTypeOK, AgentTypeOK
  <1>3. ASSUME NEW n \in Node, Poll(n) PROVE TypeOK'
    <2>1. LatestDocument(n) \in desired
      BY <1>3 DEF Poll, LatestDocument, LatestFor
    <2>2. LatestDocument(n) \in Bundle
      BY <1>a, <2>1 DEF CPTypeOK
    <2> QED
      BY <1>3, <1>a, <2>2 DEF Poll, Fetch, cpVars, TypeOK, CPTypeOK, AgentTypeOK
  <1>4. ASSUME NEW n \in Node, CommitBundle(n) PROVE TypeOK'
    <2>1. PICK d \in pending[n] : CommitState(n, d, TRUE) /\ net' = net \cup {AckFor(n, d, TRUE, FALSE)}
      BY <1>4 DEF CommitBundle
    <2>2. AgentTypeOK' /\ AckFor(n, d, TRUE, FALSE) \in Ack
      BY <1>a, <2>1, CommitType
    <2> QED
      BY <1>4, <1>a, <2>1, <2>2 DEF CommitBundle, cpVars, TypeOK, CPTypeOK
  <1>5. ASSUME NEW n \in Node, CommitUnsaved(n) PROVE TypeOK'
    <2>1. PICK d \in pending[n] : CommitState(n, d, FALSE)
      BY <1>5 DEF CommitUnsaved
    <2>2. AgentTypeOK' /\ AckFor(n, d, TRUE, FALSE) \in Ack
      BY <1>a, <2>1, CommitType
    <2> QED
      BY <1>5, <1>a, <2>2 DEF CommitUnsaved, Fault, cpVars, TypeOK, CPTypeOK
  <1>6. ASSUME NEW n \in Node, NEW saved \in BOOLEAN, RejectBundle(n, saved) PROVE TypeOK'
    <2>1. PICK d \in pending[n], s \in {"failed", "rollback_failed"}, rf \in BOOLEAN :
            FailState(n, d, s, saved) /\ net' = net \cup {AckFor(n, d, FALSE, rf)}
      BY <1>6 DEF RejectBundle
    <2>2. AgentTypeOK' /\ AckFor(n, d, FALSE, rf) \in Ack
      BY <1>a, <2>1, FailType DEF ConfigStatus
    <2>3. UNCHANGED cpVars /\ faults' \in 0..MaxFaults
      BY <1>6, <1>a DEF RejectBundle, Fault
    <2>4. CPTypeOK'
      BY <1>a, <2>3 DEF cpVars, CPTypeOK
    <2> QED
      BY <1>a, <2>1, <2>2, <2>3, <2>4 DEF TypeOK
  <1>7. ASSUME NEW n \in Node, DiscardBundle(n) PROVE TypeOK'
    BY <1>7, <1>a DEF DiscardBundle, Discard, Fault, cpVars, TypeOK, CPTypeOK, AgentTypeOK
  <1>8. ASSUME NEW n \in Node, RestartMonitor(n) PROVE TypeOK'
    BY <1>8, <1>a DEF RestartMonitor, Restart, Fault, cpVars, TypeOK, CPTypeOK, AgentTypeOK
  <1>9. ASSUME NEW n \in Node, SendHeartbeat(n) PROVE TypeOK'
    <2>1. mem[n].version \in Nat /\ mem[n].config_status \in ConfigStatus
      BY <1>a DEF AgentTypeOK, State
    <2>2. CPTypeOK'
      BY <1>9, <1>a, <2>1, HeartbeatType DEF SendHeartbeat
    <2> QED
      BY <1>9, <1>a, <2>2 DEF SendHeartbeat, SaveForHeartbeat, TypeOK, AgentTypeOK
  <1>10. ASSUME NEW m \in net, DeliverAck(m) PROVE TypeOK'
    <2>1. CASE StoreAck(m)
      BY <1>10, <1>a, <2>1, StoreAckType DEF DeliverAck, agentVars, TypeOK, AgentTypeOK
    <2>2. CASE RefuseAck(m)
      BY <1>10, <1>a, <2>2 DEF RefuseAck, DeliverAck, cpVars, agentVars, TypeOK, CPTypeOK, AgentTypeOK
    <2> QED
      BY <1>10, <2>1, <2>2 DEF DeliverAck
  <1>11. ASSUME NEW m \in net, DuplicateAck(m) PROVE TypeOK'
    BY <1>11, <1>a, StoreAckType DEF DuplicateAck, Fault, agentVars, TypeOK, AgentTypeOK
  <1>12. ASSUME NEW m \in net, LoseAck(m) PROVE TypeOK'
    BY <1>12, <1>a DEF LoseAck, Fault, cpVars, agentVars, TypeOK, CPTypeOK, AgentTypeOK
  <1>13. CASE UNCHANGED vars
    BY <1>13, <1>a DEF vars, cpVars, agentVars, TypeOK, CPTypeOK, AgentTypeOK
  <1> QED
    BY <1>1, <1>2, <1>3, <1>4, <1>5, <1>6, <1>7, <1>8, <1>9, <1>10, <1>11, <1>12, <1>13
       DEF Next, MonitorStep, NetworkStep

(* Every reachable state of the rollout is well typed.                     *)
THEOREM RolloutTypeCorrect == Spec => []TypeOK
  <1>1. Init => TypeOK
    BY InitType
  <1>2. TypeOK /\ [Next]_vars => TypeOK'
    BY StepType
  <1> QED
    BY <1>1, <1>2, PTL DEF Spec

-----------------------------------------------------------------------------
(* The version in every state file is kept or raised.                      *)
DiskGrows == \A n \in Node : disk[n].version <= disk'[n].version

(* What a step of a monitor must establish: it leaves the backend alone,   *)
(* its state files only grow and its positive acks are true.               *)
LEMMA MonitorStepInv ==
  ASSUME IInv, TypeOK', UNCHANGED cpVars, MonitorsFollow', DiskGrows,
         \A m \in net' : m \in net \/ (m.ok => m.version <= disk'[m.node].version)
  PROVE  IInv'
  <1>1. \A n \in Node : disk[n].version \in Nat /\ disk'[n].version \in Nat
    BY DEF IInv, TypeOK, AgentTypeOK, State
  <1>2. \A r \in Release : request[r].version \in Nat
    BY DEF IInv, TypeOK, CPTypeOK, RequestState
  <1>3. BundlesOfRequests' /\ ReleasesOfRequests'
    BY DEF IInv, cpVars, BundlesOfRequests, ReleasesOfRequests
  <1>4. \A m \in net' : m.ok => m.version <= disk'[m.node].version
    <2> SUFFICES ASSUME NEW m \in net', m.ok, m \in net PROVE m.version <= disk'[m.node].version
      OBVIOUS
    <2>1. m.node \in Node /\ m.version \in Nat
      BY DEF IInv, TypeOK, Ack
    <2>2. m.version <= disk[m.node].version
      BY DEF IInv, AcksAreTrue
    <2> QED
      BY <1>1, <2>1, <2>2 DEF DiskGrows
  <1>5. \A r \in Release : \A n \in Node :
          request[r].version <= disk[n].version => request[r].version <= disk'[n].version
    BY <1>1, <1>2 DEF DiskGrows
  <1>6. \A r \in Release : release[r].nodes \subseteq Node
    BY DEF IInv, TypeOK, CPTypeOK
  <1>7. \A h \in handler : h.ack.release \in Release
    BY DEF IInv, TypeOK, CPTypeOK, Handler, Ack
  <1>8. AcksAreTrue'
    BY <1>4, <1>5, <1>6, <1>7 DEF IInv, AcksAreTrue, cpVars
  <1>9. SucceededMeansApplied'
    BY <1>1, <1>2, <1>5, <1>6 DEF IInv, SucceededMeansApplied, cpVars
  <1> QED
    BY <1>3, <1>8, <1>9 DEF IInv

(* Steps of a request and of an ack handler.                               *)
LEMMA ControlPlaneInv == ASSUME IInv, TypeOK', ControlPlaneStep PROVE IInv'
  <1>a. /\ request \in [Release -> RequestState]
        /\ release \in [Release -> [status : Status, nodes : SUBSET Node]]
        /\ desired \subseteq Bundle
    BY DEF IInv, TypeOK, CPTypeOK
  <1>b. UNCHANGED <<mem, disk, pending, net>>
    BY DEF ControlPlaneStep, agentVars
  <1>c. ASSUME desired \subseteq desired' PROVE MonitorsFollow'
    BY <1>b, <1>c DEF IInv, MonitorsFollow
  <1>1. CASE RaiseRevision
    BY <1>1, <1>b, <1>c DEF RaiseRevision, IInv, BundlesOfRequests, ReleasesOfRequests, AcksAreTrue,
         SucceededMeansApplied
  (* A request that has no release yet moves on: no ack, no verdict and no *)
  (* release speaks of it.                                                 *)
  <1>2. ASSUME NEW r \in Release, request[r].pc # "done", desired \subseteq desired',
               \A s \in Release \ {r} : request'[s] = request[s],
               UNCHANGED <<release, lastAck, handler>>
        PROVE  ReleasesOfRequests' /\ AcksAreTrue' /\ SucceededMeansApplied' /\ MonitorsFollow'
    <2>1. release[r].status = "none" /\ \A n \in Node : lastAck[r][n] # "ok"
      BY <1>2 DEF IInv, ReleasesOfRequests, AcksAreTrue
    <2>2. \A h \in handler : h.ack.release \in Release \ {r}
      BY <2>1 DEF IInv, TypeOK, CPTypeOK, Handler, Ack, AcksAreTrue
    <2>3. ReleasesOfRequests'
      BY <1>2, <2>1 DEF IInv, ReleasesOfRequests
    <2>4. AcksAreTrue'
      BY <1>2, <2>1, <2>2, <1>b DEF IInv, AcksAreTrue
    <2>5. SucceededMeansApplied'
      BY <1>2, <2>1, <1>b DEF IInv, SucceededMeansApplied
    <2> QED
      BY <1>2, <1>c, <2>3, <2>4, <2>5
  <1>3. ASSUME NEW r \in Release, JoinExisting(r) PROVE IInv'
    <2>1. BundlesOfRequests'
      BY <1>3, <1>a DEF JoinExisting, IInv, BundlesOfRequests, RequestState, Bundle
    <2> QED
      BY <1>3, <1>a, <1>2, <2>1 DEF JoinExisting, IInv
  <1>4. ASSUME NEW r \in Release, NEW nodes \in SUBSET Node, Admit(r, nodes) PROVE IInv'
    <2>1. BundlesOfRequests'
      BY <1>4, <1>a DEF Admit, IInv, BundlesOfRequests, RequestState, Bundle
    <2> QED
      BY <1>4, <1>a, <1>2, <2>1 DEF Admit, IInv
  <1>5. ASSUME NEW r \in Release, ComputeVersion(r) PROVE IInv'
    <2>1. PICK v \in Nat : request' = [request EXCEPT ![r] = [@ EXCEPT !.pc = "computed", !.version = v]]
      <3>1. PICK latest \in {0} \cup {d.version : d \in desired} :
              request' = [request EXCEPT ![r] =
                [@ EXCEPT !.pc = "computed",
                          !.version = NextVersion(request[r].revision, latest)]]
        BY <1>5 DEF ComputeVersion
      <3>2. latest \in Nat
        BY <1>a, <3>1 DEF Bundle
      <3>3. NextVersion(request[r].revision, latest) \in Nat
        BY <1>a, <3>2 DEF RequestState, NextVersion
      <3> QED
        BY <3>1, <3>3
    <2>2. request[r].pc = "admitted" /\ UNCHANGED <<desired, release, lastAck, handler>>
      BY <1>5 DEF ComputeVersion
    <2>3. /\ request'[r].pc = "computed"
          /\ request'[r].nodes = request[r].nodes
          /\ request'[r].todo = request[r].todo
          /\ \A s \in Release \ {r} : request'[s] = request[s]
      BY <1>a, <2>1 DEF RequestState
    <2>4. BundlesOfRequests'
      BY <1>a, <2>2, <2>3 DEF IInv, BundlesOfRequests, Bundle
    <2> QED
      BY <1>2, <2>2, <2>3, <2>4 DEF IInv
  <1>6. ASSUME NEW r \in Release, SetRevision(r) PROVE IInv'
    <2>1. BundlesOfRequests'
      BY <1>6, <1>a DEF SetRevision, IInv, BundlesOfRequests, RequestState, Bundle
    <2> QED
      BY <1>6, <1>a, <1>2, <2>1 DEF SetRevision, IInv
  <1>7. ASSUME NEW r \in Release, NEW n \in Node, InsertDesired(r, n) PROVE IInv'
    <2>1. BundlesOfRequests'
      BY <1>7, <1>a DEF InsertDesired, IInv, BundlesOfRequests, RequestState, Bundle
    <2> QED
      BY <1>7, <1>a, <1>2, <2>1 DEF InsertDesired, IInv
  <1>8. ASSUME NEW r \in Release, CreateTask(r) PROVE IInv'
    <2>1. BundlesOfRequests'
      BY <1>8, <1>a DEF CreateTask, IInv, BundlesOfRequests, RequestState, Bundle
    <2> QED
      BY <1>8, <1>a, <1>2, <2>1 DEF CreateTask, IInv
  <1>9. ASSUME NEW r \in Release, AbortRequest(r) PROVE IInv'
    <2>1. BundlesOfRequests'
      BY <1>9, <1>a DEF AbortRequest, InitialRequest, IInv, BundlesOfRequests, RequestState, Bundle
    <2> QED
      BY <1>9, <1>a, <1>2, <2>1 DEF AbortRequest, IInv
  <1>10. ASSUME NEW r \in Release, InsertRelease(r) PROVE IInv'
    <2>1. BundlesOfRequests'
      BY <1>10, <1>a DEF InsertRelease, IInv, BundlesOfRequests, RequestState, Bundle
    <2>2. release[r].status = "none" /\ \A n \in Node : lastAck[r][n] # "ok"
      BY <1>10 DEF InsertRelease, IInv, ReleasesOfRequests, AcksAreTrue
    <2>3. \A h \in handler : h.ack.release \in Release \ {r}
      BY <2>2 DEF IInv, TypeOK, CPTypeOK, Handler, Ack, AcksAreTrue
    <2>4. /\ request' = [request EXCEPT ![r].pc = "done"]
          /\ release' = [release EXCEPT ![r] = [status |-> "applying", nodes |-> request[r].nodes]]
          /\ UNCHANGED <<desired, lastAck, handler>>
      BY <1>10 DEF InsertRelease
    <2>5. ReleasesOfRequests'
      BY <1>a, <2>4 DEF IInv, ReleasesOfRequests, RequestState
    <2>6. AcksAreTrue'
      BY <1>a, <1>b, <2>2, <2>3, <2>4 DEF IInv, AcksAreTrue, RequestState
    <2>7. SucceededMeansApplied'
      BY <1>a, <1>b, <2>4 DEF IInv, SucceededMeansApplied, RequestState
    <2> QED
      BY <1>c, <2>1, <2>4, <2>5, <2>6, <2>7 DEF IInv
  <1>11. ASSUME NEW h \in handler, ReadAcks(h) PROVE IInv'
    <2> DEFINE r == h.ack.release
    <2>1. r \in Release /\ release[r].nodes \subseteq Node
      BY DEF IInv, TypeOK, CPTypeOK, Handler, Ack
    <2>2. UNCHANGED <<request, desired, release, lastAck>>
      BY <1>11 DEF ReadAcks
    <2>3. ASSUME NEW g \in handler', g \notin handler
          PROVE  /\ g.ack.release = r
                 /\ g.verdict = "succeeded" => \A n \in release[r].nodes : lastAck[r][n] = "ok"
      BY <1>11, <2>3 DEF ReadAcks, ReleaseVerdict, IInv, TypeOK, CPTypeOK, Handler
    <2>4. AcksAreTrue'
      BY <1>b, <2>1, <2>2, <2>3 DEF IInv, AcksAreTrue
    <2> QED
      BY <1>b, <1>c, <2>2, <2>4 DEF IInv, BundlesOfRequests, ReleasesOfRequests, SucceededMeansApplied
  <1>12. ASSUME NEW h \in handler, SaveVerdict(h) PROVE IInv'
    <2> DEFINE r == h.ack.release
    <2>1. r \in Release /\ h.verdict \in Verdict
      BY <1>12 DEF SaveVerdict, IInv, TypeOK, CPTypeOK, Handler, Ack
    <2>2. /\ UNCHANGED <<request, desired, lastAck>>
          /\ release' = [release EXCEPT ![r].status = h.verdict]
          /\ handler' \subseteq handler
      BY <1>12 DEF SaveVerdict
    <2>3. /\ release[r].status # "none"
          /\ h.verdict = "succeeded" =>
               \A n \in release[r].nodes : request[r].version <= disk[n].version
      BY DEF IInv, AcksAreTrue
    <2>4. ReleasesOfRequests'
      BY <1>a, <2>1, <2>2, <2>3 DEF IInv, ReleasesOfRequests
    <2>5. AcksAreTrue'
      BY <1>a, <1>b, <2>1, <2>2, <2>3 DEF IInv, AcksAreTrue, Verdict, TypeOK, CPTypeOK, Handler, Ack
    <2>6. \A n \in Node : disk'[n] = disk[n]
      BY <1>b
    <2>7. \A s \in Release : release'[s].nodes = release[s].nodes
      BY <1>a, <2>1, <2>2
    <2>8. \A s \in Release : s # r => release'[s] = release[s]
      BY <1>a, <2>1, <2>2
    <2>9. release'[r].status = h.verdict
      BY <1>a, <2>1, <2>2
    <2>10. SucceededMeansApplied'
      <3> SUFFICES ASSUME NEW s \in Release, release'[s].status = "succeeded", NEW n \in release'[s].nodes
                   PROVE  disk'[n].version >= request'[s].version
        BY DEF SucceededMeansApplied
      <3>1. n \in Node /\ n \in release[s].nodes
        BY <1>a, <2>7
      <3>2. request[s].version \in Nat /\ disk[n].version \in Nat
        BY <1>a, <3>1 DEF RequestState, IInv, TypeOK, AgentTypeOK, State
      <3>3. CASE s = r
        BY <3>1, <3>2, <3>3, <2>2, <2>3, <2>6, <2>9
      <3>4. CASE s # r
        BY <3>1, <3>4, <2>2, <2>6, <2>8 DEF IInv, SucceededMeansApplied
      <3> QED
        BY <3>3, <3>4
    <2>11. BundlesOfRequests'
      BY <2>2 DEF IInv, BundlesOfRequests
    <2> QED
      BY <1>c, <2>2, <2>4, <2>5, <2>10, <2>11 DEF IInv
  <1> QED
    BY <1>1, <1>3, <1>4, <1>5, <1>6, <1>7, <1>8, <1>9, <1>10, <1>11, <1>12
       DEF ControlPlaneStep, CPInternal

(* Storing an ack that was in flight.                                      *)
LEMMA StoreAckInv ==
  ASSUME IInv, TypeOK', NEW m \in net, StoreAck(m), UNCHANGED agentVars, net' \subseteq net
  PROVE  IInv'
  <1>1. m.node \in Node /\ m.release \in Release /\ m.version \in Nat
    BY DEF IInv, TypeOK, Ack
  <1>2. /\ UNCHANGED <<request, desired, release, mem, disk, pending>>
        /\ lastAck' = [lastAck EXCEPT ![m.release][m.node] = IF m.ok THEN "ok" ELSE "bad"]
        /\ handler' = handler \cup {[ack |-> m, verdict |-> "reading"]}
    BY DEF StoreAck, agentVars
  <1>3. request[m.release].pc = "done" /\ m.version = request[m.release].version
    <2>1. /\ release[m.release].status # "none"
          /\ [release |-> m.release, node |-> m.node, version |-> m.version] \in desired
      BY DEF StoreAck, AckAcceptable
    <2>2. request[m.release].pc = "done"
      BY <1>1, <2>1 DEF IInv, ReleasesOfRequests
    <2> QED
      BY <2>1, <2>2 DEF IInv, BundlesOfRequests
  <1>4. m.ok => request[m.release].version <= disk[m.node].version
    BY <1>3 DEF IInv, AcksAreTrue
  <1>5. \A r \in Release : \A n \in Node :
          lastAck'[r][n] = "ok" => /\ request[r].pc = "done"
                                   /\ request[r].version <= disk[n].version
    <2> SUFFICES ASSUME NEW r \in Release, NEW n \in Node, lastAck'[r][n] = "ok"
                 PROVE  request[r].pc = "done" /\ request[r].version <= disk[n].version
      OBVIOUS
    <2>1. CASE r = m.release /\ n = m.node
      <3>1. m.ok
        BY <1>1, <1>2, <2>1 DEF IInv, TypeOK, CPTypeOK
      <3> QED
        BY <1>3, <1>4, <2>1, <3>1
    <2>2. CASE ~(r = m.release /\ n = m.node)
      <3>1. lastAck[r][n] = "ok"
        BY <1>1, <1>2, <2>2 DEF IInv, TypeOK, CPTypeOK
      <3> QED
        BY <3>1 DEF IInv, AcksAreTrue
    <2> QED
      BY <2>1, <2>2
  <1>6. \A h \in handler' : h \in handler \/ (h.ack = m /\ h.verdict = "reading")
    BY <1>2
  <1>7. release[m.release].status # "none"
    BY DEF StoreAck, AckAcceptable
  <1>8. AcksAreTrue'
    BY <1>2, <1>5, <1>6, <1>7 DEF IInv, AcksAreTrue
  <1> QED
    BY <1>2, <1>8 DEF IInv, BundlesOfRequests, ReleasesOfRequests, MonitorsFollow,
       SucceededMeansApplied

(* A commit moves the monitor forward to a bundle desired for it.          *)
LEMMA CommitFollows ==
  ASSUME IInv, NEW n \in Node, NEW d, NEW saved \in BOOLEAN, CommitState(n, d, saved),
         UNCHANGED cpVars
  PROVE  /\ MonitorsFollow' /\ DiskGrows
         /\ saved => disk'[n].version = d.version
  <1>1. mem \in [Node -> State] /\ disk \in [Node -> State] /\ d \in Bundle
    BY DEF CommitState, IInv, TypeOK, AgentTypeOK
  <1>2. /\ d \in desired /\ d.node = n /\ mem[n].version <= d.version
        /\ disk[n].version <= mem[n].version
    BY DEF CommitState, IInv, MonitorsFollow
  <1>3. /\ mem'[n].version = d.version
        /\ \A k \in Node : k # n => mem'[k] = mem[k] /\ disk'[k] = disk[k] /\ pending'[k] = pending[k]
        /\ pending'[n] = {}
        /\ disk'[n] = IF saved THEN mem'[n] ELSE disk[n]
        /\ desired' = desired
    BY <1>1 DEF CommitState, cpVars, IInv, TypeOK, AgentTypeOK
  <1>4. \A k \in Node : mem[k].version \in Nat /\ disk[k].version \in Nat
    BY <1>1 DEF State
  <1>5. d.version \in Nat
    BY <1>1 DEF Bundle
  <1>6. DiskGrows
    BY <1>2, <1>3, <1>4, <1>5 DEF DiskGrows
  <1>7. MonitorsFollow'
    BY <1>2, <1>3, <1>4, <1>5 DEF IInv, MonitorsFollow
  <1> QED
    BY <1>3, <1>6, <1>7

(* A failure keeps the applied version.                                    *)
LEMMA FailFollows ==
  ASSUME IInv, NEW n \in Node, NEW d, NEW s, NEW saved \in BOOLEAN, FailState(n, d, s, saved),
         UNCHANGED cpVars
  PROVE  MonitorsFollow' /\ DiskGrows
  <1>1. mem \in [Node -> State] /\ disk \in [Node -> State]
    BY DEF IInv, TypeOK, AgentTypeOK
  <1>2. /\ mem'[n].version = mem[n].version
        /\ \A k \in Node : k # n => mem'[k] = mem[k] /\ disk'[k] = disk[k] /\ pending'[k] = pending[k]
        /\ pending'[n] = {}
        /\ disk'[n] = IF saved THEN mem'[n] ELSE disk[n]
        /\ desired' = desired
    BY <1>1 DEF FailState, cpVars, IInv, TypeOK, AgentTypeOK
  <1>3. \A k \in Node : mem[k].version \in Nat /\ disk[k].version \in Nat
    BY <1>1 DEF State
  <1> QED
    BY <1>2, <1>3 DEF IInv, MonitorsFollow, DiskGrows

(* The invariant is kept by every step.                                    *)
LEMMA StepInv == ASSUME IInv, [Next]_vars PROVE IInv'
  <1>a. TypeOK'
    BY StepType DEF IInv
  <1>b. /\ mem \in [Node -> State] /\ disk \in [Node -> State]
        /\ pending \in [Node -> SUBSET Bundle] /\ desired \subseteq Bundle
    BY DEF IInv, TypeOK, AgentTypeOK, CPTypeOK
  <1>c. \A k \in Node : mem[k].version \in Nat /\ disk[k].version \in Nat
    BY <1>b DEF State
  <1>1. CASE ControlPlaneStep
    BY <1>1, <1>a, ControlPlaneInv
  <1>2. CASE BackendFault
    BY <1>2, <1>a DEF BackendFault, AbortHandler, agentVars, IInv, BundlesOfRequests,
         ReleasesOfRequests, MonitorsFollow, AcksAreTrue, SucceededMeansApplied
  <1>3. ASSUME NEW n \in Node, Poll(n) PROVE IInv'
    <2>1. LatestDocument(n) \in LatestFor(n)
      BY <1>3 DEF Poll, LatestDocument
    <2>2. LatestDocument(n) \in desired /\ LatestDocument(n).node = n
      BY <2>1 DEF LatestFor
    <2>3. mem[n].version <= LatestDocument(n).version
      BY <1>b, <1>c, <2>1, <2>2 DEF LatestFor, Bundle, IInv, MonitorsFollow
    <2>4. /\ UNCHANGED <<cpVars, mem, disk, net>>
          /\ pending' = [pending EXCEPT ![n] = {LatestDocument(n)}]
      BY <1>3 DEF Poll, Fetch
    <2>5. MonitorsFollow'
      BY <1>b, <2>2, <2>3, <2>4 DEF IInv, MonitorsFollow, cpVars
    <2>6. DiskGrows
      BY <1>c, <2>4 DEF DiskGrows
    <2> QED
      BY <1>a, <2>4, <2>5, <2>6, MonitorStepInv
  <1>4. ASSUME NEW n \in Node, CommitBundle(n) PROVE IInv'
    <2>1. PICK d \in pending[n] :
            /\ CommitState(n, d, TRUE)
            /\ net' = net \cup {AckFor(n, d, TRUE, FALSE)}
            /\ UNCHANGED cpVars
      BY <1>4 DEF CommitBundle
    <2>2. MonitorsFollow' /\ DiskGrows /\ disk'[n].version = d.version
      BY <2>1, CommitFollows
    <2>3. d.version \in Nat
      BY <1>b DEF Bundle
    <2>4. \A m \in net' : m \in net \/ (m.ok => m.version <= disk'[m.node].version)
      BY <2>1, <2>2, <2>3 DEF AckFor
    <2> QED
      BY <1>a, <2>1, <2>2, <2>4, MonitorStepInv
  <1>5. ASSUME NEW n \in Node, CommitUnsaved(n) PROVE IInv'
    <2>1. PICK d \in pending[n] : CommitState(n, d, FALSE)
      BY <1>5 DEF CommitUnsaved
    <2>2. UNCHANGED <<cpVars, net>>
      BY <1>5 DEF CommitUnsaved
    <2>3. MonitorsFollow' /\ DiskGrows
      BY <2>1, <2>2, CommitFollows
    <2> QED
      BY <1>a, <2>2, <2>3, MonitorStepInv
  <1>6. ASSUME NEW n \in Node, NEW saved \in BOOLEAN, RejectBundle(n, saved) PROVE IInv'
    <2>1. PICK d \in pending[n], s \in {"failed", "rollback_failed"}, rf \in BOOLEAN :
            FailState(n, d, s, saved) /\ net' = net \cup {AckFor(n, d, FALSE, rf)}
      BY <1>6 DEF RejectBundle
    <2>2. UNCHANGED cpVars
      BY <1>6 DEF RejectBundle
    <2>3. MonitorsFollow' /\ DiskGrows
      BY <2>1, <2>2, FailFollows
    <2>4. \A m \in net' : m \in net \/ (m.ok => m.version <= disk'[m.node].version)
      BY <2>1 DEF AckFor
    <2> QED
      BY <1>a, <2>2, <2>3, <2>4, MonitorStepInv
  <1>7. ASSUME NEW n \in Node, DiscardBundle(n) PROVE IInv'
    <2>1. UNCHANGED <<cpVars, mem, disk, net>> /\ pending' = [pending EXCEPT ![n] = {}]
      BY <1>7 DEF DiscardBundle, Discard
    <2>2. MonitorsFollow' /\ DiskGrows
      BY <1>b, <1>c, <2>1 DEF IInv, MonitorsFollow, DiskGrows, cpVars
    <2> QED
      BY <1>a, <2>1, <2>2, MonitorStepInv
  <1>8. ASSUME NEW n \in Node, RestartMonitor(n) PROVE IInv'
    <2>1. /\ UNCHANGED <<cpVars, disk, net>>
          /\ pending' = [pending EXCEPT ![n] = {}]
          /\ mem' = [mem EXCEPT ![n] = disk[n]]
      BY <1>8 DEF RestartMonitor, Restart
    <2>2. MonitorsFollow' /\ DiskGrows
      BY <1>b, <1>c, <2>1 DEF IInv, MonitorsFollow, DiskGrows, cpVars
    <2> QED
      BY <1>a, <2>1, <2>2, MonitorStepInv
  <1>9. ASSUME NEW n \in Node, SendHeartbeat(n) PROVE IInv'
    <2>1. /\ UNCHANGED <<mem, pending, net, request, desired, release, lastAck, handler>>
          /\ disk' = [disk EXCEPT ![n] = mem[n]]
      BY <1>9 DEF SendHeartbeat, SaveForHeartbeat, AcceptHeartbeat
    <2>2. MonitorsFollow' /\ DiskGrows
      BY <1>b, <1>c, <2>1 DEF IInv, MonitorsFollow, DiskGrows
    <2>3. \A k \in Node : disk'[k].version \in Nat
      BY <1>a DEF TypeOK, AgentTypeOK, State
    <2>4. \A v \in Nat : \A k \in Node : v <= disk[k].version => v <= disk'[k].version
      BY <1>c, <2>2, <2>3 DEF DiskGrows
    <2>5. /\ \A m \in net : m.node \in Node /\ m.version \in Nat
          /\ \A r \in Release : request[r].version \in Nat /\ release[r].nodes \subseteq Node
          /\ \A h \in handler : h.ack.release \in Release
      BY DEF IInv, TypeOK, CPTypeOK, RequestState, Handler, Ack
    <2>6. AcksAreTrue'
      BY <2>1, <2>4, <2>5 DEF IInv, AcksAreTrue
    <2>7. SucceededMeansApplied'
      <3>1. \A r \in Release : \A k \in Node :
              disk[k].version >= request[r].version => disk'[k].version >= request[r].version
        BY <1>c, <2>3, <2>4, <2>5
      <3> QED
        BY <2>1, <2>5, <3>1 DEF IInv, SucceededMeansApplied
    <2> QED
      BY <1>a, <2>1, <2>2, <2>6, <2>7 DEF IInv, BundlesOfRequests, ReleasesOfRequests
  <1>10. ASSUME NEW m \in net, DeliverAck(m) PROVE IInv'
    <2>1. CASE StoreAck(m)
      BY <1>10, <1>a, <2>1, StoreAckInv DEF DeliverAck
    <2>2. CASE RefuseAck(m)
      BY <1>10, <1>a, <2>2 DEF DeliverAck, RefuseAck, cpVars, agentVars, IInv, BundlesOfRequests,
         ReleasesOfRequests, MonitorsFollow, AcksAreTrue, SucceededMeansApplied
    <2> QED
      BY <1>10, <2>1, <2>2 DEF DeliverAck
  <1>11. ASSUME NEW m \in net, DuplicateAck(m) PROVE IInv'
    BY <1>11, <1>a, StoreAckInv DEF DuplicateAck
  <1>12. ASSUME NEW m \in net, LoseAck(m) PROVE IInv'
    BY <1>12, <1>a DEF LoseAck, cpVars, agentVars, IInv, BundlesOfRequests,
         ReleasesOfRequests, MonitorsFollow, AcksAreTrue, SucceededMeansApplied
  <1>13. CASE UNCHANGED vars
    BY <1>13, <1>a DEF vars, cpVars, agentVars, IInv, BundlesOfRequests,
         ReleasesOfRequests, MonitorsFollow, AcksAreTrue, SucceededMeansApplied
  <1> QED
    BY <1>1, <1>2, <1>3, <1>4, <1>5, <1>6, <1>7, <1>8, <1>9, <1>10, <1>11, <1>12, <1>13
       DEF Next, MonitorStep, NetworkStep

(* The invariant holds initially: nothing exists yet.                      *)
LEMMA InitInv == Init => IInv
  BY InitType DEF Init, CPInit, AgentInit, InitialRequest, InitialState, IInv, BundlesOfRequests,
     ReleasesOfRequests, MonitorsFollow, AcksAreTrue, SucceededMeansApplied

(* The invariant holds in every reachable state.                           *)
THEOREM RolloutInvariant == Spec => []IInv
  <1>1. Init => IInv
    BY InitInv
  <1>2. IInv /\ [Next]_vars => IInv'
    BY StepInv
  <1> QED
    BY <1>1, <1>2, PTL DEF Spec

(* A succeeded release is in force on every node it names: agent_ack's     *)
(* verdict can be trusted under every loss, delay, repetition, crash and   *)
(* failed save.                                                            *)
THEOREM SucceededReleaseIsApplied == Spec => []SucceededMeansApplied
  <1>1. IInv => SucceededMeansApplied
    BY DEF IInv
  <1> QED
    BY <1>1, RolloutInvariant, PTL

(* No monitor is ever handed a bundle older than the one it runs.          *)
THEOREM BundlesAreNeverOlder == Spec => []BundleNeverOlder
  <1>1. IInv => BundleNeverOlder
    <2> SUFFICES ASSUME IInv, NEW n \in Node, NEW d \in pending[n]
                 PROVE  d.version >= mem[n].version
      BY DEF BundleNeverOlder
    <2>1. d \in Bundle /\ mem[n] \in State
      BY DEF IInv, TypeOK, AgentTypeOK
    <2> QED
      BY <2>1 DEF IInv, MonitorsFollow, Bundle, State
  <1> QED
    BY <1>1, RolloutInvariant, PTL

(* Every release record has all its bundles.                               *)
THEOREM ReleasesHaveBundles == Spec => []ReleaseHasBundles
  <1>1. IInv => ReleaseHasBundles
    BY DEF IInv, ReleasesOfRequests, BundlesOfRequests, ReleaseHasBundles
  <1> QED
    BY <1>1, RolloutInvariant, PTL

(* A step never lowers a version in a state file.                          *)
LEMMA StepDiskGrows == ASSUME IInv, [Next]_vars PROVE DiskGrows
  <1>b. mem \in [Node -> State] /\ disk \in [Node -> State]
    BY DEF IInv, TypeOK, AgentTypeOK
  <1>c. \A k \in Node : mem[k].version \in Nat /\ disk[k].version \in Nat
    BY <1>b DEF State
  <1>1. CASE UNCHANGED disk
    BY <1>1, <1>c DEF DiskGrows
  <1>2. ASSUME NEW n \in Node, CommitBundle(n) \/ CommitUnsaved(n) PROVE DiskGrows
    BY <1>2, CommitFollows DEF CommitBundle, CommitUnsaved
  <1>3. ASSUME NEW n \in Node, NEW saved \in BOOLEAN, RejectBundle(n, saved) PROVE DiskGrows
    BY <1>3, FailFollows DEF RejectBundle
  <1>4. ASSUME NEW n \in Node, SendHeartbeat(n) PROVE DiskGrows
    BY <1>4, <1>b, <1>c DEF SendHeartbeat, SaveForHeartbeat, IInv, MonitorsFollow, DiskGrows
  <1> QED
    BY <1>1, <1>2, <1>3, <1>4 DEF Next, MonitorStep, NetworkStep, ControlPlaneStep, BackendFault,
       Poll, Fetch, DiscardBundle, Discard, RestartMonitor, Restart, DeliverAck, DuplicateAck,
       LoseAck, agentVars, vars

(* The version a monitor restarts with never decreases.                    *)
THEOREM AppliedIsMonotonic == Spec => AppliedNeverRegresses
  <1>1. IInv /\ [Next]_vars => [\A n \in Node : disk'[n].version >= disk[n].version]_vars
    <2> SUFFICES ASSUME IInv, [Next]_vars, NEW n \in Node
                 PROVE  disk'[n].version >= disk[n].version
      OBVIOUS
    <2>1. disk[n].version <= disk'[n].version
      BY StepDiskGrows DEF DiskGrows
    <2>2. disk[n].version \in Nat /\ disk'[n].version \in Nat
      BY StepType DEF IInv, TypeOK, AgentTypeOK, State
    <2> QED
      BY <2>1, <2>2
  <1> QED
    BY <1>1, RolloutInvariant, PTL DEF Spec, AppliedNeverRegresses
=============================================================================
