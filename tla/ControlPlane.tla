---------------------------- MODULE ControlPlane ----------------------------
(***************************************************************************)
(* The release pipeline of the backend: POST /config/releases              *)
(* (_create_release_from_draft and create_desired_release), the read side  *)
(* of GET /agent/v1/desired (latest_release) and POST /agent/v1/ack        *)
(* (agent_ack).  One site.                                                 *)
(*                                                                         *)
(* Every `await` on MongoDB is a point where another request may run, so a *)
(* handler is split into the steps between which the code awaits and the   *)
(* documents it has read are carried in `request` or in `handler`.  No     *)
(* index constrains DesiredRelease or ConfigRelease, so nothing but these  *)
(* steps orders the requests.                                              *)
(***************************************************************************)
EXTENDS Fleet

CONSTANTS
    Key,          \* idempotency keys
    KeyOf,        \* the Idempotency-Key header of each request
    MaxRevision   \* bound: revisions raised by policy and shutdown edits

ASSUME KeyOfAssumption == KeyOf \in [Release -> Key]
ASSUME MaxRevisionAssumption == MaxRevision \in Nat

VARIABLES
    config_revision,  \* Site.config_revision
    request,          \* local state of each create-release request
    desired,          \* the DesiredRelease collection
    release,          \* the ConfigRelease collection
    task,             \* status of the config.publish Task of each key
    lastAck,          \* newest AgentAck of each release and node
    ackSequence,      \* highest AgentAck.sequence of each node
    nodeDoc,          \* the fields of the Node documents that agents report
    handler           \* agent_ack calls past the insertion of their ack

cpVars == <<config_revision, request, desired, release, task, lastAck,
            ackSequence, nodeDoc, handler>>

Status == {"none", "applying", "succeeded", "failed"}
Verdict == {"succeeded", "failed"}

RequestState ==
    [pc : {"idle", "admitted", "computed", "planned", "tasked", "done",
           "joined", "aborted"},
     nodes : SUBSET Node, todo : SUBSET Node,
     revision : Nat, version : Nat]

Handler == [ack : Ack, verdict : Verdict \cup {"reading"}]

CPTypeOK ==
    /\ config_revision \in Nat
    /\ request \in [Release -> RequestState]
    /\ desired \subseteq Bundle
    /\ release \in [Release -> [status : Status, nodes : SUBSET Node]]
    /\ task \in [Key -> {"none", "queued", "succeeded", "failed"}]
    /\ lastAck \in [Release -> [Node -> {"none", "ok", "bad"}]]
    /\ ackSequence \in [Node -> Nat]
    /\ nodeDoc \in [Node -> [desired_version : Nat, applied_version : Nat,
                             config_status : ConfigStatus]]
    /\ handler \subseteq Handler

InitialRequest == [pc |-> "idle", nodes |-> {}, todo |-> {},
                   revision |-> 0, version |-> 0]

CPInit ==
    /\ config_revision = 0
    /\ request = [r \in Release |-> InitialRequest]
    /\ desired = {}
    /\ release = [r \in Release |-> [status |-> "none", nodes |-> {}]]
    /\ task = [k \in Key |-> "none"]
    /\ lastAck = [r \in Release |-> [n \in Node |-> "none"]]
    /\ ackSequence = [n \in Node |-> 0]
    /\ nodeDoc = [n \in Node |-> [desired_version |-> 0, applied_version |-> 0,
                                  config_status |-> "unknown"]]
    /\ handler = {}

-----------------------------------------------------------------------------
(* Queries                                                                 *)

(* latest_release(site): the greatest desired_version, 0 without a release *)
IsLatestVersion(v) ==
    /\ v \in {0} \cup {d.version : d \in desired}
    /\ \A d \in desired : d.version <= v

(* Bug_*: plausible faults, used only to show that a property can fail.    *)
Bug_LatestUnsorted(n) == {d \in desired : d.node = n}

(* latest_release(site, node) sorts on desired_version alone.              *)
LatestFor(n) ==
    {d \in desired : /\ d.node = n
                     /\ \A e \in desired : e.node = n => e.version <= d.version}

IsLatestVersionFor(n, v) ==
    \/ LatestFor(n) = {} /\ v = 0
    \/ \E d \in LatestFor(n) : v = d.version

(* Which document of equal version MongoDB returns is unspecified, but it  *)
(* is the same one as long as the collection does not change.              *)
LatestDocument(n) == CHOOSE d \in LatestFor(n) : TRUE

Bug_StaleByVersion(d, version, hash) == d.version > version

(* agent_desired: whether a bundle is sent to a node that reports version  *)
(* and hash as applied.                                                    *)
DesiredStale(d, version, hash) == d.version > version \/ d.release # hash

(* _active_config_release_for_nodes: "applying" is the only status of      *)
(* _ACTIVE_CONFIG_RELEASE_STATUSES that any code path stores.              *)
ActiveReleaseFor(nodes) ==
    {r \in Release : release[r].status = "applying" /\ release[r].nodes \cap nodes # {}}

(* ConfigRelease found through the task that holds the idempotency key     *)
ReleasesOfKey(k) ==
    {r \in Release : task[k] # "none" /\ KeyOf[r] = k /\ release[r].status # "none"}

-----------------------------------------------------------------------------
(* POST /config/releases                                                   *)

(* The retry of a request whose task and release exist returns them.       *)
JoinExisting(r) ==
    /\ request[r].pc = "idle"
    /\ ReleasesOfKey(KeyOf[r]) # {}
    /\ request' = [request EXCEPT ![r].pc = "joined"]
    /\ UNCHANGED <<config_revision, desired, release, task, lastAck,
                   ackSequence, nodeDoc, handler>>

(* Draft, site and nodes are loaded and no active release covers them.     *)
Admit(r, nodes) ==
    /\ request[r].pc = "idle"
    /\ ReleasesOfKey(KeyOf[r]) = {}
    /\ nodes # {}
    /\ ActiveReleaseFor(nodes) = {}
    /\ request' = [request EXCEPT ![r] =
         [pc |-> "admitted", nodes |-> nodes, todo |-> nodes,
          revision |-> config_revision, version |-> 0]]
    /\ UNCHANGED <<config_revision, desired, release, task, lastAck,
                   ackSequence, nodeDoc, handler>>

NextVersion(revision, latest) == 1 + (IF latest > revision THEN latest ELSE revision)

(* create_desired_release reads the latest release of the site.            *)
ComputeVersion(r) ==
    /\ request[r].pc = "admitted"
    /\ \E latest \in {0} \cup {d.version : d \in desired} :
        /\ IsLatestVersion(latest)
        /\ request' = [request EXCEPT ![r] =
             [@ EXCEPT !.pc = "computed",
                       !.version = NextVersion(request[r].revision, latest)]]
    /\ UNCHANGED <<config_revision, desired, release, task, lastAck,
                   ackSequence, nodeDoc, handler>>

(* site.set({"config_revision": desired_version})                          *)
SetRevision(r) ==
    /\ request[r].pc = "computed"
    /\ config_revision' = request[r].version
    /\ request' = [request EXCEPT ![r].pc = "planned"]
    /\ UNCHANGED <<desired, release, task, lastAck, ackSequence, nodeDoc, handler>>

(* One signed bundle per node; each is visible to its monitor at once.     *)
InsertDesired(r, n) ==
    /\ request[r].pc = "planned"
    /\ n \in request[r].todo
    /\ desired' = desired \cup
         {[release |-> r, node |-> n, version |-> request[r].version]}
    /\ request' = [request EXCEPT ![r].todo = @ \ {n}]
    /\ UNCHANGED <<config_revision, release, task, lastAck, ackSequence,
                   nodeDoc, handler>>

Bug_TaskBeforeBundles(r) ==
    /\ request[r].pc = "planned"
    /\ task' = [task EXCEPT ![KeyOf[r]] = IF @ = "none" THEN "queued" ELSE @]
    /\ request' = [request EXCEPT ![r].pc = "tasked"]
    /\ UNCHANGED <<config_revision, desired, release, lastAck, ackSequence,
                   nodeDoc, handler>>

(* create_task("config.publish"): an existing task of the key is reused.   *)
CreateTask(r) ==
    /\ request[r].pc = "planned"
    /\ request[r].todo = {}
    /\ task' = [task EXCEPT ![KeyOf[r]] = IF @ = "none" THEN "queued" ELSE @]
    /\ request' = [request EXCEPT ![r].pc = "tasked"]
    /\ UNCHANGED <<config_revision, desired, release, lastAck, ackSequence,
                   nodeDoc, handler>>

(* release.insert(), then the draft is marked released                     *)
InsertRelease(r) ==
    /\ request[r].pc = "tasked"
    /\ release' = [release EXCEPT ![r] = [status |-> "applying",
                                          nodes |-> request[r].nodes]]
    /\ request' = [request EXCEPT ![r].pc = "done"]
    /\ UNCHANGED <<config_revision, desired, task, lastAck, ackSequence,
                   nodeDoc, handler>>

(* A 409 after admission (version_conflict, routing_proxy_unavailable for  *)
(* a later node), a database error or a backend crash ends a request;      *)
(* what it has written stays.                                              *)
AbortRequest(r) ==
    /\ request[r].pc \in {"idle", "admitted", "computed", "planned", "tasked"}
    /\ request' = [request EXCEPT ![r] = [InitialRequest EXCEPT !.pc = "aborted"]]
    /\ UNCHANGED <<config_revision, desired, release, task, lastAck,
                   ackSequence, nodeDoc, handler>>

(* set_shutdown and _increment_site_revisions: a policy edit raises the    *)
(* revision without a release.                                             *)
RaiseRevision ==
    /\ config_revision < MaxRevision
    /\ config_revision' = config_revision + 1
    /\ UNCHANGED <<request, desired, release, task, lastAck, ackSequence,
                   nodeDoc, handler>>
-----------------------------------------------------------------------------
(* POST /agent/v1/ack                                                      *)

(* The checks before the ack is stored: not the sequence stored last,      *)
(* release assigned to the node, version and hash those of its bundle.     *)
AckAcceptable(m) ==
    /\ m.sequence # ackSequence[m.node]
    /\ release[m.release].status # "none"
    /\ m.node \in release[m.release].nodes
    /\ [release |-> m.release, node |-> m.node, version |-> m.version] \in desired

(* The ack is inserted and the Node document saved.                        *)
StoreAck(m) ==
    /\ AckAcceptable(m)
    /\ lastAck' = [lastAck EXCEPT ![m.release][m.node] = IF m.ok THEN "ok" ELSE "bad"]
    /\ ackSequence' = [ackSequence EXCEPT
                         ![m.node] = IF m.sequence > @ THEN m.sequence ELSE @]
    /\ \E v \in {0} \cup {d.version : d \in desired} :
        /\ IsLatestVersionFor(m.node, v)
        /\ nodeDoc' = [nodeDoc EXCEPT ![m.node] =
             [desired_version |-> v,
              applied_version |-> m.applied,
              config_status |-> IF m.ok THEN "in_sync"
                                ELSE IF m.rollbackFailed THEN "rollback_failed"
                                ELSE "failed"]]
    /\ handler' = handler \cup {[ack |-> m, verdict |-> "reading"]}
    /\ UNCHANGED <<config_revision, request, desired, release, task>>

(* Duplicate, or 409: nothing is stored.                                   *)
RefuseAck(m) == ~AckAcceptable(m) /\ UNCHANGED cpVars

AllAcked(r) == \A n \in release[r].nodes : lastAck[r][n] # "none"

Bug_AnyAckOk(r) ==
    IF \E n \in release[r].nodes : lastAck[r][n] = "ok" THEN "succeeded" ELSE "failed"

ReleaseVerdict(r) ==
    IF \A n \in release[r].nodes : lastAck[r][n] = "ok" THEN "succeeded" ELSE "failed"

(* All acks of the release are read; the release is decided once every     *)
(* assigned node has one (_latest_ack_per_node keeps the newest of each).  *)
ReadAcks(h) ==
    /\ h \in handler
    /\ h.verdict = "reading"
    /\ handler' = (handler \ {h}) \cup
         IF AllAcked(h.ack.release)
         THEN {[h EXCEPT !.verdict = ReleaseVerdict(h.ack.release)]}
         ELSE {}
    /\ UNCHANGED <<config_revision, request, desired, release, task, lastAck,
                   ackSequence, nodeDoc>>

(* release.save(), then the status is copied to the task.                  *)
SaveVerdict(h) ==
    /\ h \in handler
    /\ h.verdict # "reading"
    /\ release' = [release EXCEPT ![h.ack.release].status = h.verdict]
    /\ task' = [task EXCEPT ![KeyOf[h.ack.release]] = h.verdict]
    /\ handler' = handler \ {h}
    /\ UNCHANGED <<config_revision, request, desired, lastAck, ackSequence, nodeDoc>>

(* A database error or a backend crash ends a handler after its ack is in. *)
AbortHandler(h) ==
    /\ h \in handler
    /\ handler' = handler \ {h}
    /\ UNCHANGED <<config_revision, request, desired, release, task, lastAck,
                   ackSequence, nodeDoc>>

Bug_HeartbeatKeepsDoc(n, applied, status) == UNCHANGED cpVars

(* POST /agent/v1/heartbeat: the node's own report replaces its fields;    *)
(* desired_version stays with the control plane.                           *)
AcceptHeartbeat(n, applied, status) ==
    /\ \E v \in {0} \cup {d.version : d \in desired} :
        /\ IsLatestVersionFor(n, v)
        /\ nodeDoc' = [nodeDoc EXCEPT ![n] = [desired_version |-> v,
                                             applied_version |-> applied,
                                             config_status |-> status]]
    /\ UNCHANGED <<config_revision, request, desired, release, task, lastAck,
                   ackSequence, handler>>

-----------------------------------------------------------------------------
CPInternal ==
    \/ RaiseRevision
    \/ \E r \in Release :
         \/ JoinExisting(r)
         \/ \E nodes \in SUBSET Node : Admit(r, nodes)
         \/ ComputeVersion(r)
         \/ SetRevision(r)
         \/ \E n \in Node : InsertDesired(r, n)
         \/ CreateTask(r)
         \/ InsertRelease(r)
         \/ AbortRequest(r)
    \/ \E h \in handler : ReadAcks(h) \/ SaveVerdict(h)
=============================================================================
