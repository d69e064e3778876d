-------------------------------- MODULE Fleet --------------------------------
(***************************************************************************)
(* The names the control plane and the monitors share.                     *)
(***************************************************************************)
EXTENDS Naturals

CONSTANTS
    Node,       \* agent ids of the nodes of one site
    Release,    \* release ids; each is minted by one request (uuid4)
    NoRelease   \* what a monitor reports before it has applied a bundle

ASSUME NoReleaseAssumption == NoRelease \notin Release

(* A signed bundle.  Its hash covers release_id and node_id, so a bundle   *)
(* is known by its release, node and version.                              *)
Bundle == [release : Release, node : Node, version : Nat]

(* The payload of sendAck.  `ok` is payload.ok /\ payload.health_ok, which *)
(* the monitor never sends apart; `rollbackFailed` is                      *)
(* rollback_attempted /\ ~rollback_ok.                                     *)
Ack == [node : Node, release : Release, version : Nat, applied : Nat,
        ok : BOOLEAN, rollbackFailed : BOOLEAN, sequence : Nat]

ConfigStatus == {"unknown", "in_sync", "failed", "rollback_failed"}
=============================================================================
