------------------------------ MODULE MCRollout ------------------------------
(* Small instances of Rollout.                                             *)
EXTENDS Rollout, TLC

CONSTANTS n1, n2, r1, r2, k1, k2

MCNodes == {n1, n2}
MCReleases == {r1, r2}

(* A single request.                                                       *)
OneKey == r1 :> k1

(* A retry: both requests carry the same key.                              *)
SameKey == r1 :> k1 @@ r2 :> k1

(* Two independent requests.                                               *)
OwnKeys == r1 :> k1 @@ r2 :> k2
=============================================================================
