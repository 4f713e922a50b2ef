---------------------------- MODULE MCPublication ---------------------------
(***************************************************************************)
(* Small instances of Publication for TLC.                                 *)
(*                                                                         *)
(* Three observations of a source are enough for its interesting histories:*)
(* a and b have different content, c has the content of a under another    *)
(* observation.  In the marker instances c is what b becomes when its      *)
(* delivery is announced by a new deployment marker; in the instances that *)
(* remove every Dag, c is the empty tree.                                  *)
(***************************************************************************)
EXTENDS Publication, TLC

CONSTANTS a, b, c, v1, v2, v3, f1, f2, i1, i2, m1, m2, r1, r2, p1, p2, s1, s2

(* Content: a and c are the same tree, with one file fewer than b. *)
ContentVersion == [s \in Sigs |-> IF s = b THEN v2 ELSE v1]
EveryInventory == [s \in Sigs |-> IF s = a THEN i1 ELSE i2]
ContentFiles == [v \in Versions |-> IF v = v1 THEN {f1} ELSE {f1, f2}]
OneMarker == [s \in Sigs |-> m1]

(* Removing every Dag: c is an empty tree. *)
EmptiedVersion == [s \in Sigs |-> CASE s = a -> v1 [] s = b -> v2 [] s = c -> v3]
EmptiedFiles == [v \in Versions |-> IF v = v3 THEN {} ELSE {f1}]

(* Delivery: b is a half-announced c; their objects are the same. *)
DeliveryVersion == [s \in Sigs |-> IF s = a THEN v1 ELSE v2]
DeliveryMarker == [s \in Sigs |-> IF s = c THEN m2 ELSE m1]

OneType == [i \in Identities |-> IF TracksSource THEN "s3" ELSE "local"]
TwoTypes == [i \in Identities |-> IF i = s1 THEN "s3" ELSE "gcs"]

SameSource == [p \in Procs |-> s1]
TwoSources == [p \in Procs |-> IF p \in {r1, p1} THEN s1 ELSE s2]

ReplicaSymmetry == Permutations(Replicas)
PublisherSymmetry == Permutations(Publishers)
=============================================================================
