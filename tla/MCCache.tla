------------------------------ MODULE MCCache -------------------------------
(***************************************************************************)
(* A small host for TLC: one dag processor that follows the release, one   *)
(* task pinned to v1, two versions of a manifest and one file.             *)
(***************************************************************************)
EXTENDS CacheCopies

CONSTANTS v1, v2, f1, mf, follower, task

OneTaskPinned == [p \in Procs |-> IF p = task THEN v1 ELSE NoVersion]
=============================================================================
