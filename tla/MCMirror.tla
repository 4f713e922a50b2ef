------------------------------ MODULE MCMirror ------------------------------
(***************************************************************************)
(* One host with two processes and a source of two objects for TLC.        *)
(***************************************************************************)
EXTENDS MirrorSync

CONSTANTS p1, p2, a, b

(* S3 to S3 without, and GCS to GCS with a deployment marker.              *)
TwoSetups ==
  {[pinned |-> FALSE, copies |-> TRUE, marker |-> FALSE],
   [pinned |-> TRUE, copies |-> TRUE, marker |-> TRUE]}
=============================================================================
