------------------------------- MODULE MCLocal ------------------------------
(***************************************************************************)
(* Two publishers of one folder of two files for TLC.                      *)
(***************************************************************************)
EXTENDS LocalPublish

CONSTANTS p1, p2, a, b
=============================================================================
