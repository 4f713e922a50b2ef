----------------------------- MODULE MCStability ----------------------------
(***************************************************************************)
(* Small instances of StabilityHistory: MCPublication's observations, with *)
(* the record of the past added.                                           *)
(***************************************************************************)
EXTENDS StabilityHistory, MCPublication
=============================================================================
