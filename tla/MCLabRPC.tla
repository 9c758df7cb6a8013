------------------------------ MODULE MCLabRPC ------------------------------
(* Two Calls on one end to a server that is replaced while they run. *)
EXTENDS LabRPC, TLC

CONSTANTS e1, s1

MCTarget == e1 :> s1
=============================================================================
