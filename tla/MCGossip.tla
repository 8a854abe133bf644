------------------------------ MODULE MCGossip ------------------------------
(***************************************************************************)
(* Gossip between two nodes: A dials at two of its heartbeats, B at one.   *)
(***************************************************************************)
EXTENDS Gossip

CONSTANTS A, B

MCNode     == {A, B}
MCMaxBeats == [n \in MCNode |-> IF n = A THEN 2 ELSE 1]
=============================================================================
