------------------------------ MODULE MCSyncer ------------------------------
(***************************************************************************)
(* Syncer on small swarms.  Nodes, contents, slots and lanes are model     *)
(* values; each is used only through equality and as a key, so the runs    *)
(* without a liveness property may permute them.                           *)
(***************************************************************************)
EXTENDS Syncer, TLC

Symmetry == Permutations(Node \ Pausable) \cup Permutations(Content)
              \cup Permutations(Slot) \cup Permutations(Lane)
=============================================================================
