------------------------------- MODULE Clocks -------------------------------
(***************************************************************************)
(* The vector clocks of internal/sync/syncer.go.                           *)
(*                                                                         *)
(* The code keeps a clock as a Go map from node IDs to ints and reads a    *)
(* missing key as 0, so a clock is a total function here and the nil map   *)
(* is Zero.  Components only ever grow by one per local change, so the     *)
(* width of a Go int (64 bits) is out of reach and plain naturals do.      *)
(***************************************************************************)
EXTENDS Naturals

CONSTANT Node   \* the node IDs (cfg.NodeID), one per agent of the swarm

Clock == [Node -> Nat]

Zero == [k \in Node |-> 0]

\* vc[s.cfg.NodeID]++ on a copy of the stored clock.
Bump(c, n) == [c EXCEPT ![n] = @ + 1]

\* Slip: components are added instead of the larger one kept.
MergeAdds(c, d) == [k \in Node |-> c[k] + d[k]]

\* The two loops of the completion callback: copy one clock, then raise every
\* component in which the other is larger.
Merge(c, d) == [k \in Node |-> IF d[k] > c[k] THEN d[k] ELSE c[k]]

\* compareVectorClocks: which side has a component of its own in front.
IncomingDominates(incoming, local) == \E k \in Node : incoming[k] > local[k]
LocalDominates(incoming, local)    == \E k \in Node : local[k] > incoming[k]

Compare(incoming, local) ==
  LET in == IncomingDominates(incoming, local)
      lo == LocalDominates(incoming, local)
  IN  CASE ~in /\ ~lo -> "equal"
        []  in /\ ~lo -> "newer"
        [] ~in /\  lo -> "older"
        []  in /\  lo -> "concurrent"

(***************************************************************************)
(* The reference the comparison is held against: the pointwise order, in   *)
(* which a version includes every change that an earlier one includes.     *)
(***************************************************************************)
Leq(c, d) == \A k \in Node : c[k] <= d[k]
=============================================================================
