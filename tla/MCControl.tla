----------------------------- MODULE MCControl -----------------------------
(***************************************************************************)
(* Control of a node with one file that has two versions: both may be the  *)
(* user's, and one a peer's too.  The peers are alike.                     *)
(***************************************************************************)
EXTENDS Control, TLC

CONSTANTS f, t1, t2

MCPath      == {f}
MCTorrent   == {t1, t2}
MCPathOf    == [t \in {t1, t2} |-> f]
MCAnnounced == {t1}
Symmetry    == Permutations(Peer)
=============================================================================
