----------------------------- MODULE MCWatcher -----------------------------
(***************************************************************************)
(* Watcher on a tree of a directory, a directory in it, and a file in the  *)
(* first.                                                                  *)
(***************************************************************************)
EXTENDS Watcher

CONSTANTS dir, sub, doc

MCDir    == {dir, sub}
MCFile   == {doc}
MCParent == [x \in {dir, sub, doc} |-> IF x = dir THEN Root ELSE dir]
=============================================================================
