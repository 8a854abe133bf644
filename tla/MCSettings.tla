----------------------------- MODULE MCSettings -----------------------------
(***************************************************************************)
(* Settings of a node that is set up without a key, on one directory.      *)
(***************************************************************************)
EXTENDS Settings, TLC

CONSTANTS d1, d2, r1, r2

MCDir     == {d1, d2}
MCRequest == {r1, r2}
MCFirst   == [key |-> NoKey, dirs |-> [d \in MCDir |-> IF d = d1 THEN 1 ELSE 0],
              url |-> FALSE]
=============================================================================
