----------------------------- MODULE MCLicense -----------------------------
(***************************************************************************)
(* License with a key that has a registration window and expires, and one  *)
(* that replaces it and has neither.                                       *)
(***************************************************************************)
EXTENDS License

CONSTANTS k1, k2

MCKey    == {k1, k2}
MCWindow == [k \in {k1, k2} |-> IF k = k1 THEN 2 ELSE 0]
MCExpiry == [k \in {k1, k2} |-> IF k = k1 THEN 7 ELSE 0]
=============================================================================
