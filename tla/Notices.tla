------------------------------ MODULE Notices ------------------------------
(***************************************************************************)
(* What the watcher promises whoever is given its events: a notice is      *)
(* passed on, or dropped for a newer one of the same path that is owed in  *)
(* its place; it does not stay owed for ever; and the shutdown takes back  *)
(* only what has not been looked at.                                       *)
(***************************************************************************)
EXTENDS Naturals, Sequences

CONSTANTS
  Path,
  MaxNotices  \* bound: notices, a natural number

VARIABLES
  notice,  \* notice[i]: the path of the i-th notice
  owed,    \* notices that are still to be dealt with
  told,    \* notices that were passed on
  closed   \* no more is taken

vars == <<notice, owed, told, closed>>

Init == notice = <<>> /\ owed = {} /\ told = {} /\ closed = FALSE

Raise(p) ==
  /\ ~closed /\ Len(notice) < MaxNotices
  /\ notice' = Append(notice, p)
  /\ owed' = owed \cup {Len(notice) + 1}
  /\ UNCHANGED <<told, closed>>

Tell(i) ==
  /\ i \in owed
  /\ owed' = owed \ {i} /\ told' = told \cup {i}
  /\ UNCHANGED <<notice, closed>>

Supersede(i) ==
  /\ i \in owed
  /\ \E j \in owed : j > i /\ notice[j] = notice[i]
  /\ owed' = owed \ {i}
  /\ UNCHANGED <<notice, told, closed>>

Close == \E n \in 0..Len(notice) :
  /\ ~closed /\ closed' = TRUE
  /\ n + 1 .. Len(notice) \subseteq owed
  /\ notice' = SubSeq(notice, 1, n)
  /\ owed' = owed \cap 1..n
  /\ UNCHANGED told

Next == \/ \E p \in Path : Raise(p)
        \/ \E i \in 1..MaxNotices : Tell(i) \/ Supersede(i)
        \/ Close

Spec == Init /\ [][Next]_vars

\* No notice stays owed for ever.
FairSpec == Spec /\ \A i \in 1..MaxNotices : []<>(i \notin owed)
=============================================================================
