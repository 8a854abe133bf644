---------------------------- MODULE ClocksProofs ----------------------------
(***************************************************************************)
(* What the clock operators of Clocks.tla compute, for every set of nodes: *)
(* the comparison decides the order of versions, a local change is strictly*)
(* newer than what it changes, and a merge is the least clock that         *)
(* includes both.  The proofs about the syncer cite these by name.         *)
(***************************************************************************)
EXTENDS Clocks, TLAPS

LEMMA ZeroType == Zero \in Clock
BY DEF Zero, Clock

LEMMA BumpType ==
  ASSUME NEW c \in Clock, NEW n \in Node
  PROVE  Bump(c, n) \in Clock
BY DEF Bump, Clock

LEMMA MergeType ==
  ASSUME NEW c \in Clock, NEW d \in Clock
  PROVE  Merge(c, d) \in Clock
BY DEF Merge, Clock

LEMMA LeqReflexive ==
  ASSUME NEW c \in Clock
  PROVE  Leq(c, c)
BY DEF Leq, Clock

LEMMA LeqTransitive ==
  ASSUME NEW c \in Clock, NEW d \in Clock, NEW e \in Clock, Leq(c, d), Leq(d, e)
  PROVE  Leq(c, e)
<1>1. SUFFICES ASSUME NEW k \in Node
               PROVE  c[k] <= e[k]
  BY DEF Leq
<1>2. c[k] \in Nat /\ d[k] \in Nat /\ e[k] \in Nat
  BY DEF Clock
<1>3. c[k] <= d[k] /\ d[k] <= e[k]
  BY DEF Leq
<1>4. QED
  BY <1>2, <1>3

LEMMA LeqAntisymmetric ==
  ASSUME NEW c \in Clock, NEW d \in Clock, Leq(c, d), Leq(d, c)
  PROVE  c = d
<1>1. ASSUME NEW k \in Node
      PROVE  c[k] = d[k]
  <2>1. c[k] \in Nat /\ d[k] \in Nat
    BY DEF Clock
  <2>2. c[k] <= d[k] /\ d[k] <= c[k]
    BY DEF Leq
  <2>3. QED
    BY <2>1, <2>2
<1>2. QED
  BY <1>1 DEF Clock

\* One dominates the other in some component exactly if the pointwise order
\* does not hold the other way.
LEMMA DominatesIsNotLeq ==
  ASSUME NEW c \in Clock, NEW d \in Clock
  PROVE  /\ IncomingDominates(c, d) <=> ~Leq(c, d)
         /\ LocalDominates(c, d) <=> ~Leq(d, c)
BY DEF IncomingDominates, LocalDominates, Leq, Clock

\* compareVectorClocks decides the order of versions: each of its four
\* answers is given exactly when the pointwise order says so.
THEOREM CompareDecidesOrder ==
  ASSUME NEW c \in Clock, NEW d \in Clock
  PROVE  /\ Compare(c, d) = "equal" <=> c = d
         /\ Compare(c, d) = "older" <=> Leq(c, d) /\ c # d
         /\ Compare(c, d) = "newer" <=> Leq(d, c) /\ c # d
         /\ Compare(c, d) = "concurrent" <=> ~Leq(c, d) /\ ~Leq(d, c)
<1>1. c = d <=> Leq(c, d) /\ Leq(d, c)
  BY LeqReflexive, LeqAntisymmetric
<1>2. /\ IncomingDominates(c, d) <=> ~Leq(c, d)
      /\ LocalDominates(c, d) <=> ~Leq(d, c)
  BY DominatesIsNotLeq
<1>3. CASE Leq(c, d) /\ Leq(d, c)
  <2>1. Compare(c, d) = "equal"
    BY <1>2, <1>3 DEF Compare
  <2>2. QED
    BY <2>1, <1>1, <1>3
<1>4. CASE Leq(c, d) /\ ~Leq(d, c)
  <2>1. Compare(c, d) = "older"
    BY <1>2, <1>4 DEF Compare
  <2>2. QED
    BY <2>1, <1>1, <1>4
<1>5. CASE ~Leq(c, d) /\ Leq(d, c)
  <2>1. Compare(c, d) = "newer"
    BY <1>2, <1>5 DEF Compare
  <2>2. QED
    BY <2>1, <1>1, <1>5
<1>6. CASE ~Leq(c, d) /\ ~Leq(d, c)
  <2>1. Compare(c, d) = "concurrent"
    BY <1>2, <1>6 DEF Compare
  <2>2. QED
    BY <2>1, <1>1, <1>6
<1>7. QED
  BY <1>3, <1>4, <1>5, <1>6

\* A local change is announced under a clock that every node finds newer
\* than the one of the version it was made from.
THEOREM BumpIsNewer ==
  ASSUME NEW c \in Clock, NEW n \in Node
  PROVE  Compare(Bump(c, n), c) = "newer"
<1>1. Bump(c, n) \in Clock
  BY BumpType
<1>2. Leq(c, Bump(c, n))
  BY DEF Leq, Bump, Clock
<1>3. Bump(c, n) # c
  BY DEF Bump, Clock
<1>4. QED
  BY <1>1, <1>2, <1>3, CompareDecidesOrder

\* The clock a completion stores includes both it is made from, and nothing
\* smaller does.
THEOREM MergeIsLeastUpperBound ==
  ASSUME NEW c \in Clock, NEW d \in Clock
  PROVE  /\ Leq(c, Merge(c, d)) /\ Leq(d, Merge(c, d))
         /\ \A e \in Clock : Leq(c, e) /\ Leq(d, e) => Leq(Merge(c, d), e)
BY DEF Leq, Merge, Clock

\* Every component of a merge is a component of one of the two.
LEMMA MergeComponent ==
  ASSUME NEW c \in Clock, NEW d \in Clock, NEW k \in Node
  PROVE  Merge(c, d)[k] = c[k] \/ Merge(c, d)[k] = d[k]
BY DEF Merge
=============================================================================
