--------------------------- MODULE ControlProofs ---------------------------
(***************************************************************************)
(* Proofs about Control: its types, that a seeded torrent is told of every *)
(* known peer while a record names it, and when an outage pauses the node. *)
(***************************************************************************)
EXTENDS Control, TLAPS

\* The control server's own steps, and those of the handlers of torrent t.
BeatNext == \/ Disabled \/ Answered \/ Unanswered
            \/ StorePeer \/ ListFiles \/ AddToFile \/ UpdateEnds

HandlerNext(t) == \/ Seed(t) \/ StoreFile(t) \/ ReadPeers(t) \/ AddKnown(t)
                  \/ ReadForLeech(t) \/ StartLeech(t) \/ Complete(t)

LEMMA WaitingInBeat == Waiting \in Beat
  BY DEF Waiting, Beat

LEMMA NoHandlerTyped == NoHandler \in [Torrent -> Handler]
  BY DEF NoHandler, Handler

LEMMA TypeInit == Init => TypeOK
<1>1. 1 \in Nat /\ 0 \in 0..1 /\ 0 \in 0..MaxCrashes
  BY ControlAssumption
<1> SUFFICES ASSUME Init PROVE TypeOK
  OBVIOUS
<1>2. has \in [Torrent -> SUBSET Peer]
  BY DEF Init
<1> QED
  BY <1>1, <1>2, WaitingInBeat, NoHandlerTyped DEF Init, TypeOK

\* Every step keeps the types.
LEMMA TypeStep == TypeOK /\ [Next]_vars => TypeOK'
<1> SUFFICES ASSUME TypeOK, [Next]_vars PROVE TypeOK'
  OBVIOUS
<1>1. CASE Disabled
  BY <1>1 DEF Disabled, Recorded, Others, TypeOK, Beat
<1>2. CASE Answered
  BY <1>2 DEF Answered, Recorded, Others, TypeOK, Beat, Waiting
<1>3. CASE Unanswered
  BY <1>3 DEF Unanswered, Overdue, Others, TypeOK
<1>4. CASE StorePeer
  BY <1>4 DEF StorePeer, PutPeer, Others, TypeOK, Beat
<1>5. CASE ListFiles
  <2>1. {records[f] : f \in Path} \ {NoTorrent} \subseteq Torrent
    BY DEF TypeOK
  <2> QED
    BY <1>5, <2>1 DEF ListFiles, Others, TypeOK, Beat
<1>6. CASE AddToFile
  BY <1>6 DEF AddToFile, Told, TypeOK, Beat
<1>7. CASE UpdateEnds
  BY <1>7 DEF UpdateEnds, Others, TypeOK, Beat, Waiting
<1>8. ASSUME NEW t \in Torrent, HandlerNext(t) PROVE TypeOK'
  <2>1. CASE Seed(t)
    BY <2>1 DEF Seed, Server, TypeOK, Handler
  <2>2. CASE StoreFile(t)
    <3>1. records' \in [Path -> Torrent \cup {NoTorrent}] /\ kept' \subseteq Torrent
      BY <2>2 DEF StoreFile, Put, KeptBy, TypeOK
    <3> QED
      BY <2>2, <3>1 DEF StoreFile, Server, TypeOK, Handler
  <2>3. CASE ReadPeers(t)
    BY <2>3 DEF ReadPeers, GetPeers, Server, TypeOK, Handler
  <2>4. CASE AddKnown(t)
    <3>1. change[t].peers \subseteq Peer
      BY DEF TypeOK, Handler
    <3> QED
      BY <2>4, <3>1 DEF AddKnown, Told, Server, TypeOK, Handler
  <2>5. CASE ReadForLeech(t)
    BY <2>5 DEF ReadForLeech, GetPeers, Server, TypeOK, Handler
  <2>6. CASE StartLeech(t)
    <3>1. leech[t].peers \subseteq Peer
      BY DEF TypeOK, Handler
    <3> QED
      BY <2>6, <3>1 DEF StartLeech, Server, TypeOK, Handler
  <2>7. CASE Complete(t)
    <3>1. records' \in [Path -> Torrent \cup {NoTorrent}] /\ kept' \subseteq Torrent
      BY <2>7 DEF Complete, Put, KeptBy, TypeOK
    <3> QED
      BY <2>7, <3>1 DEF Complete, Server, TypeOK, Handler
  <2> QED
    BY <1>8, <2>1, <2>2, <2>3, <2>4, <2>5, <2>6, <2>7 DEF HandlerNext
<1>9. CASE Tick
  <2>1. now \in Nat /\ now' = now + 1 /\ last \in 0..now /\ contact \in 0..now
    BY <1>9 DEF Tick, TypeOK
  <2>2. now' \in Nat /\ last \in 0..now' /\ contact \in 0..now'
    BY <2>1
  <2> QED
    BY <1>9, <2>2 DEF Tick, Others, TypeOK
<1>10. CASE Crash
  <2>1. crashes' \in 0..MaxCrashes
    BY <1>10, ControlAssumption DEF Crash, TypeOK
  <2> QED
    BY <1>10, <2>1, WaitingInBeat, NoHandlerTyped DEF Crash, TypeOK
<1>11. CASE UNCHANGED vars
  BY <1>11 DEF vars, TypeOK
<1>12. ASSUME NEW f \in Path, DeleteFile(f) PROVE TypeOK'
  BY <1>12 DEF DeleteFile, Server, TypeOK
<1> QED
  BY <1>1, <1>2, <1>3, <1>4, <1>5, <1>6, <1>7, <1>8, <1>9, <1>10, <1>11, <1>12
  DEF Next, HandlerNext

\* Every variable has its type.
THEOREM TypeCorrect == Spec => []TypeOK
  BY TypeInit, TypeStep, PTL DEF Spec
-----------------------------------------------------------------------------
(* SeedsHavePeers.                                                         *)

\* The peers that updatePeers is still going to tell torrent t of, if t has a
\* record by the time that it lists them.
Coming(t) == IF \/ beat.stage = "storing"
                \/ beat.stage = "adding" /\ t \in beat.files
               THEN beat.list ELSE {}

\* What a handler has done so far, and the peers it or the loop accounts for as
\* long as the record names the torrent.
Accounted(t) ==
  /\ change[t].stage # "none" => t \in active
  /\ t \in kept =>
       /\ records[PathOf[t]] = t
       /\ change[t].stage = "read" =>
            known \subseteq change[t].peers \cup has[t] \cup Coming(t)
       /\ change[t].stage = "done" => known \subseteq has[t] \cup Coming(t)

StoreInv == beat.store \subseteq beat.list

SeedInv == TypeOK /\ StoreInv /\ \A t \in Torrent : Accounted(t)

LEMMA SeedInvInit == Init => SeedInv
  BY TypeInit
  DEF Init, SeedInv, StoreInv, Accounted, NoHandler, Waiting

\* A step of the loop tells a torrent of peers, or is going to.
LEMMA BeatKeepsSeedInv ==
  ASSUME SeedInv, TypeOK', BeatNext
  PROVE  SeedInv'
<1>1. StoreInv'
  <2>1. CASE Disabled \/ Answered \/ Unanswered
    BY <2>1 DEF Disabled, Answered, Unanswered, SeedInv, StoreInv, TypeOK, Beat
  <2>2. CASE StorePeer
    BY <2>2 DEF StorePeer, SeedInv, StoreInv, TypeOK, Beat
  <2>3. CASE ListFiles \/ AddToFile
    BY <2>3 DEF ListFiles, AddToFile, SeedInv, StoreInv, TypeOK, Beat
  <2>4. CASE UpdateEnds
    BY <2>4 DEF UpdateEnds, StoreInv, Waiting
  <2> QED
    BY <2>1, <2>2, <2>3, <2>4 DEF BeatNext
<1>2. ASSUME NEW t \in Torrent PROVE Accounted(t)'
  <2>1. UNCHANGED <<change, active, records, kept>>
    BY DEF BeatNext, Disabled, Answered, Unanswered, StorePeer, ListFiles,
           AddToFile, UpdateEnds, Others
  <2>2. SUFFICES ASSUME t \in kept, change[t].stage \in {"read", "done"}
        PROVE  /\ known' \subseteq known \cup Coming(t)
               /\ has[t] \cup Coming(t) \subseteq has'[t] \cup Coming(t)'
    BY <2>1 DEF SeedInv, Accounted
  <2>3. t \in active /\ t \in {records[f] : f \in Path} \ {NoTorrent}
    BY <2>2, ControlAssumption DEF SeedInv, Accounted
  <2>4. CASE Disabled \/ Answered \/ Unanswered
    BY <2>4 DEF Disabled, Answered, Unanswered, Coming, Waiting, Others
  <2>5. CASE StorePeer
    <3>1. PICK p \in beat.store : /\ beat.stage = "storing"
                                  /\ known' = known \cup {p}
                                  /\ beat' = [beat EXCEPT !.store = @ \ {p}]
      BY <2>5 DEF StorePeer, PutPeer
    <3>2. p \in Coming(t) /\ Coming(t)' = Coming(t)
      BY <3>1 DEF Coming, SeedInv, StoreInv, TypeOK, Beat
    <3> QED
      BY <2>5, <3>1, <3>2 DEF StorePeer, Others
  <2>6. CASE ListFiles
    BY <2>3, <2>6 DEF ListFiles, Coming, Others, SeedInv, TypeOK, Beat
  <2>7. CASE AddToFile
    <3>1. PICK u \in beat.files : /\ beat.stage = "adding"
                                  /\ has' = Told(u, beat.list)
                                  /\ beat' = [beat EXCEPT !.files = @ \ {u}]
      BY <2>7 DEF AddToFile
    <3>2. known' = known
      BY <2>7 DEF AddToFile
    <3>3. CASE u = t
      BY <2>3, <3>1, <3>2, <3>3 DEF Told, Coming, SeedInv, TypeOK, Beat
    <3>4. CASE u # t
      BY <3>1, <3>2, <3>4 DEF Told, Coming, SeedInv, TypeOK, Beat
    <3> QED
      BY <3>3, <3>4
  <2>8. CASE UpdateEnds
    BY <2>8 DEF UpdateEnds, Coming, Waiting, Others
  <2> QED
    BY <2>4, <2>5, <2>6, <2>7, <2>8 DEF BeatNext
<1> QED
  BY <1>1, <1>2 DEF SeedInv

\* Who puts the record of u keeps no other version's.
LEMMA PutKeeps ==
  ASSUME SeedInv, NEW u \in Torrent, Put(u), NEW t \in KeptBy(u)
  PROVE  t \in kept /\ records'[PathOf[t]] = t
<1>1. t \in kept /\ t \in Torrent /\ (PathOf[t] = PathOf[u] => t = u)
  BY DEF KeptBy, SeedInv, TypeOK
<1>2. records[PathOf[t]] = t /\ PathOf[t] \in Path /\ PathOf[u] \in Path
  BY <1>1, ControlAssumption DEF SeedInv, Accounted
<1> QED
  BY <1>1, <1>2 DEF Put, SeedInv, TypeOK

\* A step of a handler tells a torrent of more peers, never of fewer, and what
\* it reads is all there is.
LEMMA HandlerKeepsSeedInv ==
  ASSUME SeedInv, TypeOK', NEW u \in Torrent, HandlerNext(u)
  PROVE  SeedInv'
<1>1. /\ beat' = beat /\ known' = known
      /\ active \subseteq active'
  BY DEF HandlerNext, Seed, StoreFile, ReadPeers, AddKnown, ReadForLeech,
         StartLeech, Complete, Server
<1>2. StoreInv'
  BY <1>1 DEF SeedInv, StoreInv
<1>3. ASSUME NEW t \in Torrent PROVE has[t] \subseteq has'[t]
  BY DEF HandlerNext, Seed, StoreFile, ReadPeers, AddKnown, ReadForLeech,
         StartLeech, Complete, Told, SeedInv, TypeOK
<1>4. ASSUME NEW t \in Torrent, t \in kept', ~(StoreFile(u) /\ t = u)
      PROVE  t \in kept /\ records'[PathOf[t]] = t
  <2>1. CASE StoreFile(u) \/ Complete(u)
    <3>1. Put(u) /\ t \in KeptBy(u)
      BY <1>4, <2>1 DEF StoreFile, Complete
    <3> QED
      BY <3>1, PutKeeps
  <2>2. CASE ~(StoreFile(u) \/ Complete(u))
    <3>1. kept' = kept /\ records' = records
      BY <2>2 DEF HandlerNext, Seed, ReadPeers, AddKnown, ReadForLeech, StartLeech
    <3> QED
      BY <1>4, <3>1 DEF SeedInv, Accounted
  <2> QED
    BY <2>1, <2>2
<1>5. ASSUME NEW t \in Torrent, change'[t] = change[t] PROVE Accounted(t)'
  <2>1. Coming(t)' = Coming(t)
    BY <1>1 DEF Coming
  <2>2. ~(StoreFile(u) /\ t = u)
    BY <1>5 DEF StoreFile, SeedInv, TypeOK, Handler
  <2>3. t \in kept' => t \in kept /\ records'[PathOf[t]] = t
    BY <1>4, <2>2
  <2>4. change'[t].stage # "none" => t \in active'
    BY <1>1, <1>5 DEF SeedInv, Accounted
  <2> QED
    BY <1>1, <1>3, <1>5, <2>1, <2>3, <2>4 DEF SeedInv, Accounted
<1>6. Accounted(u)'
  <2>1. CASE Seed(u)
    <3>1. u \in active' /\ change'[u].stage = "seeded"
      BY <2>1 DEF Seed, SeedInv, TypeOK, Handler
    <3>2. u \in kept' => records'[PathOf[u]] = u
      BY <2>1 DEF Seed, SeedInv, Accounted
    <3> QED
      BY <3>1, <3>2 DEF Accounted
  <2>2. CASE StoreFile(u)
    <3>1. u \in active' /\ change'[u].stage = "stored"
      BY <2>2 DEF StoreFile, SeedInv, Accounted, TypeOK, Handler
    <3>2. records'[PathOf[u]] = u
      BY <2>2, ControlAssumption DEF StoreFile, Put, SeedInv, TypeOK
    <3> QED
      BY <3>1, <3>2 DEF Accounted
  <2>3. CASE ReadPeers(u)
    <3>1. /\ u \in active' /\ change'[u] = [stage |-> "read", peers |-> known]
          /\ kept' = kept /\ records' = records
      BY <2>3 DEF ReadPeers, GetPeers, SeedInv, Accounted, TypeOK, Handler
    <3> QED
      BY <1>1, <3>1 DEF SeedInv, Accounted
  <2>4. CASE AddKnown(u)
    <3>1. u \in active /\ change[u].stage = "read" /\ change'[u].stage = "done"
      BY <2>4 DEF AddKnown, SeedInv, Accounted, TypeOK, Handler
    <3>2. has'[u] = has[u] \cup change[u].peers
      BY <2>4, <3>1 DEF AddKnown, Told, SeedInv, TypeOK
    <3>3. active' = active /\ kept' = kept /\ records' = records
      BY <2>4 DEF AddKnown
    <3>4. Coming(u)' = Coming(u)
      BY <1>1 DEF Coming
    <3> QED
      BY <1>1, <3>1, <3>2, <3>3, <3>4 DEF SeedInv, Accounted
  <2>5. CASE ReadForLeech(u) \/ StartLeech(u) \/ Complete(u)
    BY <1>5, <2>5 DEF ReadForLeech, StartLeech, Complete
  <2> QED
    BY <2>1, <2>2, <2>3, <2>4, <2>5 DEF HandlerNext
<1>7. ASSUME NEW t \in Torrent, t # u PROVE change'[t] = change[t]
  BY <1>7 DEF HandlerNext, Seed, StoreFile, ReadPeers, AddKnown, ReadForLeech,
              StartLeech, Complete, SeedInv, TypeOK
<1> QED
  BY <1>2, <1>5, <1>6, <1>7 DEF SeedInv

\* A deletion keeps no version of its path.
LEMMA DeleteKeepsSeedInv ==
  ASSUME SeedInv, TypeOK', NEW f \in Path, DeleteFile(f)
  PROVE  SeedInv'
<1>1. /\ UNCHANGED <<beat, known, active, has, change>>
      /\ records' = [records EXCEPT ![f] = NoTorrent]
      /\ kept' = {u \in kept : PathOf[u] # f}
  BY DEF DeleteFile, Server
<1>2. ASSUME NEW t \in Torrent PROVE Accounted(t)'
  <2>1. t \in kept' => t \in kept /\ records'[PathOf[t]] = t
    <3>1. PathOf[t] \in Path
      BY ControlAssumption
    <3> QED
      BY <1>1, <3>1 DEF SeedInv, Accounted, TypeOK
  <2>2. Coming(t)' = Coming(t)
    BY <1>1 DEF Coming
  <2> QED
    BY <1>1, <2>1, <2>2 DEF SeedInv, Accounted
<1> QED
  BY <1>1, <1>2 DEF SeedInv, StoreInv

\* SeedsHavePeers holds: while nothing is coming, what a handler that is done
\* accounts for is in the torrent, as long as no other version or deletion has
\* taken its record.
THEOREM SeedsHavePeersHolds == Spec => []SeedsHavePeers
<1>1. SeedInv /\ [Next]_vars => SeedInv'
  <2> SUFFICES ASSUME SeedInv, [Next]_vars PROVE SeedInv'
    OBVIOUS
  <2>1. TypeOK'
    BY TypeStep DEF SeedInv
  <2>2. CASE BeatNext
    BY <2>1, <2>2, BeatKeepsSeedInv
  <2>3. ASSUME NEW t \in Torrent, HandlerNext(t) PROVE SeedInv'
    BY <2>1, <2>3, HandlerKeepsSeedInv
  <2>4. CASE Tick
    BY <2>1, <2>4 DEF Tick, Others, SeedInv, StoreInv, Accounted, Coming
  <2>5. CASE Crash
    BY <2>1, <2>5
    DEF Crash, NoHandler, Waiting, SeedInv, StoreInv, Accounted
  <2>6. CASE UNCHANGED vars
    BY <2>1, <2>6 DEF vars, SeedInv, StoreInv, Accounted, Coming
  <2>7. ASSUME NEW f \in Path, DeleteFile(f) PROVE SeedInv'
    BY <2>1, <2>7, DeleteKeepsSeedInv
  <2> QED
    BY <2>2, <2>3, <2>4, <2>5, <2>6, <2>7 DEF Next, BeatNext, HandlerNext
<1>2. SeedInv => SeedsHavePeers
  BY DEF SeedInv, Accounted, Coming, SeedsHavePeers, TypeOK
<1> QED
  BY <1>1, <1>2, SeedInvInit, PTL DEF Spec

-----------------------------------------------------------------------------
(* The grace period.                                                       *)

\* The store has the time of the last answer, over crashes as well.
ContactInv == TypeOK /\ last = contact

LEMMA ContactInvHolds == Spec => []ContactInv
<1>1. Init => ContactInv
  BY TypeInit DEF Init, ContactInv
<1>2. ContactInv /\ [Next]_vars => ContactInv'
  <2> SUFFICES ASSUME ContactInv, [Next]_vars PROVE last' = contact'
    BY TypeStep DEF ContactInv
  <2> QED
    BY DEF ContactInv, Next, vars, Disabled, Answered, Unanswered, Recorded,
           StorePeer, ListFiles, AddToFile, UpdateEnds, Others, Seed, StoreFile,
           ReadPeers, AddKnown, ReadForLeech, StartLeech, Complete, DeleteFile,
           Server, Tick, Crash
<1> QED
  BY <1>1, <1>2, PTL DEF Spec

\* PausedAfterGrace holds: the step that pauses without a "disabled" is one
\* that finds the grace period over.
THEOREM PausedAfterGraceHolds == Spec => PausedAfterGrace
<1>1. ContactInv /\ [Next]_vars =>
        [~paused /\ paused' /\ beat'.stage # "ended"
           => contact # 0 /\ now > contact + Grace]_vars
  BY DEF ContactInv, Next, vars, Disabled, Answered, Unanswered, Overdue,
         StorePeer, ListFiles, AddToFile, UpdateEnds, Others, Seed, StoreFile,
         ReadPeers, AddKnown, ReadForLeech, StartLeech, Complete, DeleteFile,
         Server, Tick, Crash, TypeOK, Beat
<1> QED
  BY <1>1, ContactInvHolds, PTL DEF Spec, PausedAfterGrace

\* OutageNoticed holds: the heartbeat of a unit of time that is not answered
\* pauses the node if the grace period is over.
THEOREM OutageNoticedHolds == Spec => []OutageNoticed
<1>1. Init => OutageNoticed
  BY DEF Init, OutageNoticed
<1>2. ContactInv /\ OutageNoticed /\ [Next]_vars => OutageNoticed'
  <2> SUFFICES ASSUME ContactInv, OutageNoticed, [Next]_vars
               PROVE  OutageNoticed'
    OBVIOUS
  <2>1. Grace \in Nat /\ now \in Nat /\ contact \in Nat
    BY ControlAssumption DEF ContactInv, TypeOK
  <2>2. CASE Disabled
    BY <2>2 DEF Disabled, OutageNoticed
  <2>3. CASE Answered
    BY <2>1, <2>3 DEF Answered, OutageNoticed
  <2>4. CASE Unanswered
    <3>1. /\ ~paused' => ~Overdue
          /\ last = contact /\ contact' = contact /\ now' = now
      BY <2>4, Zenon DEF Unanswered, ContactInv
    <3>2. ~Overdue /\ contact # 0 => now <= contact + Grace
      BY <2>1, <3>1 DEF Overdue
    <3> QED
      BY <3>1, <3>2 DEF OutageNoticed
  <2>5. CASE StorePeer \/ ListFiles \/ AddToFile \/ UpdateEnds
    BY <2>5 DEF StorePeer, ListFiles, AddToFile, UpdateEnds, Others, OutageNoticed
  <2>6. ASSUME NEW t \in Torrent, HandlerNext(t) PROVE OutageNoticed'
    BY <2>6 DEF HandlerNext, Seed, StoreFile, ReadPeers, AddKnown, ReadForLeech,
                StartLeech, Complete, Server, OutageNoticed
  <2>7. CASE Tick \/ Crash
    BY <2>7 DEF Tick, Crash, OutageNoticed
  <2>8. CASE UNCHANGED vars
    BY <2>8 DEF vars, OutageNoticed
  <2>9. ASSUME NEW f \in Path, DeleteFile(f) PROVE OutageNoticed'
    BY <2>9 DEF DeleteFile, Server, OutageNoticed
  <2> QED
    BY <2>2, <2>3, <2>4, <2>5, <2>6, <2>7, <2>8, <2>9 DEF Next, HandlerNext
<1> QED
  BY <1>1, <1>2, ContactInvHolds, PTL DEF Spec
=============================================================================
