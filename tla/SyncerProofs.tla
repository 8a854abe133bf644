---------------------------- MODULE SyncerProofs ----------------------------
(***************************************************************************)
(* Theorems about Syncer, for every set of nodes, contents, slots and      *)
(* lanes and every value of its bounds: types; the clocks and contents of  *)
(* records are those of changes that were made; a paused node stays at     *)
(* rest; one node's records follow its files; nodes agree at rest when     *)
(* users take turns; conflict copies come from concurrent announcements    *)
(* alone.                                                                  *)
(***************************************************************************)
EXTENDS Syncer, ClocksProofs, TLAPS

-----------------------------------------------------------------------------
(* The bag of completion callbacks: one is registered, one is run.         *)

LEMMA RegisterInBag ==
  ASSUME NEW B, IsABag(B), NEW x
  PROVE  /\ IsABag(B (+) SetToBag({x}))
         /\ BagToSet(B (+) SetToBag({x})) = BagToSet(B) \cup {x}
BY DEF IsABag, (+), BagToSet, SetToBag

LEMMA TakeFromBag ==
  ASSUME NEW B, IsABag(B), NEW x
  PROVE  /\ IsABag(B (-) SetToBag({x}))
         /\ BagToSet(B (-) SetToBag({x})) \subseteq BagToSet(B)
BY DEF IsABag, (-), BagToSet, SetToBag

LEMMA EmptyIsABag == IsABag(EmptyBag) /\ BagToSet(EmptyBag) = {}
BY DEF IsABag, EmptyBag, BagToSet, SetToBag

-----------------------------------------------------------------------------
(* Types of what the steps compute.                                        *)

LEMMA ClockOfType ==
  ASSUME NEW r \in MaybeRecord
  PROVE  ClockOf(r) \in Clock
BY ZeroType, FileStoreAssumption DEF ClockOf, MaybeRecord, FileRecord

LEMMA VersionType ==
  ASSUME NEW hash \in Content, NEW info \in Content, NEW vc \in Clock
  PROVE  Version(hash, info, vc) \in MaybeRecord
BY DEF Version, MaybeRecord, FileRecord, MaybeContent

LEMMA MarkDeletedType ==
  ASSUME NEW r \in MaybeRecord
  PROVE  MarkDeleted(r) \in MaybeRecord
BY ZeroType, FileStoreAssumption
   DEF MarkDeleted, MaybeRecord, FileRecord, MaybeContent

LEMMA NextClockType ==
  ASSUME NEW r \in MaybeRecord, NEW n \in Node
  PROVE  NextClock(n, r) \in Clock
BY ClockOfType, BumpType DEF NextClock

LEMMA MergedClockType ==
  ASSUME NEW cb \in Closure
  PROVE  MergedClock(cb) \in Clock
BY ClockOfType, MergeType DEF MergedClock, Closure, Announce

\* A task or a loop that is at a stage has what the stage has read.
LEMMA TaskAtStage ==
  ASSUME NEW t \in TaskState
  PROVE  /\ t.stage \in {"changed", "deleted"} => t \in Called
         /\ t.stage \in {"hashed", "got"} => t \in Hashed
         /\ t.stage = "seeded" => t \in Seeded
         /\ t.stage = "marking" => t \in Marking
         /\ t.stage = "sending" => t \in Sending
BY DEF TaskState, Idle, Called, Hashed, Seeded, Marking, Sending

LEMMA LoopAtStage ==
  ASSUME NEW l \in LoopState
  PROVE  /\ l.stage \in {"conflict", "leech"} => l \in OfAnnounce
         /\ l.stage \in {"remove", "mark"} => l \in OfTombstone
         /\ l.stage = "received" => l \in OfAnnounce \cup OfTombstone
BY DEF LoopState, Idle, OfAnnounce, OfTombstone

-----------------------------------------------------------------------------
LEMMA InitTypeOK == Init => TypeOK
BY SyncerAssumption, EmptyIsABag
   DEF Init, TypeOK, MaybeContent, MaybeRecord, TaskState, LoopState

\* The three frames a step leaves alone, so that a step's own lemma is only
\* about the variables it sets.
LEMMA TaskType ==
  ASSUME TypeOK, NEW n \in Node, NEW s \in Slot, NEW t \in TaskState,
         SetTask(n, s, t)
  PROVE  task' \in [Node -> [Slot -> TaskState]]
BY DEF TypeOK, SetTask

LEMMA LocalFrame ==
  ASSUME TypeOK, LocalOnly, store' \in [Node -> MaybeRecord],
         minted' \subseteq Message, task' \in [Node -> [Slot -> TaskState]]
  PROVE  TypeOK'
BY DEF TypeOK, LocalOnly

LEMMA TaskFrame ==
  ASSUME TypeOK, LocalOnly, store' \in [Node -> MaybeRecord],
         minted' \subseteq Message, NEW n \in Node, NEW s \in Slot,
         NEW t \in TaskState, SetTask(n, s, t)
  PROVE  TypeOK'
BY TaskType, LocalFrame

LEMMA LoopType ==
  ASSUME TypeOK, NEW ch \in Channel, NEW st \in LoopState, SetLoop(ch, st)
  PROVE  loop' \in [Channel -> LoopState]
BY DEF TypeOK, SetLoop

LEMMA StoreType ==
  ASSUME TypeOK, NEW n \in Node, NEW r \in MaybeRecord,
         store' = [store EXCEPT ![n] = r]
  PROVE  store' \in [Node -> MaybeRecord]
BY DEF TypeOK

LEMMA TypeHandleFileEvent ==
  ASSUME TypeOK, NEW n \in Node, NEW s \in Slot, HandleFileEvent(n, s)
  PROVE  TypeOK'
<1> DEFINE t == [stage |-> event[n], hash |-> NoContent, info |-> NoContent,
                 snap |-> NoRecord]
<1>1. t \in TaskState
  BY DEF TypeOK, HandleFileEvent, TaskState, Called
<1>2. task' \in [Node -> [Slot -> TaskState]]
  <2>1. task' = task \/ SetTask(n, s, t)
    BY DEF HandleFileEvent
  <2> HIDE DEF t
  <2>2. QED
    BY <1>1, <2>1, TaskType DEF TypeOK
<1>3. event' \in [Node -> {"none", "changed", "deleted"}]
  BY DEF TypeOK, HandleFileEvent
<1>4. QED
  BY <1>2, <1>3 DEF TypeOK, HandleFileEvent

LEMMA TypeHashFile ==
  ASSUME TypeOK, NEW n \in Node, NEW s \in Slot, HashFile(n, s)
  PROVE  TypeOK'
<1> DEFINE t == [task[n][s] EXCEPT !.stage = "hashed", !.hash = disk[n]]
<1>1. task[n][s] \in Called
  BY TaskAtStage DEF TypeOK, HashFile
<1>2. disk[n] \in Content
  BY DEF TypeOK, HashFile, MaybeContent
<1>3. t \in Hashed
  BY <1>1, <1>2 DEF Called, Hashed, MaybeRecord
<1>4. t \in TaskState
  BY <1>3 DEF TaskState
<1>5. SetTask(n, s, t) /\ LocalOnly /\ UNCHANGED <<store, minted>>
  BY DEF HashFile
<1>6. QED
  BY <1>4, <1>5, TaskFrame DEF TypeOK

LEMMA TypeLookUpChanged ==
  ASSUME TypeOK, NEW n \in Node, NEW s \in Slot, LookUpChanged(n, s)
  PROVE  TypeOK'
<1> DEFINE t == [task[n][s] EXCEPT !.stage = "got", !.snap = store[n]]
<1>1. task[n][s] \in Hashed
  BY TaskAtStage DEF TypeOK, LookUpChanged
<1>2. t \in Hashed
  BY <1>1 DEF TypeOK, Hashed
<1>3. t \in TaskState /\ Idle \in TaskState
  BY <1>2 DEF TaskState
<1>4. /\ SetTask(n, s, Idle) \/ SetTask(n, s, t)
      /\ LocalOnly /\ UNCHANGED <<store, minted>>
  BY DEF LookUpChanged
<1>5. QED
  BY <1>3, <1>4, TaskFrame DEF TypeOK

LEMMA TypeCreateAndSeed ==
  ASSUME TypeOK, NEW n \in Node, NEW s \in Slot, CreateAndSeed(n, s)
  PROVE  TypeOK'
<1> DEFINE t == [task[n][s] EXCEPT !.stage = "seeded", !.info = disk[n]]
<1>1. task[n][s] \in Hashed
  BY TaskAtStage DEF TypeOK, CreateAndSeed
<1>2. disk[n] \in Content
  BY DEF TypeOK, CreateAndSeed, MaybeContent
<1>3. t \in Seeded
  BY <1>1, <1>2 DEF Hashed, Seeded
<1>4. t \in TaskState
  BY <1>3 DEF TaskState
<1>5. SetTask(n, s, t) /\ LocalOnly /\ UNCHANGED <<store, minted>>
  BY DEF CreateAndSeed
<1>6. QED
  BY <1>4, <1>5, TaskFrame DEF TypeOK

LEMMA TypeHandlerFails ==
  ASSUME TypeOK, NEW n \in Node, NEW s \in Slot, HandlerFails(n, s)
  PROVE  TypeOK'
<1>1. Idle \in TaskState
  BY DEF TaskState
<1>2. SetTask(n, s, Idle) /\ LocalOnly /\ UNCHANGED <<store, minted>>
  BY DEF HandlerFails
<1>3. QED
  BY <1>1, <1>2, TaskFrame DEF TypeOK

LEMMA TypeLookUpDeleted ==
  ASSUME TypeOK, NEW n \in Node, NEW s \in Slot, LookUpDeleted(n, s)
  PROVE  TypeOK'
<1> DEFINE t == [task[n][s] EXCEPT !.stage = "marking", !.snap = store[n]]
<1>1. task[n][s] \in Called
  BY TaskAtStage DEF TypeOK, LookUpDeleted
<1>2. t \in Marking
  BY <1>1 DEF TypeOK, Called, Marking
<1>3. t \in TaskState
  BY <1>2 DEF TaskState
<1>4. SetTask(n, s, t) /\ LocalOnly /\ UNCHANGED <<store, minted>>
  BY DEF LookUpDeleted
<1>5. QED
  BY <1>3, <1>4, TaskFrame DEF TypeOK

\* What a broadcast makes of the tasks: the caller's is done or sending.
LEMMA BroadcastTask ==
  ASSUME TypeOK, NEW n \in Node, NEW s \in Slot, NEW msg \in Message,
         Broadcast(n, s, msg)
  PROVE  /\ task' \in [Node -> [Slot -> TaskState]]
         /\ \A i \in Node, j \in Slot :
              \/ task'[i][j] = task[i][j]
              \/ task'[i][j] = Idle
              \/ task'[i][j] \in Sending /\ task'[i][j].msg = msg
<1>1. PICK peers \in Audience(n) :
        SetTask(n, s, IF peers = {} THEN Idle
                      ELSE [stage |-> "sending", msg |-> msg, to |-> peers])
  BY DEF Broadcast
<1>2. peers \subseteq Node
  BY DEF Audience
<1> DEFINE sd == [stage |-> "sending", msg |-> msg, to |-> peers]
           st == IF peers = {} THEN Idle ELSE sd
<1>3. sd \in Sending /\ sd.msg = msg
  BY <1>2 DEF Sending
<1>4. SetTask(n, s, st)
  BY <1>1
<1> HIDE DEF sd
<1>5. st \in TaskState
  BY <1>3 DEF TaskState
<1>6. st = Idle \/ st = sd
  OBVIOUS
<1> HIDE DEF st
<1>7. task' \in [Node -> [Slot -> TaskState]]
  BY <1>4, <1>5, TaskType
<1>8. ASSUME NEW i \in Node, NEW j \in Slot
      PROVE  task'[i][j] = task[i][j] \/ task'[i][j] = st
  BY <1>4 DEF SetTask, TypeOK
<1>9. QED
  BY <1>3, <1>6, <1>7, <1>8

\* The message of a change, and the record it is stored as.
LEMMA PutChangedMessage ==
  ASSUME TypeOK, NEW n \in Node, NEW s \in Slot, task[n][s].stage = "seeded"
  PROVE  /\ task[n][s] \in Seeded
         /\ [type |-> "announce", origin |-> n,
             vc |-> NextClock(n, task[n][s].snap),
             hash |-> task[n][s].hash, info |-> task[n][s].info] \in Announce
<1>1. task[n][s] \in Seeded
  BY TaskAtStage DEF TypeOK
<1>2. NextClock(n, task[n][s].snap) \in Clock
  BY <1>1, NextClockType DEF Seeded
<1>3. QED
  BY <1>1, <1>2 DEF Seeded, Announce

LEMMA TypePutChanged ==
  ASSUME TypeOK, NEW n \in Node, NEW s \in Slot, PutChanged(n, s)
  PROVE  TypeOK'
<1> DEFINE msg == [type |-> "announce", origin |-> n,
                   vc |-> NextClock(n, task[n][s].snap),
                   hash |-> task[n][s].hash, info |-> task[n][s].info]
<1>1. msg \in Announce
  BY PutChangedMessage DEF PutChanged
<1>2. /\ store' = [store EXCEPT ![n] = Version(msg.hash, msg.info, msg.vc)]
      /\ minted' = minted \cup {msg}
      /\ Broadcast(n, s, msg) /\ LocalOnly
  BY DEF PutChanged
<1>3. Version(msg.hash, msg.info, msg.vc) \in MaybeRecord
  BY <1>1, VersionType DEF Announce
<1>4. store' \in [Node -> MaybeRecord] /\ minted' \subseteq Message
  BY <1>1, <1>2, <1>3, StoreType DEF TypeOK, Message
<1>5. task' \in [Node -> [Slot -> TaskState]]
  <2>1. msg \in Message /\ Broadcast(n, s, msg)
    BY <1>1, <1>2 DEF Message
  <2> HIDE DEF msg
  <2>2. QED
    BY <2>1, BroadcastTask
<1>6. QED
  BY <1>2, <1>4, <1>5, LocalFrame

LEMMA PutDeletedMessage ==
  ASSUME TypeOK, NEW n \in Node, NEW s \in Slot, task[n][s].stage = "marking"
  PROVE  /\ task[n][s] \in Marking
         /\ [type |-> "tombstone", origin |-> n,
             vc |-> NextClock(n, task[n][s].snap),
             hash |-> NoContent, info |-> NoContent] \in Tombstone
<1>1. task[n][s] \in Marking
  BY TaskAtStage DEF TypeOK
<1>2. NextClock(n, task[n][s].snap) \in Clock
  BY <1>1, NextClockType DEF Marking
<1>3. QED
  BY <1>1, <1>2 DEF Tombstone

LEMMA TypePutDeleted ==
  ASSUME TypeOK, NEW n \in Node, NEW s \in Slot, PutDeleted(n, s)
  PROVE  TypeOK'
<1> DEFINE msg == [type |-> "tombstone", origin |-> n,
                   vc |-> NextClock(n, task[n][s].snap),
                   hash |-> NoContent, info |-> NoContent]
<1>1. msg \in Tombstone
  BY PutDeletedMessage DEF PutDeleted
<1>2. /\ store' = [store EXCEPT ![n] = MarkDeleted(store[n])]
      /\ minted' = minted \cup {msg}
      /\ Broadcast(n, s, msg) /\ LocalOnly
  BY DEF PutDeleted
<1>3. MarkDeleted(store[n]) \in MaybeRecord
  BY MarkDeletedType DEF TypeOK
<1>4. store' \in [Node -> MaybeRecord] /\ minted' \subseteq Message
  BY <1>1, <1>2, <1>3, StoreType DEF TypeOK, Message
<1>5. task' \in [Node -> [Slot -> TaskState]]
  <2>1. msg \in Message /\ Broadcast(n, s, msg)
    BY <1>1, <1>2 DEF Message
  <2> HIDE DEF msg
  <2>2. QED
    BY <2>1, BroadcastTask
<1>6. QED
  BY <1>2, <1>4, <1>5, LocalFrame

LEMMA HandledMessages ==
  ASSUME NEW x \in Message
  PROVE  /\ Handled(x) \in Seq(Message) /\ Len(Handled(x)) = Syncers
         /\ \A i \in 1..Syncers : Handled(x)[i] = x
<1>1. Syncers \in Nat
  BY SyncerAssumption
<1>2. QED
  BY <1>1 DEF Handled

LEMMA TypeSendTo ==
  ASSUME TypeOK, NEW n \in Node, NEW s \in Slot, NEW m \in Node,
         SendTo(n, s, m)
  PROVE  TypeOK'
<1> DEFINE t == task[n][s]
           st == IF t.to = {m} THEN Idle ELSE [t EXCEPT !.to = @ \ {m}]
<1>1. t \in Sending
  BY TaskAtStage DEF TypeOK, SendTo
<1>2. [t EXCEPT !.to = @ \ {m}] \in Sending
  BY <1>1 DEF Sending
<1>3. st \in TaskState
  BY <1>2 DEF TaskState
<1>4. SetTask(n, s, st)
  BY DEF SendTo
<1>5. PICK l \in Lane : queue' = [queue EXCEPT ![<<n, m, l>>] = @ \o Handled(t.msg)]
  BY DEF SendTo
<1>6. t.msg \in Message
  BY <1>1 DEF Sending
<1>7. queue' \in [Channel -> Seq(Message)]
  <2> DEFINE ch == <<n, m, l>>
  <2>1. \A q \in Seq(Message) : q \o Handled(t.msg) \in Seq(Message)
    BY <1>6, HandledMessages
  <2>2. queue' = [queue EXCEPT ![ch] = queue[ch] \o Handled(t.msg)]
    BY <1>5
  <2> HIDE DEF t, ch
  <2>3. QED
    BY <2>1, <2>2 DEF TypeOK
<1> HIDE DEF st
<1>8. task' \in [Node -> [Slot -> TaskState]]
  BY <1>3, <1>4, TaskType
<1>9. QED
  BY <1>7, <1>8 DEF TypeOK, SendTo

-----------------------------------------------------------------------------
LEMMA TypeReceive ==
  ASSUME TypeOK, NEW ch \in Channel, Receive(ch)
  PROVE  TypeOK'
<1> DEFINE msg == Head(queue[ch])
           st  == [stage |-> "received", msg |-> msg, snap |-> NoRecord]
<1>1. queue[ch] \in Seq(Message) /\ queue[ch] # <<>>
  BY DEF TypeOK, Receive
<1>2. msg \in Message /\ Tail(queue[ch]) \in Seq(Message)
  BY <1>1
<1>3. st \in LoopState
  BY <1>2 DEF Message, LoopState, OfAnnounce, OfTombstone, MaybeRecord
<1>4. loop' = loop \/ SetLoop(ch, st)
  BY DEF Receive
<1> HIDE DEF st
<1>5. loop' \in [Channel -> LoopState]
  BY <1>3, <1>4, LoopType DEF TypeOK
<1>6. queue' \in [Channel -> Seq(Message)]
  BY <1>2 DEF TypeOK, Receive
<1>7. QED
  BY <1>5, <1>6 DEF TypeOK, Receive

\* The message in hand is of the type that the handler is for.
LEMMA MessageInHand ==
  ASSUME TypeOK, NEW ch \in Channel
  PROVE  /\ loop[ch].stage = "received" /\ loop[ch].msg.type = "announce"
              => loop[ch] \in OfAnnounce
         /\ loop[ch].stage = "received" /\ loop[ch].msg.type = "tombstone"
              => loop[ch] \in OfTombstone
<1>1. loop[ch] \in LoopState
  BY DEF TypeOK
<1>2. QED
  BY <1>1, LoopAtStage DEF OfAnnounce, OfTombstone, Announce, Tombstone

LEMMA TypeHandleAnnounce ==
  ASSUME TypeOK, NEW ch \in Channel, HandleAnnounce(ch)
  PROVE  TypeOK'
<1> DEFINE verdict == Verdict(loop[ch].msg, store[To(ch)])
           st == [loop[ch] EXCEPT !.stage = verdict, !.snap = store[To(ch)]]
<1>1. loop[ch] \in OfAnnounce
  BY MessageInHand DEF HandleAnnounce
<1>2. To(ch) \in Node
  BY DEF Channel, To
<1>3. verdict \in {"skip", "conflict", "leech"}
  BY DEF Verdict
<1>4. store[To(ch)] \in MaybeRecord
  BY <1>2 DEF TypeOK
<1>5. verdict # "skip" => st \in OfAnnounce
  <2> HIDE DEF verdict
  <2>1. QED
    BY <1>1, <1>3, <1>4 DEF OfAnnounce
<1>6. SetLoop(ch, IF verdict = "skip" THEN Idle ELSE st)
  BY DEF HandleAnnounce
<1>7. (IF verdict = "skip" THEN Idle ELSE st) \in LoopState
  <2> HIDE DEF verdict, st
  <2>1. QED
    BY <1>5 DEF LoopState
<1>8. loop' \in [Channel -> LoopState]
  <2> HIDE DEF verdict, st
  <2>1. QED
    BY <1>6, <1>7, LoopType
<1>9. QED
  BY <1>8 DEF TypeOK, HandleAnnounce

LEMMA TypeForkFile ==
  ASSUME TypeOK, NEW ch \in Channel, ForkFile(ch)
  PROVE  TypeOK'
<1> DEFINE st == [loop[ch] EXCEPT !.stage = "leech"]
<1>1. loop[ch] \in OfAnnounce
  BY LoopAtStage DEF TypeOK, ForkFile
<1>2. st \in LoopState
  BY <1>1 DEF OfAnnounce, LoopState
<1>3. SetLoop(ch, st)
  BY DEF ForkFile
<1>4. loop' \in [Channel -> LoopState]
  BY <1>2, <1>3, LoopType
<1>5. forks' \in [Node -> SUBSET Content]
  <2>1. To(ch) \in Node
    BY DEF Channel, To
  <2>2. CASE forks' = forks
    BY <2>2 DEF TypeOK
  <2>3. CASE disk[To(ch)] # NoContent
               /\ forks' = [forks EXCEPT ![To(ch)] = @ \cup {disk[To(ch)]}]
    BY <2>1, <2>3 DEF TypeOK, MaybeContent
  <2>4. QED
    BY <2>2, <2>3 DEF ForkFile
<1>6. QED
  BY <1>4, <1>5 DEF TypeOK, ForkFile

\* The bags of callbacks, as TypeOK has them.
PendingOK == /\ DOMAIN pending = Node
             /\ \A n \in Node : /\ IsABag(pending[n])
                                /\ BagToSet(pending[n]) \subseteq Closure

LEMMA LoopIsIdle ==
  ASSUME TypeOK, NEW ch \in Channel, SetLoop(ch, Idle)
  PROVE  loop' \in [Channel -> LoopState]
<1>1. Idle \in LoopState
  BY DEF LoopState
<1>2. QED
  BY <1>1, LoopType

LEMMA TypeRegisterLeech ==
  ASSUME TypeOK, NEW ch \in Channel, RegisterLeech(ch)
  PROVE  TypeOK'
<1> DEFINE n == To(ch)
           cb == [snap |-> loop[ch].snap, msg |-> loop[ch].msg]
<1>1. n \in Node
  BY DEF Channel, To
<1>2. loop[ch] \in OfAnnounce
  BY LoopAtStage DEF TypeOK, RegisterLeech
<1>3. cb \in Closure
  BY <1>2 DEF OfAnnounce, Closure
<1>4. pending' = [pending EXCEPT ![n] = pending[n] (+) SetToBag({cb})]
  BY DEF RegisterLeech
<1>5. PendingOK
  BY DEF TypeOK, PendingOK
<1>6. PendingOK'
  <2> HIDE DEF n, cb
  <2>1. IsABag(pending[n]) /\ BagToSet(pending[n]) \subseteq Closure
    BY <1>1, <1>5 DEF PendingOK
  <2>2. /\ IsABag(pending[n] (+) SetToBag({cb}))
        /\ BagToSet(pending[n] (+) SetToBag({cb})) = BagToSet(pending[n]) \cup {cb}
    BY <2>1, RegisterInBag
  <2>3. QED
    BY <1>3, <1>4, <1>5, <2>1, <2>2 DEF PendingOK
<1>7. loop' \in [Channel -> LoopState]
  BY LoopIsIdle DEF RegisterLeech
<1>8. QED
  BY <1>6, <1>7 DEF TypeOK, RegisterLeech, PendingOK

LEMMA TypeLeechFails ==
  ASSUME TypeOK, NEW ch \in Channel, LeechFails(ch)
  PROVE  TypeOK'
<1>1. loop' \in [Channel -> LoopState]
  BY LoopIsIdle DEF LeechFails
<1>2. QED
  BY <1>1 DEF TypeOK, LeechFails

LEMMA TypeComplete ==
  ASSUME TypeOK, NEW n \in Node, NEW cb, Complete(n, cb)
  PROVE  TypeOK'
<1>1. PendingOK
  BY DEF TypeOK, PendingOK
<1>2. cb \in Closure
  BY <1>1 DEF Complete, PendingOK
<1>3. PendingOK'
  <2>1. /\ IsABag(pending[n] (-) SetToBag({cb}))
        /\ BagToSet(pending[n] (-) SetToBag({cb})) \subseteq Closure
    BY <1>1, TakeFromBag DEF PendingOK
  <2>2. QED
    BY <1>1, <2>1 DEF PendingOK, Complete
<1>4. Version(cb.msg.hash, cb.msg.info, MergedClock(cb)) \in MaybeRecord
  BY <1>2, MergedClockType, VersionType DEF Closure, Announce
<1>5. store' \in [Node -> MaybeRecord]
  BY <1>4, StoreType DEF Complete
<1>6. QED
  BY <1>3, <1>5 DEF TypeOK, Complete, PendingOK

LEMMA TypeHandleTombstone ==
  ASSUME TypeOK, NEW ch \in Channel, HandleTombstone(ch)
  PROVE  TypeOK'
<1> DEFINE st == [loop[ch] EXCEPT !.stage = "remove"]
<1>1. loop[ch] \in OfTombstone
  BY MessageInHand DEF HandleTombstone
<1>2. st \in LoopState
  BY <1>1 DEF OfTombstone, LoopState
<1>3. SetLoop(ch, Idle) \/ SetLoop(ch, st)
  BY DEF HandleTombstone
<1> HIDE DEF st
<1>4. loop' \in [Channel -> LoopState]
  BY <1>2, <1>3, LoopType, LoopIsIdle
<1>5. QED
  BY <1>4 DEF TypeOK, HandleTombstone

LEMMA TypeRemoveFile ==
  ASSUME TypeOK, NEW ch \in Channel, RemoveFile(ch)
  PROVE  TypeOK'
<1> DEFINE st == [loop[ch] EXCEPT !.stage = "mark"]
<1>1. loop[ch] \in OfTombstone
  BY LoopAtStage DEF TypeOK, RemoveFile
<1>2. st \in LoopState
  BY <1>1 DEF OfTombstone, LoopState
<1>3. SetLoop(ch, st)
  BY DEF RemoveFile
<1>4. loop' \in [Channel -> LoopState]
  BY <1>2, <1>3, LoopType
<1>5. /\ disk' \in [Node -> MaybeContent]
      /\ event' \in [Node -> {"none", "changed", "deleted"}]
  BY DEF TypeOK, RemoveFile, MaybeContent
<1>6. QED
  BY <1>4, <1>5 DEF TypeOK, RemoveFile

LEMMA TypeMarkTombstone ==
  ASSUME TypeOK, NEW ch \in Channel, MarkTombstone(ch)
  PROVE  TypeOK'
<1>1. To(ch) \in Node
  BY DEF Channel, To
<1>2. MarkDeleted(store[To(ch)]) \in MaybeRecord
  BY <1>1, MarkDeletedType DEF TypeOK
<1>3. store' \in [Node -> MaybeRecord]
  BY <1>1, <1>2, StoreType DEF MarkTombstone
<1>4. loop' \in [Channel -> LoopState]
  BY LoopIsIdle DEF MarkTombstone
<1>5. QED
  BY <1>3, <1>4 DEF TypeOK, MarkTombstone

-----------------------------------------------------------------------------
LEMMA TypeUser ==
  ASSUME TypeOK, NEW n \in Node, UserStep(n)
  PROVE  TypeOK'
<1>1. ASSUME NEW c \in Content, WriteFile(n, c)
      PROVE  TypeOK'
  <2>1. /\ disk' \in [Node -> MaybeContent]
        /\ event' \in [Node -> {"none", "changed", "deleted"}]
        /\ edits' \in Nat
    BY <1>1 DEF TypeOK, WriteFile, MaybeContent
  <2>2. QED
    BY <1>1, <2>1 DEF TypeOK, WriteFile
<1>2. CASE DeleteFile(n)
  <2>1. /\ disk' \in [Node -> MaybeContent]
        /\ event' \in [Node -> {"none", "changed", "deleted"}]
        /\ edits' \in Nat
    BY <1>2 DEF TypeOK, DeleteFile, MaybeContent
  <2>2. QED
    BY <1>2, <2>1 DEF TypeOK, DeleteFile
<1>3. QED
  BY <1>1, <1>2 DEF UserStep

LEMMA TypePause ==
  ASSUME TypeOK, NEW n \in Node, Pause(n)
  PROVE  TypeOK'
BY DEF TypeOK, Pause

LEMMA TypeDisconnect ==
  ASSUME TypeOK, NEW ch \in Channel, Disconnect(ch)
  PROVE  TypeOK'
BY DEF TypeOK, Disconnect

LEMMA TypeCrash ==
  ASSUME TypeOK, NEW n \in Node, Crash(n)
  PROVE  TypeOK'
<1>1. Idle \in TaskState /\ Idle \in LoopState
  BY DEF TaskState, LoopState
<1>2. task' \in [Node -> [Slot -> TaskState]]
  BY <1>1 DEF TypeOK, Crash
<1>3. loop' \in [Channel -> LoopState]
  BY <1>1 DEF TypeOK, Crash
<1>4. queue' \in [Channel -> Seq(Message)]
  BY DEF TypeOK, Crash
<1>5. PendingOK'
  BY EmptyIsABag DEF TypeOK, Crash, PendingOK
<1>6. QED
  BY <1>2, <1>3, <1>4, <1>5 DEF TypeOK, Crash, PendingOK

-----------------------------------------------------------------------------
LEMMA NextTypeOK == TypeOK /\ [Next]_vars => TypeOK'
<1> SUFFICES ASSUME TypeOK, [Next]_vars
             PROVE  TypeOK'
  OBVIOUS
<1>1. ASSUME NEW n \in Node, UserStep(n)
      PROVE  TypeOK'
  BY <1>1, TypeUser
<1>2. ASSUME NEW n \in Node, CompleteStep(n)
      PROVE  TypeOK'
  BY <1>2, TypeComplete DEF CompleteStep
<1>3. ASSUME NEW n \in Node, Pause(n) \/ Crash(n)
      PROVE  TypeOK'
  BY <1>3, TypePause, TypeCrash
<1>4. ASSUME NEW n \in Node, NEW s \in Slot, TaskStep(n, s)
      PROVE  TypeOK'
  BY <1>4, TypeHandleFileEvent, TypeHashFile, TypeLookUpChanged,
     TypeCreateAndSeed, TypeHandlerFails, TypePutChanged, TypeLookUpDeleted,
     TypePutDeleted, TypeSendTo DEF TaskStep
<1>5. ASSUME NEW ch \in Channel, LoopStep(ch) \/ Disconnect(ch)
      PROVE  TypeOK'
  BY <1>5, TypeReceive, TypeHandleAnnounce, TypeForkFile, TypeRegisterLeech,
     TypeLeechFails, TypeHandleTombstone, TypeRemoveFile, TypeMarkTombstone,
     TypeDisconnect DEF LoopStep
<1>6. CASE UNCHANGED vars
  BY <1>6 DEF TypeOK, vars
<1>7. QED
  BY <1>1, <1>2, <1>3, <1>4, <1>5, <1>6 DEF Next

\* Every variable keeps its type, at every stage of every handler of every
\* node, in every swarm.
THEOREM TypeCorrect == Spec => []TypeOK
<1>1. Init => TypeOK
  BY InitTypeOK
<1>2. TypeOK /\ [Next]_vars => TypeOK'
  BY NextTypeOK
<1>3. QED
  BY <1>1, <1>2, PTL DEF Spec

-----------------------------------------------------------------------------
(***************************************************************************)
(* The inductive invariant behind CausesExist and ContentUnderItsClock.    *)
(* A record is made from a record read earlier (snap) and a message sent   *)
(* earlier, so what the two properties say of records has to hold of every *)
(* place where a record or a message waits: the tasks, the queues, the     *)
(* read loops and the callbacks.                                           *)
(***************************************************************************)
StoreInv(V, r) == /\ Caused(V, ClockOf(r))
                  /\ Live(r) => Introduced(V, r)

TaskInv(V, t) == /\ t.stage = "sending" => t.msg \in V
                 /\ t.stage \notin {"idle", "sending"} => Caused(V, ClockOf(t.snap))

QueueInv(V, q) == \A i \in 1..Len(q) : q[i] \in V

LoopInv(V, l) == l.stage # "idle" => l.msg \in V /\ Caused(V, ClockOf(l.snap))

PendingInv(V, B) ==
  \A cb \in BagToSet(B) : cb.msg \in V /\ Caused(V, ClockOf(cb.snap))

\* All of it, for a set of versions.
PlacesInv(V) ==
  /\ \A n \in Node : StoreInv(V, store[n])
  /\ \A n \in Node, s \in Slot : TaskInv(V, task[n][s])
  /\ \A ch \in Channel : QueueInv(V, queue[ch])
  /\ \A ch \in Channel : LoopInv(V, loop[ch])
  /\ \A n \in Node : PendingInv(V, pending[n])

VersionsInv(V) == \A v \in V : Caused(V, v.vc)

HistoryInv == VersionsInv(minted) /\ PlacesInv(minted)

IInv == TypeOK /\ HistoryInv

-----------------------------------------------------------------------------
(* Lemmas about Caused and Introduced.                                     *)

LEMMA CausedGrows ==
  ASSUME NEW V, NEW W, V \subseteq W, NEW vc, Caused(V, vc)
  PROVE  Caused(W, vc)
BY DEF Caused

LEMMA IntroducedGrows ==
  ASSUME NEW V, NEW W, V \subseteq W, NEW r, Introduced(V, r)
  PROVE  Introduced(W, r)
BY DEF Introduced

LEMMA ZeroCaused ==
  ASSUME NEW V
  PROVE  Caused(V, Zero) /\ Caused(V, ClockOf(NoRecord))
BY DEF Caused, Zero, ClockOf

\* A local change adds the version that its own component counts.
LEMMA BumpCaused ==
  ASSUME NEW V, NEW c \in Clock, NEW n \in Node, Caused(V, c),
         NEW v, v.origin = n, v.vc = Bump(c, n)
  PROVE  Caused(V \cup {v}, v.vc)
<1> SUFFICES ASSUME NEW k \in Node, v.vc[k] > 0
             PROVE  \E w \in V \cup {v} : w.origin = k /\ w.vc[k] = v.vc[k]
  BY DEF Caused
<1>1. CASE k = n
  BY <1>1
<1>2. CASE k # n
  <2>1. v.vc[k] = c[k]
    BY <1>2 DEF Bump, Clock
  <2>2. QED
    BY <2>1 DEF Caused
<1>3. QED
  BY <1>1, <1>2

LEMMA MergeCaused ==
  ASSUME NEW V, NEW c \in Clock, NEW d \in Clock, Caused(V, c), Caused(V, d)
  PROVE  Caused(V, Merge(c, d))
<1> SUFFICES ASSUME NEW k \in Node, Merge(c, d)[k] > 0
             PROVE  \E v \in V : v.origin = k /\ v.vc[k] = Merge(c, d)[k]
  BY DEF Caused
<1>1. Merge(c, d)[k] = c[k] \/ Merge(c, d)[k] = d[k]
  BY MergeComponent
<1>2. QED
  BY <1>1 DEF Caused

\* What a record becomes when it is marked deleted.
LEMMA MarkDeletedInv ==
  ASSUME NEW V, NEW r \in MaybeRecord, StoreInv(V, r)
  PROVE  StoreInv(V, MarkDeleted(r))
<1>1. CASE r = NoRecord
  <2>1. ClockOf(MarkDeleted(r)) = Zero /\ ~Live(MarkDeleted(r))
    BY <1>1 DEF MarkDeleted, ClockOf, Live
  <2>2. QED
    BY <2>1, ZeroCaused DEF StoreInv
<1>2. CASE r # NoRecord
  <2>1. r \in FileRecord
    BY <1>2 DEF MaybeRecord
  <2>2. MarkDeleted(r) \in FileRecord /\ MarkDeleted(r).vc = r.vc
        /\ MarkDeleted(r).deleted = TRUE
    BY <1>2, <2>1 DEF MarkDeleted, FileRecord
  <2>3. ClockOf(MarkDeleted(r)) = ClockOf(r) /\ ~Live(MarkDeleted(r))
    BY <1>2, <2>2, FileStoreAssumption DEF ClockOf, Live
  <2>4. QED
    BY <2>3 DEF StoreInv
<1>3. QED
  BY <1>1, <1>2

\* A version put under a clock that includes the announcement it is from.
LEMMA VersionInv ==
  ASSUME NEW V, NEW msg \in Announce, msg \in V, NEW vc \in Clock,
         Caused(V, vc), Leq(msg.vc, vc)
  PROVE  StoreInv(V, Version(msg.hash, msg.info, vc))
<1> DEFINE r == Version(msg.hash, msg.info, vc)
<1>1. r \in FileRecord /\ r.vc = vc /\ r.hash = msg.hash /\ r.info = msg.info
  BY DEF Version, FileRecord, MaybeContent, Announce
<1>2. ClockOf(r) = vc
  BY <1>1, FileStoreAssumption DEF ClockOf
<1> HIDE DEF r
<1>3. Introduced(V, r)
  BY <1>1 DEF Introduced, Announce
<1>4. QED
  BY <1>2, <1>3 DEF StoreInv, r

-----------------------------------------------------------------------------
(* A change adds its version: what held for the others still does.         *)

LEMMA PlacesGrow ==
  ASSUME NEW V, NEW W, V \subseteq W, PlacesInv(V)
  PROVE  PlacesInv(W)
<1>1. \A n \in Node : StoreInv(W, store[n])
  BY CausedGrows, IntroducedGrows DEF PlacesInv, StoreInv
<1>2. \A n \in Node, s \in Slot : TaskInv(W, task[n][s])
  BY CausedGrows DEF PlacesInv, TaskInv
<1>3. \A ch \in Channel : QueueInv(W, queue[ch])
  BY DEF PlacesInv, QueueInv
<1>4. \A ch \in Channel : LoopInv(W, loop[ch])
  BY CausedGrows DEF PlacesInv, LoopInv
<1>5. \A n \in Node : PendingInv(W, pending[n])
  BY CausedGrows DEF PlacesInv, PendingInv
<1>6. QED
  BY <1>1, <1>2, <1>3, <1>4, <1>5 DEF PlacesInv

LEMMA VersionsGrow ==
  ASSUME NEW V, VersionsInv(V), NEW c \in Clock, NEW n \in Node, Caused(V, c),
         NEW v, v.origin = n, v.vc = Bump(c, n)
  PROVE  VersionsInv(V \cup {v})
BY CausedGrows, BumpCaused DEF VersionsInv

-----------------------------------------------------------------------------
(* One lemma per kind of step: what it sets still satisfies the invariant. *)

\* A step that only moves a task on.
LEMMA TaskMoves ==
  ASSUME IInv, LocalOnly, UNCHANGED <<store, minted>>, NEW n \in Node,
         NEW s \in Slot, NEW t \in TaskState, SetTask(n, s, t),
         TaskInv(minted, t)
  PROVE  HistoryInv'
<1>1. \A i \in Node, j \in Slot : TaskInv(minted, task'[i][j])
  <2>1. ASSUME NEW i \in Node, NEW j \in Slot
        PROVE  task'[i][j] = task[i][j] \/ task'[i][j] = t
    BY DEF SetTask, IInv, TypeOK
  <2>2. \A i \in Node, j \in Slot : TaskInv(minted, task[i][j])
    BY DEF IInv, HistoryInv, PlacesInv
  <2>3. QED
    BY <2>1, <2>2
<1>2. QED
  BY <1>1 DEF IInv, HistoryInv, PlacesInv, LocalOnly, VersionsInv, StoreInv,
     QueueInv, LoopInv, PendingInv, TaskInv

\* A step that only moves a read loop on.
LEMMA LoopMoves ==
  ASSUME IInv, UNCHANGED <<task, store, queue, pending, minted>>,
         NEW ch \in Channel, NEW st \in LoopState, SetLoop(ch, st),
         LoopInv(minted, st)
  PROVE  HistoryInv'
<1>1. \A c \in Channel : LoopInv(minted, loop'[c])
  <2>1. ASSUME NEW c \in Channel
        PROVE  loop'[c] = loop[c] \/ loop'[c] = st
    BY DEF SetLoop, IInv, TypeOK
  <2>2. \A c \in Channel : LoopInv(minted, loop[c])
    BY DEF IInv, HistoryInv, PlacesInv
  <2>3. QED
    BY <2>1, <2>2
<1>2. QED
  BY <1>1 DEF IInv, HistoryInv, PlacesInv, VersionsInv, StoreInv, QueueInv,
     LoopInv, PendingInv, TaskInv

LEMMA IdleInv == TaskInv(minted, Idle) /\ LoopInv(minted, Idle)
                 /\ Idle \in TaskState /\ Idle \in LoopState
BY DEF TaskInv, LoopInv, Idle, TaskState, LoopState

LEMMA HistoryHandleFileEvent ==
  ASSUME IInv, NEW n \in Node, NEW s \in Slot, HandleFileEvent(n, s)
  PROVE  HistoryInv'
<1> DEFINE t == [stage |-> event[n], hash |-> NoContent, info |-> NoContent,
                 snap |-> NoRecord]
<1>1. TaskInv(minted, t)
  BY ZeroCaused DEF TaskInv, IInv, TypeOK
<1>2. task' = task \/ SetTask(n, s, t)
  BY DEF HandleFileEvent
<1>3. \A i \in Node, j \in Slot : TaskInv(minted, task'[i][j])
  <2> HIDE DEF t
  <2>1. ASSUME NEW i \in Node, NEW j \in Slot
        PROVE  task'[i][j] = task[i][j] \/ task'[i][j] = t
    BY <1>2, SMTT(30) DEF SetTask, IInv, TypeOK
  <2>2. \A i \in Node, j \in Slot : TaskInv(minted, task[i][j])
    BY DEF IInv, HistoryInv, PlacesInv
  <2>3. QED
    BY <1>1, <2>1, <2>2
<1>4. UNCHANGED <<store, queue, loop, pending, minted>>
  BY DEF HandleFileEvent
<1> HIDE DEF t
<1>5. QED
  BY <1>3, <1>4 DEF IInv, HistoryInv, PlacesInv, VersionsInv, StoreInv,
     QueueInv, LoopInv, PendingInv, TaskInv

\* Reading the file, or failing, leaves the record that was read as it is.
LEMMA HistoryReadFile ==
  ASSUME IInv, NEW n \in Node, NEW s \in Slot,
         HashFile(n, s) \/ CreateAndSeed(n, s) \/ HandlerFails(n, s)
  PROVE  HistoryInv'
<1>1. TaskInv(minted, task[n][s]) /\ task[n][s] \in TaskState /\ disk[n] \in MaybeContent
  BY DEF IInv, HistoryInv, PlacesInv, TypeOK
<1>2. CASE HashFile(n, s)
  <2> DEFINE t == [task[n][s] EXCEPT !.stage = "hashed", !.hash = disk[n]]
  <2>1. task[n][s] \in Called /\ disk[n] \in Content
    BY <1>1, <1>2, TaskAtStage DEF HashFile, MaybeContent
  <2>2. t \in Hashed /\ t.snap = task[n][s].snap
    BY <2>1 DEF Called, Hashed, MaybeRecord
  <2>3. Caused(minted, ClockOf(task[n][s].snap))
    BY <1>1, <2>1 DEF TaskInv, Called
  <2>4. t \in TaskState /\ TaskInv(minted, t)
    BY <2>2, <2>3 DEF TaskState, TaskInv, Hashed
  <2>5. SetTask(n, s, t) /\ LocalOnly /\ UNCHANGED <<store, minted>>
    BY <1>2 DEF HashFile
  <2>6. QED
    BY <2>4, <2>5, TaskMoves
<1>3. CASE CreateAndSeed(n, s)
  <2> DEFINE t == [task[n][s] EXCEPT !.stage = "seeded", !.info = disk[n]]
  <2>1. task[n][s] \in Hashed /\ disk[n] \in Content
    BY <1>1, <1>3, TaskAtStage DEF CreateAndSeed, MaybeContent
  <2>2. t \in Seeded /\ t.snap = task[n][s].snap
    BY <2>1 DEF Hashed, Seeded
  <2>3. Caused(minted, ClockOf(task[n][s].snap))
    BY <1>1, <2>1 DEF TaskInv, Hashed
  <2>4. t \in TaskState /\ TaskInv(minted, t)
    BY <2>2, <2>3 DEF TaskState, TaskInv, Seeded
  <2>5. SetTask(n, s, t) /\ LocalOnly /\ UNCHANGED <<store, minted>>
    BY <1>3 DEF CreateAndSeed
  <2>6. QED
    BY <2>4, <2>5, TaskMoves
<1>4. CASE HandlerFails(n, s)
  <2>1. SetTask(n, s, Idle) /\ LocalOnly /\ UNCHANGED <<store, minted>>
    BY <1>4 DEF HandlerFails
  <2>2. QED
    BY <2>1, IdleInv, TaskMoves
<1>5. QED
  BY <1>2, <1>3, <1>4

\* A look-up takes a record whose clock the invariant already covers.
LEMMA HistoryLookUp ==
  ASSUME IInv, NEW n \in Node, NEW s \in Slot,
         LookUpChanged(n, s) \/ LookUpDeleted(n, s)
  PROVE  HistoryInv'
<1>1. Caused(minted, ClockOf(store[n])) /\ store[n] \in MaybeRecord
  BY DEF IInv, HistoryInv, PlacesInv, StoreInv, TypeOK
<1>2. task[n][s] \in TaskState
  BY DEF IInv, TypeOK
<1>3. CASE LookUpChanged(n, s)
  <2> DEFINE t == [task[n][s] EXCEPT !.stage = "got", !.snap = store[n]]
  <2>1. task[n][s] \in Hashed
    BY <1>2, <1>3, TaskAtStage DEF LookUpChanged
  <2>2. t \in Hashed /\ t.snap = store[n]
    BY <1>1, <2>1 DEF Hashed
  <2>3. t \in TaskState /\ TaskInv(minted, t)
    BY <1>1, <2>2 DEF TaskState, TaskInv, Hashed
  <2>4. /\ SetTask(n, s, Idle) \/ SetTask(n, s, t)
        /\ LocalOnly /\ UNCHANGED <<store, minted>>
    BY <1>3 DEF LookUpChanged
  <2>5. QED
    BY <2>3, <2>4, IdleInv, TaskMoves
<1>4. CASE LookUpDeleted(n, s)
  <2> DEFINE t == [task[n][s] EXCEPT !.stage = "marking", !.snap = store[n]]
  <2>1. task[n][s] \in Called
    BY <1>2, <1>4, TaskAtStage DEF LookUpDeleted
  <2>2. t \in Marking /\ t.snap = store[n]
    BY <1>1, <2>1 DEF Called, Marking
  <2>3. t \in TaskState /\ TaskInv(minted, t)
    BY <1>1, <2>2 DEF TaskState, TaskInv, Marking
  <2>4. SetTask(n, s, t) /\ LocalOnly /\ UNCHANGED <<store, minted>>
    BY <1>4 DEF LookUpDeleted
  <2>5. QED
    BY <2>3, <2>4, TaskMoves
<1>5. QED
  BY <1>3, <1>4

\* A local change: its version is added, stored or marked, and sent.
LEMMA HistoryChange ==
  ASSUME IInv, NEW n \in Node, NEW s \in Slot, NEW snap \in MaybeRecord,
         Caused(minted, ClockOf(snap)),
         NEW msg \in Message, msg.origin = n, msg.vc = NextClock(n, snap),
         minted' = minted \cup {msg}, Broadcast(n, s, msg), LocalOnly,
         NEW r, store' = [store EXCEPT ![n] = r], StoreInv(minted \cup {msg}, r)
  PROVE  HistoryInv'
<1> DEFINE V == minted \cup {msg}
<1>1. PlacesInv(V)
  BY PlacesGrow DEF IInv, HistoryInv
<1>2. ClockOf(snap) \in Clock /\ VersionsInv(minted)
  BY ClockOfType DEF IInv, HistoryInv
<1>3. VersionsInv(V)
  BY <1>2, VersionsGrow DEF NextClock
<1>4. \A i \in Node : StoreInv(V, store'[i])
  BY <1>1 DEF PlacesInv, IInv, TypeOK
<1>5. \A i \in Node, j \in Slot : TaskInv(V, task'[i][j])
  <2>1. ASSUME NEW i \in Node, NEW j \in Slot
        PROVE  \/ task'[i][j] = task[i][j]
               \/ task'[i][j] = Idle
               \/ task'[i][j] \in Sending /\ task'[i][j].msg = msg
    BY BroadcastTask DEF IInv
  <2>2. \A i \in Node, j \in Slot : TaskInv(V, task[i][j])
    BY <1>1 DEF PlacesInv
  <2>3. TaskInv(V, Idle)
    BY DEF TaskInv, Idle
  <2>4. ASSUME NEW t \in Sending, t.msg = msg
        PROVE  TaskInv(V, t)
    BY <2>4 DEF TaskInv, Sending
  <2>5. QED
    BY <2>1, <2>2, <2>3, <2>4
<1>6. /\ \A ch \in Channel : QueueInv(V, queue'[ch])
      /\ \A ch \in Channel : LoopInv(V, loop'[ch])
      /\ \A i \in Node : PendingInv(V, pending'[i])
  <2>1. queue' = queue /\ loop' = loop /\ pending' = pending
    BY DEF LocalOnly
  <2>2. QED
    BY <1>1, <2>1 DEF PlacesInv
<1>7. minted' = V
  OBVIOUS
<1> HIDE DEF V
<1>8. QED
  BY <1>3, <1>4, <1>5, <1>6, <1>7 DEF HistoryInv, PlacesInv, VersionsInv,
     StoreInv, TaskInv, QueueInv, LoopInv, PendingInv

LEMMA HistoryPutChanged ==
  ASSUME IInv, NEW n \in Node, NEW s \in Slot, PutChanged(n, s)
  PROVE  HistoryInv'
<1> DEFINE snap == task[n][s].snap
           msg == [type |-> "announce", origin |-> n, vc |-> NextClock(n, snap),
                   hash |-> task[n][s].hash, info |-> task[n][s].info]
           r == Version(msg.hash, msg.info, msg.vc)
<1>1. task[n][s] \in Seeded /\ msg \in Announce
  BY PutChangedMessage DEF IInv, PutChanged
<1>2. /\ store' = [store EXCEPT ![n] = r]
      /\ minted' = minted \cup {msg}
      /\ Broadcast(n, s, msg) /\ LocalOnly
  BY DEF PutChanged
<1>3. snap \in MaybeRecord /\ Caused(minted, ClockOf(snap))
  BY <1>1 DEF Seeded, IInv, HistoryInv, PlacesInv, TaskInv
<1>4. msg \in Message /\ msg.origin = n /\ msg.vc = NextClock(n, snap)
      /\ msg.vc \in Clock
  BY <1>1 DEF Message, Announce
<1>5. ClockOf(snap) \in Clock /\ msg.vc = Bump(ClockOf(snap), n)
  BY <1>3, <1>4, ClockOfType DEF NextClock
<1> HIDE DEF msg, snap
<1>6. Caused(minted \cup {msg}, msg.vc)
  BY <1>3, <1>4, <1>5, BumpCaused
<1>7. StoreInv(minted \cup {msg}, r)
  BY <1>1, <1>4, <1>6, VersionInv, LeqReflexive
<1> HIDE DEF r
<1>8. QED
  BY <1>2, <1>3, <1>4, <1>7, HistoryChange

LEMMA HistoryPutDeleted ==
  ASSUME IInv, NEW n \in Node, NEW s \in Slot, PutDeleted(n, s)
  PROVE  HistoryInv'
<1> DEFINE snap == task[n][s].snap
           msg == [type |-> "tombstone", origin |-> n, vc |-> NextClock(n, snap),
                   hash |-> NoContent, info |-> NoContent]
           r == MarkDeleted(store[n])
<1>1. task[n][s] \in Marking /\ msg \in Tombstone
  BY PutDeletedMessage DEF IInv, PutDeleted
<1>2. /\ store' = [store EXCEPT ![n] = r]
      /\ minted' = minted \cup {msg}
      /\ Broadcast(n, s, msg) /\ LocalOnly
  BY DEF PutDeleted
<1>3. snap \in MaybeRecord /\ Caused(minted, ClockOf(snap))
  BY <1>1 DEF Marking, IInv, HistoryInv, PlacesInv, TaskInv
<1>4. msg \in Message /\ msg.origin = n /\ msg.vc = NextClock(n, snap)
  BY <1>1 DEF Message
<1> HIDE DEF msg, snap
<1>5. PlacesInv(minted \cup {msg})
  BY PlacesGrow DEF IInv, HistoryInv
<1>6. store[n] \in MaybeRecord /\ StoreInv(minted \cup {msg}, store[n])
  BY <1>5 DEF PlacesInv, IInv, TypeOK
<1>7. StoreInv(minted \cup {msg}, r)
  BY <1>6, MarkDeletedInv
<1> HIDE DEF r
<1>8. QED
  BY <1>2, <1>3, <1>4, <1>7, HistoryChange

LEMMA HistorySendTo ==
  ASSUME IInv, NEW n \in Node, NEW s \in Slot, NEW m \in Node, SendTo(n, s, m)
  PROVE  HistoryInv'
<1> DEFINE t == task[n][s]
           st == IF t.to = {m} THEN Idle ELSE [t EXCEPT !.to = @ \ {m}]
<1>1. t \in Sending
  BY TaskAtStage DEF IInv, TypeOK, SendTo
<1>2. t.msg \in minted /\ t.msg \in Message
  BY <1>1 DEF IInv, HistoryInv, PlacesInv, TaskInv, Sending
<1>3. [t EXCEPT !.to = @ \ {m}].stage = "sending"
      /\ [t EXCEPT !.to = @ \ {m}].msg = t.msg
  BY <1>1 DEF Sending
<1>4. TaskInv(minted, st)
  BY <1>2, <1>3, IdleInv DEF TaskInv
<1>5. SetTask(n, s, st)
  BY DEF SendTo
<1>6. PICK l \in Lane : queue' = [queue EXCEPT ![<<n, m, l>>] = @ \o Handled(t.msg)]
  BY DEF SendTo
<1>7. \A ch \in Channel : QueueInv(minted, queue'[ch])
  <2> DEFINE x == t.msg
  <2>1. x \in minted /\ x \in Message
    BY <1>2
  <2>2. \A ch \in Channel : queue'[ch] = queue[ch] \/ queue'[ch] = queue[ch] \o Handled(x)
    BY <1>6 DEF IInv, TypeOK
  <2> HIDE DEF x
  <2>3. ASSUME NEW q \in Seq(Message), QueueInv(minted, q)
        PROVE  QueueInv(minted, q \o Handled(x))
    <3>1. /\ Handled(x) \in Seq(Message) /\ Len(Handled(x)) = Syncers
          /\ \A i \in 1..Syncers : Handled(x)[i] = x
      BY <2>1, HandledMessages
    <3>2. QED
      BY <2>1, <2>3, <3>1 DEF QueueInv
  <2>4. \A ch \in Channel : queue[ch] \in Seq(Message) /\ QueueInv(minted, queue[ch])
    BY DEF IInv, TypeOK, HistoryInv, PlacesInv
  <2>5. QED
    BY <2>2, <2>3, <2>4
<1> HIDE DEF st
<1>8. \A i \in Node, j \in Slot : TaskInv(minted, task'[i][j])
  <2>1. ASSUME NEW i \in Node, NEW j \in Slot
        PROVE  task'[i][j] = task[i][j] \/ task'[i][j] = st
    BY <1>5 DEF SetTask, IInv, TypeOK
  <2>2. \A i \in Node, j \in Slot : TaskInv(minted, task[i][j])
    BY DEF IInv, HistoryInv, PlacesInv
  <2>3. QED
    BY <1>4, <2>1, <2>2
<1>9. UNCHANGED <<store, loop, pending, minted>>
  BY DEF SendTo
<1>10. QED
  BY <1>7, <1>8, <1>9 DEF IInv, HistoryInv, PlacesInv, VersionsInv, StoreInv,
     QueueInv, LoopInv, PendingInv, TaskInv

LEMMA HistoryReceive ==
  ASSUME IInv, NEW ch \in Channel, Receive(ch)
  PROVE  HistoryInv'
<1> DEFINE msg == Head(queue[ch])
           st  == [stage |-> "received", msg |-> msg, snap |-> NoRecord]
<1>1. queue[ch] \in Seq(Message) /\ queue[ch] # <<>> /\ QueueInv(minted, queue[ch])
  BY DEF IInv, TypeOK, HistoryInv, PlacesInv, Receive
<1>2. msg \in minted /\ QueueInv(minted, Tail(queue[ch]))
  BY <1>1 DEF QueueInv
<1>3. LoopInv(minted, st)
  BY <1>2, ZeroCaused DEF LoopInv
<1>4. loop' = loop \/ SetLoop(ch, st)
  BY DEF Receive
<1> HIDE DEF st
<1>5. \A c \in Channel : LoopInv(minted, loop'[c])
  <2>1. ASSUME NEW c \in Channel
        PROVE  loop'[c] = loop[c] \/ loop'[c] = st
    BY <1>4 DEF SetLoop, IInv, TypeOK
  <2>2. \A c \in Channel : LoopInv(minted, loop[c])
    BY DEF IInv, HistoryInv, PlacesInv
  <2>3. QED
    BY <1>3, <2>1, <2>2
<1>6. \A c \in Channel : QueueInv(minted, queue'[c])
  BY <1>2 DEF Receive, IInv, TypeOK, HistoryInv, PlacesInv
<1>7. UNCHANGED <<store, task, pending, minted>>
  BY DEF Receive
<1>8. QED
  BY <1>5, <1>6, <1>7 DEF IInv, HistoryInv, PlacesInv, VersionsInv, StoreInv,
     QueueInv, LoopInv, PendingInv, TaskInv

\* handleAnnounce, handleTombstone and their later stages move the loop on;
\* the first takes a record whose clock the invariant covers.
LEMMA HistoryHandle ==
  ASSUME IInv, NEW ch \in Channel,
         \/ HandleAnnounce(ch) \/ ForkFile(ch) \/ LeechFails(ch)
         \/ HandleTombstone(ch) \/ RemoveFile(ch)
  PROVE  HistoryInv'
<1>1. LoopInv(minted, loop[ch]) /\ loop[ch] \in LoopState /\ TypeOK
  BY DEF IInv, TypeOK, HistoryInv, PlacesInv
<1>2. CASE HandleAnnounce(ch)
  <2> DEFINE verdict == Verdict(loop[ch].msg, store[To(ch)])
             st == [loop[ch] EXCEPT !.stage = verdict, !.snap = store[To(ch)]]
  <2>1. loop[ch] \in OfAnnounce
    BY <1>1, <1>2, MessageInHand DEF HandleAnnounce
  <2>2. To(ch) \in Node
    BY DEF Channel, To
  <2>3. store[To(ch)] \in MaybeRecord /\ Caused(minted, ClockOf(store[To(ch)]))
    BY <2>2 DEF IInv, TypeOK, HistoryInv, PlacesInv, StoreInv
  <2>4. verdict \in {"skip", "conflict", "leech"}
    BY DEF Verdict
  <2>5. /\ verdict = "skip" => SetLoop(ch, Idle)
        /\ verdict # "skip" => SetLoop(ch, st)
    BY <1>2 DEF HandleAnnounce
  <2>6. loop[ch].msg \in minted
    BY <1>1, <2>1 DEF LoopInv, OfAnnounce
  <2> HIDE DEF verdict
  <2>7. verdict # "skip" => /\ st \in OfAnnounce
                            /\ st.msg = loop[ch].msg /\ st.snap = store[To(ch)]
    BY <2>1, <2>3, <2>4 DEF OfAnnounce
  <2> HIDE DEF st
  <2>8. verdict # "skip" => st \in LoopState /\ LoopInv(minted, st)
    BY <2>3, <2>6, <2>7 DEF LoopState, LoopInv
  <2>9. UNCHANGED <<task, store, queue, pending, minted>>
    BY <1>2 DEF HandleAnnounce
  <2>10. QED
    BY <2>5, <2>8, <2>9, IdleInv, LoopMoves
<1>3. CASE ForkFile(ch)
  <2> DEFINE st == [loop[ch] EXCEPT !.stage = "leech"]
  <2>1. loop[ch] \in OfAnnounce
    BY <1>1, <1>3, LoopAtStage DEF ForkFile
  <2>2. st \in OfAnnounce /\ st.msg = loop[ch].msg /\ st.snap = loop[ch].snap
    BY <2>1 DEF OfAnnounce
  <2>3. loop[ch].msg \in minted /\ Caused(minted, ClockOf(loop[ch].snap))
    BY <1>1, <2>1 DEF LoopInv, OfAnnounce
  <2>4. SetLoop(ch, st) /\ UNCHANGED <<task, store, queue, pending, minted>>
    BY <1>3 DEF ForkFile
  <2> HIDE DEF st
  <2>5. st \in LoopState /\ LoopInv(minted, st)
    BY <2>2, <2>3 DEF LoopState, LoopInv
  <2>6. QED
    BY <2>4, <2>5, LoopMoves
<1>4. CASE LeechFails(ch)
  <2>1. SetLoop(ch, Idle) /\ UNCHANGED <<task, store, queue, pending, minted>>
    BY <1>4 DEF LeechFails
  <2>2. QED
    BY <2>1, IdleInv, LoopMoves
<1>5. CASE HandleTombstone(ch)
  <2> DEFINE st == [loop[ch] EXCEPT !.stage = "remove"]
  <2>1. loop[ch] \in OfTombstone
    BY <1>1, <1>5, MessageInHand DEF HandleTombstone
  <2>2. st \in OfTombstone /\ st.msg = loop[ch].msg /\ st.snap = loop[ch].snap
    BY <2>1 DEF OfTombstone
  <2>3. loop[ch].msg \in minted /\ Caused(minted, ClockOf(loop[ch].snap))
    BY <1>1, <2>1 DEF LoopInv, OfTombstone
  <2>4. /\ SetLoop(ch, Idle) \/ SetLoop(ch, st)
        /\ UNCHANGED <<task, store, queue, pending, minted>>
    BY <1>5 DEF HandleTombstone
  <2> HIDE DEF st
  <2>5. st \in LoopState /\ LoopInv(minted, st)
    BY <2>2, <2>3 DEF LoopState, LoopInv
  <2>6. QED
    BY <2>4, <2>5, IdleInv, LoopMoves
<1>6. CASE RemoveFile(ch)
  <2> DEFINE st == [loop[ch] EXCEPT !.stage = "mark"]
  <2>1. loop[ch] \in OfTombstone
    BY <1>1, <1>6, LoopAtStage DEF RemoveFile
  <2>2. st \in OfTombstone /\ st.msg = loop[ch].msg /\ st.snap = loop[ch].snap
    BY <2>1 DEF OfTombstone
  <2>3. loop[ch].msg \in minted /\ Caused(minted, ClockOf(loop[ch].snap))
    BY <1>1, <2>1 DEF LoopInv, OfTombstone
  <2>4. SetLoop(ch, st) /\ UNCHANGED <<task, store, queue, pending, minted>>
    BY <1>6 DEF RemoveFile
  <2> HIDE DEF st
  <2>5. st \in LoopState /\ LoopInv(minted, st)
    BY <2>2, <2>3 DEF LoopState, LoopInv
  <2>6. QED
    BY <2>4, <2>5, LoopMoves
<1>7. QED
  BY <1>2, <1>3, <1>4, <1>5, <1>6

LEMMA HistoryRegisterLeech ==
  ASSUME IInv, NEW ch \in Channel, RegisterLeech(ch)
  PROVE  HistoryInv'
<1> DEFINE n == To(ch)
           cb == [snap |-> loop[ch].snap, msg |-> loop[ch].msg]
<1>1. n \in Node
  BY DEF Channel, To
<1>2. cb.msg \in minted /\ Caused(minted, ClockOf(cb.snap))
  BY DEF IInv, HistoryInv, PlacesInv, LoopInv, RegisterLeech
<1>3. pending' = [pending EXCEPT ![n] = pending[n] (+) SetToBag({cb})]
  BY DEF RegisterLeech
<1>4. \A i \in Node : PendingInv(minted, pending'[i])
  <2> HIDE DEF n, cb
  <2>1. IsABag(pending[n]) /\ DOMAIN pending = Node
    BY <1>1 DEF IInv, TypeOK
  <2>2. BagToSet(pending[n] (+) SetToBag({cb})) = BagToSet(pending[n]) \cup {cb}
    BY <2>1, RegisterInBag
  <2>3. \A i \in Node : PendingInv(minted, pending[i])
    BY DEF IInv, HistoryInv, PlacesInv
  <2>4. QED
    BY <1>1, <1>2, <1>3, <2>1, <2>2, <2>3 DEF PendingInv
<1>5. \A c \in Channel : LoopInv(minted, loop'[c])
  <2>1. \A c \in Channel : loop'[c] = loop[c] \/ loop'[c] = Idle
    BY DEF RegisterLeech, SetLoop, IInv, TypeOK
  <2>2. \A c \in Channel : LoopInv(minted, loop[c])
    BY DEF IInv, HistoryInv, PlacesInv
  <2>3. QED
    BY <2>1, <2>2, IdleInv
<1>6. UNCHANGED <<store, task, queue, minted>>
  BY DEF RegisterLeech
<1> HIDE DEF n, cb
<1>7. QED
  BY <1>4, <1>5, <1>6 DEF IInv, HistoryInv, PlacesInv, VersionsInv, StoreInv,
     QueueInv, LoopInv, PendingInv, TaskInv

\* A completion stores an announced version under a clock that is at least
\* the announced one and whose components are all from one of the two.
LEMMA HistoryComplete ==
  ASSUME IInv, NEW n \in Node, NEW cb, Complete(n, cb)
  PROVE  HistoryInv'
<1> DEFINE r == Version(cb.msg.hash, cb.msg.info, MergedClock(cb))
<1>1. cb \in Closure /\ cb.msg \in minted /\ Caused(minted, ClockOf(cb.snap))
  BY DEF IInv, TypeOK, HistoryInv, PlacesInv, PendingInv, Complete
<1>2. Caused(minted, cb.msg.vc)
  BY <1>1 DEF IInv, HistoryInv, VersionsInv
<1>3. cb.msg \in Announce /\ cb.msg.vc \in Clock /\ ClockOf(cb.snap) \in Clock
  BY <1>1, ClockOfType DEF Closure, Announce
<1>4. /\ MergedClock(cb) \in Clock
      /\ Caused(minted, MergedClock(cb))
      /\ Leq(cb.msg.vc, MergedClock(cb))
  BY <1>1, <1>2, <1>3, MergeType, MergeCaused, MergeIsLeastUpperBound DEF MergedClock
<1>5. StoreInv(minted, r)
  BY <1>1, <1>3, <1>4, VersionInv
<1>6. store' = [store EXCEPT ![n] = r]
  BY DEF Complete
<1> HIDE DEF r
<1>7. \A i \in Node : StoreInv(minted, store'[i])
  BY <1>5, <1>6 DEF IInv, TypeOK, HistoryInv, PlacesInv
<1>8. \A i \in Node : PendingInv(minted, pending'[i])
  <2>1. IsABag(pending[n]) /\ DOMAIN pending = Node
    BY DEF IInv, TypeOK
  <2>2. BagToSet(pending[n] (-) SetToBag({cb})) \subseteq BagToSet(pending[n])
    BY <2>1, TakeFromBag
  <2>3. \A i \in Node : PendingInv(minted, pending[i])
    BY DEF IInv, HistoryInv, PlacesInv
  <2>4. pending' = [pending EXCEPT ![n] = pending[n] (-) SetToBag({cb})]
    BY DEF Complete
  <2>5. QED
    BY <2>1, <2>2, <2>3, <2>4 DEF PendingInv
<1>9. UNCHANGED <<task, queue, loop, minted>>
  BY DEF Complete
<1>10. QED
  BY <1>7, <1>8, <1>9 DEF IInv, HistoryInv, PlacesInv, VersionsInv, StoreInv,
     QueueInv, LoopInv, PendingInv, TaskInv

LEMMA HistoryMarkTombstone ==
  ASSUME IInv, NEW ch \in Channel, MarkTombstone(ch)
  PROVE  HistoryInv'
<1> DEFINE n == To(ch)
<1>1. n \in Node
  BY DEF Channel, To
<1>2. StoreInv(minted, MarkDeleted(store[n]))
  BY <1>1, MarkDeletedInv DEF IInv, TypeOK, HistoryInv, PlacesInv
<1>3. \A i \in Node : StoreInv(minted, store'[i])
  BY <1>2 DEF MarkTombstone, IInv, TypeOK, HistoryInv, PlacesInv
<1>4. \A c \in Channel : LoopInv(minted, loop'[c])
  <2>1. \A c \in Channel : loop'[c] = loop[c] \/ loop'[c] = Idle
    BY DEF MarkTombstone, SetLoop, IInv, TypeOK
  <2>2. \A c \in Channel : LoopInv(minted, loop[c])
    BY DEF IInv, HistoryInv, PlacesInv
  <2>3. QED
    BY <2>1, <2>2, IdleInv
<1>5. UNCHANGED <<task, queue, pending, minted>>
  BY DEF MarkTombstone
<1>6. QED
  BY <1>3, <1>4, <1>5 DEF IInv, HistoryInv, PlacesInv, VersionsInv, StoreInv,
     QueueInv, LoopInv, PendingInv, TaskInv

\* The rest make nothing: users, pauses, and what is lost with a connection
\* or a process.
LEMMA HistoryEnvironment ==
  ASSUME IInv, NEW n \in Node, UserStep(n) \/ Pause(n)
  PROVE  HistoryInv'
<1>1. UNCHANGED <<task, store, queue, loop, pending, minted>>
  BY DEF UserStep, WriteFile, DeleteFile, Pause
<1>2. QED
  BY <1>1 DEF IInv, HistoryInv, PlacesInv, VersionsInv, StoreInv, QueueInv,
     LoopInv, PendingInv, TaskInv

LEMMA HistoryDisconnect ==
  ASSUME IInv, NEW ch \in Channel, Disconnect(ch)
  PROVE  HistoryInv'
<1>1. QueueInv(minted, <<>>)
  BY DEF QueueInv
<1>2. \A c \in Channel : QueueInv(minted, queue'[c])
  BY <1>1 DEF Disconnect, IInv, TypeOK, HistoryInv, PlacesInv
<1>3. UNCHANGED <<task, store, loop, pending, minted>>
  BY DEF Disconnect
<1>4. QED
  BY <1>2, <1>3 DEF IInv, HistoryInv, PlacesInv, VersionsInv, StoreInv,
     QueueInv, LoopInv, PendingInv, TaskInv

LEMMA HistoryCrash ==
  ASSUME IInv, NEW n \in Node, Crash(n)
  PROVE  HistoryInv'
<1>1. QueueInv(minted, <<>>) /\ PendingInv(minted, EmptyBag)
  BY EmptyIsABag DEF QueueInv, PendingInv
<1>2. /\ \A ch \in Channel : QueueInv(minted, queue'[ch])
      /\ \A ch \in Channel : LoopInv(minted, loop'[ch])
  BY <1>1, IdleInv DEF Crash, IInv, HistoryInv, PlacesInv
<1>3. \A i \in Node, j \in Slot : TaskInv(minted, task'[i][j])
  BY IdleInv DEF Crash, IInv, TypeOK, HistoryInv, PlacesInv
<1>4. \A i \in Node : PendingInv(minted, pending'[i])
  BY <1>1 DEF Crash, IInv, TypeOK, HistoryInv, PlacesInv
<1>5. UNCHANGED <<store, minted>>
  BY DEF Crash
<1>6. QED
  BY <1>2, <1>3, <1>4, <1>5 DEF IInv, HistoryInv, PlacesInv, VersionsInv,
     StoreInv, QueueInv, LoopInv, PendingInv, TaskInv

-----------------------------------------------------------------------------
LEMMA InitIInv == Init => IInv
<1> SUFFICES ASSUME Init
             PROVE  HistoryInv
  BY InitTypeOK DEF IInv
<1>1. VersionsInv(minted)
  BY DEF Init, VersionsInv
<1>2. \A n \in Node : StoreInv(minted, store[n])
  BY ZeroCaused DEF Init, StoreInv, Live
<1>3. \A n \in Node, s \in Slot : TaskInv(minted, task[n][s])
  BY IdleInv DEF Init
<1>4. \A ch \in Channel : QueueInv(minted, queue[ch]) /\ LoopInv(minted, loop[ch])
  BY IdleInv DEF Init, QueueInv
<1>5. \A n \in Node : PendingInv(minted, pending[n])
  BY EmptyIsABag DEF Init, PendingInv
<1>6. QED
  BY <1>1, <1>2, <1>3, <1>4, <1>5 DEF HistoryInv, PlacesInv

LEMMA NextIInv == IInv /\ [Next]_vars => IInv'
<1> SUFFICES ASSUME IInv, [Next]_vars
             PROVE  HistoryInv'
  BY NextTypeOK DEF IInv
<1>1. ASSUME NEW n \in Node, UserStep(n) \/ Pause(n) \/ Crash(n)
      PROVE  HistoryInv'
  BY <1>1, HistoryEnvironment, HistoryCrash
<1>2. ASSUME NEW n \in Node, CompleteStep(n)
      PROVE  HistoryInv'
  BY <1>2, HistoryComplete DEF CompleteStep
<1>3. ASSUME NEW n \in Node, NEW s \in Slot, TaskStep(n, s)
      PROVE  HistoryInv'
  BY <1>3, HistoryHandleFileEvent, HistoryReadFile, HistoryLookUp,
     HistoryPutChanged, HistoryPutDeleted, HistorySendTo DEF TaskStep
<1>4. ASSUME NEW ch \in Channel, LoopStep(ch) \/ Disconnect(ch)
      PROVE  HistoryInv'
  BY <1>4, HistoryReceive, HistoryHandle, HistoryRegisterLeech,
     HistoryMarkTombstone, HistoryDisconnect DEF LoopStep
<1>5. CASE UNCHANGED vars
  BY <1>5 DEF vars, IInv, HistoryInv, PlacesInv, VersionsInv, StoreInv,
     QueueInv, LoopInv, PendingInv, TaskInv
<1>6. QED
  BY <1>1, <1>2, <1>3, <1>4, <1>5 DEF Next

LEMMA Inductive == Spec => []IInv
BY InitIInv, NextIInv, PTL DEF Spec

\* No clock of a record, on any node, counts a change that was never made.
THEOREM CausesExistHolds == Spec => []CausesExist
<1>1. IInv => CausesExist
  BY DEF IInv, HistoryInv, PlacesInv, StoreInv, CausesExist
<1>2. QED
  BY Inductive, <1>1, PTL

\* The content of every live record was announced, hash and infohash from one
\* version, and the record's clock includes that version.
THEOREM ContentUnderItsClockHolds == Spec => []ContentUnderItsClock
<1>1. IInv => ContentUnderItsClock
  BY DEF IInv, HistoryInv, PlacesInv, StoreInv, ContentUnderItsClock
<1>2. QED
  BY Inductive, <1>1, PTL

-----------------------------------------------------------------------------
(* A paused node at rest: every step leaves alone what it has.             *)

Frozen(n) == /\ \A s \in Slot : task'[n][s] = task[n][s]
             /\ \A ch \in Channel : To(ch) = n => loop'[ch] = loop[ch]
             /\ pending'[n] = pending[n]
             /\ store'[n] = store[n]

LEMMA FrozenByTask ==
  ASSUME TypeOK, NEW n \in Node, paused[n], AtRest(n),
         NEW m \in Node, NEW s \in Slot, TaskStep(m, s)
  PROVE  Frozen(n)
<1>1. loop' = loop /\ pending' = pending
  BY DEF TaskStep, HandleFileEvent, HashFile, LookUpChanged, CreateAndSeed,
     HandlerFails, PutChanged, LookUpDeleted, PutDeleted, SendTo, LocalOnly
<1>2. CASE m = n
  <2>1. task[n][s] = Idle /\ Idle.stage = "idle"
    BY DEF AtRest, Idle
  <2>2. HandleFileEvent(n, s)
    BY <1>2, <2>1 DEF TaskStep, HashFile, LookUpChanged, CreateAndSeed,
       HandlerFails, PutChanged, LookUpDeleted, PutDeleted, SendTo
  <2>3. task' = task /\ store' = store
    BY <2>2 DEF HandleFileEvent
  <2>4. QED
    BY <1>1, <2>3 DEF Frozen
<1>3. CASE m # n
  <2>1. store'[n] = store[n]
    BY <1>3 DEF TypeOK, TaskStep, HandleFileEvent, HashFile, LookUpChanged,
       CreateAndSeed, HandlerFails, PutChanged, LookUpDeleted, PutDeleted, SendTo
  <2>2. task'[n] = task[n]
    BY <1>3 DEF TypeOK, TaskStep, SetTask, Broadcast, HandleFileEvent, HashFile,
       LookUpChanged, CreateAndSeed, HandlerFails, PutChanged, LookUpDeleted,
       PutDeleted, SendTo
  <2>3. QED
    BY <1>1, <2>1, <2>2 DEF Frozen
<1>4. QED
  BY <1>2, <1>3

LEMMA FrozenByLoop ==
  ASSUME TypeOK, NEW n \in Node, paused[n], AtRest(n),
         NEW c \in Channel, LoopStep(c)
  PROVE  Frozen(n)
<1>1. task' = task
  BY DEF LoopStep, Receive, HandleAnnounce, ForkFile, RegisterLeech, LeechFails,
     HandleTombstone, RemoveFile, MarkTombstone
<1>2. To(c) \in Node
  BY DEF Channel, To
<1>3. CASE To(c) = n
  <2>1. loop[c] = Idle /\ Idle.stage = "idle"
    BY <1>3 DEF AtRest, Idle
  <2>2. Receive(c)
    BY <2>1 DEF LoopStep, HandleAnnounce, ForkFile, RegisterLeech, LeechFails,
       HandleTombstone, RemoveFile, MarkTombstone
  <2>3. loop' = loop /\ pending' = pending /\ store' = store
    BY <1>3, <2>2 DEF Receive
  <2>4. QED
    BY <1>1, <2>3 DEF Frozen
<1>4. CASE To(c) # n
  <2>1. store'[n] = store[n] /\ pending'[n] = pending[n]
    BY <1>2, <1>4 DEF TypeOK, LoopStep, Receive, HandleAnnounce, ForkFile,
       RegisterLeech, LeechFails, HandleTombstone, RemoveFile, MarkTombstone
  <2>2. \A ch \in Channel : To(ch) = n => loop'[ch] = loop[ch]
    BY <1>4 DEF TypeOK, SetLoop, LoopStep, Receive, HandleAnnounce, ForkFile,
       RegisterLeech, LeechFails, HandleTombstone, RemoveFile, MarkTombstone
  <2>3. QED
    BY <1>1, <2>1, <2>2 DEF Frozen
<1>5. QED
  BY <1>3, <1>4

LEMMA FrozenByNode ==
  ASSUME TypeOK, NEW n \in Node, paused'[n], AtRest(n), NEW m \in Node,
         UserStep(m) \/ CompleteStep(m) \/ Pause(m) \/ Crash(m)
  PROVE  Frozen(n)
<1>1. CASE UserStep(m) \/ Pause(m)
  BY <1>1 DEF UserStep, WriteFile, DeleteFile, Pause, Frozen
<1>2. CASE CompleteStep(m)
  <2>1. m # n
    BY <1>2, EmptyIsABag DEF CompleteStep, AtRest
  <2>2. task' = task /\ loop' = loop
    BY <1>2 DEF CompleteStep, Complete
  <2>3. pending'[n] = pending[n] /\ store'[n] = store[n]
    BY <1>2, <2>1 DEF CompleteStep, Complete, TypeOK
  <2>4. QED
    BY <2>2, <2>3 DEF Frozen
<1>3. CASE Crash(m)
  <2>1. m # n
    BY <1>3 DEF Crash, TypeOK
  <2>2. QED
    BY <1>3, <2>1 DEF Crash, TypeOK, Frozen
<1>4. QED
  BY <1>1, <1>2, <1>3

\* A paused node that has come to rest stays at rest with the record it has,
\* until its process dies.
THEOREM PausedStaysAtRestHolds == Spec => PausedStaysAtRest
<1>1. ASSUME TypeOK, [Next]_vars
      PROVE  [\A n \in Node : paused[n] /\ paused'[n] /\ AtRest(n)
                 => AtRest(n)' /\ store'[n] = store[n]]_vars
  <2> SUFFICES ASSUME NEW n \in Node, paused[n], paused'[n], AtRest(n)
               PROVE  AtRest(n)' /\ store'[n] = store[n]
    OBVIOUS
  <2>1. CASE UNCHANGED vars
    BY <2>1 DEF vars, AtRest
  <2>2. CASE Next
    <3>1. ASSUME NEW c \in Channel, Disconnect(c)
          PROVE  Frozen(n)
      BY <3>1 DEF Disconnect, Frozen
    <3>2. Frozen(n)
      BY <1>1, <2>2, <3>1, FrozenByTask, FrozenByLoop, FrozenByNode DEF Next
    <3>3. QED
      BY <3>2 DEF Frozen, AtRest
  <2>3. QED
    BY <1>1, <2>1, <2>2
<1>2. QED
  BY <1>1, TypeCorrect, PTL DEF Spec, PausedStaysAtRest

-----------------------------------------------------------------------------
(***************************************************************************)
(* One node whose user races its own handlers, no two of which overlap.    *)
(* While an event waits anything may be under way: it will correct the     *)
(* record. Once the last event of the file is in a handler's hands, the    *)
(* handler has what the file has, and is about to make the record that.    *)
(***************************************************************************)
\* A swarm of one node without failures; nothing pauses it.
Alone == /\ \A n, m \in Node : n = m
         /\ Reliable /\ Pausable = {}

Matches(n) == /\ Live(store[n]) <=> disk[n] # NoContent
              /\ Live(store[n]) => store[n].hash = disk[n]

\* A handler whose file has had no further event is about to make the record
\* that of the file.
Current(n, t) ==
  \/ t.stage = "changed" /\ disk[n] # NoContent
  \/ t.stage \in {"hashed", "got", "seeded"} /\ disk[n] # NoContent /\ t.hash = disk[n]
  \/ t.stage \in {"deleted", "marking"} /\ disk[n] = NoContent

LocalInv ==
  \A n \in Node :
    /\ event[n] = "changed" => disk[n] # NoContent
    /\ event[n] = "deleted" => disk[n] = NoContent
    /\ event[n] = "none" =>
         /\ \A s \in Slot : task[n][s] = Idle \/ Current(n, task[n][s])
         /\ (\A s \in Slot : task[n][s] = Idle) => Matches(n)
    /\ \A s \in Slot : task[n][s].stage # "sending"
    /\ ~paused[n] /\ pending[n] = EmptyBag

LEMMA VersionLive ==
  ASSUME NEW hash \in Content, NEW info \in Content, NEW vc \in Clock
  PROVE  /\ Live(Version(hash, info, vc))
         /\ Version(hash, info, vc).hash = hash /\ Version(hash, info, vc).vc = vc
<1>1. Version(hash, info, vc) \in FileRecord
  BY DEF Version, FileRecord, MaybeContent
<1> QED
  BY <1>1, FileStoreAssumption DEF Live, Version

LEMMA MarkDeletedNotLive ==
  ASSUME NEW r \in MaybeRecord
  PROVE  ~Live(MarkDeleted(r)) /\ ClockOf(MarkDeleted(r)) = ClockOf(r)
BY FileStoreAssumption, MarkDeletedType
   DEF Live, MarkDeleted, ClockOf, MaybeRecord, FileRecord

\* A change of the file raises the event that will correct the record.
LEMMA LocalUser ==
  ASSUME Alone, TypeOK, LocalInv, NEW n \in Node, UserStep(n)
  PROVE  LocalInv'
<1>1. ASSUME NEW c \in Content, WriteFile(n, c) PROVE LocalInv'
  BY <1>1, FileStoreAssumption DEF Alone, TypeOK, LocalInv, WriteFile
<1>2. CASE DeleteFile(n)
  BY <1>2 DEF Alone, TypeOK, LocalInv, DeleteFile
<1> QED
  BY <1>1, <1>2 DEF UserStep

LEMMA LocalHandle ==
  ASSUME Alone, TypeOK, LocalInv, OneHandler', NEW n \in Node, NEW s \in Slot,
         HandleFileEvent(n, s)
  PROVE  LocalInv'
<1>1. /\ event'[n] = "none" /\ task'[n][s].stage = event[n] /\ disk' = disk /\ UNCHANGED <<paused, pending>>
  BY DEF HandleFileEvent, SetTask, TypeOK, LocalInv
<1>2. event[n] \in {"changed", "deleted"}
  BY DEF HandleFileEvent, TypeOK
<1>3. \A r \in Slot \ {s} : task'[n][r] = Idle
  BY <1>1, <1>2 DEF OneHandler, Idle
<1> QED
  BY <1>1, <1>2, <1>3 DEF Alone, LocalInv, Current, Idle

\* The callback that takes a step is the only one.
LEMMA OthersIdle ==
  ASSUME TypeOK, OneHandler, NEW n \in Node, NEW s \in Slot, task[n][s] # Idle,
         TaskStep(n, s), NEW r \in Slot \ {s}
  PROVE  task[n][r] = Idle /\ task'[n][r] = Idle
<1>1. task[n][r] = Idle
  BY DEF OneHandler
<1>2. PICK t : task' = [task EXCEPT ![n][s] = t]
  <2>1. CASE HandleFileEvent(n, s)
    BY <2>1 DEF HandleFileEvent
  <2>2. CASE PutChanged(n, s) \/ PutDeleted(n, s)
    BY <2>2 DEF PutChanged, PutDeleted, Broadcast, SetTask
  <2>3. CASE \/ HashFile(n, s) \/ LookUpChanged(n, s) \/ CreateAndSeed(n, s)
             \/ HandlerFails(n, s) \/ LookUpDeleted(n, s)
    BY <2>3 DEF HashFile, LookUpChanged, CreateAndSeed, HandlerFails, LookUpDeleted, SetTask
  <2>4. ASSUME NEW m \in Node, SendTo(n, s, m)
        PROVE  \E t : task' = [task EXCEPT ![n][s] = t]
    BY <2>4 DEF SendTo, SetTask
  <2> QED
    BY <2>1, <2>2, <2>3, <2>4 DEF TaskStep
<1>3. task'[n][r] = task[n][r]
  BY <1>2 DEF TypeOK
<1> QED
  BY <1>1, <1>3

LEMMA LocalHash ==
  ASSUME Alone, TypeOK, LocalInv, OneHandler, NEW n \in Node, NEW s \in Slot,
         HashFile(n, s) \/ CreateAndSeed(n, s) \/ HandlerFails(n, s)
  PROVE  LocalInv'
<1>0. \A r \in Slot \ {s} : task[n][r] = Idle /\ task'[n][r] = Idle
  <2>1. task[n][s] # Idle
    BY DEF HashFile, CreateAndSeed, HandlerFails, Idle
  <2> QED
    BY <2>1, OthersIdle DEF TaskStep
<1>1. task[n][s] \in TaskState /\ disk[n] \in MaybeContent
  BY DEF TypeOK
<1>2. event[n] = "none" => task[n][s] = Idle \/ Current(n, task[n][s])
  BY DEF LocalInv
<1>3. UNCHANGED <<disk, event, paused, store, pending>>
  BY DEF HashFile, CreateAndSeed, HandlerFails, LocalOnly
<1>4. CASE HashFile(n, s)
  <2>1. task'[n][s].stage = "hashed" /\ task'[n][s].hash = disk[n] /\ disk[n] # NoContent
    BY <1>1, <1>4, TaskAtStage DEF HashFile, SetTask, TypeOK, Called
  <2> QED
    BY <1>0, <1>3, <2>1 DEF Alone, LocalInv, Current, Idle
<1>5. CASE CreateAndSeed(n, s)
  <2>1. task'[n][s].stage = "seeded" /\ task'[n][s].hash = task[n][s].hash /\ task[n][s].stage = "got"
    BY <1>1, <1>5, TaskAtStage DEF CreateAndSeed, SetTask, TypeOK, Hashed
  <2> QED
    BY <1>0, <1>2, <1>3, <2>1 DEF Alone, LocalInv, Current, Idle
<1>6. CASE HandlerFails(n, s)
  <2>1. task'[n][s] = Idle /\ task[n][s].stage \in {"changed", "got", "seeded"} /\ disk[n] = NoContent
    BY <1>6 DEF HandlerFails, SetTask, TypeOK, Alone
  <2>2. event[n] # "none"
    BY <1>2, <2>1 DEF Current, Idle
  <2> QED
    BY <1>0, <1>3, <2>1, <2>2 DEF Alone, LocalInv, Idle
<1> QED
  BY <1>4, <1>5, <1>6

LEMMA LocalLookUp ==
  ASSUME Alone, TypeOK, LocalInv, OneHandler, NEW n \in Node, NEW s \in Slot,
         LookUpChanged(n, s) \/ LookUpDeleted(n, s)
  PROVE  LocalInv'
<1>0. \A r \in Slot \ {s} : task[n][r] = Idle /\ task'[n][r] = Idle
  <2>1. task[n][s] # Idle
    BY DEF LookUpChanged, LookUpDeleted, Idle
  <2> QED
    BY <2>1, OthersIdle DEF TaskStep
<1>1. task[n][s] \in TaskState /\ disk[n] \in MaybeContent
  BY DEF TypeOK
<1>2. event[n] = "none" => task[n][s] = Idle \/ Current(n, task[n][s])
  BY DEF LocalInv
<1>3. UNCHANGED <<disk, event, paused, store, pending>>
  BY DEF LookUpChanged, LookUpDeleted, LocalOnly
<1>4. CASE LookUpChanged(n, s)
  <2>1. task[n][s].stage = "hashed"
    BY <1>4 DEF LookUpChanged
  <2>2. CASE Live(store[n]) /\ store[n].hash = task[n][s].hash
    <3>1. task'[n][s] = Idle
      BY <1>4, <2>2 DEF LookUpChanged, SetTask, TypeOK
    <3>2. event[n] = "none" => Matches(n)
      BY <1>2, <2>1, <2>2 DEF Current, Idle, Matches
    <3> QED
      BY <1>0, <1>3, <3>1, <3>2 DEF Alone, LocalInv, Current, Matches, Idle
  <2>3. CASE ~(Live(store[n]) /\ store[n].hash = task[n][s].hash)
    <3>1. task'[n][s].stage = "got" /\ task'[n][s].hash = task[n][s].hash
      <4>1. SetTask(n, s, [task[n][s] EXCEPT !.stage = "got", !.snap = store[n]])
        BY <1>4, <2>3 DEF LookUpChanged
      <4>2. task[n][s] \in Hashed
        BY <1>1, <2>1, TaskAtStage
      <4> QED
        BY <4>1, <4>2 DEF SetTask, TypeOK, Hashed
    <3> QED
      BY <1>0, <1>2, <1>3, <2>1, <3>1 DEF Alone, LocalInv, Current, Idle
  <2> QED
    BY <2>2, <2>3
<1>5. CASE LookUpDeleted(n, s)
  <2>1. task'[n][s].stage = "marking" /\ task[n][s].stage = "deleted"
    BY <1>1, <1>5, TaskAtStage DEF LookUpDeleted, SetTask, TypeOK, Called
  <2> QED
    BY <1>0, <1>2, <1>3, <2>1 DEF Alone, LocalInv, Current, Idle
<1> QED
  BY <1>4, <1>5

\* Nobody is there to be told: the handler is done once it has put the record.
LEMMA LocalPut ==
  ASSUME Alone, TypeOK, LocalInv, OneHandler, NEW n \in Node, NEW s \in Slot,
         PutChanged(n, s) \/ PutDeleted(n, s)
  PROVE  LocalInv'
<1>0. \A r \in Slot \ {s} : task[n][r] = Idle /\ task'[n][r] = Idle
  <2>1. task[n][s] # Idle
    BY DEF PutChanged, PutDeleted, Idle
  <2> QED
    BY <2>1, OthersIdle DEF TaskStep
<1>1. task[n][s] \in TaskState /\ disk[n] \in MaybeContent /\ store[n] \in MaybeRecord
  BY DEF TypeOK
<1>2. event[n] = "none" => task[n][s] = Idle \/ Current(n, task[n][s])
  BY DEF LocalInv
<1>3. UNCHANGED <<disk, event, paused, pending>>
  BY DEF PutChanged, PutDeleted, LocalOnly
<1>4. Audience(n) = {{}}
  BY DEF Alone, Audience
<1>5. task'[n][s] = Idle
  BY <1>4 DEF PutChanged, PutDeleted, Broadcast, SetTask, TypeOK
<1>6. event[n] = "none" => Matches(n)'
  <2>1. CASE PutChanged(n, s)
    <3>1. task[n][s] \in Seeded /\ task[n][s].stage = "seeded"
      BY <1>1, <2>1, TaskAtStage DEF PutChanged
    <3> DEFINE t == task[n][s]
    <3>2. store'[n] = Version(t.hash, t.info, NextClock(n, t.snap))
      BY <2>1 DEF PutChanged, TypeOK
    <3>3. t.hash \in Content /\ t.info \in Content /\ NextClock(n, t.snap) \in Clock
      BY <3>1, NextClockType DEF Seeded
    <3>4. Live(store'[n]) /\ store'[n].hash = t.hash
      BY <3>2, <3>3, VersionLive
    <3> QED
      BY <1>2, <1>3, <3>1, <3>4 DEF Matches, Current, Idle
  <2>2. CASE PutDeleted(n, s)
    <3>1. store'[n] = MarkDeleted(store[n]) /\ task[n][s].stage = "marking"
      BY <2>2 DEF PutDeleted, TypeOK
    <3>2. ~Live(store'[n])
      BY <1>1, <3>1, MarkDeletedNotLive
    <3> QED
      BY <1>2, <1>3, <3>1, <3>2 DEF Matches, Current, Idle
  <2> QED
    BY <2>1, <2>2
<1> QED
  BY <1>0, <1>3, <1>5, <1>6 DEF Alone, LocalInv, Current, Idle

LEMMA LocalStep ==
  ASSUME Alone, TypeOK, LocalInv, OneHandler, OneHandler', [Next]_vars
  PROVE  LocalInv'
<1>1. Channel = {}
  BY DEF Alone, Channel
<1>2. ASSUME NEW n \in Node PROVE ~CompleteStep(n) /\ ~Pause(n) /\ ~Crash(n)
  <2>1. ~Crash(n)
    BY SyncerAssumption DEF Crash, Alone, TypeOK
  <2> QED
    BY <2>1, EmptyIsABag DEF CompleteStep, Pause, Alone, LocalInv
<1>3. ASSUME NEW n \in Node, NEW s \in Slot, TaskStep(n, s) PROVE LocalInv'
  <2>1. ASSUME NEW m \in Node PROVE ~SendTo(n, s, m)
    BY DEF SendTo, LocalInv
  <2> QED
    BY <1>3, <2>1, LocalHandle, LocalHash, LocalLookUp, LocalPut DEF TaskStep
<1>4. CASE UNCHANGED vars
  BY <1>4 DEF vars, LocalInv, Current, Matches
<1> QED
  BY <1>1, <1>2, <1>3, <1>4, LocalUser DEF Next

LEMMA LocalInit == Init => LocalInv
<1> SUFFICES ASSUME Init PROVE LocalInv
  OBVIOUS
<1>1. ~Live(NoRecord)
  BY DEF Live
<1>2. \A n \in Node : Matches(n)
  BY <1>1 DEF Init, Matches
<1> QED
  BY <1>2 DEF Init, LocalInv, Idle

\* As long as a node's timer callbacks do not overlap, the record follows the
\* file, however the user's changes fall between the steps of the handlers.
THEOREM RecordMatchesFileHolds ==
  ASSUME Alone
  PROVE  Spec => RecordMatchesFile
<1> DEFINE Match == Quiescent => \A n \in Node :
              /\ Live(store[n]) <=> disk[n] # NoContent
              /\ Live(store[n]) => store[n].hash = disk[n]
<1>1. TypeOK /\ LocalInv /\ OneHandler /\ OneHandler' /\ [Next]_vars => LocalInv'
  BY LocalStep
<1>2. LocalInv => Match
  BY DEF LocalInv, Quiescent, Matches
<1>3. RecordMatchesFile <=> ([]OneHandler => []Match)
  BY DEF RecordMatchesFile
<1> HIDE DEF Match
<1> QED
  BY <1>1, <1>2, <1>3, LocalInit, TypeCorrect, PTL DEF Spec

-----------------------------------------------------------------------------
(***************************************************************************)
(* Users taking turns. QuiescentConverged and TombstoneReachesDisk speak   *)
(* of rest; TurnInv says of every moment which one change is under way and *)
(* how far it has come: nothing (Rest), a write that its node has not      *)
(* recorded (Writing), a version that spreads (Spreading), or a deletion   *)
(* (Deleting). In each of the last two whoever is still without the change *)
(* is going to get it.                                                     *)
(***************************************************************************)
\* Users take turns, and nothing fails or pauses.
Turns == Reliable /\ TurnTaking /\ Pausable = {}

\* What QuiescentConverged says of the records, and their clocks if deleted.
Agreed ==
  \A n, m \in Node :
    /\ ClockOf(store[n]) = ClockOf(store[m])
    /\ Live(store[n]) => Live(store[m]) /\ store[n].hash = store[m].hash

Clean(n) == ~Live(store[n]) => disk[n] = NoContent

\* Nothing is under way; the nodes agree, and a path that is not live is on no
\* disk.
Rest == Quiescent /\ Agreed /\ \A n \in Node : Clean(n)

\* The handler of a write, before it has put its record.
Changing(n, t) ==
  /\ t.stage \in {"changed", "hashed", "got", "seeded"}
  /\ t.stage \in {"got", "seeded"} => t.snap = store[n]

\* A file was written on a, and no other node has heard of it yet.
Writing(a) ==
  /\ Agreed /\ disk[a] # NoContent
  /\ \A ch \in Channel : queue[ch] = <<>> /\ loop[ch] = Idle
  /\ \A n \in Node : pending[n] = EmptyBag
  /\ \A n \in Node \ {a} : /\ Clean(n) /\ event[n] = "none"
                           /\ \A s \in Slot : task[n][s] = Idle
  /\ \/ event[a] = "changed" /\ \A s \in Slot : task[a][s] = Idle
     \/ /\ event[a] = "none"
        /\ \E s \in Slot : /\ Changing(a, task[a][s])
                           /\ \A t \in Slot \ {s} : task[a][t] = Idle

\* A message for n: the sender has yet to send it, or it is on a connection or
\* in the hands of a read loop.
ToSend(o, n) == \E s \in Slot : task[o][s].stage = "sending" /\ n \in task[o][s].to
Inbound(n)   == \E ch \in Channel : To(ch) = n /\ (queue[ch] # <<>> \/ loop[ch] # Idle)

\* A version that is announced: what is under way is of it alone, and a node has
\* it or has something older and will get it.
Below(r, msg) == Leq(ClockOf(r), msg.vc)
Has(n, msg)   == Live(store[n]) /\ store[n].hash = msg.hash /\ store[n].vc = msg.vc
SpreadTask(n, t, msg) ==
  t = Idle \/ (t.stage = "sending" /\ t.msg = msg /\ n = msg.origin /\ n \notin t.to)
SpreadLoop(l, msg) ==
  l = Idle \/ /\ l.stage \in {"received", "leech"} /\ l.msg = msg
              /\ l.stage = "leech" => Below(l.snap, msg)
Reached(n, msg) ==
  \/ Has(n, msg)
  \/ /\ Below(store[n], msg) /\ ClockOf(store[n]) # msg.vc
     /\ ToSend(msg.origin, n) \/ Inbound(n) \/ BagToSet(pending[n]) # {}
Spreading(msg) ==
  /\ msg.type = "announce"
  /\ \A n \in Node : event[n] = "none"
  /\ \A n \in Node, s \in Slot : SpreadTask(n, task[n][s], msg)
  /\ \A ch \in Channel :
       /\ \A i \in DOMAIN queue[ch] : queue[ch][i] = msg /\ To(ch) # msg.origin
       /\ SpreadLoop(loop[ch], msg)
  /\ \A n \in Node : \A cb \in BagToSet(pending[n]) : cb.msg = msg /\ Below(cb.snap, msg)
  /\ \A n \in Node : Reached(n, msg)

\* A deletion on a, of records with clock B: the nodes that remove their file for
\* it announce it too, but no clock changes.
TombstoneOf(msg, B) == msg.type = "tombstone" /\ msg.vc = Bump(B, msg.origin)
DeleteTask(n, t, B) ==
  \/ t = Idle \/ t.stage = "deleted"
  \/ t.stage = "marking" /\ ClockOf(t.snap) = B
  \/ t.stage = "sending" /\ t.msg.origin = n /\ n \notin t.to /\ TombstoneOf(t.msg, B)
DeleteLoop(n, l, B) ==
  l = Idle \/ /\ l.stage \in {"received", "remove", "mark"} /\ TombstoneOf(l.msg, B)
              /\ l.stage = "mark" => disk[n] = NoContent
Announcing(a) ==
  event[a] = "deleted" \/ \E s \in Slot : task[a][s].stage \in {"deleted", "marking"}
Gone(n) == ~Live(store[n]) /\ disk[n] = NoContent
\* A node has dealt with the deletion, or it is still going to hear of it.
Remaining(a, n) == Gone(n) \/ Announcing(a) \/ ToSend(a, n) \/ Inbound(n)
Deleting(a, B) ==
  /\ disk[a] = NoContent
  /\ \A n \in Node : /\ ClockOf(store[n]) = B /\ pending[n] = EmptyBag
                     /\ event[n] # "changed"
  /\ \A n \in Node, s \in Slot : DeleteTask(n, task[n][s], B)
  /\ \A ch \in Channel :
       /\ \A i \in DOMAIN queue[ch] :
            TombstoneOf(queue[ch][i], B) /\ queue[ch][i].origin # To(ch)
       /\ DeleteLoop(To(ch), loop[ch], B)
  /\ \A n \in Node : Remaining(a, n)

\* Whatever is under way is of the one change that was made last.
TurnPhase ==
  \/ Rest
  \/ \E a \in Node : Writing(a)
  \/ \E a \in Node : Deleting(a, ClockOf(store[a]))
  \/ \E msg \in minted : Spreading(msg)

TurnInv == /\ \A n \in Node : ~paused[n] /\ forks[n] = {}
           /\ TurnPhase

-----------------------------------------------------------------------------
\* A merge with a clock that includes the other one is that clock.
LEMMA MergeAbsorbs ==
  ASSUME NEW c \in Clock, NEW d \in Clock, Leq(c, d)
  PROVE  Merge(c, d) = d
<1>1. ASSUME NEW k \in Node PROVE (IF d[k] > c[k] THEN d[k] ELSE c[k]) = d[k]
  <2>1. c[k] \in Nat /\ d[k] \in Nat /\ c[k] <= d[k]
    BY DEF Leq, Clock
  <2> QED
    BY <2>1
<1> QED
  BY <1>1 DEF Merge, Clock

\* What a queue holds after a message is taken from it or sent on it.
LEMMA TailOfQueue ==
  ASSUME NEW q \in Seq(Message), q # <<>>
  PROVE  /\ \A i \in DOMAIN Tail(q) : \E j \in DOMAIN q : Tail(q)[i] = q[j]
         /\ \E j \in DOMAIN q : Head(q) = q[j]
         /\ Head(q) \in Message
<1>1. 1 \in DOMAIN q /\ Head(q) = q[1]
  OBVIOUS
<1>2. ASSUME NEW i \in DOMAIN Tail(q) PROVE i + 1 \in DOMAIN q /\ Tail(q)[i] = q[i + 1]
  OBVIOUS
<1> QED
  BY <1>1, <1>2

LEMMA SentOnQueue ==
  ASSUME NEW q \in Seq(Message), NEW x \in Message
  PROVE  /\ q \o Handled(x) # <<>>
         /\ \A i \in DOMAIN (q \o Handled(x)) :
              (q \o Handled(x))[i] = x \/ \E j \in DOMAIN q : (q \o Handled(x))[i] = q[j]
<1>1. /\ Handled(x) \in Seq(Message) /\ Len(Handled(x)) = Syncers
      /\ \A i \in 1..Syncers : Handled(x)[i] = x
  BY HandledMessages
<1>2. Syncers \in Nat /\ Syncers >= 1
  BY SyncerAssumption
<1> DEFINE h == Handled(x)
<1> HIDE DEF h
<1>3. /\ q \o h \in Seq(Message) /\ Len(q \o h) = Len(q) + Syncers
      /\ \A i \in 1..Len(q \o h) :
           (q \o h)[i] = IF i <= Len(q) THEN q[i] ELSE h[i - Len(q)]
  BY <1>1 DEF h
<1>4. q \o h # <<>>
  BY <1>2, <1>3
<1>5. ASSUME NEW i \in DOMAIN (q \o h)
      PROVE  (q \o h)[i] = x \/ \E j \in DOMAIN q : (q \o h)[i] = q[j]
  <2>1. i \in 1..(Len(q) + Syncers) /\ Len(q) \in Nat /\ i \in 1..Len(q \o h)
    BY <1>3
  <2>2. CASE i <= Len(q)
    <3>1. i \in DOMAIN q
      BY <2>1, <2>2
    <3> QED
      BY <1>3, <2>1, <2>2, <3>1
  <2>3. CASE ~(i <= Len(q))
    <3>1. i - Len(q) \in 1..Syncers
      BY <1>2, <2>1, <2>3
    <3>2. h[i - Len(q)] = x
      BY <1>1, <3>1 DEF h
    <3> QED
      BY <1>3, <2>1, <2>3, <3>2
  <2> QED
    BY <2>2, <2>3
<1> QED
  BY <1>4, <1>5 DEF h

\* What a step does to one entry of task and of loop.
LEMMA SetTaskEntry ==
  ASSUME TypeOK, NEW n \in Node, NEW s \in Slot, NEW t, SetTask(n, s, t)
  PROVE  /\ task'[n][s] = t
         /\ \A m \in Node, r \in Slot : m # n \/ r # s => task'[m][r] = task[m][r]
BY DEF TypeOK, SetTask

LEMMA SetLoopEntry ==
  ASSUME TypeOK, NEW ch \in Channel, NEW l, SetLoop(ch, l)
  PROVE  /\ loop'[ch] = l
         /\ \A c \in Channel : c # ch => loop'[c] = loop[c]
BY DEF TypeOK, SetLoop

LEMMA ChannelEnds ==
  ASSUME NEW ch \in Channel
  PROVE  To(ch) \in Node
BY DEF Channel, To

\* A phase in which nothing is under way is over.
LEMMA QuiescentIsRest ==
  ASSUME TypeOK, TurnPhase, Quiescent
  PROVE  Rest
<1>a. ASSUME NEW o \in Node, NEW n \in Node
      PROVE  ~Announcing(o) /\ ~ToSend(o, n) /\ ~Inbound(n)
  BY DEF Quiescent, Announcing, ToSend, Inbound, Idle
<1>1. ASSUME NEW a \in Node, Writing(a) PROVE Rest
  BY <1>1 DEF Writing, Quiescent, Changing, Idle
<1>2. ASSUME NEW a \in Node, NEW B, Deleting(a, B) PROVE Rest
  <2>1. \A n \in Node : Gone(n)
    BY <1>2, <1>a DEF Deleting, Remaining
  <2> QED
    BY <1>2, <2>1 DEF Deleting, Gone, Rest, Agreed, Clean
<1>3. ASSUME NEW msg \in minted, Spreading(msg) PROVE Rest
  <2>1. \A n \in Node : Has(n, msg)
    <3>1. msg.origin \in Node
      BY DEF TypeOK, Message, Announce, Tombstone
    <3>2. \A n \in Node : BagToSet(pending[n]) = {}
      BY EmptyIsABag DEF Quiescent
    <3> QED
      BY <1>3, <1>a, <3>1, <3>2 DEF Spreading, Reached
  <2>2. \A n \in Node : ClockOf(store[n]) = msg.vc
    BY <2>1 DEF Has, ClockOf, Live
  <2> QED
    BY <2>1, <2>2 DEF Has, Rest, Agreed, Clean
<1> QED
  BY <1>1, <1>2, <1>3 DEF TurnPhase

\* A user's change starts a phase: it is made at rest.
LEMMA UserStarts ==
  ASSUME Turns, TypeOK, TurnPhase, NEW n \in Node, UserStep(n)
  PROVE  TurnPhase'
<1>1. Rest
  BY QuiescentIsRest DEF UserStep, WriteFile, DeleteFile, MayEdit, Turns
<1>2. UNCHANGED <<task, store, queue, loop, pending>>
  BY DEF UserStep, WriteFile, DeleteFile
<1>3. ASSUME NEW c \in Content, WriteFile(n, c) PROVE Writing(n)'
  <2>1. disk'[n] = c /\ event'[n] = "changed" /\ c # NoContent
    BY <1>3, FileStoreAssumption DEF WriteFile, TypeOK
  <2>2. \A m \in Node \ {n} : disk'[m] = disk[m] /\ event'[m] = event[m]
    BY <1>3 DEF WriteFile, TypeOK
  <2> QED
    BY <1>1, <1>2, <2>1, <2>2 DEF Writing, Rest, Quiescent, Agreed, Clean
<1>4. ASSUME DeleteFile(n) PROVE Deleting(n, ClockOf(store[n]))'
  <2>1. disk'[n] = NoContent /\ event'[n] = "deleted"
    BY <1>4 DEF DeleteFile, TypeOK
  <2>2. \A m \in Node : event'[m] # "changed"
    BY <1>1, <1>4 DEF DeleteFile, TypeOK, Rest, Quiescent
  <2>3. \A m \in Node : ClockOf(store'[m]) = ClockOf(store'[n])
    BY <1>1, <1>2 DEF Rest, Agreed
  <2>4. Announcing(n)'
    BY <2>1 DEF Announcing
  <2>5. /\ \A m \in Node : pending'[m] = EmptyBag
        /\ \A m \in Node, s \in Slot : task'[m][s] = Idle
        /\ \A ch \in Channel : queue'[ch] = <<>> /\ loop'[ch] = Idle
    BY <1>1, <1>2 DEF Rest, Quiescent
  <2> QED
    BY <2>1, <2>2, <2>3, <2>4, <2>5 DEF Deleting, DeleteTask, DeleteLoop, Remaining
<1> QED
  BY <1>3, <1>4 DEF UserStep, TurnPhase

\* With nothing under way only users can do anything.
LEMMA RestWaits ==
  ASSUME Turns, Rest
  PROVE  /\ \A n \in Node : ~CompleteStep(n) /\ \A s \in Slot : ~TaskStep(n, s)
         /\ \A ch \in Channel : ~LoopStep(ch)
<1>1. Idle.stage = "idle"
  BY DEF Idle
<1>2. ASSUME NEW n \in Node PROVE ~CompleteStep(n)
  BY EmptyIsABag DEF CompleteStep, Rest, Quiescent
<1>3. ASSUME NEW n \in Node, NEW s \in Slot PROVE ~TaskStep(n, s)
  BY <1>1 DEF TaskStep, Rest, Quiescent, HandleFileEvent, HashFile, LookUpChanged,
     CreateAndSeed, HandlerFails, PutChanged, LookUpDeleted, PutDeleted, SendTo
<1>4. ASSUME NEW ch \in Channel PROVE ~LoopStep(ch)
  BY <1>1 DEF LoopStep, Rest, Quiescent, Receive, HandleAnnounce, ForkFile,
     RegisterLeech, LeechFails, HandleTombstone, RemoveFile, MarkTombstone
<1> QED
  BY <1>2, <1>3, <1>4

-----------------------------------------------------------------------------
\* In a writing phase only the writer's one handler goes on.
LEMMA WritingWaits ==
  ASSUME Turns, NEW a \in Node, Writing(a)
  PROVE  /\ \A n \in Node : ~CompleteStep(n)
         /\ \A n \in Node \ {a}, s \in Slot : ~TaskStep(n, s)
         /\ \A ch \in Channel : ~LoopStep(ch)
<1>1. Idle.stage = "idle"
  BY DEF Idle
<1>2. ASSUME NEW n \in Node PROVE ~CompleteStep(n)
  BY EmptyIsABag DEF CompleteStep, Writing
<1>3. ASSUME NEW n \in Node \ {a}, NEW s \in Slot PROVE ~TaskStep(n, s)
  BY <1>1 DEF TaskStep, Writing, HandleFileEvent, HashFile, LookUpChanged,
     CreateAndSeed, HandlerFails, PutChanged, LookUpDeleted, PutDeleted, SendTo
<1>4. ASSUME NEW ch \in Channel PROVE ~LoopStep(ch)
  BY <1>1 DEF LoopStep, Writing, Receive, HandleAnnounce, ForkFile,
     RegisterLeech, LeechFails, HandleTombstone, RemoveFile, MarkTombstone
<1> QED
  BY <1>2, <1>3, <1>4

\* The handler's steps up to PutFile.
LEMMA WritingGoesOn ==
  ASSUME Turns, TypeOK, NEW a \in Node, Writing(a), ~paused[a], NEW s \in Slot,
         \/ HandleFileEvent(a, s) \/ HashFile(a, s) \/ LookUpChanged(a, s)
         \/ CreateAndSeed(a, s) \/ HandlerFails(a, s) \/ LookUpDeleted(a, s)
  PROVE  Writing(a)' \/ Rest'
<1>a. Idle.stage = "idle" /\ task[a][s] \in TaskState
  BY DEF Idle, TypeOK
<1>1. UNCHANGED <<disk, store, queue, loop, pending>>
  BY DEF HandleFileEvent, HashFile, LookUpChanged, CreateAndSeed, HandlerFails,
     LookUpDeleted, LocalOnly
<1>2. ASSUME NEW t, SetTask(a, s, t), event'[a] = "none",
             \A n \in Node \ {a} : event'[n] = event[n],
             \A r \in Slot \ {s} : task[a][r] = Idle,
             Changing(a, t) \/ (t = Idle /\ Live(store[a]))
      PROVE  Writing(a)' \/ Rest'
  <2>1. /\ task'[a][s] = t
        /\ \A m \in Node, r \in Slot : m # a \/ r # s => task'[m][r] = Idle
    BY <1>2, SetTaskEntry DEF Writing
  <2>2. CASE Changing(a, t)
    <3>1. Changing(a, task[a][s])'
      BY <1>1, <2>1, <2>2 DEF Changing
    <3> QED
      BY <1>1, <1>2, <2>1, <3>1 DEF Writing, Agreed, Clean
  <2>3. CASE t = Idle /\ Live(store[a])
    BY <1>1, <1>2, <2>1, <2>3 DEF Writing, Rest, Quiescent, Agreed, Clean
  <2> QED
    BY <1>2, <2>2, <2>3
<1>3. CASE HandleFileEvent(a, s)
  <2> DEFINE t == [stage |-> event[a], hash |-> NoContent, info |-> NoContent,
                   snap |-> NoRecord]
  <2>1. event[a] = "changed" /\ \A r \in Slot : task[a][r] = Idle
    BY <1>3 DEF HandleFileEvent, Writing
  <2>2. SetTask(a, s, t)
    BY <1>3 DEF HandleFileEvent
  <2>3. Changing(a, t)
    BY <2>1 DEF Changing
  <2>4. event'[a] = "none" /\ \A n \in Node \ {a} : event'[n] = event[n]
    BY <1>3 DEF HandleFileEvent, TypeOK
  <2> HIDE DEF t
  <2> QED
    BY <1>2, <2>1, <2>2, <2>3, <2>4
<1>4. CASE ~HandleFileEvent(a, s)
  <2>1. /\ event[a] = "none" /\ event' = event
        /\ Changing(a, task[a][s]) /\ \A r \in Slot \ {s} : task[a][r] = Idle
    BY <1>4, <1>a DEF Writing, HashFile, LookUpChanged, CreateAndSeed, HandlerFails,
       LookUpDeleted, LocalOnly
  <2>2. CASE HashFile(a, s)
    <3> DEFINE t == [task[a][s] EXCEPT !.stage = "hashed", !.hash = disk[a]]
    <3>1. task[a][s] \in Called
      BY <1>a, <2>2, TaskAtStage DEF HashFile
    <3>2. Changing(a, t)
      BY <3>1 DEF Called, Changing
    <3>3. SetTask(a, s, t)
      BY <2>2 DEF HashFile
    <3> HIDE DEF t
    <3> QED
      BY <1>2, <2>1, <3>2, <3>3
  <2>3. CASE LookUpChanged(a, s)
    <3> DEFINE t == [task[a][s] EXCEPT !.stage = "got", !.snap = store[a]]
    <3>1. task[a][s] \in Hashed
      BY <1>a, <2>3, TaskAtStage DEF LookUpChanged
    <3>2. Changing(a, t)
      BY <3>1 DEF Hashed, Changing
    <3>3. SetTask(a, s, t) \/ (SetTask(a, s, Idle) /\ Live(store[a]))
      BY <2>3 DEF LookUpChanged
    <3> HIDE DEF t
    <3> QED
      BY <1>2, <2>1, <3>2, <3>3
  <2>4. CASE CreateAndSeed(a, s)
    <3> DEFINE t == [task[a][s] EXCEPT !.stage = "seeded", !.info = disk[a]]
    <3>1. task[a][s] \in Hashed /\ task[a][s].stage = "got"
      BY <1>a, <2>4, TaskAtStage DEF CreateAndSeed
    <3>2. Changing(a, t)
      BY <2>1, <3>1 DEF Hashed, Changing
    <3>3. SetTask(a, s, t)
      BY <2>4 DEF CreateAndSeed
    <3> HIDE DEF t
    <3> QED
      BY <1>2, <2>1, <3>2, <3>3
  <2>5. CASE HandlerFails(a, s)
    BY <2>5 DEF HandlerFails, Writing, Turns
  <2>6. CASE LookUpDeleted(a, s)
    BY <2>1, <2>6 DEF LookUpDeleted, Changing
  <2> QED
    BY <1>4, <2>2, <2>3, <2>4, <2>5, <2>6
<1> QED
  BY <1>3, <1>4

\* Everybody else is an addressee of a reliable broadcast.
LEMMA BroadcastReaches ==
  ASSUME Turns, TypeOK, NEW n \in Node, NEW s \in Slot, NEW msg,
         Broadcast(n, s, msg)
  PROVE  /\ \/ task'[n][s] = Idle
            \/ /\ task'[n][s].stage = "sending" /\ task'[n][s].msg = msg
               /\ n \notin task'[n][s].to
         /\ \A m \in Node \ {n} : ToSend(n, m)'
         /\ \A m \in Node, r \in Slot : m # n \/ r # s => task'[m][r] = task[m][r]
<1> DEFINE to == Node \ {n}
           t  == IF to = {} THEN Idle
                 ELSE [stage |-> "sending", msg |-> msg, to |-> to]
<1>1. SetTask(n, s, t)
  BY DEF Broadcast, Audience, Turns
<1>2. /\ task'[n][s] = t
      /\ \A m \in Node, r \in Slot : m # n \/ r # s => task'[m][r] = task[m][r]
  BY <1>1, SetTaskEntry
<1> QED
  BY <1>2 DEF ToSend

LEMMA WritingEnds ==
  ASSUME Turns, TypeOK, NEW a \in Node, Writing(a), NEW s \in Slot, PutChanged(a, s)
  PROVE  TurnPhase'
<1>1. PICK msg \in Announce :
        msg = [type |-> "announce", origin |-> a,
               vc |-> NextClock(a, task[a][s].snap),
               hash |-> task[a][s].hash, info |-> task[a][s].info]
  BY PutChangedMessage DEF PutChanged
<1> DEFINE B == ClockOf(store[a])
<1>2. B \in Clock /\ msg.vc = Bump(B, a)
  <2>1. event[a] = "none" /\ Changing(a, task[a][s]) /\ task[a][s].snap = store[a]
    BY DEF PutChanged, Writing, Changing, Idle
  <2> QED
    BY <1>1, <2>1, ClockOfType DEF TypeOK, NextClock
<1>3. Leq(B, msg.vc) /\ B # msg.vc /\ msg.vc \in Clock
  BY <1>2, BumpIsNewer, BumpType, CompareDecidesOrder
<1>4. /\ store' = [store EXCEPT ![a] = Version(msg.hash, msg.info, msg.vc)]
      /\ minted' = minted \cup {msg} /\ Broadcast(a, s, msg)
      /\ UNCHANGED <<disk, event, queue, loop, pending>>
  BY <1>1 DEF PutChanged, LocalOnly
<1>5. Has(a, msg)'
  <2>1. store'[a] = Version(msg.hash, msg.info, msg.vc)
    BY <1>4 DEF TypeOK
  <2>2. msg.hash \in Content /\ msg.info \in Content
    BY <1>1 DEF Announce
  <2> QED
    BY <1>3, <2>1, <2>2, VersionLive DEF Has
<1>6. ASSUME NEW n \in Node \ {a} PROVE Reached(n, msg)'
  <2>1. store'[n] = store[n] /\ ClockOf(store[n]) = B
    BY <1>4 DEF Writing, Agreed, TypeOK
  <2>2. ToSend(a, n)' /\ msg.origin = a
    BY <1>1, <1>4, BroadcastReaches
  <2> QED
    BY <1>3, <2>1, <2>2 DEF Reached, Below
<1>7. ASSUME NEW n \in Node, NEW r \in Slot PROVE SpreadTask(n, task[n][r], msg)'
  <2>1. msg.origin = a
    BY <1>1
  <2>2. n # a \/ r # s => task'[n][r] = Idle
    BY <1>4, BroadcastReaches DEF Writing, PutChanged, Changing, Idle
  <2>3. n = a /\ r = s => SpreadTask(a, task'[a][s], msg)
    BY <1>4, <2>1, BroadcastReaches DEF SpreadTask
  <2> QED
    BY <2>2, <2>3 DEF SpreadTask
<1>8. /\ \A ch \in Channel : queue'[ch] = <<>> /\ loop'[ch] = Idle
      /\ \A n \in Node : event'[n] = "none" /\ BagToSet(pending'[n]) = {}
  BY <1>4, EmptyIsABag DEF Writing, PutChanged, Idle
<1>9. Spreading(msg)'
  <2>1. \A n \in Node : Reached(n, msg)'
    BY <1>5, <1>6 DEF Reached
  <2>2. msg.type = "announce"
    BY <1>1
  <2>3. \A ch \in Channel : DOMAIN queue'[ch] = {}
    BY <1>8
  <2> QED
    BY <1>7, <1>8, <2>1, <2>2, <2>3 DEF Spreading, SpreadLoop
<1> QED
  BY <1>4, <1>9 DEF TurnPhase

LEMMA WritingStep ==
  ASSUME Turns, TypeOK, NEW a \in Node, Writing(a), ~paused[a],
         NEW n \in Node, NEW s \in Slot, TaskStep(n, s)
  PROVE  TurnPhase'
<1>1. n = a
  BY WritingWaits
<1>2. task[a][s].stage \notin {"marking", "sending"}
  BY DEF Writing, Changing, Idle
<1>3. ~PutDeleted(a, s) /\ \A m \in Node : ~SendTo(a, s, m)
  BY <1>2 DEF PutDeleted, SendTo
<1>4. PutChanged(a, s) \/ Writing(a)' \/ Rest'
  BY <1>1, <1>3, WritingGoesOn DEF TaskStep
<1> QED
  BY <1>4, WritingEnds DEF TurnPhase

-----------------------------------------------------------------------------
\* One version spreads.
LEMMA SpreadingSend ==
  ASSUME Turns, TypeOK, NEW msg \in Message, Spreading(msg),
         NEW n \in Node, NEW s \in Slot, NEW m \in Node, SendTo(n, s, m)
  PROVE  Spreading(msg)'
<1> DEFINE t == task[n][s]
<1>1. /\ t \in Sending /\ t.msg = msg /\ n = msg.origin /\ n \notin t.to /\ m \in t.to
      /\ m # n
  BY TaskAtStage DEF SendTo, Spreading, SpreadTask, TypeOK, Idle
<1>2. PICK l \in Lane : queue' = [queue EXCEPT ![<<n, m, l>>] = @ \o Handled(msg)]
  BY <1>1 DEF SendTo
<1>3. /\ UNCHANGED <<event, store, loop, pending>>
      /\ SetTask(n, s, IF t.to = {m} THEN Idle ELSE [t EXCEPT !.to = @ \ {m}])
  BY DEF SendTo
<1> DEFINE c == <<n, m, l>>
<1>4. /\ c \in Channel /\ To(c) = m
      /\ queue'[c] = queue[c] \o Handled(msg)
      /\ \A ch \in Channel : ch # c => queue'[ch] = queue[ch]
  BY <1>1, <1>2 DEF TypeOK, Channel, To
<1>5. /\ queue'[c] # <<>>
      /\ \A i \in DOMAIN queue'[c] : queue'[c][i] = msg
  <2>1. queue[c] \in Seq(Message)
    BY <1>4 DEF TypeOK
  <2>2. \A i \in DOMAIN queue[c] : queue[c][i] = msg
    BY <1>4 DEF Spreading
  <2> HIDE DEF c
  <2> QED
    BY <1>4, <2>1, <2>2, SentOnQueue
<1> HIDE DEF c
<1>6. ASSUME NEW ch \in Channel
      PROVE  /\ \A i \in DOMAIN queue'[ch] : queue'[ch][i] = msg /\ To(ch) # msg.origin
             /\ queue[ch] # <<>> => queue'[ch] # <<>>
  <2>1. CASE ch = c
    BY <1>1, <1>4, <1>5, <2>1
  <2>2. CASE ch # c
    <3>1. queue'[ch] = queue[ch]
      BY <1>4, <2>2
    <3> QED
      BY <3>1 DEF Spreading
  <2> QED
    BY <2>1, <2>2
<1>7. /\ task'[n][s] = IF t.to = {m} THEN Idle ELSE [t EXCEPT !.to = @ \ {m}]
      /\ \A i \in Node, j \in Slot : i # n \/ j # s => task'[i][j] = task[i][j]
  BY <1>3, SetTaskEntry
<1>8. \/ task'[n][s] = Idle /\ t.to = {m}
      \/ /\ task'[n][s].stage = "sending" /\ task'[n][s].msg = msg
         /\ task'[n][s].to = t.to \ {m}
  BY <1>1, <1>7 DEF Sending
<1>9. ASSUME NEW i \in Node, NEW j \in Slot PROVE SpreadTask(i, task'[i][j], msg)
  <2>1. CASE i = n /\ j = s
    BY <1>1, <1>8, <2>1 DEF SpreadTask
  <2>2. CASE i # n \/ j # s
    BY <1>7, <2>2 DEF Spreading
  <2> QED
    BY <2>1, <2>2
<1>10. ASSUME NEW k \in Node PROVE Reached(k, msg)'
  <2>1. CASE k = m
    <3>1. Inbound(m)'
      BY <1>4, <1>5 DEF Inbound
    <3> QED
      BY <1>3, <2>1, <3>1 DEF Spreading, Reached, Has, Below
  <2>2. CASE k # m
    <3>1. ToSend(n, k) => ToSend(n, k)'
      <4> SUFFICES ASSUME NEW j \in Slot, task[n][j].stage = "sending", k \in task[n][j].to
                   PROVE  task'[n][j].stage = "sending" /\ k \in task'[n][j].to
        BY DEF ToSend
      <4>1. CASE j = s
        BY <1>8, <2>2, <4>1
      <4>2. CASE j # s
        BY <1>7, <4>2
      <4> QED
        BY <4>1, <4>2
    <3>2. Inbound(k) => Inbound(k)'
      BY <1>3, <1>6 DEF Inbound
    <3> QED
      BY <1>1, <1>3, <3>1, <3>2 DEF Spreading, Reached, Has, Below
  <2> QED
    BY <2>1, <2>2
<1> QED
  BY <1>3, <1>6, <1>9, <1>10 DEF Spreading, SpreadLoop, Below

LEMMA SpreadingReceive ==
  ASSUME Turns, TypeOK, NEW msg \in Message, Spreading(msg),
         NEW ch \in Channel, ~paused[To(ch)], Receive(ch)
  PROVE  Spreading(msg)'
<1>1. queue[ch] \in Seq(Message) /\ queue[ch] # <<>>
  BY DEF Receive, TypeOK
<1>2. Head(queue[ch]) = msg /\ To(ch) # msg.origin
  BY <1>1, TailOfQueue DEF Spreading
<1>3. /\ queue' = [queue EXCEPT ![ch] = Tail(queue[ch])]
      /\ SetLoop(ch, [stage |-> "received", msg |-> msg, snap |-> NoRecord])
      /\ UNCHANGED <<event, task, store, pending>>
  BY <1>2 DEF Receive
<1>4. /\ loop'[ch] = [stage |-> "received", msg |-> msg, snap |-> NoRecord]
      /\ \A c \in Channel : c # ch => loop'[c] = loop[c] /\ queue'[c] = queue[c]
      /\ queue'[ch] = Tail(queue[ch])
  BY <1>3, SetLoopEntry DEF TypeOK
<1>5. loop'[ch] # Idle /\ SpreadLoop(loop'[ch], msg)
  BY <1>4 DEF Idle, SpreadLoop
<1>6. ASSUME NEW k \in Node PROVE Inbound(k) => Inbound(k)'
  BY <1>4, <1>5 DEF Inbound
<1>7. ASSUME NEW k \in Node PROVE Reached(k, msg)'
  BY <1>3, <1>6 DEF Spreading, Reached, Has, Below, ToSend
<1>8. \A i \in DOMAIN queue'[ch] : queue'[ch][i] = msg
  BY <1>1, <1>4, TailOfQueue DEF Spreading
<1>9. \A c \in Channel : /\ \A i \in DOMAIN queue'[c] : queue'[c][i] = msg /\ To(c) # msg.origin
                         /\ SpreadLoop(loop'[c], msg)
  <2> SUFFICES ASSUME NEW c \in Channel
               PROVE  /\ \A i \in DOMAIN queue'[c] : queue'[c][i] = msg /\ To(c) # msg.origin
                      /\ SpreadLoop(loop'[c], msg)
    OBVIOUS
  <2>1. CASE c = ch
    BY <1>2, <1>5, <1>8, <2>1
  <2>2. CASE c # ch
    <3>1. queue'[c] = queue[c] /\ loop'[c] = loop[c]
      BY <1>4, <2>2
    <3> QED
      BY <3>1 DEF Spreading
  <2> QED
    BY <2>1, <2>2
<1>10. \A k \in Node : \A cb \in BagToSet(pending'[k]) : cb.msg = msg /\ Below(cb.snap, msg)
  BY <1>3 DEF Spreading
<1>11. /\ \A k \in Node : event'[k] = "none"
       /\ \A k \in Node, r \in Slot : SpreadTask(k, task'[k][r], msg)
  BY <1>3 DEF Spreading
<1> QED
  BY <1>7, <1>9, <1>10, <1>11 DEF Spreading

\* A record that is older is replaced, one that is of the version is kept, and
\* nothing is ever concurrent.
LEMMA SpreadingHandle ==
  ASSUME Turns, TypeOK, NEW msg \in Announce, Spreading(msg),
         NEW ch \in Channel, HandleAnnounce(ch)
  PROVE  Spreading(msg)'
<1> DEFINE n == To(ch)
<1>1. n \in Node /\ store[n] \in MaybeRecord /\ ClockOf(store[n]) \in Clock /\ msg.vc \in Clock
  BY ChannelEnds, ClockOfType DEF TypeOK, Announce
<1>2. loop[ch].msg = msg /\ loop[ch] \in OfAnnounce
  BY MessageInHand DEF HandleAnnounce, Spreading, SpreadLoop, Idle
<1>3. Live(store[n]) => store[n].vc = ClockOf(store[n])
  BY DEF Live, ClockOf
<1>4. Below(store[n], msg)
  BY <1>1, <1>3, LeqReflexive DEF Spreading, Reached, Has, Below
<1>5. \/ Verdict(msg, store[n]) = "leech"
      \/ Verdict(msg, store[n]) = "skip" /\ Has(n, msg)
  <2>1. CASE ~Live(store[n])
    BY <2>1 DEF Verdict
  <2>2. CASE Live(store[n]) /\ store[n].vc = msg.vc
    <3>1. Compare(msg.vc, store[n].vc) = "equal"
      BY <1>1, <2>2, CompareDecidesOrder
    <3>2. Has(n, msg)
      BY <1>1, <1>3, <2>2 DEF Spreading, Reached
    <3> QED
      BY <2>2, <3>1, <3>2 DEF Verdict
  <2>3. CASE Live(store[n]) /\ store[n].vc # msg.vc
    <3>1. Compare(msg.vc, store[n].vc) = "newer"
      BY <1>1, <1>3, <1>4, <2>3, CompareDecidesOrder DEF Below
    <3> QED
      BY <2>3, <3>1 DEF Verdict
  <2> QED
    BY <2>1, <2>2, <2>3
<1> DEFINE st == [loop[ch] EXCEPT !.stage = "leech", !.snap = store[n]]
<1>6. UNCHANGED <<event, task, store, queue, pending>>
  BY DEF HandleAnnounce
<1>7. SetLoop(ch, st) \/ (SetLoop(ch, Idle) /\ Has(n, msg))
  BY <1>2, <1>5 DEF HandleAnnounce
<1>8. st # Idle /\ SpreadLoop(st, msg)
  BY <1>2, <1>4 DEF SpreadLoop, Idle, OfAnnounce
<1> HIDE DEF st
<1>9. /\ loop'[ch] = st \/ (loop'[ch] = Idle /\ Has(n, msg))
      /\ \A c \in Channel : c # ch => loop'[c] = loop[c]
  BY <1>7, SetLoopEntry
<1>10. ASSUME NEW k \in Node PROVE Reached(k, msg)'
  <2>1. Has(k, msg) => Has(k, msg)'
    BY <1>6 DEF Has
  <2>2. Inbound(k) => Inbound(k)' \/ Has(k, msg)
    BY <1>6, <1>8, <1>9 DEF Inbound
  <2> QED
    BY <1>6, <2>1, <2>2 DEF Spreading, Reached, Below, ToSend
<1>11. \A c \in Channel : SpreadLoop(loop'[c], msg)
  BY <1>8, <1>9 DEF Spreading, SpreadLoop
<1> QED
  BY <1>6, <1>10, <1>11 DEF Spreading, SpreadLoop, SpreadTask, Below

LEMMA SpreadingRegister ==
  ASSUME Turns, TypeOK, NEW msg \in Message, Spreading(msg),
         NEW ch \in Channel, RegisterLeech(ch)
  PROVE  Spreading(msg)'
<1> DEFINE n == To(ch)
           cb == [snap |-> loop[ch].snap, msg |-> loop[ch].msg]
<1>1. n \in Node /\ IsABag(pending[n]) /\ DOMAIN pending = Node
  BY ChannelEnds DEF TypeOK
<1>2. cb.msg = msg /\ Below(cb.snap, msg)
  BY DEF RegisterLeech, Spreading, SpreadLoop, Idle
<1>3. /\ pending' = [pending EXCEPT ![n] = pending[n] (+) SetToBag({cb})]
      /\ SetLoop(ch, Idle)
      /\ UNCHANGED <<event, task, store, queue>>
  BY DEF RegisterLeech
<1> HIDE DEF cb, n
<1>4. /\ BagToSet(pending'[n]) = BagToSet(pending[n]) \cup {cb}
      /\ \A k \in Node : k # n => pending'[k] = pending[k]
  BY <1>1, <1>3, RegisterInBag
<1>5. loop'[ch] = Idle /\ \A c \in Channel : c # ch => loop'[c] = loop[c]
  BY <1>3, SetLoopEntry
<1>6. ASSUME NEW k \in Node PROVE Reached(k, msg)'
  <2>1. CASE k = n
    BY <1>3, <1>4, <2>1 DEF Spreading, Reached, Has, Below
  <2>2. CASE k # n
    <3>1. Inbound(k) => Inbound(k)'
      BY <1>3, <1>5, <2>2 DEF Inbound, n
    <3> QED
      BY <1>3, <1>4, <2>2, <3>1 DEF Spreading, Reached, Has, Below, ToSend
  <2> QED
    BY <2>1, <2>2
<1>7. \A k \in Node : \A x \in BagToSet(pending'[k]) : x.msg = msg /\ Below(x.snap, msg)
  BY <1>2, <1>4 DEF Spreading
<1>8. \A c \in Channel : SpreadLoop(loop'[c], msg)
  BY <1>5 DEF Spreading, SpreadLoop
<1> QED
  BY <1>3, <1>6, <1>7, <1>8 DEF Spreading, SpreadTask, SpreadLoop, Below

\* A completion stores the version under the very clock it was announced with.
LEMMA SpreadingComplete ==
  ASSUME Turns, TypeOK, NEW msg \in Announce, Spreading(msg),
         NEW n \in Node, NEW cb, Complete(n, cb)
  PROVE  Spreading(msg)'
<1>1. cb \in Closure /\ cb.msg = msg /\ Below(cb.snap, msg)
  BY DEF Complete, TypeOK, Spreading
<1>2. MergedClock(cb) = msg.vc
  BY <1>1, ClockOfType, MergeAbsorbs DEF MergedClock, Closure, Announce, Below
<1>3. /\ pending' = [pending EXCEPT ![n] = pending[n] (-) SetToBag({cb})]
      /\ store' = [store EXCEPT ![n] = Version(msg.hash, msg.info, msg.vc)]
      /\ UNCHANGED <<event, task, queue, loop>>
  BY <1>1, <1>2 DEF Complete
<1>4. Has(n, msg)'
  <2>1. store'[n] = Version(msg.hash, msg.info, msg.vc)
    BY <1>3 DEF TypeOK
  <2>2. msg.hash \in Content /\ msg.info \in Content /\ msg.vc \in Clock
    BY DEF Announce
  <2> QED
    BY <2>1, <2>2, VersionLive DEF Has
<1>5. \A k \in Node : k # n => pending'[k] = pending[k] /\ store'[k] = store[k]
  BY <1>3 DEF TypeOK
<1>6. BagToSet(pending'[n]) \subseteq BagToSet(pending[n])
  BY <1>3, TakeFromBag DEF TypeOK
<1>7. ASSUME NEW k \in Node PROVE Reached(k, msg)'
  <2>1. CASE k = n
    BY <1>4, <2>1 DEF Reached
  <2>2. CASE k # n
    BY <1>3, <1>5, <2>2 DEF Spreading, Reached, Has, Below, ToSend, Inbound
  <2> QED
    BY <2>1, <2>2
<1>8. \A k \in Node : \A x \in BagToSet(pending'[k]) : x.msg = msg /\ Below(x.snap, msg)
  BY <1>5, <1>6 DEF Spreading
<1> QED
  BY <1>3, <1>7, <1>8 DEF Spreading, SpreadTask, SpreadLoop, Below

-----------------------------------------------------------------------------
\* A deletion spreads.  The handler of a removed file goes up to the mark.
LEMMA DeletingHandle ==
  ASSUME Turns, TypeOK, NEW a \in Node, NEW B \in Clock, Deleting(a, B),
         NEW n \in Node, NEW s \in Slot, ~paused[n],
         HandleFileEvent(n, s) \/ LookUpDeleted(n, s)
  PROVE  Deleting(a, B)'
<1>a. task[n][s] \in TaskState /\ store[n] \in MaybeRecord
  BY DEF TypeOK
<1>1. UNCHANGED <<disk, store, queue, loop, pending>>
  BY DEF HandleFileEvent, LookUpDeleted, LocalOnly
<1>2. /\ task[n][s].stage # "sending"
      /\ \/ task'[n][s].stage = "deleted"
         \/ task'[n][s].stage = "marking" /\ ClockOf(task'[n][s].snap) = B
      /\ \A m \in Node, r \in Slot : m # n \/ r # s => task'[m][r] = task[m][r]
  <2>1. CASE HandleFileEvent(n, s)
    <3>1. event[n] = "deleted" /\ task[n][s] = Idle
      BY <2>1 DEF HandleFileEvent, Deleting, TypeOK
    <3> DEFINE t == [stage |-> event[n], hash |-> NoContent, info |-> NoContent,
                     snap |-> NoRecord]
    <3>2. SetTask(n, s, t)
      BY <2>1 DEF HandleFileEvent
    <3> QED
      BY <3>1, <3>2, SetTaskEntry DEF Idle
  <2>2. CASE LookUpDeleted(n, s)
    <3>1. task[n][s] \in Called /\ task[n][s].stage = "deleted"
      BY <1>a, <2>2, TaskAtStage DEF LookUpDeleted
    <3> DEFINE t == [task[n][s] EXCEPT !.stage = "marking", !.snap = store[n]]
    <3>2. SetTask(n, s, t)
      BY <2>2 DEF LookUpDeleted
    <3>3. t.stage = "marking" /\ t.snap = store[n]
      BY <3>1 DEF Called
    <3>4. ClockOf(store[n]) = B
      BY DEF Deleting
    <3> HIDE DEF t
    <3> QED
      BY <3>1, <3>2, <3>3, <3>4, SetTaskEntry
  <2> QED
    BY <2>1, <2>2
<1>3. /\ \A m \in Node : event'[m] = event[m] \/ (m = n /\ event'[m] = "none")
  BY DEF HandleFileEvent, LookUpDeleted, LocalOnly, TypeOK
<1>4. \A m \in Node, r \in Slot : DeleteTask(m, task'[m][r], B)
  BY <1>2 DEF Deleting, DeleteTask
<1>5. Announcing(a) => Announcing(a)'
  BY <1>2, <1>3 DEF Announcing
<1>6. ASSUME NEW k \in Node PROVE ToSend(a, k) => ToSend(a, k)'
  BY <1>2 DEF ToSend
<1>7. \A k \in Node : (Gone(k) => Gone(k)') /\ (Inbound(k) => Inbound(k)')
  BY <1>1 DEF Gone, Inbound
<1>8. \A m \in Node : event'[m] # "changed"
  BY <1>3 DEF Deleting
<1>9. \A m \in Node : Remaining(a, m)'
  BY <1>5, <1>6, <1>7 DEF Deleting, Remaining
<1> QED
  BY <1>1, <1>4, <1>8, <1>9 DEF Deleting, DeleteLoop, Remaining

\* The handler marks the record, which keeps its clock, and tells the others.
LEMMA DeletingPut ==
  ASSUME Turns, TypeOK, NEW a \in Node, NEW B \in Clock, Deleting(a, B),
         NEW n \in Node, NEW s \in Slot, PutDeleted(n, s)
  PROVE  Deleting(a, B)'
<1>1. PICK msg \in Tombstone :
        msg = [type |-> "tombstone", origin |-> n,
               vc |-> NextClock(n, task[n][s].snap),
               hash |-> NoContent, info |-> NoContent]
  BY PutDeletedMessage DEF PutDeleted
<1>2. TombstoneOf(msg, B) /\ msg.origin = n
  <2>1. task[n][s].stage = "marking" /\ ClockOf(task[n][s].snap) = B
    BY DEF PutDeleted, Deleting, DeleteTask, Idle
  <2> QED
    BY <1>1, <2>1 DEF TombstoneOf, NextClock
<1>3. /\ store' = [store EXCEPT ![n] = MarkDeleted(store[n])]
      /\ Broadcast(n, s, msg)
      /\ UNCHANGED <<disk, event, queue, loop, pending>>
  BY <1>1 DEF PutDeleted, LocalOnly
<1>4. /\ \A m \in Node : ClockOf(store'[m]) = ClockOf(store[m])
      /\ \A m \in Node : ~Live(store[m]) => ~Live(store'[m])
      /\ ~Live(store'[n])
  BY <1>3, MarkDeletedNotLive DEF TypeOK
<1>5. /\ \/ task'[n][s] = Idle
         \/ /\ task'[n][s].stage = "sending" /\ task'[n][s].msg = msg
            /\ n \notin task'[n][s].to
      /\ \A m \in Node \ {n} : ToSend(n, m)'
      /\ \A m \in Node, r \in Slot : m # n \/ r # s => task'[m][r] = task[m][r]
  BY <1>3, BroadcastReaches
<1>6. \A m \in Node, r \in Slot : DeleteTask(m, task'[m][r], B)
  BY <1>2, <1>5 DEF Deleting, DeleteTask
<1>7. ASSUME NEW k \in Node PROVE Remaining(a, k)'
  <2>1. Gone(k) => Gone(k)'
    BY <1>3, <1>4 DEF Gone
  <2>2. Inbound(k) => Inbound(k)'
    BY <1>3 DEF Inbound
  <2>3. CASE n = a /\ k = a
    BY <1>3, <1>4, <2>3 DEF Gone, Remaining, Deleting
  <2>4. CASE n = a /\ k # a
    BY <1>5, <2>4 DEF Remaining
  <2>5. CASE n # a
    <3>1. /\ Announcing(a) => Announcing(a)'
          /\ ToSend(a, k) => ToSend(a, k)'
      BY <1>3, <1>5, <2>5 DEF Announcing, ToSend
    <3> QED
      BY <2>1, <2>2, <3>1 DEF Deleting, Remaining
  <2> QED
    BY <2>3, <2>4, <2>5
<1> QED
  BY <1>3, <1>4, <1>6, <1>7 DEF Deleting, DeleteLoop, Remaining

LEMMA DeletingSend ==
  ASSUME Turns, TypeOK, NEW a \in Node, NEW B \in Clock, Deleting(a, B),
         NEW n \in Node, NEW s \in Slot, NEW m \in Node, SendTo(n, s, m)
  PROVE  Deleting(a, B)'
<1> DEFINE t == task[n][s]
<1>1. /\ t \in Sending /\ n \notin t.to /\ m \in t.to /\ m # n /\ t.msg \in Message
      /\ t.stage = "sending" /\ TombstoneOf(t.msg, B) /\ t.msg.origin = n
  <2>1. t \in Sending
    BY TaskAtStage DEF SendTo, TypeOK
  <2> QED
    BY <2>1 DEF SendTo, Deleting, DeleteTask, Idle, Sending
<1>b. PICK msg \in Message : msg = t.msg
  BY <1>1
<1>2. PICK l \in Lane : queue' = [queue EXCEPT ![<<n, m, l>>] = @ \o Handled(msg)]
  BY <1>1, <1>b DEF SendTo
<1>3. /\ UNCHANGED <<disk, event, store, loop, pending>>
      /\ SetTask(n, s, IF t.to = {m} THEN Idle ELSE [t EXCEPT !.to = @ \ {m}])
  BY DEF SendTo
<1> DEFINE c == <<n, m, l>>
<1>4. /\ c \in Channel /\ To(c) = m
      /\ queue'[c] = queue[c] \o Handled(msg)
      /\ \A ch \in Channel : ch # c => queue'[ch] = queue[ch]
  BY <1>1, <1>2 DEF TypeOK, Channel, To
<1>5. /\ queue'[c] # <<>>
      /\ \A i \in DOMAIN queue'[c] :
           \/ queue'[c][i] = msg
           \/ \E j \in DOMAIN queue[c] : queue'[c][i] = queue[c][j]
  <2>1. queue[c] \in Seq(Message)
    BY <1>4 DEF TypeOK
  <2> HIDE DEF c
  <2> QED
    BY <1>4, <2>1, SentOnQueue
<1> HIDE DEF c
<1>6. ASSUME NEW ch \in Channel
      PROVE  /\ \A i \in DOMAIN queue'[ch] :
                  TombstoneOf(queue'[ch][i], B) /\ queue'[ch][i].origin # To(ch)
             /\ queue[ch] # <<>> => queue'[ch] # <<>>
  <2>1. TombstoneOf(msg, B) /\ msg.origin # To(c)
    BY <1>1, <1>b, <1>4
  <2>2. ch # c => queue'[ch] = queue[ch]
    BY <1>4
  <2>3. CASE ch = c
    BY <1>4, <1>5, <2>1, <2>3 DEF Deleting
  <2>4. CASE ch # c
    BY <2>2, <2>4 DEF Deleting
  <2> QED
    BY <2>3, <2>4
<1>7. /\ task'[n][s] = IF t.to = {m} THEN Idle ELSE [t EXCEPT !.to = @ \ {m}]
      /\ \A i \in Node, j \in Slot : i # n \/ j # s => task'[i][j] = task[i][j]
  BY <1>3, SetTaskEntry
<1>8. \/ task'[n][s] = Idle /\ t.to = {m}
      \/ /\ task'[n][s].stage = "sending" /\ task'[n][s].msg = t.msg
         /\ task'[n][s].to = t.to \ {m}
  BY <1>1, <1>7 DEF Sending
<1>9. ASSUME NEW i \in Node, NEW j \in Slot PROVE DeleteTask(i, task[i][j], B)'
  <2>1. CASE i = n /\ j = s
    BY <1>1, <1>8, <2>1 DEF DeleteTask
  <2>2. CASE i # n \/ j # s
    BY <1>7, <2>2 DEF Deleting
  <2> QED
    BY <2>1, <2>2
<1>10. Announcing(a) => Announcing(a)'
  <2>1. \A j \in Slot : task[a][j].stage \in {"deleted", "marking"}
                         => task'[a][j] = task[a][j]
    BY <1>1, <1>7
  <2> QED
    BY <1>3, <2>1 DEF Announcing
<1>11. ASSUME NEW k \in Node PROVE Remaining(a, k)'
  <2>1. CASE k = m
    BY <1>4, <1>5, <2>1 DEF Inbound, Remaining
  <2>2. CASE k # m
    <3>1. ToSend(a, k) => ToSend(a, k)'
      <4> SUFFICES ASSUME NEW j \in Slot, task[a][j].stage = "sending", k \in task[a][j].to
                   PROVE  task'[a][j].stage = "sending" /\ k \in task'[a][j].to
        BY DEF ToSend
      <4>1. CASE a = n /\ j = s
        BY <1>8, <2>2, <4>1
      <4>2. CASE a # n \/ j # s
        BY <1>7, <4>2
      <4> QED
        BY <4>1, <4>2
    <3>2. Inbound(k) => Inbound(k)'
      BY <1>3, <1>6 DEF Inbound
    <3>3. Gone(k) => Gone(k)'
      BY <1>3 DEF Gone
    <3> QED
      BY <1>10, <3>1, <3>2, <3>3 DEF Deleting, Remaining
  <2> QED
    BY <2>1, <2>2
<1> QED
  BY <1>3, <1>6, <1>9, <1>11 DEF Deleting, DeleteLoop, Remaining

LEMMA DeletingReceive ==
  ASSUME Turns, TypeOK, NEW a \in Node, NEW B \in Clock, Deleting(a, B),
         NEW ch \in Channel, ~paused[To(ch)], Receive(ch)
  PROVE  Deleting(a, B)'
<1>1. queue[ch] \in Seq(Message) /\ queue[ch] # <<>>
  BY DEF Receive, TypeOK
<1> DEFINE msg == Head(queue[ch])
           st  == [stage |-> "received", msg |-> msg, snap |-> NoRecord]
<1>2. TombstoneOf(msg, B) /\ msg.origin # To(ch)
  BY <1>1, TailOfQueue DEF Deleting
<1>3. /\ queue' = [queue EXCEPT ![ch] = Tail(queue[ch])]
      /\ SetLoop(ch, st)
      /\ UNCHANGED <<disk, event, task, store, pending>>
  BY <1>2 DEF Receive
<1>4. st # Idle /\ st.stage = "received" /\ TombstoneOf(st.msg, B)
  BY <1>2 DEF Idle
<1> HIDE DEF st, msg
<1>5. /\ loop'[ch] = st
      /\ \A c \in Channel : c # ch => loop'[c] = loop[c] /\ queue'[c] = queue[c]
      /\ queue'[ch] = Tail(queue[ch])
  BY <1>3, SetLoopEntry DEF TypeOK
<1>6. ASSUME NEW k \in Node PROVE Inbound(k) => Inbound(k)'
  BY <1>4, <1>5 DEF Inbound
<1>7. ASSUME NEW k \in Node PROVE Remaining(a, k)'
  <2>1. /\ Gone(k) => Gone(k)'
        /\ Announcing(a) => Announcing(a)'
        /\ ToSend(a, k) => ToSend(a, k)'
    BY <1>3 DEF Gone, Announcing, ToSend
  <2> QED
    BY <1>6, <2>1 DEF Deleting, Remaining
<1>8. \A i \in DOMAIN queue'[ch] :
        TombstoneOf(queue'[ch][i], B) /\ queue'[ch][i].origin # To(ch)
  BY <1>1, <1>5, TailOfQueue DEF Deleting
<1>9. \A c \in Channel :
        /\ \A i \in DOMAIN queue'[c] :
             TombstoneOf(queue'[c][i], B) /\ queue'[c][i].origin # To(c)
        /\ DeleteLoop(To(c), loop[c], B)'
  BY <1>3, <1>4, <1>5, <1>8 DEF Deleting, DeleteLoop
<1> QED
  BY <1>3, <1>7, <1>9 DEF Deleting, DeleteTask, DeleteLoop, Remaining

\* A tombstone is newer than every record, deleted ones included: it is never
\* passed over, and its handler removes the file before it marks the record.
LEMMA DeletingHandler ==
  ASSUME Turns, TypeOK, NEW a \in Node, NEW B \in Clock, Deleting(a, B),
         NEW ch \in Channel,
         HandleTombstone(ch) \/ RemoveFile(ch) \/ MarkTombstone(ch)
  PROVE  Deleting(a, B)'
<1> DEFINE n == To(ch)
           l == loop[ch]
<1>1. n \in Node /\ store[n] \in MaybeRecord /\ ClockOf(store[n]) = B
  BY ChannelEnds DEF TypeOK, Deleting
<1>2. l \in OfTombstone /\ TombstoneOf(l.msg, B) /\ l # Idle
  <2>1. l \in OfTombstone
    BY MessageInHand, LoopAtStage
       DEF HandleTombstone, RemoveFile, MarkTombstone, TypeOK
  <2>2. l.stage # "idle"
    BY <2>1 DEF OfTombstone
  <2> QED
    BY <2>1, <2>2 DEF Deleting, DeleteLoop, Idle
<1>3. UNCHANGED <<task, queue, pending>>
  BY DEF HandleTombstone, RemoveFile, MarkTombstone
<1>4. \A k \in Node : ToSend(a, k) => ToSend(a, k)'
  BY <1>3 DEF ToSend
<1>5. CASE HandleTombstone(ch)
  <2>1. Compare(l.msg.vc, B) = "newer"
    BY <1>2, BumpIsNewer DEF TombstoneOf, OfTombstone, Tombstone
  <2>2. store[n] # NoRecord => store[n].vc = B
    BY <1>1 DEF ClockOf
  <2> DEFINE st == [l EXCEPT !.stage = "remove"]
  <2>3. SetLoop(ch, st) /\ UNCHANGED <<disk, event, store>>
    BY <1>5, <2>1, <2>2 DEF HandleTombstone
  <2>4. st # Idle /\ st.stage = "remove" /\ TombstoneOf(st.msg, B)
    BY <1>2 DEF Idle, OfTombstone
  <2> HIDE DEF st
  <2>5. loop'[ch] = st /\ \A c \in Channel : c # ch => loop'[c] = loop[c]
    BY <2>3, SetLoopEntry
  <2>6. ASSUME NEW k \in Node PROVE Remaining(a, k)'
    <3>1. /\ Gone(k) => Gone(k)'
          /\ Announcing(a) => Announcing(a)'
          /\ Inbound(k) => Inbound(k)'
      BY <1>3, <2>3, <2>4, <2>5 DEF Gone, Announcing, Inbound
    <3> QED
      BY <1>4, <3>1 DEF Deleting, Remaining
  <2>7. \A c \in Channel : DeleteLoop(To(c), loop[c], B)'
    BY <2>3, <2>4, <2>5 DEF Deleting, DeleteLoop
  <2> QED
    BY <1>3, <2>3, <2>6, <2>7 DEF Deleting, DeleteTask, Remaining
<1>6. CASE RemoveFile(ch)
  <2> DEFINE st == [l EXCEPT !.stage = "mark"]
  <2>1. SetLoop(ch, st) /\ store' = store
    BY <1>6 DEF RemoveFile
  <2>2. /\ disk'[n] = NoContent
        /\ \A k \in Node : disk'[k] = disk[k] \/ disk'[k] = NoContent
        /\ \A k \in Node : event'[k] = event[k] \/ event'[k] = "deleted"
    BY <1>1, <1>6 DEF RemoveFile, TypeOK, Turns
  <2>3. st # Idle /\ st.stage = "mark" /\ TombstoneOf(st.msg, B)
    BY <1>2 DEF Idle, OfTombstone
  <2> HIDE DEF st
  <2>4. loop'[ch] = st /\ \A c \in Channel : c # ch => loop'[c] = loop[c]
    BY <2>1, SetLoopEntry
  <2>5. ASSUME NEW k \in Node PROVE Remaining(a, k)'
    <3>1. /\ Gone(k) => Gone(k)'
          /\ Announcing(a) => Announcing(a)'
          /\ Inbound(k) => Inbound(k)'
      BY <1>3, <2>1, <2>2, <2>3, <2>4 DEF Gone, Announcing, Inbound
    <3> QED
      BY <1>4, <3>1 DEF Deleting, Remaining
  <2>6. \A c \in Channel : DeleteLoop(To(c), loop[c], B)'
    <3> SUFFICES ASSUME NEW c \in Channel PROVE DeleteLoop(To(c), loop[c], B)'
      OBVIOUS
    <3>1. To(c) \in Node
      BY ChannelEnds
    <3> QED
      BY <2>2, <2>3, <2>4, <3>1 DEF Deleting, DeleteLoop
  <2>7. disk'[a] = NoContent /\ \A k \in Node : event'[k] # "changed"
    BY <2>2 DEF Deleting
  <2> QED
    BY <1>3, <2>1, <2>5, <2>6, <2>7 DEF Deleting, DeleteTask, Remaining
<1>7. CASE MarkTombstone(ch)
  <2>1. SetLoop(ch, Idle) /\ UNCHANGED <<disk, event>>
        /\ store' = [store EXCEPT ![n] = MarkDeleted(store[n])]
    BY <1>7 DEF MarkTombstone
  <2>2. /\ \A m \in Node : ClockOf(store'[m]) = ClockOf(store[m])
        /\ \A m \in Node : ~Live(store[m]) => ~Live(store'[m])
        /\ ~Live(store'[n])
    BY <1>1, <2>1, MarkDeletedNotLive DEF TypeOK
  <2>3. loop'[ch] = Idle /\ \A c \in Channel : c # ch => loop'[c] = loop[c]
    BY <2>1, SetLoopEntry
  <2>4. disk[n] = NoContent
    BY <1>2, <1>7 DEF Deleting, DeleteLoop, MarkTombstone
  <2>5. ASSUME NEW k \in Node PROVE Remaining(a, k)'
    <3>1. CASE k = n
      BY <2>1, <2>2, <2>4, <3>1 DEF Gone, Remaining
    <3>2. CASE k # n
      <4>1. /\ Gone(k) => Gone(k)'
            /\ Announcing(a) => Announcing(a)'
            /\ Inbound(k) => Inbound(k)'
        BY <1>3, <2>1, <2>2, <2>3, <3>2 DEF Gone, Announcing, Inbound
      <4> QED
        BY <1>4, <4>1 DEF Deleting, Remaining
    <3> QED
      BY <3>1, <3>2
  <2>6. \A c \in Channel : DeleteLoop(To(c), loop[c], B)'
    BY <2>1, <2>3 DEF Deleting, DeleteLoop
  <2> QED
    BY <1>3, <2>1, <2>2, <2>5, <2>6 DEF Deleting, DeleteTask, Remaining
<1> QED
  BY <1>5, <1>6, <1>7

-----------------------------------------------------------------------------
\* In each phase: the steps that can be taken, and the phase after them.
LEMMA DeletingGoesOn ==
  ASSUME NEW a \in Node, NEW B, Deleting(a, B)'
  PROVE  TurnPhase'
<1>1. ClockOf(store'[a]) = B
  BY DEF Deleting
<1>2. Deleting(a, ClockOf(store[a]))'
  BY <1>1 DEF Deleting, DeleteTask, DeleteLoop
<1> QED
  BY <1>2 DEF TurnPhase

LEMMA DeletingStep ==
  ASSUME Turns, TypeOK, NEW a \in Node, NEW B \in Clock, Deleting(a, B),
         \A n \in Node : ~paused[n]
  PROVE  /\ \A n \in Node : ~CompleteStep(n)
         /\ \A n \in Node, s \in Slot : TaskStep(n, s) => Deleting(a, B)'
         /\ \A ch \in Channel : LoopStep(ch) => Deleting(a, B)'
<1>0. Idle.stage = "idle"
  BY DEF Idle
<1>1. ASSUME NEW n \in Node PROVE ~CompleteStep(n)
  BY EmptyIsABag DEF CompleteStep, Deleting
<1>2. ASSUME NEW n \in Node, NEW s \in Slot, TaskStep(n, s) PROVE Deleting(a, B)'
  <2>1. task[n][s].stage \in {"idle", "deleted", "marking", "sending"}
    BY <1>0 DEF Deleting, DeleteTask
  <2>2. /\ ~HashFile(n, s) /\ ~LookUpChanged(n, s) /\ ~CreateAndSeed(n, s)
        /\ ~PutChanged(n, s) /\ ~HandlerFails(n, s)
    BY <2>1 DEF HashFile, LookUpChanged, CreateAndSeed, PutChanged, HandlerFails, Turns
  <2>3. CASE HandleFileEvent(n, s) \/ LookUpDeleted(n, s)
    BY <2>3, DeletingHandle
  <2>4. CASE PutDeleted(n, s)
    BY <2>4, DeletingPut
  <2>5. ASSUME NEW m \in Node, SendTo(n, s, m) PROVE Deleting(a, B)'
    BY <2>5, DeletingSend
  <2> QED
    BY <1>2, <2>2, <2>3, <2>4, <2>5 DEF TaskStep
<1>3. ASSUME NEW ch \in Channel, LoopStep(ch) PROVE Deleting(a, B)'
  <2>1. loop[ch] = Idle \/ /\ loop[ch].stage \in {"received", "remove", "mark"}
                           /\ loop[ch].msg.type = "tombstone"
    BY DEF Deleting, DeleteLoop, TombstoneOf
  <2>2. ~HandleAnnounce(ch) /\ ~ForkFile(ch) /\ ~RegisterLeech(ch) /\ ~LeechFails(ch)
    BY <1>0, <2>1 DEF HandleAnnounce, ForkFile, RegisterLeech, LeechFails
  <2>3. CASE Receive(ch)
    BY <2>3, ChannelEnds, DeletingReceive
  <2>4. CASE HandleTombstone(ch) \/ RemoveFile(ch) \/ MarkTombstone(ch)
    BY <2>4, DeletingHandler
  <2> QED
    BY <1>3, <2>2, <2>3, <2>4 DEF LoopStep
<1> QED
  BY <1>1, <1>2, <1>3

LEMMA SpreadingStep ==
  ASSUME Turns, TypeOK, NEW msg \in Announce, Spreading(msg),
         \A n \in Node : ~paused[n]
  PROVE  /\ \A n \in Node : CompleteStep(n) => Spreading(msg)'
         /\ \A n \in Node, s \in Slot : TaskStep(n, s) => Spreading(msg)'
         /\ \A ch \in Channel : LoopStep(ch) => Spreading(msg)'
<1>0. Idle.stage = "idle" /\ msg \in Message
  BY DEF Idle, Message
<1>1. ASSUME NEW n \in Node, CompleteStep(n) PROVE Spreading(msg)'
  BY <1>1, SpreadingComplete DEF CompleteStep
<1>2. ASSUME NEW n \in Node, NEW s \in Slot, TaskStep(n, s) PROVE Spreading(msg)'
  <2>1. task[n][s].stage \in {"idle", "sending"} /\ event[n] = "none"
    BY <1>0 DEF Spreading, SpreadTask
  <2>2. /\ ~HandleFileEvent(n, s) /\ ~HashFile(n, s) /\ ~LookUpChanged(n, s)
        /\ ~CreateAndSeed(n, s) /\ ~PutChanged(n, s) /\ ~HandlerFails(n, s)
        /\ ~LookUpDeleted(n, s) /\ ~PutDeleted(n, s)
    BY <2>1 DEF HandleFileEvent, HashFile, LookUpChanged, CreateAndSeed, PutChanged,
       HandlerFails, LookUpDeleted, PutDeleted
  <2>3. ASSUME NEW m \in Node, SendTo(n, s, m) PROVE Spreading(msg)'
    BY <1>0, <2>3, SpreadingSend
  <2> QED
    BY <1>2, <2>2, <2>3 DEF TaskStep
<1>3. ASSUME NEW ch \in Channel, LoopStep(ch) PROVE Spreading(msg)'
  <2>1. loop[ch] = Idle \/ /\ loop[ch].stage \in {"received", "leech"}
                           /\ loop[ch].msg.type = "announce"
    BY DEF Spreading, SpreadLoop
  <2>2. /\ ~HandleTombstone(ch) /\ ~RemoveFile(ch) /\ ~MarkTombstone(ch)
        /\ ~ForkFile(ch) /\ ~LeechFails(ch)
    BY <1>0, <2>1 DEF HandleTombstone, RemoveFile, MarkTombstone, ForkFile, LeechFails,
       Turns
  <2>3. CASE Receive(ch)
    BY <1>0, <2>3, ChannelEnds, SpreadingReceive
  <2>4. CASE HandleAnnounce(ch)
    BY <2>4, SpreadingHandle
  <2>5. CASE RegisterLeech(ch)
    BY <1>0, <2>5, SpreadingRegister
  <2> QED
    BY <1>3, <2>2, <2>3, <2>4, <2>5 DEF LoopStep
<1> QED
  BY <1>1, <1>2, <1>3

LEMMA MintedGrows ==
  ASSUME \/ \E n \in Node : CompleteStep(n) \/ \E s \in Slot : TaskStep(n, s)
         \/ \E ch \in Channel : LoopStep(ch)
  PROVE  minted \subseteq minted'
<1>1. ASSUME NEW n \in Node, CompleteStep(n) PROVE minted' = minted
  BY <1>1 DEF CompleteStep, Complete
<1>2. ASSUME NEW n \in Node, NEW s \in Slot, TaskStep(n, s) PROVE minted \subseteq minted'
  BY <1>2 DEF TaskStep, HandleFileEvent, HashFile, LookUpChanged, CreateAndSeed,
     HandlerFails, PutChanged, LookUpDeleted, PutDeleted, SendTo
<1>3. ASSUME NEW ch \in Channel, LoopStep(ch) PROVE minted' = minted
  BY <1>3 DEF LoopStep, Receive, HandleAnnounce, ForkFile, RegisterLeech, LeechFails,
     HandleTombstone, RemoveFile, MarkTombstone
<1> QED
  BY <1>1, <1>2, <1>3

LEMMA TurnStep ==
  ASSUME Turns, TypeOK, TurnInv,
         \/ \E n \in Node : CompleteStep(n) \/ \E s \in Slot : TaskStep(n, s)
         \/ \E ch \in Channel : LoopStep(ch)
  PROVE  TurnPhase'
<1>0. \A n \in Node : ~paused[n]
  BY DEF TurnInv
<1>1. CASE Rest
  BY <1>1, RestWaits
<1>2. ASSUME NEW a \in Node, Writing(a) PROVE TurnPhase'
  <2>1. PICK n \in Node, s \in Slot : TaskStep(n, s)
    BY <1>2, WritingWaits
  <2> QED
    BY <1>0, <1>2, <2>1, WritingStep
<1>3. ASSUME NEW a \in Node, Deleting(a, ClockOf(store[a])) PROVE TurnPhase'
  <2>1. PICK B \in Clock : B = ClockOf(store[a])
    BY ClockOfType DEF TypeOK
  <2>2. Deleting(a, B)
    BY <1>3, <2>1
  <2>3. Deleting(a, B)'
    BY <1>0, <2>2, DeletingStep
  <2> QED
    BY <2>3, DeletingGoesOn
<1>4. ASSUME NEW msg \in minted, Spreading(msg) PROVE TurnPhase'
  <2>1. msg \in Announce
    BY <1>4 DEF TypeOK, Spreading, Message, Tombstone
  <2>2. Spreading(msg)'
    BY <1>0, <1>4, <2>1, SpreadingStep
  <2>3. msg \in minted'
    BY <1>4, MintedGrows
  <2> QED
    BY <2>2, <2>3 DEF TurnPhase
<1> QED
  BY <1>1, <1>2, <1>3, <1>4 DEF TurnInv, TurnPhase

\* In no phase is an announcement concurrent with a record.
LEMMA NothingConcurrent ==
  ASSUME TurnPhase, NEW ch \in Channel
  PROVE  ~ForkFile(ch)
<1>0. Idle.stage = "idle"
  BY DEF Idle
<1>1. loop[ch].stage # "conflict"
  BY <1>0 DEF TurnPhase, Rest, Quiescent, Writing, Deleting, DeleteLoop, Spreading,
     SpreadLoop
<1> QED
  BY <1>1 DEF ForkFile

LEMMA TurnInvInit ==
  ASSUME Init
  PROVE  TurnInv
<1>1. ~Live(NoRecord)
  BY DEF Live
<1>2. Rest
  BY <1>1 DEF Init, Rest, Quiescent, Agreed, Clean
<1> QED
  BY <1>2 DEF TurnInv, TurnPhase, Init

LEMMA TurnInvStep ==
  ASSUME Turns, TypeOK, TurnInv, [Next]_vars
  PROVE  TurnInv'
<1>1. CASE UNCHANGED vars
  <2>1. /\ disk' = disk /\ event' = event /\ task' = task /\ store' = store
        /\ queue' = queue /\ loop' = loop /\ pending' = pending
        /\ forks' = forks /\ paused' = paused /\ minted' = minted
    BY <1>1 DEF vars
  <2>2. CASE Rest
    <3>1. Rest'
      BY <2>1, <2>2 DEF Rest, Quiescent, Agreed, Clean
    <3> QED
      BY <2>1, <3>1 DEF TurnInv, TurnPhase
  <2>3. ASSUME NEW a \in Node, Writing(a) PROVE TurnInv'
    <3>1. Writing(a)'
      BY <2>1, <2>3 DEF Writing, Agreed, Clean, Changing
    <3> QED
      BY <2>1, <3>1 DEF TurnInv, TurnPhase
  <2>4. ASSUME NEW a \in Node, Deleting(a, ClockOf(store[a])) PROVE TurnInv'
    <3>1. Deleting(a, ClockOf(store[a]))'
      BY <2>1, <2>4 DEF Deleting, DeleteTask, DeleteLoop, Remaining, Announcing, Gone,
         ToSend, Inbound
    <3> QED
      BY <2>1, <3>1 DEF TurnInv, TurnPhase
  <2>5. ASSUME NEW msg \in minted, Spreading(msg) PROVE TurnInv'
    <3>1. Spreading(msg)'
      BY <2>1, <2>5 DEF Spreading, SpreadTask, SpreadLoop, Reached, Has, Below, ToSend,
         Inbound
    <3> QED
      BY <2>1, <3>1 DEF TurnInv, TurnPhase
  <2> QED
    BY <2>2, <2>3, <2>4, <2>5 DEF TurnInv, TurnPhase
<1>2. CASE Next
  <2>1. /\ \A n \in Node : ~Pause(n) /\ ~Crash(n)
        /\ \A ch \in Channel : ~Disconnect(ch)
    BY SyncerAssumption DEF Turns, Pause, Crash, Disconnect, TypeOK
  <2>2. TurnPhase'
    <3>1. CASE \E n \in Node : UserStep(n)
      BY <3>1, UserStarts DEF TurnInv
    <3>2. CASE ~\E n \in Node : UserStep(n)
      BY <1>2, <2>1, <3>2, TurnStep DEF Next
    <3> QED
      BY <3>1, <3>2
  <2>3. UNCHANGED <<forks, paused>>
    <3>1. ASSUME NEW n \in Node, UserStep(n) \/ CompleteStep(n)
          PROVE  UNCHANGED <<forks, paused>>
      BY <3>1 DEF UserStep, WriteFile, DeleteFile, CompleteStep, Complete
    <3>2. ASSUME NEW n \in Node, NEW s \in Slot, TaskStep(n, s)
          PROVE  UNCHANGED <<forks, paused>>
      BY <3>2 DEF TaskStep, LocalOnly, HandleFileEvent, HashFile, LookUpChanged,
         CreateAndSeed, HandlerFails, PutChanged, LookUpDeleted, PutDeleted, SendTo
    <3>3. ASSUME NEW ch \in Channel, LoopStep(ch)
          PROVE  UNCHANGED <<forks, paused>>
      BY <3>3, NothingConcurrent DEF TurnInv, LoopStep, Receive, HandleAnnounce,
         RegisterLeech, LeechFails, HandleTombstone, RemoveFile, MarkTombstone
    <3> QED
      BY <1>2, <2>1, <3>1, <3>2, <3>3 DEF Next
  <2> QED
    BY <2>2, <2>3 DEF TurnInv
<1> QED
  BY <1>1, <1>2

LEMMA TurnInvHolds ==
  ASSUME Turns
  PROVE  Spec => [](TypeOK /\ TurnInv)
<1>1. Spec => []TypeOK
  BY TypeCorrect
<1>2. TypeOK /\ TurnInv /\ [Next]_vars => TurnInv'
  BY TurnInvStep
<1>3. Init => TurnInv
  BY TurnInvInit
<1> QED
  BY <1>1, <1>2, <1>3, PTL DEF Spec

\* Nodes agree at rest, whatever was written, deleted and created again before.
THEOREM QuiescentConvergedHolds ==
  ASSUME Turns
  PROVE  Spec => []QuiescentConverged
<1>1. TypeOK /\ TurnInv => QuiescentConverged
  <2> SUFFICES ASSUME TypeOK, TurnInv, Quiescent, NEW n \in Node, NEW m \in Node
               PROVE  /\ Live(store[n]) <=> Live(store[m])
                      /\ Live(store[n]) => /\ store[n].hash = store[m].hash
                                           /\ store[n].vc = store[m].vc
    BY DEF QuiescentConverged
  <2>1. Agreed
    BY QuiescentIsRest DEF TurnInv, Rest
  <2> QED
    BY <2>1 DEF Agreed, ClockOf, Live
<1> QED
  BY <1>1, TurnInvHolds, PTL

\* A path that is recorded as deleted is on no disk at rest.
THEOREM TombstoneReachesDiskHolds ==
  ASSUME Turns
  PROVE  Spec => []TombstoneReachesDisk
<1>1. TypeOK /\ TurnInv => TombstoneReachesDisk
  BY QuiescentIsRest DEF TurnInv, Rest, Clean, TombstoneReachesDisk
<1> QED
  BY <1>1, TurnInvHolds, PTL

\* A conflict copy is never made while users take turns.
THEOREM TurnsNeverFork ==
  ASSUME Turns
  PROVE  Spec => [](\A n \in Node : forks[n] = {})
<1>1. TypeOK /\ TurnInv => \A n \in Node : forks[n] = {}
  BY DEF TurnInv
<1> QED
  BY <1>1, TurnInvHolds, PTL

NeverBack == \A n \in Node : Leq(ClockOf(store[n]), ClockOf(store'[n]))

\* The two steps that put a clock of their own: a local change reads the record
\* it replaces, and a completion brings what every record is older than.
LEMMA TurnsPutForward ==
  ASSUME Turns, TypeOK, TurnPhase, NEW n \in Node, NEW s \in Slot, PutChanged(n, s)
  PROVE  Leq(ClockOf(store[n]), ClockOf(store'[n]))
<1>0. Idle.stage = "idle"
  BY DEF Idle
<1>1. task[n][s].snap = store[n]
  <2>1. task[n][s].stage = "seeded"
    BY DEF PutChanged
  <2>2. \E a \in Node : Writing(a)
    BY <1>0, <2>1 DEF TurnPhase, Rest, Quiescent, Deleting, DeleteTask, Spreading,
       SpreadTask
  <2> QED
    BY <1>0, <2>1, <2>2 DEF Writing, Changing
<1>2. PICK msg \in Announce :
        /\ msg.vc = NextClock(n, task[n][s].snap)
        /\ store' = [store EXCEPT ![n] = Version(msg.hash, msg.info, msg.vc)]
  BY PutChangedMessage DEF PutChanged
<1>3. ClockOf(store[n]) \in Clock /\ msg.vc = Bump(ClockOf(store[n]), n)
  BY <1>1, <1>2, ClockOfType DEF TypeOK, NextClock
<1>4. ClockOf(store'[n]) = msg.vc
  BY <1>2, VersionLive DEF TypeOK, Announce, Live, ClockOf
<1>5. msg.vc \in Clock /\ Leq(ClockOf(store[n]), msg.vc)
  BY <1>2, <1>3, BumpIsNewer, CompareDecidesOrder DEF Announce
<1> QED
  BY <1>4, <1>5

LEMMA TurnsCompleteForward ==
  ASSUME Turns, TypeOK, TurnPhase, NEW n \in Node, NEW cb, Complete(n, cb)
  PROVE  Leq(ClockOf(store[n]), ClockOf(store'[n]))
<1>1. PICK msg \in minted : Spreading(msg)
  BY EmptyIsABag DEF TurnPhase, Complete, Rest, Quiescent, Writing, Deleting
<1>2. msg \in Announce /\ cb \in Closure /\ cb.msg = msg /\ Below(cb.snap, msg)
  BY <1>1 DEF Complete, TypeOK, Spreading, Message, Tombstone
<1>3. MergedClock(cb) = msg.vc
  BY <1>2, ClockOfType, MergeAbsorbs DEF MergedClock, Closure, Announce, Below
<1>4. ClockOf(store'[n]) = msg.vc
  <2>1. store'[n] = Version(msg.hash, msg.info, msg.vc)
    BY <1>2, <1>3 DEF Complete, TypeOK
  <2> QED
    BY <1>2, <2>1, VersionLive DEF Announce, Live, ClockOf
<1>5. Leq(ClockOf(store[n]), msg.vc)
  <2>1. CASE Has(n, msg)
    <3>1. ClockOf(store[n]) = msg.vc
      BY <2>1 DEF Has, Live, ClockOf
    <3> QED
      BY <1>2, <3>1, LeqReflexive DEF Announce
  <2>2. CASE Below(store[n], msg)
    BY <2>2 DEF Below
  <2> QED
    BY <1>1, <2>1, <2>2 DEF Spreading, Reached
<1> QED
  BY <1>4, <1>5

LEMMA TurnsForward ==
  ASSUME Turns, TypeOK, TurnInv, [Next]_vars
  PROVE  NeverBack
<1>0. /\ store \in [Node -> MaybeRecord]
      /\ \A n \in Node : ClockOf(store[n]) \in Clock
  BY ClockOfType DEF TypeOK
<1>1. ASSUME NEW n \in Node, NEW r, store' = [store EXCEPT ![n] = r],
             Leq(ClockOf(store[n]), ClockOf(store'[n]))
      PROVE  NeverBack
  BY <1>0, <1>1, LeqReflexive DEF NeverBack
<1>2. ASSUME store' = store PROVE NeverBack
  BY <1>0, <1>2, LeqReflexive DEF NeverBack
<1>3. ASSUME NEW n \in Node, store' = [store EXCEPT ![n] = MarkDeleted(store[n])]
      PROVE  NeverBack
  <2>1. ClockOf(store'[n]) = ClockOf(store[n])
    BY <1>0, <1>3, MarkDeletedNotLive
  <2> QED
    BY <1>0, <1>1, <1>3, <2>1, LeqReflexive
<1>4. ASSUME NEW n \in Node, CompleteStep(n) PROVE NeverBack
  <2>1. PICK cb : Complete(n, cb)
    BY <1>4 DEF CompleteStep
  <2>2. Leq(ClockOf(store[n]), ClockOf(store'[n]))
    BY <2>1, TurnsCompleteForward DEF TurnInv
  <2>3. store' = [store EXCEPT ![n] = Version(cb.msg.hash, cb.msg.info, MergedClock(cb))]
    BY <2>1 DEF Complete
  <2> QED
    BY <1>1, <2>2, <2>3
<1>5. ASSUME NEW n \in Node, NEW s \in Slot, TaskStep(n, s) PROVE NeverBack
  <2>1. CASE PutChanged(n, s)
    <3>1. Leq(ClockOf(store[n]), ClockOf(store'[n]))
      BY <2>1, TurnsPutForward DEF TurnInv
    <3>2. PICK r : store' = [store EXCEPT ![n] = r]
      BY <2>1 DEF PutChanged
    <3> QED
      BY <1>1, <3>1, <3>2
  <2>2. CASE PutDeleted(n, s)
    BY <1>3, <2>2 DEF PutDeleted
  <2>3. CASE ~PutChanged(n, s) /\ ~PutDeleted(n, s)
    BY <1>2, <1>5, <2>3 DEF TaskStep, HandleFileEvent, HashFile, LookUpChanged,
       CreateAndSeed, HandlerFails, LookUpDeleted, SendTo
  <2> QED
    BY <2>1, <2>2, <2>3
<1>6. ASSUME NEW ch \in Channel, LoopStep(ch) PROVE NeverBack
  <2>1. CASE MarkTombstone(ch)
    BY <1>3, <2>1, ChannelEnds DEF MarkTombstone
  <2>2. CASE ~MarkTombstone(ch)
    BY <1>2, <1>6, <2>2 DEF LoopStep, Receive, HandleAnnounce, ForkFile, RegisterLeech,
       LeechFails, HandleTombstone, RemoveFile
  <2> QED
    BY <2>1, <2>2
<1>7. ASSUME NEW n \in Node, UserStep(n) \/ Pause(n) \/ Crash(n) PROVE NeverBack
  BY <1>2, <1>7 DEF UserStep, WriteFile, DeleteFile, Pause, Crash
<1>8. ASSUME NEW ch \in Channel, Disconnect(ch) PROVE NeverBack
  BY <1>2, <1>8 DEF Disconnect
<1> QED
  BY <1>2, <1>4, <1>5, <1>6, <1>7, <1>8 DEF Next, vars

\* No record's clock ever loses a change while users take turns.
THEOREM TurnsClocksGrow ==
  ASSUME Turns
  PROVE  Spec => [][NeverBack]_vars
<1>1. TypeOK /\ TurnInv /\ [Next]_vars => [NeverBack]_vars
  BY TurnsForward
<1> QED
  BY <1>1, TurnInvHolds, PTL DEF Spec

-----------------------------------------------------------------------------
(***************************************************************************)
(* Conflict copies, in every swarm. As long as no two announcements are    *)
(* concurrent, every clock that is stored, or captured for a download, is  *)
(* that of an announcement or Zero: a local change announces the clock it  *)
(* stores, the clock of a tombstone is never stored, and a merge of two    *)
(* ordered clocks is the later one. So no comparison finds a conflict.     *)
(***************************************************************************)
\* No two announcements are concurrent.
Chain ==
  \A v, w \in minted : v.type = "announce" /\ w.type = "announce"
    => Compare(v.vc, w.vc) # "concurrent"

\* The clock of an announcement, or of no record.
Known(V, c) == c = Zero \/ \E v \in V : v.type = "announce" /\ v.vc = c

StoreChain   == \A n \in Node : Known(minted, ClockOf(store[n]))
LoopChain    == \A ch \in Channel :
                  /\ loop[ch].stage # "conflict"
                  /\ loop[ch].stage = "leech" => Known(minted, ClockOf(loop[ch].snap))
PendingChain == \A n \in Node : \A cb \in BagToSet(pending[n]) :
                  Known(minted, ClockOf(cb.snap))
NoForks      == \A n \in Node : forks[n] = {}

ChainInv == Chain => StoreChain /\ LoopChain /\ PendingChain /\ NoForks

LEMMA KnownGrows ==
  ASSUME NEW V, NEW W, V \subseteq W, NEW c, Known(V, c)
  PROVE  Known(W, c)
BY DEF Known

\* Of two clocks in a chain one includes the other.
LEMMA KnownOrdered ==
  ASSUME TypeOK, Chain, NEW c, NEW d, Known(minted, c), Known(minted, d)
  PROVE  /\ c \in Clock /\ d \in Clock
         /\ Compare(c, d) # "concurrent"
         /\ Leq(c, d) \/ Leq(d, c)
<1>1. \A v \in minted : v.vc \in Clock
  BY DEF TypeOK, Message, Announce, Tombstone
<1>2. c \in Clock /\ d \in Clock
  BY <1>1, ZeroType DEF Known
<1>3. \A e \in Clock : Leq(Zero, e)
  BY DEF Leq, Zero, Clock
<1>4. CASE c = Zero \/ d = Zero
  BY <1>2, <1>3, <1>4, ZeroType, CompareDecidesOrder
<1>5. CASE c # Zero /\ d # Zero
  <2>1. Compare(c, d) # "concurrent"
    BY <1>5 DEF Known, Chain
  <2> QED
    BY <1>2, <2>1, CompareDecidesOrder
<1> QED
  BY <1>2, <1>4, <1>5

LEMMA KnownMerge ==
  ASSUME TypeOK, Chain, NEW c, NEW d, Known(minted, c), Known(minted, d)
  PROVE  Known(minted, Merge(c, d))
<1>1. c \in Clock /\ d \in Clock /\ (Leq(c, d) \/ Leq(d, c))
  BY KnownOrdered
<1>2. CASE Leq(c, d)
  BY <1>1, <1>2, MergeAbsorbs
<1>3. CASE Leq(d, c)
  <2>1. ASSUME NEW k \in Node PROVE (IF d[k] > c[k] THEN d[k] ELSE c[k]) = c[k]
    <3>1. c[k] \in Nat /\ d[k] \in Nat /\ d[k] <= c[k]
      BY <1>1, <1>3 DEF Leq, Clock
    <3> QED
      BY <3>1
  <2>2. Merge(c, d) = c
    BY <1>1, <2>1 DEF Merge, Clock
  <2> QED
    BY <2>2
<1> QED
  BY <1>1, <1>2, <1>3

\* What a step leaves of the invariant, one place at a time: minted only grows.
LEMMA ChainKept ==
  ASSUME TypeOK, minted \subseteq minted', StoreChain, LoopChain, PendingChain
  PROVE  /\ store' = store => StoreChain'
         /\ loop' = loop => LoopChain'
         /\ pending' = pending => PendingChain'
BY KnownGrows DEF StoreChain, LoopChain, PendingChain

LEMMA ChainLoop ==
  ASSUME TypeOK, LoopChain, minted' = minted, NEW ch \in Channel, NEW st, SetLoop(ch, st),
         st.stage # "conflict",
         st.stage = "leech" => Known(minted, ClockOf(st.snap))
  PROVE  LoopChain'
BY SetLoopEntry DEF LoopChain

LEMMA ChainStore ==
  ASSUME TypeOK, StoreChain, minted \subseteq minted', NEW n \in Node, NEW r,
         store' = [store EXCEPT ![n] = r], Known(minted', ClockOf(r))
  PROVE  StoreChain'
BY KnownGrows DEF StoreChain, TypeOK

LEMMA ChainTask ==
  ASSUME IInv, StoreChain, LoopChain, PendingChain, NoForks, NEW n \in Node,
         NEW s \in Slot, TaskStep(n, s)
  PROVE  StoreChain' /\ LoopChain' /\ PendingChain' /\ NoForks'
<1>1. UNCHANGED <<loop, pending, forks>> /\ minted \subseteq minted'
  BY DEF TaskStep, LocalOnly, HandleFileEvent, HashFile, LookUpChanged, CreateAndSeed,
     HandlerFails, PutChanged, LookUpDeleted, PutDeleted, SendTo
<1>2. LoopChain' /\ PendingChain' /\ NoForks'
  BY <1>1, ChainKept DEF IInv, NoForks
<1>3. CASE PutChanged(n, s)
  <2>1. PICK msg \in Announce :
          /\ store' = [store EXCEPT ![n] = Version(msg.hash, msg.info, msg.vc)]
          /\ minted' = minted \cup {msg}
    BY <1>3, PutChangedMessage DEF PutChanged, IInv
  <2>2. ClockOf(Version(msg.hash, msg.info, msg.vc)) = msg.vc /\ msg.type = "announce"
    BY <2>1, VersionLive DEF Announce, Live, ClockOf
  <2>3. Known(minted', msg.vc)
    BY <2>1, <2>2 DEF Known
  <2> QED
    BY <1>1, <1>2, <2>1, <2>2, <2>3, ChainStore DEF IInv
<1>4. CASE PutDeleted(n, s)
  <2>1. store' = [store EXCEPT ![n] = MarkDeleted(store[n])]
    BY <1>4 DEF PutDeleted
  <2>2. ClockOf(MarkDeleted(store[n])) = ClockOf(store[n])
    BY MarkDeletedNotLive DEF IInv, TypeOK
  <2>3. Known(minted', ClockOf(store[n]))
    BY <1>1, KnownGrows DEF StoreChain
  <2> QED
    BY <1>1, <1>2, <2>1, <2>2, <2>3, ChainStore DEF IInv
<1>5. CASE ~PutChanged(n, s) /\ ~PutDeleted(n, s)
  <2>1. store' = store
    BY <1>5 DEF TaskStep, LocalOnly, HandleFileEvent, HashFile, LookUpChanged,
       CreateAndSeed, HandlerFails, LookUpDeleted, SendTo
  <2> QED
    BY <1>1, <1>2, <2>1, ChainKept DEF IInv
<1> QED
  BY <1>3, <1>4, <1>5

\* No handler takes an announcement for concurrent with its node's record.
LEMMA ChainHandle ==
  ASSUME IInv, Chain, StoreChain, LoopChain, NEW ch \in Channel, HandleAnnounce(ch)
  PROVE  LoopChain'
<1> DEFINE n == To(ch)
           v == Verdict(loop[ch].msg, store[n])
<1>1. n \in Node /\ Known(minted, ClockOf(store[n]))
  BY ChannelEnds DEF StoreChain
<1>2. loop[ch] \in OfAnnounce /\ loop[ch].msg \in minted /\ loop[ch].msg.type = "announce"
  BY MessageInHand DEF HandleAnnounce, IInv, HistoryInv, PlacesInv, LoopInv
<1>3. Live(store[n]) => Compare(loop[ch].msg.vc, store[n].vc) # "concurrent"
  <2>1. Known(minted, loop[ch].msg.vc)
    BY <1>2 DEF Known
  <2> QED
    BY <1>1, <2>1, KnownOrdered DEF Live, ClockOf, IInv
<1>4. v \in {"skip", "leech"}
  BY <1>3 DEF Verdict
<1> DEFINE st == IF v = "skip" THEN Idle
                 ELSE [loop[ch] EXCEPT !.stage = v, !.snap = store[n]]
<1>5. SetLoop(ch, st) /\ minted' = minted
  BY DEF HandleAnnounce
<1>6. /\ st.stage # "conflict"
      /\ st.stage = "leech" => Known(minted, ClockOf(st.snap))
  <2>1. Idle.stage = "idle"
    BY DEF Idle
  <2>2. CASE v = "skip"
    BY <2>1, <2>2
  <2>3. CASE v = "leech"
    <3>1. st.stage = "leech" /\ st.snap = store[n]
      BY <1>2, <2>3 DEF OfAnnounce
    <3> QED
      BY <1>1, <3>1
  <2> QED
    BY <1>4, <2>2, <2>3
<1> HIDE DEF st
<1> QED
  BY <1>5, <1>6, ChainLoop DEF IInv

LEMMA ChainRegister ==
  ASSUME IInv, LoopChain, PendingChain, NEW ch \in Channel, RegisterLeech(ch)
  PROVE  PendingChain'
<1> DEFINE n == To(ch)
           cb == [snap |-> loop[ch].snap, msg |-> loop[ch].msg]
<1>1. n \in Node /\ IsABag(pending[n]) /\ DOMAIN pending = Node
  BY ChannelEnds DEF IInv, TypeOK
<1>2. Known(minted, ClockOf(cb.snap))
  BY DEF RegisterLeech, LoopChain
<1>3. /\ pending' = [pending EXCEPT ![n] = pending[n] (+) SetToBag({cb})]
      /\ minted' = minted
  BY DEF RegisterLeech
<1> HIDE DEF cb, n
<1>4. /\ BagToSet(pending'[n]) = BagToSet(pending[n]) \cup {cb}
      /\ \A k \in Node : k # n => pending'[k] = pending[k]
  BY <1>1, <1>3, RegisterInBag
<1> QED
  BY <1>2, <1>3, <1>4 DEF PendingChain

LEMMA ChainLoopStep ==
  ASSUME IInv, Chain, StoreChain, LoopChain, PendingChain, NoForks, NEW ch \in Channel,
         LoopStep(ch)
  PROVE  StoreChain' /\ LoopChain' /\ PendingChain' /\ NoForks'
<1>0. Idle.stage = "idle" /\ TypeOK /\ loop[ch] \in LoopState
  BY DEF Idle, IInv, TypeOK
<1>1. minted' = minted
  BY DEF LoopStep, Receive, HandleAnnounce, ForkFile, RegisterLeech, LeechFails,
     HandleTombstone, RemoveFile, MarkTombstone
<1>2. ~ForkFile(ch)
  BY DEF ForkFile, LoopChain
<1>3. NoForks'
  BY <1>2 DEF NoForks, LoopStep, Receive, HandleAnnounce, RegisterLeech, LeechFails,
     HandleTombstone, RemoveFile, MarkTombstone
<1>4. StoreChain'
  <2>1. CASE MarkTombstone(ch)
    <3>1. PICK n \in Node : n = To(ch)
      BY ChannelEnds
    <3>2. store' = [store EXCEPT ![n] = MarkDeleted(store[n])]
      BY <2>1, <3>1 DEF MarkTombstone
    <3>3. ClockOf(MarkDeleted(store[n])) = ClockOf(store[n])
      BY <1>0, MarkDeletedNotLive DEF TypeOK
    <3> QED
      BY <1>0, <1>1, <3>2, <3>3, ChainStore DEF StoreChain
  <2>2. CASE ~MarkTombstone(ch)
    <3>1. store' = store
      BY <2>2 DEF LoopStep, Receive, HandleAnnounce, ForkFile, RegisterLeech,
         LeechFails, HandleTombstone, RemoveFile
    <3> QED
      BY <1>0, <1>1, <3>1, ChainKept
  <2> QED
    BY <2>1, <2>2
<1>5. PendingChain'
  <2>1. RegisterLeech(ch) \/ pending' = pending
    BY DEF LoopStep, Receive, HandleAnnounce, ForkFile, LeechFails, HandleTombstone,
       RemoveFile, MarkTombstone
  <2> QED
    BY <1>0, <1>1, <2>1, ChainRegister, ChainKept
<1>6. LoopChain'
  <2>1. CASE HandleAnnounce(ch)
    BY <2>1, ChainHandle
  <2>2. ASSUME NEW st, SetLoop(ch, st), st.stage \in {"idle", "received", "remove", "mark"}
        PROVE  LoopChain'
    BY <1>0, <1>1, <2>2, ChainLoop
  <2>3. CASE Receive(ch)
    <3>1. PICK st : st = [stage |-> "received", msg |-> Head(queue[ch]), snap |-> NoRecord]
      OBVIOUS
    <3>2. st.stage = "received"
      BY <3>1
    <3>3. SetLoop(ch, st) \/ loop' = loop
      BY <2>3, <3>1 DEF Receive
    <3> QED
      BY <1>0, <1>1, <2>2, <3>2, <3>3, ChainKept
  <2>4. CASE RegisterLeech(ch) \/ LeechFails(ch) \/ MarkTombstone(ch)
    BY <1>0, <2>2, <2>4 DEF RegisterLeech, LeechFails, MarkTombstone
  <2>5. CASE HandleTombstone(ch) \/ RemoveFile(ch)
    <3>1. loop[ch] \in OfTombstone
      BY <1>0, <2>5, MessageInHand, LoopAtStage DEF HandleTombstone, RemoveFile
    <3>2. \A g \in {"remove", "mark"} : [loop[ch] EXCEPT !.stage = g].stage = g
      BY <3>1 DEF OfTombstone
    <3> QED
      BY <1>0, <2>2, <2>5, <3>2 DEF HandleTombstone, RemoveFile
  <2> QED
    BY <1>2, <2>1, <2>3, <2>4, <2>5 DEF LoopStep
<1> QED
  BY <1>3, <1>4, <1>5, <1>6

\* A completion merges two clocks of the chain: the result is one of them.
LEMMA ChainComplete ==
  ASSUME IInv, Chain, StoreChain, LoopChain, PendingChain, NoForks, NEW n \in Node,
         CompleteStep(n)
  PROVE  StoreChain' /\ LoopChain' /\ PendingChain' /\ NoForks'
<1>1. PICK cb \in BagToSet(pending[n]) : Complete(n, cb)
  BY DEF CompleteStep
<1>2. /\ cb \in Closure /\ cb.msg \in minted /\ cb.msg.type = "announce"
      /\ Known(minted, ClockOf(cb.snap))
  BY DEF IInv, TypeOK, HistoryInv, PlacesInv, PendingInv, PendingChain, Closure, Announce
<1>3. Known(minted, MergedClock(cb)) /\ MergedClock(cb) \in Clock
  <2>1. Known(minted, cb.msg.vc)
    BY <1>2 DEF Known
  <2> QED
    BY <1>2, <2>1, KnownMerge, MergedClockType DEF MergedClock, IInv
<1>4. PICK r : /\ r = Version(cb.msg.hash, cb.msg.info, MergedClock(cb))
               /\ store' = [store EXCEPT ![n] = r]
  BY <1>1 DEF Complete
<1>5. ClockOf(r) = MergedClock(cb)
  BY <1>2, <1>3, <1>4, VersionLive DEF Live, ClockOf, Closure, Announce
<1>6. UNCHANGED <<loop, forks, minted>>
  BY <1>1 DEF Complete
<1>7. StoreChain'
  BY <1>3, <1>4, <1>5, <1>6, ChainStore DEF IInv
<1>8. PendingChain'
  <2>1. pending' = [pending EXCEPT ![n] = pending[n] (-) SetToBag({cb})]
    BY <1>1 DEF Complete
  <2>2. IsABag(pending[n]) /\ DOMAIN pending = Node
    BY DEF IInv, TypeOK
  <2>3. \A k \in Node : BagToSet(pending'[k]) \subseteq BagToSet(pending[k])
    BY <2>1, <2>2, TakeFromBag
  <2> QED
    BY <1>6, <2>3 DEF PendingChain
<1> QED
  BY <1>6, <1>7, <1>8, ChainKept DEF NoForks, IInv

LEMMA ChainCrash ==
  ASSUME IInv, StoreChain, LoopChain, PendingChain, NoForks, NEW n \in Node, Crash(n)
  PROVE  StoreChain' /\ LoopChain' /\ PendingChain' /\ NoForks'
<1>1. UNCHANGED <<store, forks, minted>>
  BY DEF Crash
<1>2. Idle.stage = "idle"
  BY DEF Idle
<1>3. LoopChain'
  <2>1. \A ch \in Channel : loop'[ch] = loop[ch] \/ loop'[ch] = Idle
    BY DEF Crash
  <2> QED
    BY <1>1, <1>2, <2>1 DEF LoopChain
<1>4. PendingChain'
  <2>1. \A k \in Node : pending'[k] = pending[k] \/ pending'[k] = EmptyBag
    BY DEF Crash, IInv, TypeOK
  <2> QED
    BY <1>1, <2>1, EmptyIsABag DEF PendingChain
<1> QED
  BY <1>1, <1>3, <1>4, ChainKept DEF IInv, NoForks

LEMMA ChainInvStep ==
  ASSUME IInv, ChainInv, [Next]_vars
  PROVE  ChainInv'
<1>1. minted \subseteq minted'
  <2>1. CASE Next
    <3>1. ASSUME NEW n \in Node, UserStep(n) \/ CompleteStep(n) \/ Pause(n) \/ Crash(n)
          PROVE  minted' = minted
      BY <3>1 DEF UserStep, WriteFile, DeleteFile, CompleteStep, Complete, Pause, Crash
    <3>2. ASSUME NEW n \in Node, NEW s \in Slot, TaskStep(n, s)
          PROVE  minted \subseteq minted'
      BY <3>2 DEF TaskStep, LocalOnly, HandleFileEvent, HashFile, LookUpChanged,
         CreateAndSeed, HandlerFails, PutChanged, LookUpDeleted, PutDeleted, SendTo
    <3>3. ASSUME NEW ch \in Channel, LoopStep(ch) \/ Disconnect(ch)
          PROVE  minted' = minted
      BY <3>3 DEF LoopStep, Disconnect, Receive, HandleAnnounce, ForkFile, RegisterLeech,
         LeechFails, HandleTombstone, RemoveFile, MarkTombstone
    <3> QED
      BY <2>1, <3>1, <3>2, <3>3 DEF Next
  <2> QED
    BY <2>1 DEF vars
<1> SUFFICES ASSUME Chain'
             PROVE  StoreChain' /\ LoopChain' /\ PendingChain' /\ NoForks'
  BY DEF ChainInv
<1>2. Chain /\ StoreChain /\ LoopChain /\ PendingChain /\ NoForks
  BY <1>1 DEF Chain, ChainInv
<1>3. ASSUME UNCHANGED <<store, loop, pending, forks>>
      PROVE  StoreChain' /\ LoopChain' /\ PendingChain' /\ NoForks'
  BY <1>1, <1>2, <1>3, ChainKept DEF NoForks, IInv
<1>4. ASSUME NEW n \in Node, UserStep(n) \/ Pause(n)
      PROVE  UNCHANGED <<store, loop, pending, forks>>
  BY <1>4 DEF UserStep, WriteFile, DeleteFile, Pause
<1>5. ASSUME NEW ch \in Channel, Disconnect(ch)
      PROVE  UNCHANGED <<store, loop, pending, forks>>
  BY <1>5 DEF Disconnect
<1>6. CASE UNCHANGED vars
  BY <1>3, <1>6 DEF vars
<1>7. CASE Next
  BY <1>2, <1>3, <1>4, <1>5, <1>7, ChainTask, ChainLoopStep, ChainComplete, ChainCrash
     DEF Next
<1> QED
  BY <1>6, <1>7

\* A conflict copy is made only if two announcements are concurrent, whatever
\* is lost, reordered or forgotten.
THEOREM ForkedByConflictHolds == Spec => []ForkedByConflict
<1>1. IInv /\ ChainInv /\ [Next]_vars => ChainInv'
  BY ChainInvStep
<1>2. Init => ChainInv
  <2> SUFFICES ASSUME Init PROVE ChainInv
    OBVIOUS
  <2>1. ClockOf(NoRecord) = Zero /\ Idle.stage = "idle"
    BY DEF ClockOf, Idle
  <2> QED
    BY <2>1, EmptyIsABag DEF Init, ChainInv, StoreChain, LoopChain, PendingChain,
       NoForks, Known
<1>3. ChainInv => ForkedByConflict
  BY DEF ChainInv, Chain, NoForks, ForkedByConflict
<1> QED
  BY <1>1, <1>2, <1>3, Inductive, PTL DEF Spec
=============================================================================
