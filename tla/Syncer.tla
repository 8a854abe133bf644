------------------------------- MODULE Syncer -------------------------------
(***************************************************************************)
(* The coordinator of internal/sync/syncer.go on every node of a swarm,    *)
(* for one path.  Paths share nothing but the connections: a handler reads *)
(* and writes the record and the file of its own path only.                *)
(*                                                                         *)
(* Three kinds of goroutine work on a node's record and file, with no lock *)
(* that spans two of their steps:                                          *)
(*   - the watcher's timer callbacks (HandleFileEvent), one per Slot;      *)
(*   - a gossip read loop for every connection (handleGossipMessage);      *)
(*   - the engine's completion callbacks, registered by handleAnnounce.    *)
(* Each step below is one access to the store, the file, the engine or a   *)
(* connection; what a handler has read before is in its stage record.      *)
(***************************************************************************)
EXTENDS FileStore, Sequences, FiniteSets, Bags

CONSTANTS
  Slot,        \* timer callbacks of one node that may run at the same time
  Lane,        \* connections a pair of nodes may have had at the same time
  Syncers,     \* syncers of a node: one for each of its sync directories
  MaxEdits,    \* bound: writes and deletions by the users, over all nodes
  MaxCrashes,  \* bound: crashes, over all nodes
  Pausable,    \* nodes whose heartbeat loop may call Pause
  Reliable,    \* TRUE: no disconnect, I/O error or crash; a broadcast reaches all
  TurnTaking   \* TRUE: users wait until the last change has been synced

ASSUME SyncerAssumption ==
  /\ MaxEdits \in Nat /\ MaxCrashes \in Nat
  /\ Pausable \subseteq Node
  /\ Reliable \in BOOLEAN /\ TurnTaking \in BOOLEAN
  /\ Reliable => MaxCrashes = 0
  /\ Syncers \in Nat \ {0}
  /\ Syncers > 1 => Reliable /\ Pausable = {}

VARIABLES
  disk,      \* disk[n]: the file at the path
  event,     \* event[n]: the event the watcher's timer will deliver
  task,      \* task[n][s]: a timer callback inside HandleFileEvent
  store,     \* store[n]: the record of the path in the node's database
  queue,     \* queue[ch]: messages sent on a connection and not yet handled
  loop,      \* loop[ch]: the read loop at the receiving end of a connection
  pending,   \* pending[n]: bag of completion callbacks registered, not yet run
  forks,     \* forks[n]: contents saved to a conflict copy
  paused,    \* paused[n]: Syncer.paused
  minted,    \* history: every version a local change has made
  edits,     \* user actions so far
  crashes    \* crashes so far

vars == <<disk, event, task, store, queue, loop, pending, forks, paused,
          minted, edits, crashes>>

-----------------------------------------------------------------------------
(* Messages, connections and the stages of the handlers.                   *)

\* AnnouncePayload and TombstonePayload; a tombstone carries no content.
Announce  == [type : {"announce"}, origin : Node, vc : Clock,
              hash : Content, info : Content]
Tombstone == [type : {"tombstone"}, origin : Node, vc : Clock,
              hash : {NoContent}, info : {NoContent}]
Message   == Announce \cup Tombstone

\* One direction of a connection: from, to, and which of the pair's lanes.
Channel == {ch \in Node \X Node \X Lane : ch[1] # ch[2]}
To(ch) == ch[2]

Idle == [stage |-> "idle"]

\* HandleFileEvent: "changed" and "deleted" are handlers just called; the
\* others have hashed the file, read the record, or read the file again.
Called  == [stage : {"changed", "deleted"}, hash : {NoContent},
            info : {NoContent}, snap : {NoRecord}]
Hashed  == [stage : {"hashed", "got"}, hash : Content,
            info : {NoContent}, snap : MaybeRecord]
Seeded  == [stage : {"seeded"}, hash : Content, info : Content,
            snap : MaybeRecord]
Marking == [stage : {"marking"}, hash : {NoContent}, info : {NoContent},
            snap : MaybeRecord]
Sending == [stage : {"sending"}, msg : Message, to : SUBSET Node]
TaskState == {Idle} \cup Called \cup Hashed \cup Seeded \cup Marking \cup Sending

\* handleGossipMessage: the message in hand and the record read for it.
\* "received" precedes the look-up; the stages after it are a handler's own.
OfAnnounce  == [stage : {"received", "conflict", "leech"}, msg : Announce,
                snap : MaybeRecord]
OfTombstone == [stage : {"received", "remove", "mark"}, msg : Tombstone,
                snap : {NoRecord}]
LoopState   == {Idle} \cup OfAnnounce \cup OfTombstone

\* What a completion callback has captured: existing and payload.
Closure == [snap : MaybeRecord, msg : Announce]

\* Every variable keeps its type, at every stage of every handler: what is
\* announced or stored as a live version has both of its hashes.
TypeOK ==
  /\ disk \in [Node -> MaybeContent]
  /\ event \in [Node -> {"none", "changed", "deleted"}]
  /\ task \in [Node -> [Slot -> TaskState]]
  /\ store \in [Node -> MaybeRecord]
  /\ queue \in [Channel -> Seq(Message)]
  /\ loop \in [Channel -> LoopState]
  /\ \A n \in Node : IsABag(pending[n]) /\ BagToSet(pending[n]) \subseteq Closure
  /\ DOMAIN pending = Node
  /\ forks \in [Node -> SUBSET Content]
  /\ paused \in [Node -> BOOLEAN]
  /\ minted \subseteq Message
  /\ edits \in Nat /\ crashes \in Nat

Init ==
  /\ disk = [n \in Node |-> NoContent]
  /\ event = [n \in Node |-> "none"]
  /\ task = [n \in Node |-> [s \in Slot |-> Idle]]
  /\ store = [n \in Node |-> NoRecord]
  /\ queue = [ch \in Channel |-> <<>>]
  /\ loop = [ch \in Channel |-> Idle]
  /\ pending = [n \in Node |-> EmptyBag]
  /\ forks = [n \in Node |-> {}]
  /\ paused = [n \in Node |-> FALSE]
  /\ minted = {}
  /\ edits = 0 /\ crashes = 0

\* Nothing is left to do anywhere.
Quiescent ==
  /\ \A n \in Node : /\ event[n] = "none"
                     /\ \A s \in Slot : task[n][s] = Idle
                     /\ pending[n] = EmptyBag
  /\ \A ch \in Channel : queue[ch] = <<>> /\ loop[ch] = Idle

-----------------------------------------------------------------------------
(* The user and the watcher's debounce timer: the last event wins.         *)

MayEdit == edits < MaxEdits /\ (TurnTaking => Quiescent)

WriteFile(n, c) ==
  /\ MayEdit
  /\ edits' = edits + 1
  /\ disk' = [disk EXCEPT ![n] = c]
  /\ event' = [event EXCEPT ![n] = "changed"]
  /\ UNCHANGED <<task, store, queue, loop, pending, forks, paused, minted, crashes>>

DeleteFile(n) ==
  /\ MayEdit
  /\ disk[n] # NoContent
  /\ edits' = edits + 1
  /\ disk' = [disk EXCEPT ![n] = NoContent]
  /\ event' = [event EXCEPT ![n] = "deleted"]
  /\ UNCHANGED <<task, store, queue, loop, pending, forks, paused, minted, crashes>>

-----------------------------------------------------------------------------
(* HandleFileEvent: handleFileChanged and handleFileDeleted.               *)

SetTask(n, s, t) == task' = [task EXCEPT ![n][s] = t]

\* A task that has only local things to do leaves all of these alone.
LocalOnly == UNCHANGED <<disk, event, queue, loop, pending, forks, paused,
                         edits, crashes>>

\* The timer fires and calls the handler; a paused syncer drops the event.
HandleFileEvent(n, s) ==
  /\ event[n] # "none"
  /\ task[n][s] = Idle
  /\ event' = [event EXCEPT ![n] = "none"]
  /\ IF paused[n]
       THEN UNCHANGED task
       ELSE SetTask(n, s, [stage |-> event[n], hash |-> NoContent,
                           info |-> NoContent, snap |-> NoRecord])
  /\ UNCHANGED <<disk, store, queue, loop, pending, forks, paused, minted,
                 edits, crashes>>

\* hashFile reads the file.
HashFile(n, s) ==
  /\ task[n][s].stage = "changed"
  /\ disk[n] # NoContent
  /\ SetTask(n, s, [task[n][s] EXCEPT !.stage = "hashed", !.hash = disk[n]])
  /\ UNCHANGED <<store, minted>> /\ LocalOnly

\* Slip: a deleted record's hash counts as the file's content.
LookUpChangedDeleted(n, s) ==
  /\ task[n][s].stage = "hashed"
  /\ LET existing == store[n] IN
       IF existing # NoRecord /\ existing.hash = task[n][s].hash
         THEN SetTask(n, s, Idle)
         ELSE SetTask(n, s, [task[n][s] EXCEPT !.stage = "got", !.snap = existing])
  /\ UNCHANGED <<store, minted>> /\ LocalOnly

\* GetFile; unchanged content ends the handler.
LookUpChanged(n, s) ==
  /\ task[n][s].stage = "hashed"
  /\ LET existing == store[n] IN
       IF Live(existing) /\ existing.hash = task[n][s].hash
         THEN SetTask(n, s, Idle)
         ELSE SetTask(n, s, [task[n][s] EXCEPT !.stage = "got", !.snap = existing])
  /\ UNCHANGED <<store, minted>> /\ LocalOnly

\* Slip: the error of a file that is gone is not looked at.
CreateAndSeedUnchecked(n, s) ==
  /\ task[n][s].stage = "got"
  /\ SetTask(n, s, [task[n][s] EXCEPT !.stage = "seeded", !.info = disk[n]])
  /\ UNCHANGED <<store, minted>> /\ LocalOnly

\* CreateAndSeed reads the file a second time.
CreateAndSeed(n, s) ==
  /\ task[n][s].stage = "got"
  /\ disk[n] # NoContent
  /\ SetTask(n, s, [task[n][s] EXCEPT !.stage = "seeded", !.info = disk[n]])
  /\ UNCHANGED <<store, minted>> /\ LocalOnly

\* hashFile, CreateAndSeed or os.Stat (after the torrent is made) finds no
\* file; or any of the calls before the broadcast fails otherwise: the handler
\* logs and returns.
HandlerFails(n, s) ==
  /\ \/ task[n][s].stage \in {"changed", "got", "seeded"} /\ disk[n] = NoContent
     \/ task[n][s].stage \in {"changed", "got", "seeded", "marking"} /\ ~Reliable
  /\ SetTask(n, s, Idle)
  /\ UNCHANGED <<store, minted>> /\ LocalOnly

\* The peers a broadcast finds connected.
Audience(n) == IF Reliable THEN {Node \ {n}} ELSE SUBSET (Node \ {n})

Broadcast(n, s, msg) ==
  \E peers \in Audience(n) :
    SetTask(n, s, IF peers = {} THEN Idle
                  ELSE [stage |-> "sending", msg |-> msg, to |-> peers])

\* The clock of a local change: the one read from the store, bumped.
NextClock(n, snap) == Bump(ClockOf(snap), n)

\* PutFile of the new version, then gossip.Broadcast takes its peer list.
PutChanged(n, s) ==
  LET t   == task[n][s]
      msg == [type |-> "announce", origin |-> n, vc |-> NextClock(n, t.snap),
              hash |-> t.hash, info |-> t.info]
  IN  /\ t.stage = "seeded"
      /\ store' = [store EXCEPT ![n] = Version(msg.hash, msg.info, msg.vc)]
      /\ minted' = minted \cup {msg}
      /\ Broadcast(n, s, msg)
      /\ LocalOnly

\* handleFileDeleted's GetFile.
LookUpDeleted(n, s) ==
  /\ task[n][s].stage = "deleted"
  /\ SetTask(n, s, [task[n][s] EXCEPT !.stage = "marking", !.snap = store[n]])
  /\ UNCHANGED <<store, minted>> /\ LocalOnly

\* store.DeleteFile, which keeps the old clock: the bumped one is only sent.
PutDeleted(n, s) ==
  LET t   == task[n][s]
      msg == [type |-> "tombstone", origin |-> n, vc |-> NextClock(n, t.snap),
              hash |-> NoContent, info |-> NoContent]
  IN  /\ t.stage = "marking"
      /\ store' = [store EXCEPT ![n] = MarkDeleted(@)]
      /\ minted' = minted \cup {msg}
      /\ Broadcast(n, s, msg)
      /\ LocalOnly

\* What a message is to the receiving node: dispatch calls the handler of every
\* syncer with it, one after the other, whichever directory its path is in.
Handled(msg) == [i \in 1..Syncers |-> msg]

\* One turn of Broadcast's loop: encode the message on a peer's connection.
SendTo(n, s, m) ==
  LET t == task[n][s] IN
  /\ t.stage = "sending"
  /\ m \in t.to
  /\ \E l \in Lane :
       queue' = [queue EXCEPT ![<<n, m, l>>] = @ \o Handled(t.msg)]
  /\ SetTask(n, s, IF t.to = {m} THEN Idle ELSE [t EXCEPT !.to = @ \ {m}])
  /\ UNCHANGED <<disk, event, store, loop, pending, forks, paused, minted,
                 edits, crashes>>

-----------------------------------------------------------------------------
(* handleGossipMessage: handleAnnounce and handleTombstone.                *)

SetLoop(ch, st) == loop' = [loop EXCEPT ![ch] = st]

\* Slip: the paused flag is not looked at.
ReceivePaused(ch) ==
  /\ loop[ch] = Idle
  /\ queue[ch] # <<>>
  /\ queue' = [queue EXCEPT ![ch] = Tail(@)]
  /\ LET msg == Head(queue[ch]) IN
       IF msg.origin = To(ch)
         THEN UNCHANGED loop
         ELSE SetLoop(ch, [stage |-> "received", msg |-> msg, snap |-> NoRecord])
  /\ UNCHANGED <<disk, event, task, store, pending, forks, paused, minted,
                 edits, crashes>>

\* The read loop decodes the next message; a paused syncer drops it, and a
\* handler returns at once for a message of its own node.
Receive(ch) ==
  /\ loop[ch] = Idle
  /\ queue[ch] # <<>>
  /\ queue' = [queue EXCEPT ![ch] = Tail(@)]
  /\ LET msg == Head(queue[ch]) IN
       IF paused[To(ch)] \/ msg.origin = To(ch)
         THEN UNCHANGED loop
         ELSE SetLoop(ch, [stage |-> "received", msg |-> msg, snap |-> NoRecord])
  /\ UNCHANGED <<disk, event, task, store, pending, forks, paused, minted,
                 edits, crashes>>

\* Slip: the arguments of the comparison are swapped.
VerdictSwapped(msg, existing) ==
  IF ~Live(existing) THEN "leech"
  ELSE CASE Compare(existing.vc, msg.vc) \in {"equal", "older"} -> "skip"
         [] Compare(existing.vc, msg.vc) = "concurrent"         -> "conflict"
         [] OTHER                                               -> "leech"

\* What handleAnnounce does with a payload, given the record it has read.
\* Only a live record is compared: a tombstone never stops an announcement.
Verdict(msg, existing) ==
  IF ~Live(existing) THEN "leech"
  ELSE CASE Compare(msg.vc, existing.vc) \in {"equal", "older"} -> "skip"
         [] Compare(msg.vc, existing.vc) = "concurrent"         -> "conflict"
         [] OTHER                                               -> "leech"

HandleAnnounce(ch) ==
  LET existing == store[To(ch)]
      verdict  == Verdict(loop[ch].msg, existing)
  IN  /\ loop[ch].stage = "received"
      /\ loop[ch].msg.type = "announce"
      /\ SetLoop(ch, IF verdict = "skip" THEN Idle
                     ELSE [loop[ch] EXCEPT !.stage = verdict, !.snap = existing])
      /\ UNCHANGED <<disk, event, task, store, queue, pending, forks, paused,
                     minted, edits, crashes>>

\* copyFile to the fork path; an error is logged and the leech goes ahead.
ForkFile(ch) ==
  LET n == To(ch) IN
  /\ loop[ch].stage = "conflict"
  /\ \/ disk[n] # NoContent /\ forks' = [forks EXCEPT ![n] = @ \cup {disk[n]}]
     \/ (disk[n] = NoContent \/ ~Reliable) /\ UNCHANGED forks
  /\ SetLoop(ch, [loop[ch] EXCEPT !.stage = "leech"])
  /\ UNCHANGED <<disk, event, task, store, queue, pending, paused, minted,
                 edits, crashes>>

\* StartLeech returns, after blocking the read loop until the torrent's info
\* is there, and OnComplete registers the callback with what it captures.
RegisterLeech(ch) ==
  LET n == To(ch) IN
  /\ loop[ch].stage = "leech"
  /\ pending' = [pending EXCEPT ![n] =
                   @ (+) SetToBag({[snap |-> loop[ch].snap, msg |-> loop[ch].msg]})]
  /\ SetLoop(ch, Idle)
  /\ UNCHANGED <<disk, event, task, store, queue, forks, paused, minted,
                 edits, crashes>>

\* StartLeech returns an error.
LeechFails(ch) ==
  /\ ~Reliable
  /\ loop[ch].stage = "leech"
  /\ SetLoop(ch, Idle)
  /\ UNCHANGED <<disk, event, task, store, queue, pending, forks, paused,
                 minted, edits, crashes>>

\* Slip: the completion keeps the clock of the record it has captured.
MergedClockOld(cb) == ClockOf(cb.snap)

\* The clock a completion stores: the captured record's and the payload's.
MergedClock(cb) == Merge(ClockOf(cb.snap), cb.msg.vc)

\* Slip: receiving a version counts as a change of one's own.
CompleteBumped(n, cb) ==
  /\ cb \in BagToSet(pending[n])
  /\ pending' = [pending EXCEPT ![n] = @ (-) SetToBag({cb})]
  /\ store' = [store EXCEPT ![n] =
                 Version(cb.msg.hash, cb.msg.info, Bump(MergedClock(cb), n))]
  /\ UNCHANGED <<disk, event, task, queue, loop, forks, paused, minted,
                 edits, crashes>>

\* The torrent is complete and its callback stores the announced version.
\* Neither the paused flag nor the record is looked at again.
Complete(n, cb) ==
  /\ cb \in BagToSet(pending[n])
  /\ pending' = [pending EXCEPT ![n] = @ (-) SetToBag({cb})]
  /\ store' = [store EXCEPT ![n] = Version(cb.msg.hash, cb.msg.info, MergedClock(cb))]
  /\ UNCHANGED <<disk, event, task, queue, loop, forks, paused, minted,
                 edits, crashes>>

\* Slip: the file is left where it is.
HandleTombstoneMark(ch) ==
  LET existing == store[To(ch)]
      stale    == /\ existing # NoRecord
                  /\ Compare(loop[ch].msg.vc, existing.vc) \in {"equal", "older"}
  IN  /\ loop[ch].stage = "received"
      /\ loop[ch].msg.type = "tombstone"
      /\ SetLoop(ch, IF stale THEN Idle ELSE [loop[ch] EXCEPT !.stage = "mark"])
      /\ UNCHANGED <<disk, event, task, store, queue, pending, forks, paused,
                     minted, edits, crashes>>

\* handleTombstone's GetFile: any record, deleted or not, is compared.
HandleTombstone(ch) ==
  LET existing == store[To(ch)]
      stale    == /\ existing # NoRecord
                  /\ Compare(loop[ch].msg.vc, existing.vc) \in {"equal", "older"}
  IN  /\ loop[ch].stage = "received"
      /\ loop[ch].msg.type = "tombstone"
      /\ SetLoop(ch, IF stale THEN Idle ELSE [loop[ch] EXCEPT !.stage = "remove"])
      /\ UNCHANGED <<disk, event, task, store, queue, pending, forks, paused,
                     minted, edits, crashes>>

\* Slip: that there is no file to remove is an error, and tried again.
RemoveFileRetry(ch) ==
  LET n == To(ch) IN
  /\ loop[ch].stage = "remove"
  /\ disk[n] # NoContent
  /\ disk' = [disk EXCEPT ![n] = NoContent]
  /\ event' = [event EXCEPT ![n] = "deleted"]
  /\ SetLoop(ch, [loop[ch] EXCEPT !.stage = "mark"])
  /\ UNCHANGED <<task, store, queue, pending, forks, paused, minted, edits, crashes>>

\* os.Remove: a file that goes away raises an event at the node's own
\* watcher; no file, or an error, is passed over.
RemoveFile(ch) ==
  LET n == To(ch) IN
  /\ loop[ch].stage = "remove"
  /\ \/ /\ disk[n] # NoContent
        /\ disk' = [disk EXCEPT ![n] = NoContent]
        /\ event' = [event EXCEPT ![n] = "deleted"]
     \/ (disk[n] = NoContent \/ ~Reliable) /\ UNCHANGED <<disk, event>>
  /\ SetLoop(ch, [loop[ch] EXCEPT !.stage = "mark"])
  /\ UNCHANGED <<task, store, queue, pending, forks, paused, minted, edits, crashes>>

\* store.DeleteFile, on the record as it is by now.
MarkTombstone(ch) ==
  LET n == To(ch) IN
  /\ loop[ch].stage = "mark"
  /\ store' = [store EXCEPT ![n] = MarkDeleted(@)]
  /\ SetLoop(ch, Idle)
  /\ UNCHANGED <<disk, event, task, queue, pending, forks, paused, minted,
                 edits, crashes>>

-----------------------------------------------------------------------------
(* What happens to a node.                                                 *)

\* The heartbeat loop's onDisabled; nothing in the program calls Resume.
Pause(n) ==
  /\ n \in Pausable
  /\ ~paused[n]
  /\ paused' = [paused EXCEPT ![n] = TRUE]
  /\ UNCHANGED <<disk, event, task, store, queue, loop, pending, forks, minted,
                 edits, crashes>>

\* A connection breaks: what has not been decoded is gone.
Disconnect(ch) ==
  /\ ~Reliable
  /\ queue[ch] # <<>>
  /\ queue' = [queue EXCEPT ![ch] = <<>>]
  /\ UNCHANGED <<disk, event, task, store, loop, pending, forks, paused, minted,
                 edits, crashes>>

\* The process dies and is started again: files and database are all it
\* finds, and it neither scans the directory nor resumes a torrent.
Crash(n) ==
  /\ crashes < MaxCrashes
  /\ crashes' = crashes + 1
  /\ event' = [event EXCEPT ![n] = "none"]
  /\ task' = [task EXCEPT ![n] = [s \in Slot |-> Idle]]
  /\ queue' = [ch \in Channel |-> IF To(ch) = n THEN <<>> ELSE queue[ch]]
  /\ loop' = [ch \in Channel |-> IF To(ch) = n THEN Idle ELSE loop[ch]]
  /\ pending' = [pending EXCEPT ![n] = EmptyBag]
  /\ paused' = [paused EXCEPT ![n] = FALSE]
  /\ UNCHANGED <<disk, store, forks, minted, edits>>

-----------------------------------------------------------------------------
TaskStep(n, s) ==
  \/ HandleFileEvent(n, s)
  \/ HashFile(n, s)
  \/ LookUpChanged(n, s)
  \/ CreateAndSeed(n, s)
  \/ HandlerFails(n, s)
  \/ PutChanged(n, s)
  \/ LookUpDeleted(n, s)
  \/ PutDeleted(n, s)
  \/ \E m \in Node : SendTo(n, s, m)

LoopStep(ch) ==
  \/ Receive(ch)
  \/ HandleAnnounce(ch)
  \/ ForkFile(ch)
  \/ RegisterLeech(ch)
  \/ LeechFails(ch)
  \/ HandleTombstone(ch)
  \/ RemoveFile(ch)
  \/ MarkTombstone(ch)

CompleteStep(n) == \E cb \in BagToSet(pending[n]) : Complete(n, cb)

UserStep(n) == DeleteFile(n) \/ \E c \in Content : WriteFile(n, c)

Next ==
  \/ \E n \in Node : \/ UserStep(n)
                     \/ CompleteStep(n)
                     \/ Pause(n)
                     \/ Crash(n)
                     \/ \E s \in Slot : TaskStep(n, s)
  \/ \E ch \in Channel : LoopStep(ch) \/ Disconnect(ch)

Spec == Init /\ [][Next]_vars

\* Goroutines are scheduled, that is all.  Nothing obliges a torrent to
\* complete or StartLeech to return: somebody must have the bytes, or the info,
\* and answer.  Users, the control server and failures may do nothing either.
Fairness ==
  /\ \A n \in Node, s \in Slot : WF_vars(TaskStep(n, s))
  /\ \A ch \in Channel : WF_vars(LoopStep(ch) /\ loop[ch].stage # "leech")

FairSpec == Spec /\ Fairness

-----------------------------------------------------------------------------
(* Properties of a swarm whose users take turns (TurnTaking, Reliable).    *)

\* Once nothing is in flight, all nodes have the same idea of the path: the
\* same liveness, the same content hash and the same clock, whatever sequence
\* of writes, deletions and re-creations on whatever nodes came before.
QuiescentConverged ==
  Quiescent => \A n, m \in Node :
    /\ Live(store[n]) <=> Live(store[m])
    /\ Live(store[n]) => /\ store[n].hash = store[m].hash
                         /\ store[n].vc = store[m].vc

\* A path that a node records as deleted is gone from its directory once
\* nothing is in flight: the removal and the mark are two steps of
\* handleTombstone, and the removal's own event comes back to the node.
TombstoneReachesDisk ==
  Quiescent => \A n \in Node : ~Live(store[n]) => disk[n] = NoContent

\* Nothing is left to do but to wait for torrents: for their info, in
\* StartLeech, with the messages that queue behind it, and for their bytes.
OnlyTorrentsAwaited ==
  /\ \A n \in Node : event[n] = "none" /\ \A s \in Slot : task[n][s] = Idle
  /\ \A ch \in Channel : \/ loop[ch].stage = "leech"
                         \/ queue[ch] = <<>> /\ loop[ch] = Idle

\* Changes die out: whether or not a torrent ever completes, the nodes' own
\* work comes to an end, although every file removed for a tombstone makes its
\* node announce a tombstone too.
AlwaysSettles == []<>OnlyTorrentsAwaited

-----------------------------------------------------------------------------
(* Properties of one node, its user racing its own handlers.               *)

\* No two timer callbacks are in HandleFileEvent for the path at once: a
\* handler is done within the watcher's 200 ms, however the user's changes
\* fall.  AfterFunc does not see to that.
OneHandler ==
  \A n \in Node, s, r \in Slot :
    task[n][s] # Idle /\ task[n][r] # Idle => s = r

\* As long as that holds, once nothing is in flight the record is that of the
\* file: live exactly if the file exists, with the hash of its content,
\* although the handler reads the file twice and looks the record up in
\* between, and the user may change the file before, between and after.  (The
\* callbacks of a large file do overlap, and then the older hash may be
\* stored last.)
RecordMatchesFile ==
  []OneHandler =>
    [](Quiescent => \A n \in Node :
         /\ Live(store[n]) <=> disk[n] # NoContent
         /\ Live(store[n]) => store[n].hash = disk[n])

-----------------------------------------------------------------------------
(* Properties of every swarm, with races, losses, crashes and pauses.      *)

\* A component of a clock stands for a change: a node's component is k only
\* if one of the versions is its own, with its component at k.
Caused(versions, vc) ==
  \A n \in Node : vc[n] > 0 =>
    \E v \in versions : v.origin = n /\ v.vc[n] = vc[n]

\* No clock in a record counts a change that was never made, through any
\* sequence of merges with stale records, losses and restarts.
CausesExist == \A n \in Node : Caused(minted, ClockOf(store[n]))

\* One of the versions introduced the record's content and its torrent, and
\* the record's clock includes it.
Introduced(versions, r) ==
  \E v \in versions : /\ v.type = "announce"
                       /\ v.hash = r.hash /\ v.info = r.info
                       /\ Leq(v.vc, r.vc)

\* The content of a live record is one that some node announced, its hash
\* and infohash from the same version, under a clock that includes it.
ContentUnderItsClock ==
  \A n \in Node : Live(store[n]) => Introduced(minted, store[n])

\* A conflict copy is made only if two announcements are concurrent: changes
\* that were each made in view of the last announced one are never taken for a
\* conflict, whatever is lost, reordered, deleted in between, captured before a
\* download or forgotten in a crash.
ForkedByConflict ==
  (\E n \in Node : forks[n] # {}) =>
    \E v, w \in minted : /\ v.type = "announce" /\ w.type = "announce"
                         /\ Compare(v.vc, w.vc) = "concurrent"

\* Handlers and callbacks of a node that are under way.
AtRest(n) == /\ \A s \in Slot : task[n][s] = Idle
             /\ \A ch \in Channel : To(ch) = n => loop[ch] = Idle
             /\ pending[n] = EmptyBag

\* A paused node with no handler or download under way starts none and keeps
\* its record, whatever arrives, until its process dies.
PausedStaysAtRest ==
  [][\A n \in Node : paused[n] /\ paused'[n] /\ AtRest(n)
        => AtRest(n)' /\ store'[n] = store[n]]_vars

-----------------------------------------------------------------------------
(* What comments in the code promise, and the steps above do not keep.     *)

\* "We already have this version or a newer one" (syncer.go:257): records
\* with equal clocks are records of the same version.
EqualClocksEqualContent ==
  \A n, m \in Node : Live(store[n]) /\ Live(store[m]) /\ store[n].vc = store[m].vc
    => store[n].hash = store[m].hash
=============================================================================
