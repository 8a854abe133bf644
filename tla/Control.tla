------------------------------ MODULE Control ------------------------------
(***************************************************************************)
(* One node and its control server (SSC): the heartbeat loop of            *)
(* internal/mcclient/client.go, updatePeers of internal/sync/syncer.go     *)
(* that it calls, the peers and meta buckets of internal/store/store.go,   *)
(* and the handlers that tell the torrent engine about peers meanwhile.    *)
(*                                                                         *)
(* A unit of time has room for a heartbeat and what it calls, unless a     *)
(* Connect takes longer or does not return (Gossip).  The server answers   *)
(* what it likes, when it likes.                                           *)
(***************************************************************************)
EXTENDS Naturals

CONSTANTS
  Peer,        \* the other nodes, each with a public address
  Path,        \* paths of files
  Torrent,     \* torrents
  PathOf,      \* PathOf[t]: the path that t is of: its versions are torrents
  NoTorrent,   \* no record, or a deleted one
  Announced,   \* bound: torrents that peers announce, as well
  Grace,       \* the grace period, in units of time
  MaxTime,     \* bound: units of time
  MaxCrashes   \* bound: crashes

ASSUME ControlAssumption ==
  /\ PathOf \in [Torrent -> Path] /\ NoTorrent \notin Torrent
  /\ Announced \subseteq Torrent
  /\ Grace \in Nat \ {0}
  /\ MaxTime \in Nat /\ MaxCrashes \in Nat

VARIABLES
  now,       \* the time; it starts at 1
  known,     \* the peers bucket
  last,      \* last_ssc_success in the meta bucket, 0 if unset
  records,   \* records[f]: the torrent of the live record of path f
  active,    \* torrents the client knows
  has,       \* has[t]: peers that torrent t was told of
  beat,      \* the heartbeat loop
  called,    \* a heartbeat was sent in this unit of time
  change,    \* change[t]: handleFileChanged for t's path, with t its content
  leech,     \* leech[t]: handleAnnounce for t, and the download
  paused,    \* Syncer.paused
  contact,   \* history: when a heartbeat was last answered, 0 if never
  kept,      \* history: torrents of local changes, each in its path's record since
  crashes    \* crashes so far

vars == <<now, known, last, records, active, has, beat, called, change, leech,
          paused, contact, kept, crashes>>

\* waiting for the ticker; in updatePeers, with the response's peers and those
\* to be stored; with the files still to be gone through; returned.
Beat == [stage : {"waiting", "storing", "adding", "ended"}, list : SUBSET Peer,
         store : SUBSET Peer, files : SUBSET Torrent]
Waiting == [stage |-> "waiting", list |-> {}, store |-> {}, files |-> {}]

\* A handler, and the peers it has read with GetPeers.
Handler == [stage : {"none", "seeded", "stored", "read", "downloading", "done"},
            peers : SUBSET Peer]
NoHandler == [t \in Torrent |-> [stage |-> "none", peers |-> {}]]

TypeOK ==
  /\ now \in Nat /\ last \in 0..now /\ contact \in 0..now
  /\ known \subseteq Peer
  /\ active \subseteq Torrent /\ kept \subseteq Torrent
  /\ records \in [Path -> Torrent \cup {NoTorrent}]
  /\ has \in [Torrent -> SUBSET Peer]
  /\ beat \in Beat /\ called \in BOOLEAN
  /\ change \in [Torrent -> Handler] /\ leech \in [Torrent -> Handler]
  /\ paused \in BOOLEAN
  /\ crashes \in 0..MaxCrashes

Init ==
  /\ now = 1 /\ last = 0 /\ contact = 0
  /\ known = {} /\ active = {} /\ kept = {}
  /\ records = [f \in Path |-> NoTorrent]
  /\ has = [t \in Torrent |-> {}]
  /\ beat = Waiting /\ called = FALSE
  /\ change = NoHandler /\ leech = NoHandler
  /\ paused = FALSE
  /\ crashes = 0

-----------------------------------------------------------------------------
(* StartHeartbeatLoop.                                                     *)

\* What the heartbeat loop leaves to the handlers.
Others == <<active, has, change, leech, kept, crashes>>

\* Slip: the end of the grace period is stored instead.
RecordedDeadline == now + Grace

\* setLastSSCSuccess(time.Now()), before the response is looked into.
Recorded == now

\* The server answers "disabled": the success is recorded first.
Disabled ==
  /\ beat = Waiting
  /\ called' = TRUE
  /\ last' = Recorded /\ contact' = now
  /\ paused' = TRUE
  /\ beat' = [beat EXCEPT !.stage = "ended"]
  /\ UNCHANGED <<now, known, records>> /\ UNCHANGED Others

\* The server answers with a list of peers, which may be empty.
Answered == \E list \in SUBSET Peer :
  /\ beat = Waiting
  /\ called' = TRUE
  /\ last' = Recorded /\ contact' = now
  /\ beat' = IF list = {} THEN Waiting
             ELSE [stage |-> "storing", list |-> list, store |-> list, files |-> {}]
  /\ UNCHANGED <<now, known, records, paused>> /\ UNCHANGED Others

\* Slip: the grace period is over when it was never entered.
OverdueUnset == now > last + Grace

\* !last.IsZero() && grace > 0 && time.Since(last) > grace
Overdue == last # 0 /\ now > last + Grace

\* Slip: the time is recorded before the error is looked at.
UnansweredRecorded ==
  /\ beat = Waiting
  /\ called' = TRUE
  /\ last' = now
  /\ paused' = (paused \/ Overdue)
  /\ UNCHANGED <<now, known, records, beat, contact>> /\ UNCHANGED Others

\* No answer: onDisabled once the grace period is over; the loop goes on.
Unanswered ==
  /\ beat = Waiting
  /\ called' = TRUE
  /\ paused' = (paused \/ Overdue)
  /\ UNCHANGED <<now, known, last, records, beat, contact>> /\ UNCHANGED Others

-----------------------------------------------------------------------------
(* The store's transactions on the peers bucket, and updatePeers.          *)

PutPeer(p) == known' = known \cup {p}

GetPeers == known

\* PutPeer, then Connect, for one peer of the list after the other.
StorePeer == \E p \in beat.store :
  /\ beat.stage = "storing"
  /\ PutPeer(p)
  /\ beat' = [beat EXCEPT !.store = @ \ {p}]
  /\ UNCHANGED <<now, last, records, called, paused, contact>> /\ UNCHANGED Others

\* ListFiles, after the last peer: one record of each path, the deleted ones skipped.
ListFiles ==
  /\ beat.stage = "storing"
  /\ beat.store = {}
  /\ beat' = [beat EXCEPT !.stage = "adding", !.files = {records[f] : f \in Path} \ {NoTorrent}]
  /\ UNCHANGED <<now, known, last, records, called, paused, contact>>
  /\ UNCHANGED Others

\* Engine.AddPeers; a torrent the client does not know is an error.
Told(t, peers) == IF t \in active THEN [has EXCEPT ![t] = @ \cup peers] ELSE has

\* AddPeers for a live record, its error passed over.
AddToFile == \E t \in beat.files :
  /\ beat.stage = "adding"
  /\ has' = Told(t, beat.list)
  /\ beat' = [beat EXCEPT !.files = @ \ {t}]
  /\ UNCHANGED <<now, known, last, records, active, called, change, leech,
                 paused, contact, kept, crashes>>

UpdateEnds ==
  /\ beat.stage = "adding"
  /\ beat.files = {}
  /\ beat' = Waiting
  /\ UNCHANGED <<now, known, last, records, called, paused, contact>>
  /\ UNCHANGED Others

-----------------------------------------------------------------------------
(* handleFileChanged, from CreateAndSeed on, and handleAnnounce.           *)

Server == <<now, known, last, beat, called, paused, contact, crashes>>

\* The content has changed, to one that may be seeded or leeched already: then
\* AddTorrent returns the torrent there is.
Seed(t) ==
  /\ ~paused
  /\ change[t].stage \in {"none", "done"}
  /\ active' = active \cup {t}
  /\ change' = [change EXCEPT ![t].stage = "seeded"]
  /\ UNCHANGED <<records, has, leech, kept>> /\ UNCHANGED Server

\* Whatever record the path has is replaced.
Put(t) == records' = [records EXCEPT ![PathOf[t]] = t]

\* The torrents of other versions of the path are in no record then.
KeptBy(t) == {u \in kept : PathOf[u] = PathOf[t] => u = t}

\* PutFile.
StoreFile(t) ==
  /\ change[t].stage = "seeded"
  /\ Put(t) /\ kept' = KeptBy(t) \cup {t}
  /\ change' = [change EXCEPT ![t].stage = "stored"]
  /\ UNCHANGED <<active, has, leech>> /\ UNCHANGED Server

\* Slip: the peers are read before the record is put.
ReadPeersEarly(t) ==
  /\ \/ /\ change[t].stage = "seeded"
        /\ change' = [change EXCEPT ![t].peers = GetPeers]
     \/ /\ change[t].stage = "stored" /\ change[t].peers # {}
        /\ change' = [change EXCEPT ![t].stage = "read"]
  /\ UNCHANGED <<records, active, has, leech, kept>> /\ UNCHANGED Server

\* GetPeers.
ReadPeers(t) ==
  /\ change[t].stage = "stored"
  /\ change' = [change EXCEPT ![t] = [stage |-> "read", peers |-> GetPeers]]
  /\ UNCHANGED <<records, active, has, leech, kept>> /\ UNCHANGED Server

\* AddPeers, and the broadcast.
AddKnown(t) ==
  /\ change[t].stage = "read"
  /\ has' = Told(t, change[t].peers)
  /\ change' = [change EXCEPT ![t] = [stage |-> "done", peers |-> {}]]
  /\ UNCHANGED <<records, active, leech, kept>> /\ UNCHANGED Server

\* handleAnnounce's GetPeers, for a torrent announced by a peer.
ReadForLeech(t) ==
  /\ ~paused
  /\ t \in Announced
  /\ leech[t].stage = "none"
  /\ leech' = [leech EXCEPT ![t] = [stage |-> "read", peers |-> GetPeers]]
  /\ UNCHANGED <<records, active, has, change, kept>> /\ UNCHANGED Server

\* StartLeech adds the torrent and those peers, and waits for the download.
StartLeech(t) ==
  /\ leech[t].stage = "read"
  /\ active' = active \cup {t}
  /\ has' = [has EXCEPT ![t] = @ \cup leech[t].peers]
  /\ leech' = [leech EXCEPT ![t] = [stage |-> "downloading", peers |-> {}]]
  /\ UNCHANGED <<records, change, kept>> /\ UNCHANGED Server

\* The completion callback's PutFile, over whatever record the path has by then.
\* The client may know other peers than those it was told of.
Complete(t) ==
  /\ leech[t].stage = "downloading"
  /\ Put(t) /\ kept' = KeptBy(t)
  /\ leech' = [leech EXCEPT ![t].stage = "none"]
  /\ UNCHANGED <<active, has, change>> /\ UNCHANGED Server

\* DeleteFile, by handleFileDeleted or handleTombstone, which may have begun before
\* a pause: the torrent stays with the client, and its handlers go on.
DeleteFile(f) ==
  /\ records' = [records EXCEPT ![f] = NoTorrent]
  /\ kept' = {u \in kept : PathOf[u] # f}
  /\ UNCHANGED <<active, has, change, leech>> /\ UNCHANGED Server

-----------------------------------------------------------------------------
\* Time passes when the heartbeat of this unit, and what it called, is over, and
\* while updatePeers is held up in a Connect.
Tick ==
  /\ now < MaxTime
  /\ beat.stage \in {"storing", "ended"} \/ (beat = Waiting /\ called)
  /\ now' = now + 1
  /\ called' = FALSE
  /\ UNCHANGED <<known, last, records, beat, paused, contact>> /\ UNCHANGED Others

\* The agent dies and is started again; it adds no torrent of its records.
Crash ==
  /\ crashes < MaxCrashes
  /\ crashes' = crashes + 1
  /\ active' = {} /\ has' = [t \in Torrent |-> {}]
  /\ beat' = Waiting /\ called' = FALSE
  /\ change' = NoHandler /\ leech' = NoHandler
  /\ paused' = FALSE /\ kept' = {}
  /\ UNCHANGED <<now, known, last, records, contact>>

Next == \/ Disabled \/ Answered \/ Unanswered
        \/ StorePeer \/ ListFiles \/ AddToFile \/ UpdateEnds
        \/ \E t \in Torrent : \/ Seed(t) \/ StoreFile(t) \/ ReadPeers(t) \/ AddKnown(t)
                              \/ ReadForLeech(t) \/ StartLeech(t) \/ Complete(t)
        \/ \E f \in Path : DeleteFile(f)
        \/ Tick \/ Crash

Spec == Init /\ [][Next]_vars

-----------------------------------------------------------------------------
\* The torrent of a local change gets every peer the node knows, as long as the
\* path's record names it, although the handler and updatePeers run at the same time
\* and share no lock: one puts its record before it reads the peers, the other stores
\* its peers before it lists the records, so one of them sees the other's.  (Once a
\* newer version or a deletion has taken its record, a torrent that is still seeded
\* is told of no further peer.)
SeedsHavePeers ==
  beat.stage = "waiting" => \A t \in kept :
    change[t].stage = "done" => known \subseteq has[t]

\* The loop pauses a node for want of answers only after a whole grace period
\* without one, also over a restart, and never a node that had none at all.
PausedAfterGrace ==
  [][~paused /\ paused' /\ beat'.stage # "ended"
       => contact # 0 /\ now > contact + Grace]_vars

\* An outage is noticed: a node that has had an answer and works on is within
\* its grace period, or sends a heartbeat before the time goes on, unless its loop
\* hangs in a Connect and sends none.
OutageNoticed ==
  called /\ contact # 0 /\ ~paused => now <= contact + Grace
=============================================================================
