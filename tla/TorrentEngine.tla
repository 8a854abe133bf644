--------------------------- MODULE TorrentEngine ---------------------------
(***************************************************************************)
(* The engine of internal/torrent/engine.go on one node: the torrents of   *)
(* its client, the callers inside StartLeech and OnComplete (read loops    *)
(* running handleAnnounce), and the goroutines of watchCompletion.         *)
(*                                                                         *)
(* The BitTorrent client is a library: it obtains a torrent's info and     *)
(* bytes from other peers if they have them (Available).  RemoveTorrent    *)
(* and WaitForCompletion have no caller.                                   *)
(***************************************************************************)
EXTENDS Naturals, Sequences, FiniteSets

CONSTANTS
  Leech,      \* calls of StartLeech followed by OnComplete
  Torrent,    \* torrents, by infohash
  Of,         \* Of[l]: the torrent that l asks for
  Available,  \* torrents whose info and bytes some peer can send, or whose
              \* bytes an earlier run has left in the data directory
  Prompt      \* TRUE: a caller is past OnComplete when the first 500 ms end

ASSUME EngineAssumption ==
  /\ Of \in [Leech -> Torrent]
  /\ Available \subseteq Torrent
  /\ Prompt \in BOOLEAN

VARIABLES
  added,      \* torrents the client knows
  info,       \* torrents with their info: GotInfo is closed
  wanted,     \* torrents that DownloadAll was called on
  complete,   \* torrents with BytesMissing() = 0
  call,       \* call[l]: where the caller is
  callbacks,  \* callbacks[t]: registered and not yet taken
  watcher,    \* watcher[l]: the goroutine that l's StartLeech has started
  ran         \* ran[l]: how often l's callback has run

vars == <<added, info, wanted, complete, call, callbacks, watcher, ran>>

Watcher == [stage : {"none", "sleeping", "firing", "done"}, cbs : Seq(Leech)]

TypeOK ==
  /\ added \subseteq Torrent /\ info \subseteq added
  /\ wanted \subseteq info /\ complete \subseteq wanted
  /\ call \in [Leech -> {"none", "waiting", "started", "registered"}]
  /\ callbacks \in [Torrent -> Seq(Leech)]
  /\ watcher \in [Leech -> Watcher]
  /\ ran \in [Leech -> Nat]

Init ==
  /\ added = {} /\ info = {} /\ wanted = {} /\ complete = {}
  /\ call = [l \in Leech |-> "none"]
  /\ callbacks = [t \in Torrent |-> <<>>]
  /\ watcher = [l \in Leech |-> [stage |-> "none", cbs |-> <<>>]]
  /\ ran = [l \in Leech |-> 0]

-----------------------------------------------------------------------------
\* CreateAndSeed: a torrent made from a local file has its info at once.
\* Its storage is the data directory, not the file: no byte is there yet.
CreateAndSeed(t) ==
  /\ t \notin wanted
  /\ added' = added \cup {t}
  /\ info' = info \cup {t}
  /\ wanted' = wanted \cup {t}
  /\ UNCHANGED <<complete, call, callbacks, watcher, ran>>

\* StartLeech adds the torrent, if need be, and waits for its info.
StartLeech(l) ==
  /\ call[l] = "none"
  /\ call' = [call EXCEPT ![l] = "waiting"]
  /\ added' = added \cup {Of[l]}
  /\ UNCHANGED <<info, wanted, complete, callbacks, watcher, ran>>

\* Slip: the caller does not wait for the info.
LeechReturnsAtOnce(l) ==
  /\ call[l] = "waiting"
  /\ call' = [call EXCEPT ![l] = "started"]
  /\ wanted' = wanted \cup {Of[l]}
  /\ watcher' = [watcher EXCEPT ![l].stage = "sleeping"]
  /\ UNCHANGED <<added, info, complete, callbacks, ran>>

\* Slip: no watcher is started for a torrent that is already wanted.
LeechReturnsUnwatched(l) ==
  /\ call[l] = "waiting"
  /\ Of[l] \in info
  /\ call' = [call EXCEPT ![l] = "started"]
  /\ wanted' = wanted \cup {Of[l]}
  /\ watcher' = IF Of[l] \in wanted THEN watcher
                ELSE [watcher EXCEPT ![l].stage = "sleeping"]
  /\ UNCHANGED <<added, info, complete, callbacks, ran>>

\* The info is there: download everything, start the watcher and return.
LeechReturns(l) ==
  /\ call[l] = "waiting"
  /\ Of[l] \in info
  /\ call' = [call EXCEPT ![l] = "started"]
  /\ wanted' = wanted \cup {Of[l]}
  /\ watcher' = [watcher EXCEPT ![l].stage = "sleeping"]
  /\ UNCHANGED <<added, info, complete, callbacks, ran>>

\* The caller registers its callback under the torrent's infohash.
OnComplete(l) ==
  /\ call[l] = "started"
  /\ call' = [call EXCEPT ![l] = "registered"]
  /\ callbacks' = [callbacks EXCEPT ![Of[l]] = Append(@, l)]
  /\ UNCHANGED <<added, info, wanted, complete, watcher, ran>>

\* Slip: the watcher polls before it sleeps.
SleptAtOnce(l) == watcher[l].stage = "sleeping"

\* time.Sleep is over, and by then the caller has gone on to OnComplete.
Slept(l) == /\ watcher[l].stage = "sleeping"
            /\ Prompt => call[l] = "registered"

\* Slip: that the download was asked for is taken for its end.
NothingMissingWanted(t) == t \in wanted

\* t.BytesMissing() == 0
NothingMissing(t) == t \in complete

\* Slip: delete(e.callbacks, ih) is forgotten.
RemainingAll(t) == callbacks[t]

\* What delete(e.callbacks, ih) leaves.
Remaining(t) == <<>>

\* A poll that finds nothing missing takes the list of the torrent, which
\* other callers and their watchers share.
Poll(l) ==
  /\ Slept(l)
  /\ NothingMissing(Of[l])
  /\ watcher' = [watcher EXCEPT ![l] = [stage |-> "firing", cbs |-> callbacks[Of[l]]]]
  /\ callbacks' = [callbacks EXCEPT ![Of[l]] = Remaining(Of[l])]
  /\ UNCHANGED <<added, info, wanted, complete, call, ran>>

\* The watcher runs the callbacks it has taken, one after the other.
RunCallback(l) ==
  /\ watcher[l].stage = "firing"
  /\ watcher[l].cbs # <<>>
  /\ ran' = [ran EXCEPT ![Head(watcher[l].cbs)] = @ + 1]
  /\ watcher' = [watcher EXCEPT ![l].cbs = Tail(@)]
  /\ UNCHANGED <<added, info, wanted, complete, call, callbacks>>

WatcherEnds(l) ==
  /\ watcher[l].stage = "firing"
  /\ watcher[l].cbs = <<>>
  /\ watcher' = [watcher EXCEPT ![l].stage = "done"]
  /\ UNCHANGED <<added, info, wanted, complete, call, callbacks, ran>>

-----------------------------------------------------------------------------
(* The client library.                                                     *)

FetchInfo(t) ==
  /\ t \in (added \cap Available) \ info
  /\ info' = info \cup {t}
  /\ UNCHANGED <<added, wanted, complete, call, callbacks, watcher, ran>>

FetchBytes(t) ==
  /\ t \in (wanted \cap Available) \ complete
  /\ complete' = complete \cup {t}
  /\ UNCHANGED <<added, info, wanted, call, callbacks, watcher, ran>>

-----------------------------------------------------------------------------
CallerStep(l)  == StartLeech(l) \/ LeechReturns(l) \/ OnComplete(l)
WatcherStep(l) == Poll(l) \/ RunCallback(l) \/ WatcherEnds(l)
ClientStep(t)  == FetchInfo(t) \/ FetchBytes(t)

Next == \/ \E l \in Leech : CallerStep(l) \/ WatcherStep(l)
        \/ \E t \in Torrent : ClientStep(t) \/ CreateAndSeed(t)

Spec == Init /\ [][Next]_vars

\* Goroutines are scheduled and the client fetches what is available; whether
\* an announcement comes in, and so StartLeech is called, is open.
Fairness ==
  /\ \A l \in Leech : /\ WF_vars(LeechReturns(l) \/ OnComplete(l))
                      /\ WF_vars(WatcherStep(l))
  /\ \A t \in Torrent : WF_vars(ClientStep(t))

FairSpec == Spec /\ Fairness

-----------------------------------------------------------------------------
\* A callback that is registered and has not run will be: some watcher has
\* taken it, or one of its torrent's watchers has yet to take the list.
NoOrphanCallback ==
  \A l \in Leech : call[l] = "registered" /\ ran[l] = 0 =>
    \E w \in Leech :
      \/ watcher[w].stage = "firing" /\ \E i \in DOMAIN watcher[w].cbs : watcher[w].cbs[i] = l
      \/ /\ watcher[w].stage = "sleeping" /\ Of[w] = Of[l]
         /\ \E i \in DOMAIN callbacks[Of[l]] : callbacks[Of[l]][i] = l

\* However many callers ask for the same torrent, and however their watchers
\* overlap, a callback runs at most once: a completion is not stored twice.
RunsOnce == \A l \in Leech : ran[l] <= 1

\* A caller blocked in StartLeech, and with it its read loop, gets on and its
\* callback runs if a peer can send the torrent, whatever other callers and
\* torrents do; without such a peer it may block for good.
LeechGetsOn ==
  \A l \in Leech : call[l] = "waiting" /\ Of[l] \in Available ~> ran[l] > 0

\* The engine keeps the promise that the syncer relies on.
Promise == INSTANCE Downloads WITH
  armed <- {l \in Leech : call[l] = "registered"},
  ran   <- {l \in Leech : ran[l] > 0}

KeepsPromise == Promise!Spec
=============================================================================
