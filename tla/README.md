# A TLA+ model of torSync

torSync is an agent that keeps directories on several machines in step. A node
that sees a file change makes a BitTorrent torrent of it and tells its peers
over mutual-TLS "gossip" connections; they download the torrent and record the
version. Versions carry vector clocks. This directory holds TLA+ modules of the
agent's core, TLC configurations that check them on small instances, and proofs
that TLAPS checks for every instance. Line numbers refer to `src/`.

## 1. The system

| Component | State | Operations | Talks to |
|---|---|---|---|
| sync coordinator, `internal/sync/syncer.go` | `paused`; everything else is in the store | `HandleFileEvent`, `handleGossipMessage` (`handleAnnounce`, `handleTombstone`), completion callbacks, `updatePeers`, `Pause`, `Resume` (no caller) | all of the others |
| record store, `internal/store` | BoltDB: file records, peer records, meta values | `PutFile`, `GetFile`, `DeleteFile`, `ListFiles`, `PutPeer`, `GetPeers`, `GetMeta`, `SetMeta`: one transaction each | coordinator, web UI |
| torrent engine, `internal/torrent` | library client, map of completion callbacks | `CreateAndSeed`, `StartLeech`, `OnComplete`, `AddPeers`; a polling goroutine per leech | coordinator calls it and is called back |
| gossip server, `internal/gossip` | `peers` map, message handlers | `Connect`, `handleInbound`, `readLoop`, `Broadcast`, `Close` | other nodes; dispatches to the coordinator |
| directory watcher, `internal/watcher` | a debounce timer per path | `Start`, `Stop`, the event loop, timer callbacks | operating system; calls the coordinator |
| heartbeat client, `internal/mcclient` | none; `last_ssc_success` is in the store | `StartHeartbeatLoop` | control server (SSC); calls `updatePeers`, `Pause` |
| licence client, `internal/license` | node key, operational token (cached in a file), peers | `NewFromKeyFile`, `Start`, `refresh`, `IsActive` | SSC |
| start-up, `cmd/torsync/main.go` | none | wiring, licence gate, free-tier check, shutdown | all |
| web UI, `internal/webui` | edits the agent's `Config`, without a lock | pages, settings, sync directories | configuration, store, licence |
| configuration, `internal/config` | a YAML file | `Load`, `Save`, `Defaults` | start-up, import-key, web UI |
| service manager, `internal/svcmgr` | unit files | install, start, stop | operating system |

**What is hard.** A node's handlers run on three kinds of goroutine (timer
callbacks, a read loop per connection, completion callbacks) and share record
and file without a lock that spans two accesses. `existing` is read before a
download that takes arbitrarily long and used after it. A broadcast goes to
whoever is connected and is not repeated; the heartbeat reconnects to every peer
each time, so two nodes can have several connections and messages overtake each
other. Nodes crash with work under way and neither rescan nor resume. Every web request
is a goroutine that changes the agent's one `Config` and saves it; import-key is another
process that loads and saves the same file. Files are truncated and then written.

**What makes each component correct.**

- Coordinator: at rest all nodes agree on a path; deletions reach the disk;
  changes die out; a clock counts only changes that were made, and a record's
  content is one of those that its clock includes; only concurrent changes are conflicts;
  a paused node stays as it is.
- Clocks: comparison decides the pointwise order; merge is its least upper bound.
- Engine: a registered callback runs, once, when its torrent is complete.
- Gossip: the map has no entry nothing will remove; `Connect` returns, and lost peers
  come back, as long as peers accept connections; whoever is connected is listed.
- Watcher: an event is dropped only for a newer one of its path; new directories
  come to be watched; every event is dealt with.
- Heartbeat and peers: the agent pauses after a whole grace period without an
  answer and only then; a torrent is told of every peer the node knows while its path's
  record names it.
- Licence: the gate lets an agent in on the newest token, refuses none that was
  answered before, and a token lasts until the heartbeat after a missed one.
- Configuration: the file follows the agent's `Config`, is whole after a shutdown, and
  keeps an imported key; the free tier's limit holds; a shutdown ends if clients let it.

## 2. The modules

| Module | Models | Built on |
|---|---|---|
| `Clocks` | vector clocks: bump, merge, compare | |
| `ClocksProofs` | theorems about them | `Clocks` |
| `FileStore` | a path's record and its transactions | `Clocks` |
| `Syncer` | the coordinator of every node, for one path | `FileStore` |
| `SyncerProofs` | theorems about it | `Syncer`, `ClocksProofs` |
| `Downloads` | what the engine promises (abstract) | |
| `TorrentEngine` | the engine of one node; implements `Downloads` | `Downloads` |
| `Gossip` | connections and peers maps of a swarm | |
| `Notices` | what the watcher promises (abstract) | |
| `Watcher` | the watcher of one synced directory; implements `Notices` | `Notices` |
| `Control` | heartbeat loop, `updatePeers`, and the handlers that tell torrents of peers | |
| `License` | the licence client, its cache file and the gate of the start | |
| `Settings` | `config.yaml` between web UI, import-key, start and shutdown | |
| `TorrentEngineProofs`, `GossipProofs`, `WatcherProofs`, `ControlProofs`, `LicenseProofs`, `SettingsProofs` | theorems about them | each its module |
| `MCSyncer`, `MCTorrentEngine`, `MCGossip`, `MCWatcher`, `MCControl`, `MCLicense`, `MCSettings` | instances for TLC | |

Operators whose comment begins with "Slip" are not the program's: each is a
definition altered by one plausible mistake, to show that a property notices.

### Syncer

`store[n]` is the record in n's database, `disk[n]` the file in its directory,
`event[n]` the debounce timer (a later event replaces an earlier one),
`task[n][s]` a timer callback inside `HandleFileEvent`, `loop[ch]` the read loop
of a connection inside a handler, `queue[ch]` what was sent on it,
`pending[n]` the bag of registered completion callbacks with what they have
captured, `forks[n]` the conflict copies, `paused[n]` the flag. `minted` is a
history variable: every version a local change has made.

A step is one access to the store, the file, the engine or a connection; what a
handler has read so far is in its stage record:

    handleFileChanged   HandleFileEvent, HashFile, LookUpChanged,
                        CreateAndSeed, PutChanged, SendTo per peer; HandlerFails
    handleFileDeleted   HandleFileEvent, LookUpDeleted, PutDeleted, SendTo
    handleAnnounce      Receive, HandleAnnounce, ForkFile, RegisterLeech
                        (or LeechFails), later Complete
    handleTombstone     Receive, HandleTombstone, RemoveFile, MarkTombstone

`PutChanged` holds `PutFile` and the moment `Broadcast` copies the peer list, which
nothing of this path separates. `Receive` drops a message of the node's own at
once: the handlers do that before they read anything. The file that a tombstone
removes raises an event at the node's own watcher (`RemoveFile`).

`Syncers` is the number of syncers of a node, one per synced directory: each
registers a handler, and `dispatch` calls all of them with every message, whichever
directory its path is in (`Handled`; `gossip.go:264-273`, `main.go:307`). With more
than one, `Handled` repeats the message in the queue, which stands for the turns of
`dispatch` only as long as no connection breaks between them: hence the assumption that
such nodes are `Reliable`.

A torrent's bytes are the library's matter: `CreateAndSeed` announces one whose files
nobody has put where the library looks (`engine.go:72-99`), so nothing in the code
makes a `Complete` happen, or `StartLeech` return.

Abstractions: one path, since paths share nothing but
the connections. A content stands for its SHA-256 and its infohash. A conflict
copy is another path. `GetFile` does not fail (BoltDB read of a record the code
wrote itself). A `PutFile` that fails in a completion is a torrent that has not
completed yet. Clock components do not overflow. Modification times, sizes and
peer addresses decide nothing.

### TorrentEngine and Downloads

`call[l]` is a read loop inside `StartLeech`/`OnComplete`, `watcher[l]` the
goroutine of `watchCompletion`, `callbacks[t]` the list the watchers of a torrent
share. The library is external: it gets the info and the bytes of the torrents in
`Available`. `Downloads` says what `Syncer` relies on with `pending`: a registered
callback runs once, after its torrent is complete, and does run. `Prompt` is an
assumption about time: a caller gets from `StartLeech`'s return to `OnComplete`
within the first 500 ms sleep of the watcher it has started. Without it a callback
could be registered after the watcher took the list, and never run.

### Gossip

`<<n, m, k>>` is the connection that n dials to m at its k-th heartbeat;
`dialer` and `acceptor` are where its two ends are (waiting for the hello, in the
backlog of a listener, accepted, about to register, reading, cleaning up, done), `open`
whether it still carries data, `peers` the maps. `accepting` are the nodes whose
`acceptLoop` runs: an error of `Accept` ends it for good (`AcceptFails`;
`gossip.go:194-198`), and what is dialled from then on stays in the backlog, where neither
`tls.Dial` nor the hello exchange has a timeout. `Heartbeat` and `Dial` are `updatePeers`:
every peer in turn, connected or not. The connections' contents are `Syncer`'s: its `Lane`s are the
connections a pair has at one time, its `Audience` whoever is listed. A read loop
in a handler is one that does not get to `ReadEnds`, which has no fairness. The
TLS handshake is part of the wait for the hello; certificates are taken to match. `Close` is
followed by the end of the process and is part of `Crash`.

### Watcher

`tree` is what exists below the synced directory, `watched` the directories with a
watch, `raw` the events fsnotify has raised and the loop has not read. `timer`
lists every timer ever set, with the stage of its callback; `timers` is the map of
the code, from a path to the timer in it. `newest` and `reported` are history.
`Start` finds any tree and watches its directories; the walk that does it is one step (changes
during it, and its end on an error, are left out).
`Superseded` is the timer that `scheduleDebounced` stops, if it has not fired.

    eventLoop, scheduleDebounced     ScheduleDebounced, LoopEnds
    the AfterFunc callback           Fire, Unlist, StatPath, OnChange
    WalkDir in the callback          AddWatch, ListDir per directory; WalkEnds
    Stop                             Stop

fsnotify is external: it reports a change of an entry whose directory is watched, in
order, and drops a directory's watch with the directory. A rename is a removal and
a creation. A timer may fire at any time once it is set: callbacks overlap more
than 200 ms would let them, which adds behaviours and takes none away. `Syncer` has a
simpler watcher of its own (`event[n]`), since it follows one path.

`Notices` is the promise to whoever gets the events, without timers, map or loop: a
notice is told, or superseded by a newer one of its path that is owed in its place; none
is owed for ever; closing takes back only notices from the end that nobody has looked at. In
`Promise` the notices are the timers in their order and behind them what is still in
`raw`, and a notice is owed while its timer is not stopped or done.

### Control

One node and its control server. `known` and `last` are in the store, `records[f]` is
the torrent of path f's live record, which another version or a completion replaces
(`Put`) and a deletion or a tombstone takes away (`DeleteFile`); `active` are the torrents
the client has, `has[t]` the peers that
torrent t was told of. `beat` is the heartbeat loop: waiting, in `updatePeers`
(`StorePeer`, `ListFiles`, `AddToFile`, `UpdateEnds`), or returned after a "disabled"
answer. `change[t]` is `handleFileChanged` from `CreateAndSeed` on (`Seed`,
`StoreFile`, `ReadPeers`, `AddKnown`), `leech[t]` a download (`ReadForLeech`,
`StartLeech`, `Complete`). `contact` and `kept`, the torrents that a local change put in
their path's record and that are still there, are history. A torrent that has lost its record is
seeded on and told of no further peer: `updatePeers` goes through the records
(`syncer.go:405-409`), and `SeedsHavePeers` does not speak of it. It rests on an order
that no lock enforces: one goroutine puts its record and then reads the peers, the
other puts its peers and then lists the records.

Time goes on in units with room for one heartbeat and what it calls, or while `updatePeers` is
held up in a `Connect`, maybe for good (`Gossip`). The peers and the meta bucket do not fail, and the time in `last`, which
the code stores to the second, is exact here.

### License

One node: `key` is `license.key`, `cache` is `license.key.cache`, `nodeKey` and `op` are
the client's fields, `due` its ticker. `Window` and `Expiry` are a key's
`registration_until` and `exp`. `last`, `newest`, `denied` and `unsaved` are history. The unit
of time is half a second or more, since half of a lifetime need not be whole seconds.

    import-key                       Import
    NewFromKeyFile, NewFree          Load, LoadRefused, LoadFree
    Start and its request            StartAnswered, StartOffline, StartRefused
    saveCachedToken                  Answered (truncates), SaveToken (writes)
    the gate of cmdStart             Admit, GateRefused
    heartbeatLoop                    HeartbeatAnswered, HeartbeatMissed
    a signal or a crash, the clock   Stop, Tick

The control server is external: it gives any token, active or not, of the lifetime `TTL`,
or refuses (403), or is silent. `refresh` returns an error in both of the last two, and its
callers do the same with both (`NoNewToken`; `client.go:173, 289, 309-312`). A request takes
any time at the start, and none in the heartbeat loop (15 seconds at most, an interval is a
minute at least). The copy of the key file is one step, and
tokens are issued by a clock that agrees with the node's. The order of checks is the code's: a
key is refused after `exp` when it is loaded and from `exp` on at the gate. What `peers`
holds is left out: its one reader calls a method that does not exist.

### Settings

`file` is `config.yaml`, `cfg` the agent's `Config`; both have a key, how often each
path is a sync directory, and whether there is a URL. `form[r]` is a request of the web UI
from its first byte to the end of its answer, `importer` is import-key. `started`, `clean` and
`sure` are history.

    net/http, ParseForm   Arrive, then a handler or Refused; Answered
    handleAddSyncDir      AddSyncDir, AppendDir, AssignDirs, then Save
    handleRemoveSyncDir   RemoveSyncDir, AssignDirs, then Save
    handleSaveSettings    SaveSettings, then Save
    Save                  Marshal, OpenFile (truncates), WriteFile; SaveFails
    import-key            ImportKey (Load or Defaults), ImportOpens, ImportWrites; ImportEnds
    cmdStart              Start
    the deferred calls    Stop, Stopped (httpSrv.Shutdown waits for requests); Crash

Each read and each assignment of `SyncDirs` is one step; that the three words of a slice could be
seen half assigned is left out. Ports, password and names decide nothing here. A directory
that cannot be made ends its request without a trace. Which directory is first
in the list, and so the free tier's only one, is left out. `Crash` is also how an agent of
the free tier ends when it finds too many peers (`main.go:264`), or when its syncer
calls the heartbeat client it has not got (`main.go:301`, `syncer.go:353`).

## 3. What TLC checks

| Run | Instance | Shows |
|---|---|---|
| `syncer_turns` | 3 nodes of 2 syncers each, 3 user actions one after the other, reliable, fair; 244 000 states | agreement at rest (`QuiescentConverged`), deletions reach the disk (`TombstoneReachesDisk`), changes die out up to downloads (`AlwaysSettles`) |
| `syncer_local` | 1 node with 2 timer callbacks, 6 user actions at any time; 755 000 states | the record follows the file as long as callbacks do not overlap (`RecordMatchesFile`) |
| `syncer_races` | 2 nodes, 2 lanes, 3 actions, failures, a crash, A may pause; 590 000 states up to symmetry | `TypeOK`, `CausesExist`, `ContentUnderItsClock`, `PausedStaysAtRest`; conflict copies come from concurrent announcements alone (`ForkedByConflict`) |
| `engine` | 4 leeches of 2 torrents, one of which nobody has; 7 600 states | callbacks run once and none is orphaned; the engine implements `Downloads` |
| `gossip` | 2 nodes, A dials twice and B once, a break, a crash, acceptLoops that end; 202 000 states | `NoDeadEntries`, `ConnectReturns`, `Relinks` |
| `watcher` | a directory, one in it and a file, 4 changes with those that made what `Start` finds, `Stop` at any time; 394 000 states | `NewestNotStopped`, `NewDirsWatched`, `AlwaysSettles`; the watcher implements `Notices` (`KeepsPromise`) |
| `control` | 2 peers, 2 torrents of one path of which peers announce one, 3 units of time, a grace period of 1, a crash; 1 870 000 states up to symmetry | `SeedsHavePeers`, `OutageNoticed`, `PausedAfterGrace` |
| `license` | 2 keys, 3 imports, 8 units of time, tokens of 4, 2 stops; 4 010 000 states | `RefusalJustified`, `AdmittedOnNewestToken`, `RenewedInTime` |
| `settings` | 2 requests, 2 directories, 3 forms, 2 imports, a crash; 357 000 states | `FreeTierLimit`, `SavedWhenQuiet`, `ImportedKeyKept`, `WholeAtRest`, `StopEnds` |
| `syncer_swap` | 2 nodes, 2 concurrent edits | `EqualClocksEqualContent` fails |
| `gossip_delisted` | 2 nodes, a break | `ConnectedIsListed` fails |
| `watcher_newdir` | as `watcher`, 2 changes | `FilesReported` fails |

The last three state what a comment says, and TLC's
counterexample is a run of the program:

- **Swapped contents.** A and B edit at once. Each gets the other's announcement,
  finds it concurrent, forks its own file and downloads the other's. Both store
  the merged clock: equal clocks, different contents, and an equal clock is
  "already" had (`syncer.go:257`), so once both downloads are done nothing reconciles them until the
  next edit.
- **Delisted.** A replaced connection's read loop deletes the new one's entry.
- **Files of a new directory.** A file created in a new directory before the walk has
  put a watch on it raises no event, and the walk reports only the directory.

More behaviours that the models show, or that are plain once they are written down, have
no run of their own.

*Coordinator.* A download stays in the data directory by infohash, and nothing puts it at
its path in the synced directory (`engine.go:125-129`, `syncer.go:286-313`). A download in
progress is told of no new peer: `updatePeers` goes through the file records, and a first
download's is written when it is over (`syncer.go:310, 405`). While a
download runs its node may record another change; the callback then merges with the
record it captured before, and the clock goes back (`syncer.go:287-298`). And the file
is read twice (102, 118): if it changes in between and back, the later event is
skipped as unchanged, and the record's torrent is that of another content.

The handlers of two timers of a path overlap if one takes longer than the 200 ms of the next
(hashing a large file does): the late one then stores the older hash over the newer, and
record and file differ at rest. `RecordMatchesFile` speaks of the behaviours without
such an overlap (`OneHandler`).

*Gossip.* A node that has run out of file descriptors once accepts no connection any more,
and every peer that dials it hangs in `Connect`, and with it that peer's heartbeats.

*Licence.* The cache does not say which key its token was issued for: a key that was never
activated passes its closed window with the token of the key before it
(`client.go:121-130`), and without the server's answer that token is what the gate looks at.
A stop between truncating and writing the cache makes an activated node a new one. The package
comment says that with the server unreachable "the cached operational token is used until it
expires, then the node stops" (`client.go:12-14`): after the gate nothing asks again, and
the agent runs on with an expired token. `HeartbeatMissed` is all there is. A refusal is no
more than silence: the comment allows the cache when the server is unreachable, the code uses it
after a 403 too, so a node whose subscription was revoked starts until its token expires,
which `AdmittedOnNewestToken` bounds by a token's lifetime. And a missed heartbeat leaves no
time to spare: the token is expired in the very second (`now >= exp`; 178, 220) in which the next
one is due (`RenewedInTime`).

*Configuration.* A client that stalls in the middle of its form, or does not take its answer, keeps
the agent from ending for good: the server has no timeouts, and `Shutdown` no limit
(`main.go:338, 345`). Two forms that overlap can each pass the free tier's check, or lose each
other's directory, or leave two texts mixed in the file. A key that is imported while an agent
runs is gone with the next save of its web UI. The URL of a form that is rejected for its
passwords stays in `cfg`, and the next save writes it. Removing the last directory
of a node without a URL leaves a file that `Load` refuses; import-key then replaces
it by the defaults without a word (`main.go:100-104`).

**Bounds.** Three actions reach write, delete and re-create on the same or
different nodes, a clock with components of three nodes, and an edit concurrent
with two others; two nodes make every race of a pair, two lanes every reordering
of two messages; one crash can fall into any stage of any handler, and a second
meets the same states, since a crash keeps only the record and the file. Six
actions of one user, and two callbacks, make every overlap of two whole handlers. Three leeches of a torrent give
a watcher that takes nothing, one's own and others' callbacks. With two
connections dialled by A and one by B an entry can be replaced from either side,
while the replaced connection breaks or its peer crashes. Two directories, one in the
other, and a file are what a walk can miss; four changes create all of them with one
to spare, or give a path four timers. Two peers make an answer that adds a peer to one
known, and with three units of time, which start at 1, a grace period of 1 is entered and
passed, before and after a restart; two torrents of one path are two versions that take each other's
record, one the user's and one that is the user's or a peer's. In `license` the first key's window closes at 2 and it expires at 7, inside the
clock's 8 and on either side of a token of 4 (all in half seconds): each boundary is met before, at and after
its second; three imports replace a key and bring it back. In `settings` three forms are two
that overlap and one after them, a crash falls into any step, and one of two imports can
meet a running agent. States that stop
are legal (users may stop editing), so deadlock is not checked.

**Fairness.** `Syncer`: weak fairness of every task and of every read loop that is not in
`StartLeech`: goroutines are scheduled, and a write into a connection's buffer returns.
Nothing is assumed of the library, neither that `StartLeech` returns nor that a download
completes; users, failures and the control server owe nothing. Where liveness is checked
nodes are `Reliable`. `AlwaysSettles` therefore says that nothing but torrents is awaited, again
and again. `TorrentEngine`: callers, watchers and the library's work on available
torrents; nobody has to announce anything. `Gossip`: the heartbeat ticker and the
goroutines of `Connect`, `acceptLoop` and `handleInbound`; read loops (blocked in handlers) and
restarts have none, and an `acceptLoop` may end, in which case `ConnectReturns` promises
nothing of connections it has not taken, and `Relinks` nothing. `Watcher`: the loop and the callbacks; users and `Stop` have none.
`Settings`: a handler that has its form goes on to its answer, and `Shutdown` returns once no
request is left; no client owes the rest of a form or takes an answer, so `StopEnds` has it as a
hypothesis that none stalls for good. Nobody has to send a form, start, stop or import
anything. `Control` and `License` have safety properties only.

## 4. What TLAPS proves

Each theorem is proved for every value of the constants, from the named `ASSUME`s on
them alone, which TLC evaluates in the runs. Every module has `TypeCorrect`
(`Spec => []TypeOK`). Every invariant was checked by TLC on the run's instance before
it was proved.

**Syncer**, for every number of nodes, contents, lanes, slots, edits and crashes:

- `CausesExistHolds` and `ContentUnderItsClockHolds`: `Spec => []...`, from the
  inductive `IInv == TypeOK /\ HistoryInv`. The two properties speak of records
  only, but a record comes from a task, a message, a handler or a callback that
  read or captured something earlier. `HistoryInv` therefore says of each place
  where a clock or a version can be in transit (`store`, every snapshot, every
  message in a queue, a broadcast, a handler or a closure) that its clock counts
  only changes in `minted`, and that a version in it was minted. It is preserved since
  `minted` only grows, a bump adds the version it counts in the same step, and
  each component of a merge is a component of one of its arguments.
- `PausedStaysAtRestHolds`: `Spec => PausedStaysAtRest`, step by step, with
  `TypeOK`.
- `ForkedByConflictHolds`, in every swarm, from `IInv` and `ChainInv`. The property says
  nothing of clocks that are not yet compared; the invariant does: as long as no two
  announcements are concurrent, every clock in a record, in a handler about to download and
  in a callback is that of some announcement, or `Zero`. A local change announces what it
  stores, a deletion keeps the clock, and of two ordered clocks a merge is one
  (`KnownMerge`), however stale the captured record is. A stored clock is thus never
  concurrent with an announced one, and no handler takes the branch that forks.
- `QuiescentConvergedHolds` and `TombstoneReachesDiskHolds`, assuming `Turns`
  (`Reliable`, `TurnTaking`, nobody `Pausable`: the constants of `syncer_turns`), from `TurnInv`.
  The properties speak of rest, and nothing of rest is inductive. The invariant says of
  every moment which one change is under way and what is left of it to do: `Rest`;
  `Writing(a)`, a write that a has not recorded; `Spreading(msg)`, in which every node has
  the version or has something older and is still an addressee, or has the message or the
  callback (`Reached`); `Deleting(a, B)`, in which all records keep the clock B, every message is
  a tombstone newer than B (so none is passed over, and each echo is as good as the
  first), and every node has lost file and live record or will hear of it (`Remaining`). Each
  step keeps a phase or leads to the next, and a phase with nothing under way
  is `Rest` (`QuiescentIsRest`). `TurnsNeverFork` and `TurnsClocksGrow` follow from the
  same invariant: under `Turns` there are no conflict copies and no clock goes back, which it
  may do in other swarms (section 3).
- `RecordMatchesFileHolds`, assuming `Alone` (one node, any number of timer callbacks,
  `Reliable`, not paused: `syncer_local`), of every behaviour that is always `OneHandler`, from
  `LocalInv`: while an event waits nothing need
  match, since it will be handled; once none does, the handler under way is `Current`:
  it is about to look at a file that is there, has its very hash, or is about to mark the
  record of one that is gone. A second callback could overtake the first (section 3), which is why
  `OneHandler` is a hypothesis.
- `CompareDecidesOrder`, `BumpIsNewer`, `MergeIsLeastUpperBound` (`ClocksProofs`): the
  clock operators against the pointwise order `Leq`.

**TorrentEngine**, for every number of leeches and torrents:

- `RunsOnceHolds`, from `EngineInv`: a callback is in the list of its torrent at
  most once or in the hands of at most one watcher, never both (`ListInv`, `WatchInv`,
  `ApartInv`), and in neither once it has run (`CallInv`). `RunsOnce` alone is not
  inductive: two watchers could each hold the callback.
- `NoOrphanCallbackHolds`, which assumes `Prompt`, from `PromptInv` as well: as long as a
  caller has not registered, or its callback is listed, its own watcher sleeps.
- `SafePromise`: `Spec` implies the safety part of `Downloads` under the refinement
  mapping of `KeepsPromise`: initial states map to initial states and every
  step to a step or a stutter.

**Gossip**, for every number of nodes, heartbeats, breaks and crashes:

- `NoDeadEntriesHolds`, from `GossipInv`: an end that has not ended is on a node that is
  up (`EndsUp`), and a connection of a heartbeat or a peer still ahead does not
  exist yet (`Fresh`), so a dial never finds the remains of an earlier one. `TodoInv` and
  `Fresh` are also what `TypeOK` needs: a dial is a member of `Conn`.

**Watcher**, for every tree and every number of changes:

- `NewestNotStoppedHolds`, from `StopInv`: what the map has for a path is a timer of that
  path, so what is stopped has the path of what is set.
- `NewDirsWatchedHolds`, from `DirsInv`. The property is about rest; the invariant says
  of every moment what is still going to put a watch on a directory. If its newest
  event is its creation: that event waits in `raw`, or the last timer of the path
  is of it (`LastInv`) and has a watch or the directory in what its walk still visits
  once it is past `os.Stat` (`WalkedInv`). If it raised no event: some walk has the directory
  still to visit or its parent still to read (`FoundInv`). `PlaceInv` (watches are on
  directories that are there, and an entry whose newest event is not its removal is
  there) is why `os.Stat` finds it. Only a walk has anything to visit (`IdleInv`): at rest
  nothing is left, and since by `NewestNotStopped` the last timer was not stopped, the watch
  is there.
- `SafePromise`: `Spec` implies the initial states and the steps of `Notices` under the
  mapping of `KeepsPromise`; its liveness stays with TLC. One lemma per kind of step says
  which step of `Notices` it is. They rest on `StopInv` (the timer that a new event stops
  has that event's path, so the older notice gives way to a newer one of its path) and on
  `CountInv` (there are no more events than changes, and none is raised once the loop has
  ended).

**Control**, for every number of peers and torrents and every grace period:

- `SeedsHavePeersHolds`, from `SeedInv`: whatever stage a handler is in, as long as its torrent is
  in its path's record, the peers known are
  told to the torrent, in the handler's hands, or `Coming` with the loop, which has
  either the torrent in its list or has not listed the records yet.
- `PausedAfterGraceHolds` and `OutageNoticedHolds`, from `ContactInv`: the time in the store is
  that of the last contact, over crashes too.

**License**, for all keys, windows, expiries, token lifetimes and numbers of stops and imports:

- `RefusalJustifiedHolds`, `RenewedInTimeHolds` and `AdmittedOnNewestTokenHolds`, from
  `LInv`. The properties compare what the agent holds with what the server said, and in between
  are a file and a restart: `CacheInv` says that the cache is the newest token of all unless
  one was not saved, `StageInv` what `op` is at each stage, `IssueInv` that tokens expire in the
  order in which they are issued, `DeniedInv` that no token outlives by a lifetime the first
  refusal after it, `TimeInv` how far the ticker and the token's expiry are apart with
  the heartbeats missed so far.

**Settings**, for any number of requests, directories, keys, forms, imports and crashes:

- `ImportedKeyKeptHolds`, from `AgentInv` and `KeyInv`: after a lone import every place that a save
  may write from (the agent's `Config`, the texts of requests) has the imported key, because no
  request outlives its agent.
- `WholeAtRestHolds`, `SavedWhenQuietHolds` and `FreeTierLimitHolds`, from `FileInv`:
  while nothing has overlapped, whoever is in progress is alone (`AloneInv`), finds the file as
  it truncated it (`WholeInv`), writes the agent's directories (`SavedInv`), and
  assigns what was allowed when it looked (`LimitInv`).

Model-checked only: what needs fairness, since liveness is out of the proof system's
reach (`AlwaysSettles`, `LeechGetsOn`, `ConnectReturns`, `Relinks`, `StopEnds`, the liveness part
of `KeepsPromise`). Every invariant and every action property of a passing run is a theorem.

## 5. Plan

Done: `Clocks`, `FileStore`, `Syncer` (the core), `TorrentEngine`/`Downloads`,
`Gossip`, `Watcher`/`Notices`, `Control`, `License`, `Settings`, and the proofs above. What is left:

1. `Watcher`: the walk of `Start` interleaved with changes.
2. `Syncer`: the crash between `PutFile` and the broadcast, and a restart's missing rescan,
   against what the start-up code suggests.

## 6. Not modelled

The BitTorrent and TLS libraries, BoltDB, fsnotify, the network and the control server are used
as the code uses them, not modelled. `WaitForCompletion`, `RemoveTorrent` and `Resume` have no
caller. The pages of the web UI and its password check, the `status` and `peers`
commands and the generation of certificates change nothing that another part reads. The service
manager writes unit files and runs the operating system's commands, once per call of
the command line. `main.go:281` calls a method `AddPeer` that `GossipServer` does not have, so that
loop is left out. What callbacks of the watcher meet in a store and an engine that are being closed
is left to the libraries.
