------------------------------ MODULE Watcher ------------------------------
(***************************************************************************)
(* The watcher of internal/watcher/watcher.go on one synced directory: the *)
(* event loop, a debounce timer per path, and the timers' callbacks, each  *)
(* a goroutine that may be at any point when the next event comes in.      *)
(*                                                                         *)
(* fsnotify is a library: it reports a change of an entry whose directory  *)
(* is being watched, in order.  A timer may fire at any time after it was  *)
(* set, so callbacks overlap more than 200 ms would let them.              *)
(***************************************************************************)
EXTENDS Naturals, Sequences, FiniteSets

CONSTANTS
  Root,     \* the synced directory
  Dir,      \* directories below it
  File,     \* files below it
  Parent,   \* Parent[x]: the directory that x is in
  MaxOps    \* bound: changes to the tree, those that made what Start finds included

Entry == Dir \cup File

ASSUME WatcherAssumption ==
  /\ Dir \cap File = {} /\ Root \notin Entry
  /\ Parent \in [Entry -> Dir \cup {Root}]
  /\ MaxOps \in Nat

VARIABLES
  tree,      \* entries that exist
  watched,   \* directories with a watch
  raw,       \* events fsnotify has raised and the loop has not read
  timer,     \* every timer ever set, and where its callback is
  timers,    \* timers[x]: the index of x's timer in the map, or 0
  stopped,   \* Stop was called
  looping,   \* the event loop runs
  newest,    \* history: the type of the newest event raised for x
  reported,  \* history: the entries for which onChange was called, and the
             \* files that were there at the start
  ops        \* changes so far

vars == <<tree, watched, raw, timer, timers, stopped, looping, newest, reported, ops>>

Type == {"create", "modify", "delete"}
Raw  == [path : Entry, type : Type]

\* set and not fired; stopped before it fired; fired; its entry deleted from
\* the map; walking a new directory; about to call onChange; onChange called.
Stage == {"armed", "stopped", "fired", "unlisted", "walking", "reporting", "done"}
Timer == [path : Entry, type : Type, stage : Stage,
          add : SUBSET Dir, list : SUBSET Dir]

TypeOK ==
  /\ tree \subseteq Entry
  /\ watched \subseteq Dir \cup {Root}
  /\ raw \in Seq(Raw)
  /\ timer \in Seq(Timer)
  /\ timers \in [Entry -> Nat] /\ \A x \in Entry : timers[x] <= Len(timer)
  /\ stopped \in BOOLEAN /\ looping \in BOOLEAN
  /\ newest \in [Entry -> Type \cup {"none"}]
  /\ reported \subseteq Entry
  /\ ops \in 0..MaxOps

\* New, and Start's walk of what is there: every directory gets a watch, and no file
\* is reported.  Nothing is changed during the walk; if it meets an error, Start
\* fails and the process ends, before any behaviour here.
Init ==
  /\ tree \in {t \in SUBSET Entry : \A x \in t : Parent[x] \in t \cup {Root}}
  /\ watched = (Dir \cap tree) \cup {Root}
  /\ raw = <<>> /\ timer = <<>>
  /\ timers = [x \in Entry |-> 0]
  /\ stopped = FALSE /\ looping = TRUE
  /\ newest = [x \in Entry |-> "none"]
  /\ reported = File \cap tree
  /\ ops = Cardinality(tree) /\ ops \in 0..MaxOps

-----------------------------------------------------------------------------
(* The users' changes, and fsnotify.                                       *)

Children(d) == {x \in Entry : Parent[x] = d}

Raise(x, type) ==
  IF Parent[x] \in watched
    THEN /\ raw' = Append(raw, [path |-> x, type |-> type])
         /\ newest' = [newest EXCEPT ![x] = type]
    ELSE UNCHANGED <<raw, newest>>

Change(x, type) ==
  /\ ops < MaxOps
  /\ ops' = ops + 1
  /\ Raise(x, type)
  /\ UNCHANGED <<timer, timers, stopped, looping, reported>>

Make(x) ==
  /\ x \notin tree
  /\ Parent[x] \in tree \cup {Root}
  /\ tree' = tree \cup {x}
  /\ UNCHANGED watched
  /\ Change(x, "create")

\* A write, or a change of mode, owner or times.
Touch(x) ==
  /\ x \in tree
  /\ UNCHANGED <<tree, watched>>
  /\ Change(x, "modify")

\* The watch of a directory goes with it.  A rename is a removal here.
Remove(x) ==
  /\ x \in tree
  /\ Children(x) \cap tree = {}
  /\ tree' = tree \ {x}
  /\ watched' = watched \ {x}
  /\ Change(x, "delete")

-----------------------------------------------------------------------------
(* eventLoop and scheduleDebounced.                                        *)

\* Slip: the map is looked at after the new timer has been put in it.
SupersededLate(x) == {Len(timer) + 1}

\* The timer that t.Stop() is called on: the one in the map, if any.
Superseded(x) == {timers[x]}

\* t.Stop() does nothing to a timer that has fired.
StopTimer(i, t) == IF i \in Superseded(Head(raw).path) /\ t.stage = "armed"
                 THEN [t EXCEPT !.stage = "stopped"] ELSE t

\* All of scheduleDebounced runs under the lock.
ScheduleDebounced ==
  LET e   == Head(raw)
      new == [path |-> e.path, type |-> e.type, stage |-> "armed",
              add |-> {}, list |-> {}]
      all == Append(timer, new)
  IN  /\ looping
      /\ raw # <<>>
      /\ raw' = Tail(raw)
      /\ timer' = [i \in 1..Len(all) |-> StopTimer(i, all[i])]
      /\ timers' = [timers EXCEPT ![e.path] = Len(all)]
      /\ UNCHANGED <<tree, watched, stopped, looping, newest, reported, ops>>

Stop ==
  /\ ~stopped
  /\ stopped' = TRUE
  /\ watched' = {}
  /\ UNCHANGED <<tree, raw, timer, timers, looping, newest, reported, ops>>

\* The stopped channel or fsnotify's event channel is closed.
LoopEnds ==
  /\ looping /\ stopped
  /\ looping' = FALSE
  /\ raw' = <<>>
  /\ UNCHANGED <<tree, watched, timer, timers, stopped, newest, reported, ops>>

-----------------------------------------------------------------------------
(* The function given to AfterFunc, for timer i.                           *)

Fire(i) ==
  /\ timer[i].stage = "armed"
  /\ timer' = [timer EXCEPT ![i].stage = "fired"]
  /\ UNCHANGED <<tree, watched, raw, timers, stopped, looping, newest, reported, ops>>

\* delete(w.timers, path): whichever timer of the path is there by now.
Unlist(i) ==
  /\ timer[i].stage = "fired"
  /\ timer' = [timer EXCEPT ![i].stage = "unlisted"]
  /\ timers' = [timers EXCEPT ![timer[i].path] = 0]
  /\ UNCHANGED <<tree, watched, raw, stopped, looping, newest, reported, ops>>

\* Slip: the callback returns on an error of os.Stat.
StatPathChecked(i) ==
  LET t == timer[i] IN
  /\ t.stage = "unlisted"
  /\ t.path \in tree
  /\ timer' = [timer EXCEPT ![i] =
                 IF t.path \in Dir /\ t.type = "create"
                   THEN [t EXCEPT !.stage = "walking", !.add = {t.path}]
                   ELSE [t EXCEPT !.stage = "reporting"]]
  /\ UNCHANGED <<tree, watched, raw, timers, stopped, looping, newest, reported, ops>>

\* Slip: isDir is not looked at.
StatPathAny(i) ==
  LET t == timer[i] IN
  /\ t.stage = "unlisted"
  /\ timer' = [timer EXCEPT ![i] =
                 IF t.type = "create"
                   THEN [t EXCEPT !.stage = "walking", !.add = {t.path}]
                   ELSE [t EXCEPT !.stage = "reporting"]]
  /\ UNCHANGED <<tree, watched, raw, timers, stopped, looping, newest, reported, ops>>

\* os.Stat, whose error means that the path is no directory: only a directory
\* whose event is its creation is walked.
StatPath(i) ==
  LET t == timer[i] IN
  /\ t.stage = "unlisted"
  /\ timer' = [timer EXCEPT ![i] =
                 IF t.path \in Dir \cap tree /\ t.type = "create"
                   THEN [t EXCEPT !.stage = "walking", !.add = {t.path}]
                   ELSE [t EXCEPT !.stage = "reporting"]]
  /\ UNCHANGED <<tree, watched, raw, timers, stopped, looping, newest, reported, ops>>

\* WalkDir visits a directory: w.fsw.Add, whose error is passed over.
AddWatch(i) == \E d \in timer[i].add :
  /\ timer[i].stage = "walking"
  /\ watched' = IF d \in tree /\ ~stopped THEN watched \cup {d} ELSE watched
  /\ timer' = [timer EXCEPT ![i].add = @ \ {d}, ![i].list = @ \cup {d}]
  /\ UNCHANGED <<tree, raw, timers, stopped, looping, newest, reported, ops>>

\* Slip: only the new directory itself is watched.
FoundNone(d) == {}

\* The directories that reading d finds.
Found(d) == Children(d) \cap Dir \cap tree

\* WalkDir reads the directory, after the visit.
ListDir(i) == \E d \in timer[i].list :
  /\ timer[i].stage = "walking"
  /\ timer' = [timer EXCEPT ![i].list = @ \ {d}, ![i].add = @ \cup Found(d)]
  /\ UNCHANGED <<tree, watched, raw, timers, stopped, looping, newest, reported, ops>>

WalkEnds(i) ==
  /\ timer[i].stage = "walking"
  /\ timer[i].add = {} /\ timer[i].list = {}
  /\ timer' = [timer EXCEPT ![i].stage = "reporting"]
  /\ UNCHANGED <<tree, watched, raw, timers, stopped, looping, newest, reported, ops>>

OnChange(i) ==
  /\ timer[i].stage = "reporting"
  /\ timer' = [timer EXCEPT ![i].stage = "done"]
  /\ reported' = reported \cup {timer[i].path}
  /\ UNCHANGED <<tree, watched, raw, timers, stopped, looping, newest, ops>>

-----------------------------------------------------------------------------
CallbackStep(i) == \/ Fire(i) \/ Unlist(i) \/ StatPath(i) \/ AddWatch(i)
                   \/ ListDir(i) \/ WalkEnds(i) \/ OnChange(i)

Next == \/ \E x \in Entry : Make(x) \/ Touch(x) \/ Remove(x)
        \/ ScheduleDebounced \/ Stop \/ LoopEnds
        \/ \E i \in DOMAIN timer : CallbackStep(i)

Spec == Init /\ [][Next]_vars

\* The loop and the callbacks are scheduled; users and Stop owe nothing.
Fairness ==
  /\ WF_vars(ScheduleDebounced \/ LoopEnds)
  /\ \A i \in 1..MaxOps : WF_vars(i \in DOMAIN timer /\ CallbackStep(i))

FairSpec == Spec /\ Fairness

-----------------------------------------------------------------------------
\* Nothing is left to do.
AtRest == /\ raw = <<>>
          /\ \A i \in DOMAIN timer : timer[i].stage \in {"stopped", "done"}

\* Debouncing only ever drops an event for a newer one of the same path: the
\* timer that was set last for a path is never the one that is stopped, even
\* though a late callback deletes another timer's entry from the map.
NewestNotStopped ==
  \A i \in DOMAIN timer : timer[i].stage = "stopped" =>
    \E j \in DOMAIN timer : j > i /\ timer[j].path = timer[i].path

\* At rest, a directory below a watched one is watched if its creation is the
\* newest event raised for it or raised none, whatever was created in it or
\* moved away while the walk of its parent was under way.
NewDirsWatched ==
  AtRest /\ ~stopped => \A d \in Dir \cap tree :
    Parent[d] \in watched /\ newest[d] \in {"none", "create"} => d \in watched

\* Every event is dealt with: the loop reads it, and its timer is superseded
\* or onChange is called, also for a path that is gone by then.
AlwaysSettles == []<>AtRest

\* Number i of the events that fsnotify raised: they are read in order.
EventPath(i) == IF i <= Len(timer) THEN timer[i].path ELSE raw[i - Len(timer)].path

\* Every change that fsnotify reports is passed on, or gives way to a newer one of
\* its path that is passed on or waits in its place, though the map of timers
\* loses entries to late callbacks; only what Stop finds unread is dropped.
Promise == INSTANCE Notices WITH
  Path       <- Entry,
  MaxNotices <- MaxOps,
  notice     <- [i \in 1..Len(timer) + Len(raw) |-> EventPath(i)],
  owed       <- {i \in 1..Len(timer) + Len(raw) :
                   i <= Len(timer) => timer[i].stage \notin {"stopped", "done"}},
  told       <- {i \in DOMAIN timer : timer[i].stage = "done"},
  closed     <- ~looping

KeepsPromise == Promise!FairSpec

\* "Watcher watches a directory tree recursively for filesystem changes."
\* (watcher.go:32): at rest, every file that came into the tree has been reported.
FilesReported == AtRest /\ ~stopped => File \cap tree \subseteq reported
=============================================================================
