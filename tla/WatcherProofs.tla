--------------------------- MODULE WatcherProofs ---------------------------
(***************************************************************************)
(* Proofs about Watcher: its types, that debouncing drops an event only    *)
(* for a newer one, and that new directories come to be watched.           *)
(***************************************************************************)
EXTENDS Watcher, SequenceTheorems, TLAPS

\* A list with one timer replaced.
LEMMA Replaced ==
  ASSUME NEW s \in Seq(Timer), NEW i \in DOMAIN s, NEW t \in Timer
  PROVE  /\ [s EXCEPT ![i] = t] \in Seq(Timer)
         /\ DOMAIN [s EXCEPT ![i] = t] = DOMAIN s
         /\ Len([s EXCEPT ![i] = t]) = Len(s)
         /\ [s EXCEPT ![i] = t][i] = t
         /\ \A j \in DOMAIN s : j # i => [s EXCEPT ![i] = t][j] = s[j]
  OBVIOUS

\* What a step of the callback of timer i changes: where it is, not whose it is.
Moves(i) ==
  /\ i \in DOMAIN timer
  /\ timer' \in Seq(Timer) /\ DOMAIN timer' = DOMAIN timer /\ Len(timer') = Len(timer)
  /\ \A j \in DOMAIN timer : j # i => timer'[j] = timer[j]
  /\ timer'[i].path = timer[i].path /\ timer'[i].type = timer[i].type

LEMMA CallbackMoves ==
  ASSUME TypeOK, NEW i \in DOMAIN timer, CallbackStep(i)
  PROVE  Moves(i)
<1>1. timer \in Seq(Timer) /\ timer[i] \in Timer
  BY DEF TypeOK
<1>2. SUFFICES ASSUME NEW t \in Timer, timer' = [timer EXCEPT ![i] = t],
                      t.path = timer[i].path, t.type = timer[i].type
               PROVE  Moves(i)
  <2>1. CASE Fire(i)
    BY <1>1, <1>2, <2>1 DEF Fire, Timer, Stage
  <2>2. CASE Unlist(i)
    BY <1>1, <1>2, <2>2 DEF Unlist, Timer, Stage
  <2>3. CASE StatPath(i)
    BY <1>1, <1>2, <2>3 DEF StatPath, Timer, Stage
  <2>4. CASE AddWatch(i)
    BY <1>1, <1>2, <2>4, ZenonT(30) DEF AddWatch, Timer
  <2>5. CASE ListDir(i)
    BY <1>1, <1>2, <2>5 DEF ListDir, Found, Timer
  <2>6. CASE WalkEnds(i)
    BY <1>1, <1>2, <2>6 DEF WalkEnds, Timer, Stage
  <2>7. CASE OnChange(i)
    BY <1>1, <1>2, <2>7 DEF OnChange, Timer, Stage
  <2> QED
    BY <2>1, <2>2, <2>3, <2>4, <2>5, <2>6, <2>7 DEF CallbackStep
<1> QED
  BY <1>1, <1>2, Replaced DEF Moves

\* What ScheduleDebounced does to the timers.
Schedules ==
  LET x == Head(raw).path IN
  /\ x \in Entry /\ Head(raw).type \in Type
  /\ raw \in Seq(Raw) /\ raw # <<>> /\ raw' = Tail(raw)
  /\ timer' \in Seq(Timer)
  /\ Len(timer) \in Nat /\ Len(timer') = Len(timer) + 1
  /\ DOMAIN timer = 1..Len(timer) /\ DOMAIN timer' = 1..(Len(timer) + 1)
  /\ timer'[Len(timer) + 1] = [path |-> x, type |-> Head(raw).type,
                               stage |-> "armed", add |-> {}, list |-> {}]
  /\ \A j \in DOMAIN timer :
       IF j = timers[x] /\ timer[j].stage = "armed"
         THEN timer'[j] = [timer[j] EXCEPT !.stage = "stopped"]
         ELSE timer'[j] = timer[j]
  /\ timers' = [timers EXCEPT ![x] = Len(timer) + 1]

LEMMA ScheduleSchedules ==
  ASSUME TypeOK, ScheduleDebounced
  PROVE  Schedules
<1> DEFINE x   == Head(raw).path
           new == [path |-> x, type |-> Head(raw).type, stage |-> "armed",
                   add |-> {}, list |-> {}]
           all == Append(timer, new)
<1>1. raw \in Seq(Raw) /\ raw # <<>> /\ Head(raw) \in Raw
  BY DEF ScheduleDebounced, TypeOK
<1>2. x \in Entry /\ Head(raw).type \in Type /\ new \in Timer
  BY <1>1 DEF Raw, Timer, Stage
<1>3. /\ timer \in Seq(Timer) /\ Len(timer) \in Nat /\ DOMAIN timer = 1..Len(timer)
      /\ timers \in [Entry -> Nat] /\ timers[x] <= Len(timer) /\ timers[x] \in Nat
  BY <1>2 DEF TypeOK
<1>4. /\ Len(all) = Len(timer) + 1
      /\ \A j \in 1..Len(timer) : all[j] = timer[j] /\ all[j] \in Timer
      /\ all[Len(timer) + 1] = new
  BY <1>2, <1>3
<1>5. /\ timer' = [i \in 1..Len(all) |-> StopTimer(i, all[i])]
      /\ timers' = [timers EXCEPT ![x] = Len(all)]
      /\ raw' = Tail(raw)
  BY DEF ScheduleDebounced
<1> HIDE DEF all
<1>6. \A j \in 1..(Len(timer) + 1) : timer'[j] = StopTimer(j, all[j])
  BY <1>4, <1>5
<1>7. timer'[Len(timer) + 1] = new
  <2>1. timer'[Len(timer) + 1] = StopTimer(Len(timer) + 1, new)
    BY <1>3, <1>4, <1>6
  <2>2. Len(timer) + 1 \notin Superseded(x)
    BY <1>3 DEF Superseded
  <2> QED
    BY <2>1, <2>2 DEF StopTimer
<1>8. \A j \in DOMAIN timer :
        IF j = timers[x] /\ timer[j].stage = "armed"
          THEN timer'[j] = [timer[j] EXCEPT !.stage = "stopped"]
          ELSE timer'[j] = timer[j]
  <2>1. \A j, t : StopTimer(j, t) = IF j = timers[x] /\ t.stage = "armed"
                                    THEN [t EXCEPT !.stage = "stopped"] ELSE t
    BY DEF StopTimer, Superseded
  <2>2. \A j \in DOMAIN timer : timer'[j] = StopTimer(j, timer[j])
    BY <1>3, <1>4, <1>6
  <2> QED
    BY <2>1, <2>2
<1>9. \A j \in 1..(Len(timer) + 1) : timer'[j] \in Timer
  <2>1. \A t \in Timer : [t EXCEPT !.stage = "stopped"] \in Timer
    BY DEF Timer, Stage
  <2> QED
    <3>1. \A j \in DOMAIN timer : timer[j] \in Timer
      BY <1>3
    <3>2. \A j \in DOMAIN timer : timer'[j] \in Timer
      BY <1>8, <2>1, <3>1
    <3> QED
      BY <1>2, <1>3, <1>7, <3>2
<1>10. /\ timer' \in Seq(Timer) /\ Len(timer') = Len(timer) + 1
       /\ DOMAIN timer' = 1..(Len(timer) + 1)
  BY <1>3, <1>4, <1>5, <1>9
<1> QED
  BY <1>1, <1>2, <1>3, <1>4, <1>5, <1>7, <1>8, <1>10 DEF Schedules

-----------------------------------------------------------------------------
LEMMA TypeInit == Init => TypeOK
<1>1. 0 \in 0..MaxOps /\ <<>> \in Seq(Raw) /\ <<>> \in Seq(Timer) /\ Len(<<>>) = 0
  BY WatcherAssumption
<1> QED
  <2> SUFFICES ASSUME Init PROVE TypeOK
    OBVIOUS
  <2>1. timers \in [Entry -> Nat] /\ \A x \in Entry : timers[x] <= Len(timer)
    BY <1>1 DEF Init
  <2>2. newest \in [Entry -> Type \cup {"none"}]
    BY DEF Init
  <2> QED
    BY <1>1, <2>1, <2>2 DEF Init, TypeOK

LEMMA TypeStep == TypeOK /\ [Next]_vars => TypeOK'
<1> SUFFICES ASSUME TypeOK, [Next]_vars PROVE TypeOK'
  OBVIOUS
<1> USE WatcherAssumption
<1>1. ASSUME NEW x \in Entry, NEW type \in Type, Change(x, type)
      PROVE  /\ raw' \in Seq(Raw) /\ newest' \in [Entry -> Type \cup {"none"}]
             /\ ops' \in 0..MaxOps
             /\ UNCHANGED <<timer, timers, stopped, looping, reported>>
  <2>1. ops' \in 0..MaxOps
    BY <1>1 DEF Change, TypeOK
  <2>2. [path |-> x, type |-> type] \in Raw
    BY DEF Raw
  <2>3. CASE Parent[x] \in watched
    <3>1. /\ raw' = Append(raw, [path |-> x, type |-> type])
          /\ newest' = [newest EXCEPT ![x] = type]
      BY <1>1, <2>3 DEF Change, Raise
    <3> QED
      BY <1>1, <2>1, <2>2, <3>1 DEF Change, TypeOK
  <2>4. CASE Parent[x] \notin watched
    BY <1>1, <2>1, <2>4 DEF Change, Raise, TypeOK
  <2> QED
    BY <2>3, <2>4
<1>2. ASSUME NEW x \in Entry, Make(x) \/ Touch(x) \/ Remove(x) PROVE TypeOK'
  <2>1. PICK type \in Type : Change(x, type)
    BY <1>2 DEF Make, Touch, Remove, Type
  <2>2. tree' \subseteq Entry /\ watched' \subseteq Dir \cup {Root}
    BY <1>2 DEF Make, Touch, Remove, TypeOK
  <2> QED
    BY <1>1, <2>1, <2>2 DEF TypeOK
<1>3. CASE ScheduleDebounced
  <2>1. Schedules
    BY <1>3, ScheduleSchedules
  <2>2. Tail(raw) \in Seq(Raw)
    BY <2>1 DEF Schedules
  <2>3. timers' \in [Entry -> Nat] /\ \A x \in Entry : timers'[x] <= Len(timer')
    BY <2>1 DEF Schedules, TypeOK
  <2> QED
    BY <1>3, <2>1, <2>2, <2>3 DEF ScheduleDebounced, Schedules, TypeOK
<1>4. CASE Stop \/ LoopEnds
  <2>1. CASE Stop
    BY <2>1 DEF Stop, TypeOK
  <2>2. CASE LoopEnds
    <3>1. <<>> \in Seq(Raw)
      OBVIOUS
    <3> QED
      BY <2>2, <3>1 DEF LoopEnds, TypeOK
  <2> QED
    BY <1>4, <2>1, <2>2
<1>5. ASSUME NEW i \in DOMAIN timer, CallbackStep(i) PROVE TypeOK'
  <2>1. Moves(i)
    BY <1>5, CallbackMoves
  <2>2. timer[i] \in Timer
    BY DEF TypeOK
  <2>3. watched' \subseteq Dir \cup {Root}
    <3>1. CASE AddWatch(i)
      BY <2>2, <3>1 DEF AddWatch, TypeOK, Timer
    <3> QED
      BY <1>5, <3>1 DEF CallbackStep, Fire, Unlist, StatPath, ListDir,
                        WalkEnds, OnChange, TypeOK
  <2>4. reported' \subseteq Entry
    BY <1>5, <2>2 DEF CallbackStep, Fire, Unlist, StatPath, AddWatch, ListDir,
                      WalkEnds, OnChange, TypeOK, Timer
  <2>5. timers' \in [Entry -> Nat] /\ \A x \in Entry : timers'[x] <= Len(timer')
    <3>1. \/ timers' = timers
          \/ timers' = [timers EXCEPT ![timer[i].path] = 0]
      BY <1>5 DEF CallbackStep, Fire, Unlist, StatPath, AddWatch, ListDir,
                  WalkEnds, OnChange
    <3>2. Len(timer') = Len(timer) /\ Len(timer) \in Nat
      BY <2>1 DEF Moves, TypeOK
    <3>3. CASE timers' = timers
      BY <3>2, <3>3, <2>1 DEF TypeOK, Moves
    <3>4. CASE timers' = [timers EXCEPT ![timer[i].path] = 0]
      <4>1. \A x \in Entry : timers'[x] \in {timers[x], 0}
        BY <3>4 DEF TypeOK
      <4>2. \A x \in Entry : timers'[x] <= Len(timer)
        BY <3>2, <4>1 DEF TypeOK
      <4> QED
        BY <3>2, <3>4, <4>2 DEF TypeOK
    <3> QED
      BY <3>1, <3>3, <3>4
  <2>6. UNCHANGED <<tree, raw, stopped, looping, newest, ops>>
    BY <1>5 DEF CallbackStep, Fire, Unlist, StatPath, AddWatch, ListDir,
                WalkEnds, OnChange
  <2> QED
    BY <2>1, <2>3, <2>4, <2>5, <2>6 DEF TypeOK, Moves
<1>6. CASE UNCHANGED vars
  BY <1>6 DEF vars, TypeOK
<1> QED
  BY <1>2, <1>3, <1>4, <1>5, <1>6 DEF Next

\* Every variable has its type.
THEOREM TypeCorrect == Spec => []TypeOK
  BY TypeInit, TypeStep, PTL DEF Spec

-----------------------------------------------------------------------------
(* NewestNotStopped.                                                       *)

\* The map has a timer of the path that it is asked for.
MapInv == \A x \in Entry : timers[x] # 0 =>
  timers[x] \in DOMAIN timer /\ timer[timers[x]].path = x

StopInv == TypeOK /\ MapInv /\ NewestNotStopped

LEMMA StopInvStep ==
  ASSUME StopInv, [Next]_vars
  PROVE  StopInv'
<1>1. TypeOK'
  BY TypeStep DEF StopInv
<1>2. ASSUME NEW x \in Entry, Make(x) \/ Touch(x) \/ Remove(x)
      PROVE  timer' = timer /\ timers' = timers
  BY <1>2 DEF Make, Touch, Remove, Change
<1>3. ASSUME timer' = timer, timers' = timers PROVE StopInv'
  BY <1>1, <1>3 DEF StopInv, MapInv, NewestNotStopped
<1>4. CASE ScheduleDebounced
  <2>1. Schedules
    BY <1>4, ScheduleSchedules DEF StopInv
  <2>2. PICK x \in Entry : x = Head(raw).path
    BY <2>1 DEF Schedules
  <2> DEFINE k == Len(timer) + 1
  <2>3. /\ Len(timer) \in Nat
        /\ DOMAIN timer = 1..Len(timer) /\ DOMAIN timer' = 1..(Len(timer) + 1)
        /\ timer'[k].path = x /\ timer'[k].stage = "armed"
        /\ timers' = [timers EXCEPT ![x] = k]
        /\ \A j \in DOMAIN timer :
             /\ timer'[j].path = timer[j].path
             /\ timer'[j].stage = "stopped" =>
                  \/ timer[j].stage = "stopped"
                  \/ j = timers[x]
    <3>1. ASSUME NEW j \in DOMAIN timer
          PROVE  /\ timer'[j].path = timer[j].path
                 /\ timer'[j].stage = "stopped" =>
                      timer[j].stage = "stopped" \/ j = timers[x]
      <4>1. timer[j] \in Timer
        BY DEF StopInv, TypeOK
      <4>2. \/ timer'[j] = timer[j]
            \/ timer'[j] = [timer[j] EXCEPT !.stage = "stopped"] /\ j = timers[x]
        BY <2>1, <2>2 DEF Schedules
      <4> QED
        BY <4>1, <4>2 DEF Timer
    <3> QED
      BY <2>1, <2>2, <3>1 DEF Schedules
  <2>4. k \in DOMAIN timer' /\ \A j \in DOMAIN timer : j \in DOMAIN timer' /\ k > j
    BY <2>3
  <2>5. \A j \in DOMAIN timer' : j = k \/ j \in DOMAIN timer
    BY <2>3
  <2> HIDE DEF k
  <2>6. MapInv'
    BY <2>3, <2>4 DEF StopInv, TypeOK, MapInv
  <2>7. ASSUME NEW j \in DOMAIN timer', timer'[j].stage = "stopped"
        PROVE  \E l \in DOMAIN timer' : l > j /\ timer'[l].path = timer'[j].path
    <3>1. j # k /\ j \in DOMAIN timer
      BY <2>3, <2>5, <2>7
    <3>2. CASE timer[j].stage = "stopped"
      <4>1. PICK l \in DOMAIN timer : l > j /\ timer[l].path = timer[j].path
        BY <3>1, <3>2 DEF StopInv, NewestNotStopped
      <4> QED
        BY <2>3, <2>4, <3>1, <4>1
    <3>3. CASE j = timers[x]
      <4>1. j # 0
        BY <2>3, <3>1
      <4>2. timer[j].path = x
        BY <3>3, <4>1 DEF StopInv, MapInv
      <4> QED
        BY <2>3, <2>4, <3>1, <4>2
    <3> QED
      BY <2>3, <2>7, <3>1, <3>2, <3>3
  <2> QED
    BY <1>1, <2>6, <2>7 DEF StopInv, NewestNotStopped
<1>5. ASSUME NEW i \in DOMAIN timer, CallbackStep(i) PROVE StopInv'
  <2>1. Moves(i)
    BY <1>5, CallbackMoves DEF StopInv
  <2>2. timers' = timers \/ timers' = [timers EXCEPT ![timer[i].path] = 0]
    BY <1>5 DEF CallbackStep, Fire, Unlist, StatPath, AddWatch, ListDir,
                WalkEnds, OnChange
  <2>3. MapInv'
    <3>1. \A x \in Entry : timers'[x] # 0 => timers'[x] = timers[x]
      BY <2>2 DEF StopInv, TypeOK
    <3>2. \A j \in DOMAIN timer : j \in DOMAIN timer' /\ timer'[j].path = timer[j].path
      BY <2>1 DEF Moves
    <3> QED
      BY <3>1, <3>2 DEF StopInv, MapInv
  <2>4. timer'[i].stage # "stopped"
    <3>1. timer \in Seq(Timer) /\ timer[i] \in Timer
      BY DEF StopInv, TypeOK
    <3>2. CASE AddWatch(i)
      BY <3>1, <3>2 DEF AddWatch, Timer
    <3>3. CASE ListDir(i)
      BY <3>1, <3>3 DEF ListDir, Timer
    <3>4. CASE StatPath(i)
      BY <3>1, <3>4 DEF StatPath, Timer
    <3> QED
      BY <1>5, <3>1, <3>2, <3>3, <3>4
      DEF CallbackStep, Fire, Unlist, WalkEnds, OnChange, Timer
  <2>5. NewestNotStopped'
    BY <2>1, <2>4 DEF Moves, StopInv, NewestNotStopped
  <2> QED
    BY <1>1, <2>3, <2>5 DEF StopInv
<1> QED
  BY <1>2, <1>3, <1>4, <1>5 DEF Next, Stop, LoopEnds, vars

LEMMA StopInvHolds == Spec => []StopInv
<1>1. Init => StopInv
  BY TypeInit DEF Init, StopInv, MapInv, NewestNotStopped
<1>2. StopInv /\ [Next]_vars => StopInv'
  BY StopInvStep
<1> QED
  BY <1>1, <1>2, PTL DEF Spec

\* NewestNotStopped holds: what the map has for a path is a timer of that path,
\* and the loop puts a newer one there as it stops it.
THEOREM NewestNotStoppedHolds == Spec => []NewestNotStopped
<1>1. StopInv => NewestNotStopped
  BY DEF StopInv
<1> QED
  BY <1>1, StopInvHolds, PTL

-----------------------------------------------------------------------------
(* NewDirsWatched.                                                         *)

\* Only a walk has directories to visit or to read.
IdleInv == \A i \in DOMAIN timer :
  timer[i].stage # "walking" => timer[i].add = {} /\ timer[i].list = {}

\* A watch is on a directory that is there.  An entry whose newest event is not
\* its removal is there, and its directory is still watched.
PlaceInv ==
  /\ watched \subseteq tree \cup {Root}
  /\ \A x \in Entry : newest[x] \in {"create", "modify"} =>
       x \in tree /\ Parent[x] \in watched

\* No event of x is waiting for the loop; the last one that waits is x's newest.
NoRaw(x)   == \A k \in DOMAIN raw : raw[k].path # x
LastRaw(x) == \E k \in DOMAIN raw :
  /\ raw[k].path = x /\ raw[k].type = newest[x]
  /\ \A l \in DOMAIN raw : l > k => raw[l].path # x

\* i is the last timer set for x.
Latest(i, x) ==
  /\ timer[i].path = x
  /\ \A j \in DOMAIN timer : timer[j].path = x => j <= i

\* The newest event of an entry waits, or its last timer is of that event.
LastInv == \A x \in Entry : newest[x] # "none" =>
  \/ LastRaw(x)
  \/ NoRaw(x) /\ \E i \in DOMAIN timer : Latest(i, x) /\ timer[i].type = newest[x]

\* A callback for the creation of a directory that got past os.Stat has put a
\* watch on it or is going to.
WalkedInv == \A d \in Dir : \A i \in DOMAIN timer :
  /\ newest[d] = "create" /\ NoRaw(d) /\ Latest(i, d)
  /\ timer[i].stage \in {"walking", "reporting", "done"}
  => d \in watched \/ d \in timer[i].add

\* A directory that was there before its own directory was watched has been
\* found by a walk, or a walk has still to read that directory.
FoundInv == \A d \in Dir \cap tree :
  Parent[d] \in watched /\ newest[d] = "none" /\ d \notin watched =>
    \E i \in DOMAIN timer : d \in timer[i].add \/ Parent[d] \in timer[i].list

DirsInv == /\ StopInv /\ IdleInv
           /\ ~stopped => PlaceInv /\ LastInv /\ WalkedInv /\ FoundInv

\* A walk visits a directory, or reads one.
Visits(i) == \E d \in timer[i].add :
  /\ timer'[i].add = timer[i].add \ {d} /\ timer'[i].list = timer[i].list \cup {d}
  /\ watched' = IF d \in tree /\ ~stopped THEN watched \cup {d} ELSE watched

Lists(i) == \E d \in timer[i].list :
  /\ timer'[i].add = timer[i].add \cup Found(d) /\ timer'[i].list = timer[i].list \ {d}
  /\ watched' = watched

\* What the steps of a callback do to its timer and to the watches.
Effect(i) ==
  LET t == timer[i]
      u == timer'[i]
  IN  \/ /\ t.stage \in {"armed", "fired"} /\ u.stage \in {"fired", "unlisted"}
         /\ u.add = t.add /\ u.list = t.list /\ watched' = watched
      \/ /\ t.stage = "unlisted" /\ u.stage = "walking"
         /\ t.path \in Dir \cap tree /\ t.type = "create"
         /\ u.add = {t.path} /\ u.list = t.list /\ watched' = watched
      \/ /\ t.stage = "unlisted" /\ u.stage = "reporting"
         /\ ~(t.path \in Dir \cap tree /\ t.type = "create")
         /\ u.add = t.add /\ u.list = t.list /\ watched' = watched
      \/ t.stage = "walking" /\ u.stage = "walking" /\ (Visits(i) \/ Lists(i))
      \/ /\ t.stage = "walking" /\ u.stage = "reporting"
         /\ t.add = {} /\ t.list = {} /\ u.add = {} /\ u.list = {}
         /\ watched' = watched
      \/ /\ t.stage = "reporting" /\ u.stage = "done"
         /\ u.add = t.add /\ u.list = t.list /\ watched' = watched

LEMMA CallbackEffect ==
  ASSUME TypeOK, NEW i \in DOMAIN timer, CallbackStep(i)
  PROVE  Effect(i) /\ UNCHANGED <<tree, raw, stopped, newest>>
<1>1. timer \in Seq(Timer) /\ timer[i] \in Timer
  BY DEF TypeOK
<1>2. UNCHANGED <<tree, raw, stopped, newest>>
  BY DEF CallbackStep, Fire, Unlist, StatPath, AddWatch, ListDir, WalkEnds, OnChange
<1>3. CASE Fire(i)
  BY <1>1, <1>3 DEF Fire, Timer, Effect
<1>4. CASE Unlist(i)
  BY <1>1, <1>4 DEF Unlist, Timer, Effect
<1>5. CASE StatPath(i)
  BY <1>1, <1>5 DEF StatPath, Timer, Effect
<1>6. CASE AddWatch(i)
  <2>1. PICK d \in timer[i].add :
          /\ timer[i].stage = "walking"
          /\ watched' = IF d \in tree /\ ~stopped THEN watched \cup {d} ELSE watched
          /\ timer' = [timer EXCEPT ![i].add = @ \ {d}, ![i].list = @ \cup {d}]
    BY <1>6 DEF AddWatch
  <2>2. /\ timer'[i].stage = "walking"
        /\ timer'[i].add = timer[i].add \ {d}
        /\ timer'[i].list = timer[i].list \cup {d}
    BY <1>1, <2>1 DEF Timer
  <2>3. Visits(i)
    BY <2>1, <2>2 DEF Visits
  <2>4. timer[i].stage = "walking"
    BY <2>1
  <2> QED
    BY <1>2, <2>2, <2>3, <2>4 DEF Effect
<1>7. CASE ListDir(i)
  <2>1. PICK d \in timer[i].list :
          /\ timer[i].stage = "walking" /\ watched' = watched
          /\ timer' = [timer EXCEPT ![i].list = @ \ {d}, ![i].add = @ \cup Found(d)]
    BY <1>7 DEF ListDir
  <2>2. /\ timer'[i].stage = "walking"
        /\ timer'[i].add = timer[i].add \cup Found(d)
        /\ timer'[i].list = timer[i].list \ {d}
    BY <1>1, <2>1 DEF Timer
  <2>3. Lists(i)
    BY <2>1, <2>2 DEF Lists
  <2>4. timer[i].stage = "walking"
    BY <2>1
  <2> QED
    BY <1>2, <2>2, <2>3, <2>4 DEF Effect
<1>8. CASE WalkEnds(i)
  BY <1>1, <1>8 DEF WalkEnds, Timer, Effect
<1>9. CASE OnChange(i)
  BY <1>1, <1>9 DEF OnChange, Timer, Effect
<1> QED
  BY <1>2, <1>3, <1>4, <1>5, <1>6, <1>7, <1>8, <1>9 DEF CallbackStep

\* An event is raised for x, or its directory is not watched.
Raised(x, type) ==
  /\ timer' = timer /\ timers' = timers /\ stopped' = stopped
  /\ IF Parent[x] \in watched
       THEN /\ newest' = [newest EXCEPT ![x] = type]
            /\ ~NoRaw(x)' /\ LastRaw(x)'
            /\ \A y \in Entry \ {x} :
                 (NoRaw(y)' <=> NoRaw(y)) /\ (LastRaw(y) => LastRaw(y)')
       ELSE raw' = raw /\ newest' = newest

LEMMA ChangeRaises ==
  ASSUME TypeOK, NEW x \in Entry, NEW type \in Type, Change(x, type)
  PROVE  Raised(x, type)
<1>1. CASE Parent[x] \notin watched
  BY <1>1 DEF Change, Raise, Raised
<1>2. CASE Parent[x] \in watched
  <2> DEFINE e == [path |-> x, type |-> type]
  <2>1. /\ raw \in Seq(Raw) /\ Len(raw) \in Nat
        /\ raw' = Append(raw, e) /\ newest' = [newest EXCEPT ![x] = type]
    BY <1>2 DEF Change, Raise, TypeOK
  <2>2. /\ DOMAIN raw = 1..Len(raw) /\ DOMAIN raw' = 1..(Len(raw) + 1)
        /\ raw'[Len(raw) + 1] = e
        /\ \A k \in 1..Len(raw) : raw'[k] = raw[k]
    BY <2>1
  <2>3. newest'[x] = type /\ \A y \in Entry \ {x} : newest'[y] = newest[y]
    BY <2>1 DEF TypeOK
  <2>4. Len(raw) + 1 \in DOMAIN raw' /\ e.path = x /\ e.type = type
    BY <2>1, <2>2
  <2>5. ~NoRaw(x)'
    BY <2>2, <2>4 DEF NoRaw
  <2>6. LastRaw(x)'
    <3>1. \A l \in DOMAIN raw' : ~(l > Len(raw) + 1)
      BY <2>1, <2>2
    <3> QED
      BY <2>2, <2>3, <2>4, <3>1 DEF LastRaw
  <2>7. ASSUME NEW y \in Entry \ {x}
        PROVE  (NoRaw(y)' <=> NoRaw(y)) /\ (LastRaw(y) => LastRaw(y)')
    <3>1. \A k \in DOMAIN raw' : k \in DOMAIN raw \/ raw'[k].path # y
      BY <2>1, <2>2, <2>4
    <3>2. \A k \in DOMAIN raw : k \in DOMAIN raw' /\ raw'[k] = raw[k]
      BY <2>1, <2>2
    <3>3. NoRaw(y)' <=> NoRaw(y)
      BY <3>1, <3>2 DEF NoRaw
    <3>4. LastRaw(y) => LastRaw(y)'
      BY <2>3, <3>1, <3>2 DEF LastRaw
    <3> QED
      BY <3>3, <3>4
  <2> QED
    BY <1>2, <2>1, <2>5, <2>6, <2>7 DEF Change, Raised
<1> QED
  BY <1>1, <1>2

\* The loop has taken the first event.
LEMMA EventTaken ==
  ASSUME Schedules, newest' = newest, NEW y \in Entry,
         NEW x \in Entry, x = Head(raw).path
  PROVE  /\ ~NoRaw(x)
         /\ NoRaw(y) => NoRaw(y)'
         /\ y # x => (NoRaw(y)' => NoRaw(y)) /\ (LastRaw(y) => LastRaw(y)')
         /\ LastRaw(x) => LastRaw(x)' \/ (NoRaw(x)' /\ Head(raw).type = newest[x])
<1>1. /\ raw \in Seq(Raw) /\ Len(raw) \in Nat /\ Len(raw) >= 1
      /\ DOMAIN raw = 1..Len(raw) /\ DOMAIN raw' = 1..(Len(raw) - 1)
      /\ raw[1] = Head(raw)
      /\ \A k \in 1..(Len(raw) - 1) : raw'[k] = raw[k + 1]
  BY DEF Schedules
<1>2. 1 \in DOMAIN raw /\ raw[1].path = x
  BY <1>1
<1>3. \A k \in DOMAIN raw' : k + 1 \in DOMAIN raw /\ raw'[k] = raw[k + 1]
  BY <1>1
<1>4. \A k \in DOMAIN raw : k # 1 => k - 1 \in DOMAIN raw' /\ raw'[k - 1] = raw[k]
  BY <1>1
<1>5. ~NoRaw(x)
  BY <1>2 DEF NoRaw
<1>6. NoRaw(y) => NoRaw(y)'
  BY <1>3 DEF NoRaw
<1>7. ASSUME y # x, NoRaw(y)' PROVE NoRaw(y)
  BY <1>2, <1>4, <1>7 DEF NoRaw
<1>8. ASSUME NEW z, NEW k \in DOMAIN raw, raw[k].path = z, raw[k].type = newest[z],
             \A l \in DOMAIN raw : l > k => raw[l].path # z
      PROVE  (k = 1 => NoRaw(z)') /\ (k # 1 => LastRaw(z)')
  <2>1. \A l \in DOMAIN raw' : l + 1 > k => raw'[l].path # z
    BY <1>3, <1>8
  <2>2. CASE k = 1
    <3>1. \A l \in DOMAIN raw' : l + 1 > k
      BY <1>1, <2>2
    <3> QED
      BY <2>1, <2>2, <3>1 DEF NoRaw
  <2>3. CASE k # 1
    <3>1. \A l \in DOMAIN raw' : l > k - 1 => l + 1 > k
      BY <1>1
    <3> QED
      BY <1>4, <1>8, <2>1, <2>3, <3>1 DEF LastRaw
  <2> QED
    BY <2>2, <2>3
<1>9. ASSUME y # x, LastRaw(y) PROVE LastRaw(y)'
  BY <1>2, <1>8, <1>9 DEF LastRaw
<1>10. ASSUME LastRaw(x)
       PROVE  LastRaw(x)' \/ (NoRaw(x)' /\ Head(raw).type = newest[x])
  <2>1. PICK k \in DOMAIN raw : /\ raw[k].path = x /\ raw[k].type = newest[x]
                                /\ \A l \in DOMAIN raw : l > k => raw[l].path # x
    BY <1>10 DEF LastRaw
  <2>2. (k = 1 => NoRaw(x)') /\ (k # 1 => LastRaw(x)')
    BY <1>8, <2>1
  <2> QED
    BY <1>1, <2>1, <2>2
<1> QED
  BY <1>5, <1>6, <1>7, <1>9, <1>10

\* The parts of DirsInv that hold while Stop has not been called.
OpenInv == PlaceInv /\ LastInv /\ WalkedInv /\ FoundInv

LEMMA ChangeKeepsOpen ==
  ASSUME DirsInv, ~stopped, NEW x \in Entry, Make(x) \/ Touch(x) \/ Remove(x)
  PROVE  OpenInv'
<1> USE WatcherAssumption
<1>1. PICK type \in Type :
        /\ Change(x, type)
        /\ \/ type = "create" /\ tree' = tree \cup {x} /\ watched' = watched
              /\ x \notin tree
           \/ type = "modify" /\ tree' = tree /\ watched' = watched /\ x \in tree
           \/ /\ type = "delete" /\ Children(x) \cap tree = {}
              /\ tree' = tree \ {x} /\ watched' = watched \ {x}
  BY DEF Make, Touch, Remove, Type
<1>2. Raised(x, type)
  BY <1>1, ChangeRaises DEF DirsInv, StopInv
<1>3. PlaceInv /\ LastInv /\ WalkedInv /\ FoundInv
  BY DEF DirsInv
<1>4. newest \in [Entry -> Type \cup {"none"}]
  BY DEF DirsInv, StopInv, TypeOK
<1>5. \A y \in Entry : Parent[y] = x => y \in Children(x)
  BY DEF Children
<1>6. CASE Parent[x] \in watched
  <2>1. /\ timer' = timer /\ newest'[x] = type
        /\ \A y \in Entry : y # x => newest'[y] = newest[y]
        /\ ~NoRaw(x)' /\ LastRaw(x)'
        /\ \A y \in Entry : y # x =>
             (NoRaw(y)' <=> NoRaw(y)) /\ (LastRaw(y) => LastRaw(y)')
    <3>1. timer' = timer /\ newest' = [newest EXCEPT ![x] = type]
      BY <1>2, <1>6 DEF Raised
    <3>2. ~NoRaw(x)' /\ LastRaw(x)'
      BY <1>2, <1>6 DEF Raised
    <3>3. ASSUME NEW y \in Entry \ {x}
          PROVE  (NoRaw(y)' <=> NoRaw(y)) /\ (LastRaw(y) => LastRaw(y)')
      BY <1>2, <1>6 DEF Raised
    <3> QED
      BY <1>4, <3>1, <3>2, <3>3
  <2>2. PlaceInv'
    BY <1>1, <1>3, <1>5, <1>6, <2>1 DEF PlaceInv
  <2>3. LastInv'
    BY <1>3, <2>1 DEF LastInv, Latest
  <2>4. WalkedInv'
    BY <1>1, <1>3, <2>1 DEF WalkedInv, Latest, Entry
  <2>5. FoundInv'
    BY <1>1, <1>3, <1>5, <1>6, <2>1 DEF FoundInv, Entry, Type
  <2> QED
    BY <2>2, <2>3, <2>4, <2>5 DEF OpenInv
<1>7. CASE Parent[x] \notin watched
  <2>1. timer' = timer /\ newest' = newest /\ raw' = raw
    BY <1>2, <1>7 DEF Raised
  <2>2. newest[x] \notin {"create", "modify"}
    BY <1>3, <1>7 DEF PlaceInv
  <2>3. PlaceInv'
    BY <1>1, <1>3, <1>5, <2>1, <2>2 DEF PlaceInv
  <2>4. LastInv'
    BY <1>3, <2>1 DEF LastInv, Latest, NoRaw, LastRaw
  <2>5. WalkedInv'
    BY <1>1, <1>3, <2>1, <2>2 DEF WalkedInv, Latest, NoRaw, Entry
  <2>6. FoundInv'
    BY <1>1, <1>3, <1>7, <2>1 DEF FoundInv, Entry
  <2> QED
    BY <2>3, <2>4, <2>5, <2>6 DEF OpenInv
<1> QED
  BY <1>6, <1>7

LEMMA ScheduleKeepsOpen ==
  ASSUME DirsInv, ScheduleDebounced
  PROVE  IdleInv' /\ (~stopped => OpenInv')
<1>1. Schedules
  BY ScheduleSchedules DEF DirsInv, StopInv
<1>3. tree' = tree /\ watched' = watched /\ newest' = newest
  BY DEF ScheduleDebounced
<1>4. PICK x \in Entry : x = Head(raw).path
  BY <1>1 DEF Schedules
<1>5. PICK k \in Nat :
        /\ k = Len(timer) + 1 /\ k \in DOMAIN timer'
        /\ timer'[k].path = x /\ timer'[k].type = Head(raw).type
        /\ timer'[k].stage = "armed" /\ timer'[k].add = {} /\ timer'[k].list = {}
        /\ \A j \in DOMAIN timer : j \in DOMAIN timer' /\ j < k
        /\ \A j \in DOMAIN timer' : j = k \/ j \in DOMAIN timer
        /\ \A j \in DOMAIN timer' : j <= k
  BY <1>1, <1>4 DEF Schedules
<1>6. ASSUME NEW j \in DOMAIN timer
      PROVE  /\ timer'[j].path = timer[j].path /\ timer'[j].type = timer[j].type
             /\ timer'[j].add = timer[j].add /\ timer'[j].list = timer[j].list
             /\ \/ timer'[j].stage = timer[j].stage
                \/ timer[j].stage = "armed" /\ timer'[j].stage = "stopped"
  <2>1. timer[j] \in Timer
    BY DEF DirsInv, StopInv, TypeOK
  <2>2. \/ timer'[j] = timer[j]
        \/ timer[j].stage = "armed" /\ timer'[j] = [timer[j] EXCEPT !.stage = "stopped"]
    BY <1>1 DEF Schedules
  <2> QED
    BY <2>1, <2>2 DEF Timer
<1>7. IdleInv'
  BY <1>5, <1>6 DEF DirsInv, IdleInv
<1>2. SUFFICES ASSUME ~stopped, PlaceInv, LastInv, WalkedInv, FoundInv PROVE OpenInv'
  BY <1>7 DEF DirsInv
<1>8. ASSUME NEW y \in Entry, y # x, NEW j \in DOMAIN timer
      PROVE  Latest(j, y)' <=> Latest(j, y)
  BY <1>5, <1>6, <1>8 DEF Latest
<1>9. Latest(k, x)'
  BY <1>5 DEF Latest
<1>10. /\ ~NoRaw(x)
       /\ \A y \in Entry : /\ NoRaw(y) => NoRaw(y)'
                           /\ y # x => /\ NoRaw(y)' => NoRaw(y)
                                       /\ LastRaw(y) => LastRaw(y)'
       /\ LastRaw(x) => LastRaw(x)' \/ (NoRaw(x)' /\ Head(raw).type = newest[x])
  BY <1>1, <1>3, <1>4, EventTaken
<1>11. PlaceInv'
  BY <1>2, <1>3 DEF PlaceInv
<1>12. LastInv'
  <2>1. ASSUME NEW y \in Entry, newest[y] # "none"
        PROVE  \/ LastRaw(y)'
               \/ NoRaw(y)' /\ \E i \in DOMAIN timer' :
                                Latest(i, y)' /\ timer'[i].type = newest[y]
    <3>1. CASE y = x
      BY <1>2, <1>5, <1>9, <1>10, <2>1, <3>1 DEF LastInv
    <3>2. CASE y # x
      BY <1>2, <1>5, <1>6, <1>8, <1>10, <2>1, <3>2 DEF LastInv
    <3> QED
      BY <3>1, <3>2
  <2> QED
    BY <1>3, <2>1 DEF LastInv
<1>13. WalkedInv'
  <2>1. ASSUME NEW d \in Dir, NEW j \in DOMAIN timer', newest[d] = "create",
               NoRaw(d)', Latest(j, d)',
               timer'[j].stage \in {"walking", "reporting", "done"}
        PROVE  d \in watched \/ d \in timer'[j].add
    <3>1. j # k /\ j \in DOMAIN timer
      BY <1>5, <2>1
    <3>2. d # x
      <4>1. k \in DOMAIN timer' /\ timer'[k].path = x /\ j < k
        BY <1>5, <3>1
      <4>2. j \in Nat
        BY <3>1 DEF DirsInv, StopInv, TypeOK
      <4>3. d = x => k <= j
        BY <2>1, <4>1 DEF Latest
      <4> QED
        BY <4>1, <4>2, <4>3
    <3>3. d \in Entry
      BY DEF Entry
    <3>4. NoRaw(d) /\ Latest(j, d)
      BY <1>8, <1>10, <2>1, <3>1, <3>2, <3>3
    <3> QED
      BY <1>2, <1>6, <2>1, <3>1, <3>4 DEF WalkedInv
  <2> QED
    BY <1>3, <2>1 DEF WalkedInv
<1>14. FoundInv'
  BY <1>2, <1>3, <1>5, <1>6 DEF FoundInv
<1> QED
  BY <1>11, <1>12, <1>13, <1>14 DEF OpenInv

LEMMA CallbackKeepsOpen ==
  ASSUME DirsInv, NEW i \in DOMAIN timer, CallbackStep(i)
  PROVE  IdleInv' /\ (~stopped => OpenInv')
<1>1. Moves(i) /\ Effect(i)
  BY CallbackMoves, CallbackEffect DEF DirsInv, StopInv
<1>2. tree' = tree /\ raw' = raw /\ newest' = newest
  BY CallbackEffect DEF DirsInv, StopInv
<1>3. /\ DOMAIN timer' = DOMAIN timer
      /\ \A j \in DOMAIN timer : j # i => timer'[j] = timer[j]
      /\ \A j \in DOMAIN timer :
           timer'[j].path = timer[j].path /\ timer'[j].type = timer[j].type
  BY <1>1 DEF Moves
<1>4. ASSUME NEW j \in DOMAIN timer, NEW y \in Entry
      PROVE  Latest(j, y)' <=> Latest(j, y)
  BY <1>3, <1>4 DEF Latest
<1>5. ASSUME NEW y \in Entry
      PROVE  (NoRaw(y)' <=> NoRaw(y)) /\ (LastRaw(y)' <=> LastRaw(y))
  BY <1>2 DEF NoRaw, LastRaw
<1>6. IdleInv'
  <2>1. timer'[i].stage # "walking" => timer'[i].add = {} /\ timer'[i].list = {}
    BY <1>1 DEF Effect, DirsInv, IdleInv
  <2> QED
    BY <1>3, <2>1 DEF DirsInv, IdleInv
<1>7. SUFFICES ASSUME ~stopped, PlaceInv, LastInv, WalkedInv, FoundInv PROVE OpenInv'
  BY <1>6 DEF DirsInv
<1>8. watched \subseteq watched' /\ watched' \subseteq watched \cup tree
  BY <1>1, <1>7 DEF Effect, Visits, Lists
<1>9. PlaceInv'
  BY <1>2, <1>7, <1>8 DEF PlaceInv
<1>10. LastInv'
  BY <1>2, <1>3, <1>4, <1>5, <1>7 DEF LastInv
<1>11. WalkedInv'
  <2>1. ASSUME NEW d \in Dir, NEW j \in DOMAIN timer, newest[d] = "create",
               NoRaw(d), Latest(j, d),
               timer'[j].stage \in {"walking", "reporting", "done"}
        PROVE  d \in watched' \/ d \in timer'[j].add
    <3>1. d \in tree /\ d \in Entry
      BY <1>7, <2>1 DEF PlaceInv, Entry
    <3>2. timer[j].path = d /\ timer[j].type = "create"
      <4>1. ~LastRaw(d)
        BY <2>1 DEF LastRaw, NoRaw
      <4>2. PICK l \in DOMAIN timer : Latest(l, d) /\ timer[l].type = newest[d]
        BY <1>7, <2>1, <3>1, <4>1 DEF LastInv
      <4>3. j <= l /\ l <= j
        BY <2>1, <4>2 DEF Latest
      <4>4. j \in Nat /\ l \in Nat
        BY <2>1, <4>2 DEF DirsInv, StopInv, TypeOK
      <4> QED
        BY <2>1, <4>2, <4>3, <4>4 DEF Latest
    <3>3. CASE j # i
      BY <1>3, <1>7, <1>8, <2>1, <3>3 DEF WalkedInv
    <3>4. CASE j = i /\ timer[i].stage \in {"walking", "reporting", "done"}
      <4>1. d \in watched \/ d \in timer[i].add
        BY <1>7, <2>1, <3>4 DEF WalkedInv
      <4> QED
        BY <1>1, <1>7, <1>8, <3>1, <3>4, <4>1 DEF Effect, Visits, Lists
    <3>5. CASE j = i /\ timer[i].stage \notin {"walking", "reporting", "done"}
      BY <1>1, <2>1, <3>1, <3>2, <3>5 DEF Effect
    <3> QED
      BY <3>3, <3>4, <3>5
  <2> QED
    BY <1>2, <1>3, <1>4, <1>5, <2>1 DEF WalkedInv, Entry
<1>12. FoundInv'
  <2>1. ASSUME NEW d \in Dir \cap tree, Parent[d] \in watched', newest[d] = "none",
               d \notin watched'
        PROVE  \E j \in DOMAIN timer : d \in timer'[j].add \/ Parent[d] \in timer'[j].list
    <3>1. CASE Parent[d] \notin watched
      BY <1>1, <2>1, <3>1 DEF Effect, Visits, Lists
    <3>2. CASE Parent[d] \in watched
      <4>1. d \notin watched
        BY <1>8, <2>1
      <4>2. PICK j \in DOMAIN timer : d \in timer[j].add \/ Parent[d] \in timer[j].list
        BY <1>7, <2>1, <3>2, <4>1 DEF FoundInv
      <4>3. CASE j # i
        BY <1>3, <4>2, <4>3
      <4>4. CASE j = i
        <5>1. timer[i].stage = "walking" /\ ~(timer[i].add = {} /\ timer[i].list = {})
          BY <4>2, <4>4 DEF DirsInv, IdleInv
        <5>2. Visits(i) \/ Lists(i)
          BY <1>1, <5>1 DEF Effect
        <5>3. d \in Children(Parent[d]) \cap Dir \cap tree
          BY DEF Children, Entry
        <5>4. CASE Visits(i)
          BY <1>7, <2>1, <4>2, <4>4, <5>4 DEF Visits
        <5>5. CASE Lists(i)
          BY <4>2, <4>4, <5>3, <5>5 DEF Lists, Found
        <5> QED
          BY <5>2, <5>4, <5>5
      <4> QED
        BY <4>3, <4>4
    <3> QED
      BY <3>1, <3>2
  <2> QED
    BY <1>2, <1>3, <2>1 DEF FoundInv
<1> QED
  BY <1>9, <1>10, <1>11, <1>12 DEF OpenInv

LEMMA DirsInvStep ==
  ASSUME DirsInv, [Next]_vars
  PROVE  DirsInv'
<1>1. StopInv'
  BY StopInvStep DEF DirsInv
<1>2. ASSUME IdleInv', stopped' = stopped, ~stopped => OpenInv' PROVE DirsInv'
  BY <1>1, <1>2 DEF DirsInv, OpenInv
<1>3. ASSUME timer' = timer PROVE IdleInv'
  BY <1>3 DEF DirsInv, IdleInv
<1>4. ASSUME NEW x \in Entry, Make(x) \/ Touch(x) \/ Remove(x) PROVE DirsInv'
  <2>1. timer' = timer /\ stopped' = stopped
    BY <1>4 DEF Make, Touch, Remove, Change
  <2>2. ~stopped => OpenInv'
    BY <1>4, ChangeKeepsOpen
  <2> QED
    BY <1>2, <1>3, <2>1, <2>2
<1>5. CASE ScheduleDebounced
  <2>1. stopped' = stopped
    BY <1>5 DEF ScheduleDebounced
  <2> QED
    BY <1>2, <1>5, <2>1, ScheduleKeepsOpen
<1>6. CASE Stop \/ LoopEnds
  <2>1. timer' = timer /\ stopped' = TRUE
    BY <1>6 DEF Stop, LoopEnds, DirsInv, StopInv, TypeOK
  <2> QED
    BY <1>1, <1>3, <2>1 DEF DirsInv
<1>7. ASSUME NEW i \in DOMAIN timer, CallbackStep(i) PROVE DirsInv'
  <2>1. stopped' = stopped
    BY <1>7, CallbackEffect DEF DirsInv, StopInv
  <2> QED
    BY <1>2, <1>7, <2>1, CallbackKeepsOpen
<1>8. CASE UNCHANGED vars
  BY <1>1, <1>8 DEF vars, DirsInv, IdleInv, PlaceInv, LastInv, WalkedInv, FoundInv,
                    NoRaw, LastRaw, Latest
<1> QED
  BY <1>4, <1>5, <1>6, <1>7, <1>8 DEF Next

LEMMA DirsInvHolds == Spec => []DirsInv
<1>1. Init => DirsInv
  <2> SUFFICES ASSUME Init PROVE DirsInv
    OBVIOUS
  <2>1. StopInv
    BY TypeInit DEF Init, StopInv, MapInv, NewestNotStopped
  <2>2. timer = <<>> /\ watched = (Dir \cap tree) \cup {Root}
    BY DEF Init
  <2>3. \A x \in Entry : newest[x] = "none"
    BY DEF Init
  <2>4. IdleInv /\ PlaceInv /\ LastInv /\ WalkedInv /\ FoundInv
    BY <2>2, <2>3 DEF IdleInv, PlaceInv, LastInv, WalkedInv, FoundInv
  <2> QED
    BY <2>1, <2>4 DEF DirsInv
<1>2. DirsInv /\ [Next]_vars => DirsInv'
  BY DirsInvStep
<1> QED
  BY <1>1, <1>2, PTL DEF Spec

\* NewDirsWatched holds: the last event of a directory is never debounced away,
\* its callback finds the directory there, and what the walk passes by was
\* there when its own directory was read.
THEOREM NewDirsWatchedHolds == Spec => []NewDirsWatched
<1>1. ASSUME DirsInv PROVE NewDirsWatched
  <2>1. SUFFICES ASSUME AtRest, ~stopped, NEW d \in Dir \cap tree,
                        Parent[d] \in watched, newest[d] \in {"none", "create"},
                        d \notin watched
                 PROVE  FALSE
    BY DEF NewDirsWatched
  <2>2. \A i \in DOMAIN timer : /\ timer[i].stage \in {"stopped", "done"}
                                /\ timer[i].add = {} /\ timer[i].list = {}
    BY <1>1, <2>1 DEF AtRest, DirsInv, IdleInv
  <2>3. CASE newest[d] = "none"
    BY <1>1, <2>1, <2>2, <2>3 DEF DirsInv, FoundInv
  <2>4. CASE newest[d] = "create"
    <3>1. NoRaw(d) /\ ~LastRaw(d)
      BY <2>1 DEF AtRest, NoRaw, LastRaw
    <3>2. PICK i \in DOMAIN timer : Latest(i, d)
      BY <1>1, <2>1, <2>4, <3>1 DEF DirsInv, LastInv, Entry
    <3>3. timer[i].stage # "stopped"
      <4>1. SUFFICES ASSUME timer[i].stage = "stopped" PROVE FALSE
        OBVIOUS
      <4>2. PICK j \in DOMAIN timer : j > i /\ timer[j].path = timer[i].path
        BY <1>1, <3>2, <4>1 DEF DirsInv, StopInv, NewestNotStopped
      <4>3. j <= i
        BY <3>2, <4>2 DEF Latest
      <4>4. j \in Nat /\ i \in Nat
        BY <1>1, <3>2, <4>2 DEF DirsInv, StopInv, TypeOK
      <4> QED
        BY <4>2, <4>3, <4>4
    <3>4. timer[i].stage = "done"
      BY <2>2, <3>2, <3>3
    <3> QED
      BY <1>1, <2>1, <2>2, <2>4, <3>1, <3>2, <3>4 DEF DirsInv, WalkedInv
  <2> QED
    BY <2>1, <2>3, <2>4
<1> QED
  BY <1>1, DirsInvHolds, PTL

-----------------------------------------------------------------------------
(* The safety part of KeepsPromise.                                        *)

PromiseSafety == Promise!Init /\ [][Promise!Next]_(Promise!vars)

\* Events are raised for changes only, and as long as the loop runs.
CountInv ==
  /\ Len(timer) + Len(raw) <= ops
  /\ stopped => watched = {}
  /\ ~looping => stopped

Notice == [i \in 1..Len(timer) + Len(raw) |-> EventPath(i)]
Owed   == {i \in 1..Len(timer) + Len(raw) :
             i <= Len(timer) => timer[i].stage \notin {"stopped", "done"}}
Told   == {i \in DOMAIN timer : timer[i].stage = "done"}

LEMMA CountStep ==
  ASSUME TypeOK, CountInv, [Next]_vars
  PROVE  CountInv'
<1>a. Len(timer) \in Nat /\ Len(raw) \in Nat /\ ops \in Nat /\ raw \in Seq(Raw)
  BY WatcherAssumption DEF TypeOK
<1>1. ASSUME NEW x \in Entry, Make(x) \/ Touch(x) \/ Remove(x) PROVE CountInv'
  <2>1. PICK type \in Type : Change(x, type) /\ watched' \subseteq watched
    BY <1>1 DEF Make, Touch, Remove, Type
  <2>2. /\ ops' = ops + 1 /\ timer' = timer /\ Raise(x, type)
        /\ UNCHANGED <<stopped, looping>>
    BY <2>1 DEF Change
  <2>3. Len(raw') <= Len(raw) + 1 /\ Len(raw') \in Nat
    BY <1>a, <2>2 DEF Raise
  <2>4. Len(timer') + Len(raw') <= ops'
    BY <1>a, <2>2, <2>3 DEF CountInv
  <2>5. stopped => watched' = {}
    BY <2>1 DEF CountInv
  <2> QED
    BY <2>2, <2>4, <2>5 DEF CountInv
<1>2. CASE ScheduleDebounced
  <2>1. Schedules
    BY <1>2, ScheduleSchedules
  <2>2. Len(raw') = Len(raw) - 1 /\ Len(timer') = Len(timer) + 1
    BY <1>a, <2>1 DEF Schedules
  <2>3. UNCHANGED <<ops, stopped, looping, watched>>
    BY <1>2 DEF ScheduleDebounced
  <2>4. Len(timer') + Len(raw') <= ops'
    BY <1>a, <2>2, <2>3 DEF CountInv
  <2> QED
    BY <2>3, <2>4 DEF CountInv
<1>3. CASE Stop
  BY <1>3 DEF CountInv, Stop
<1>4. CASE LoopEnds
  <2>1. Len(raw') = 0 /\ UNCHANGED <<ops, timer, watched, stopped>> /\ stopped
    BY <1>4 DEF LoopEnds
  <2>2. Len(timer') + Len(raw') <= ops'
    BY <1>a, <2>1 DEF CountInv
  <2> QED
    BY <2>1, <2>2 DEF CountInv
<1>5. ASSUME NEW i \in DOMAIN timer, CallbackStep(i) PROVE CountInv'
  <2>1. Len(timer') = Len(timer)
    BY <1>5, CallbackMoves DEF Moves
  <2>2. UNCHANGED <<raw, ops, stopped, looping>> /\ (stopped => watched' = watched)
    BY <1>5 DEF CallbackStep, Fire, Unlist, StatPath, AddWatch, ListDir, WalkEnds, OnChange
  <2> QED
    BY <2>1, <2>2 DEF CountInv
<1>6. CASE UNCHANGED vars
  BY <1>6 DEF vars, CountInv
<1> QED
  BY <1>1, <1>2, <1>3, <1>4, <1>5, <1>6 DEF Next

\* A change that raises an event is a notice; one below no watch is none.
LEMMA ChangeKeepsPromise ==
  ASSUME TypeOK, CountInv, NEW x \in Entry, Make(x) \/ Touch(x) \/ Remove(x)
  PROVE  Promise!Raise(x) \/ UNCHANGED <<timer, raw, looping>>
<1>a. /\ timer \in Seq(Timer) /\ raw \in Seq(Raw)
      /\ Len(timer) \in Nat /\ Len(raw) \in Nat
      /\ ops \in Nat /\ MaxOps \in Nat
  BY WatcherAssumption DEF TypeOK
<1>1. PICK type \in Type : Change(x, type)
  BY DEF Make, Touch, Remove, Type
<1>2. CASE Parent[x] \notin watched
  BY <1>1, <1>2 DEF Change, Raise
<1>3. CASE Parent[x] \in watched
  <2> DEFINE e == [path |-> x, type |-> type]
             n == Len(timer) + Len(raw)
  <2>1. raw' = Append(raw, e) /\ timer' = timer /\ looping' = looping
    BY <1>1, <1>3 DEF Change, Raise
  <2>2. looping /\ n < MaxOps
    BY <1>a, <1>1, <1>3 DEF CountInv, Change
  <2>3. /\ Len(raw') = Len(raw) + 1 /\ raw'[Len(raw) + 1] = e
        /\ \A k \in 1..Len(raw) : raw'[k] = raw[k]
    BY <1>a, <2>1
  <2>4. \A i \in 1..n : EventPath(i)' = EventPath(i) /\ EventPath(i) \in Entry
    <3> TAKE i \in 1..n
    <3>1. CASE i <= Len(timer)
      <4>1. timer[i] \in Timer
        BY <1>a, <3>1
      <4> QED
        BY <2>1, <3>1, <4>1 DEF EventPath, Timer
    <3>2. CASE i > Len(timer)
      <4>1. i - Len(timer) \in 1..Len(raw)
        BY <1>a, <3>2
      <4>2. raw[i - Len(timer)] \in Raw /\ raw'[i - Len(timer)] = raw[i - Len(timer)]
        <5> HIDE DEF n
        <5>1. raw[i - Len(timer)] \in Raw
          BY <1>a, <4>1, ElementOfSeq
        <5> QED
          BY <2>3, <4>1, <5>1
      <4>3. raw[i - Len(timer)].path \in Entry
        BY <4>2 DEF Raw
      <4>4. ~(i <= Len(timer))
        BY <1>a, <3>2
      <4> QED
        BY <2>1, <4>2, <4>3, <4>4 DEF EventPath
    <3> QED
      BY <1>a, <3>1, <3>2
  <2>5. \A i \in 1..(n + 1) : i = n + 1 => EventPath(i)' = x
    <3> SUFFICES ASSUME NEW i \in 1..(n + 1), i = n + 1 PROVE EventPath(i)' = x
      OBVIOUS
    <3>1. i - Len(timer) = Len(raw) + 1 /\ ~(i <= Len(timer))
      BY <1>a
    <3> QED
      BY <2>1, <2>3, <3>1 DEF EventPath
  <2>6. Notice \in Seq(Entry) /\ Len(Notice) = n
    BY <1>a, <2>4 DEF Notice
  <2>7. Notice' = Append(Notice, x)
    <3>1. Notice' = [i \in 1..(n + 1) |-> EventPath(i)']
      BY <1>a, <2>1, <2>3 DEF Notice
    <3>2. /\ Append(Notice, x) \in Seq(Entry) /\ Len(Append(Notice, x)) = n + 1
          /\ \A i \in 1..n : Append(Notice, x)[i] = Notice[i]
          /\ Append(Notice, x)[n + 1] = x
      <4> HIDE DEF n
      <4> QED
        BY <2>6, AppendProperties
    <3>3. ASSUME NEW i \in 1..(n + 1)
          PROVE  EventPath(i)' = IF i <= n THEN Notice[i] ELSE x
      <4>1. CASE i <= n
        <5>1. i \in 1..n
          BY <1>a, <4>1
        <5>2. EventPath(i)' = EventPath(i) /\ Notice[i] = EventPath(i)
          BY <2>4, <5>1 DEF Notice
        <5> QED
          BY <4>1, <5>2
      <4>2. CASE ~(i <= n)
        <5>1. i = n + 1
          BY <1>a, <4>2
        <5>2. EventPath(i)' = x
          BY <2>5, <5>1
        <5> QED
          BY <4>2, <5>2
      <4> QED
        BY <4>1, <4>2
    <3>4. Notice' \in Seq(Entry) /\ Len(Notice') = n + 1
      <4>1. \A i \in 1..(n + 1) : EventPath(i)' \in Entry
        <5> TAKE i \in 1..(n + 1)
        <5>1. i <= n => i \in 1..n
          BY <1>a
        <5> QED
          BY <1>1, <2>4, <3>3, <5>1 DEF Notice
      <4>2. n + 1 \in Nat
        BY <1>a
      <4> QED
        BY <3>1, <4>1, <4>2
    <3>5. \A i \in 1..(n + 1) : Notice'[i] = Append(Notice, x)[i]
      <4> TAKE i \in 1..(n + 1)
      <4>1. Notice'[i] = EventPath(i)'
        BY <3>1
      <4>2. i \in 1..n \/ (i = n + 1 /\ ~(i <= n))
        BY <1>a
      <4>3. i \in 1..n => i <= n
        BY <1>a
      <4> QED
        BY <3>2, <3>3, <4>1, <4>2, <4>3
    <3> HIDE DEF n
    <3> QED
      BY <3>2, <3>4, <3>5, SeqEqual
  <2>8. Owed' = Owed \cup {Len(Notice) + 1}
    BY <1>a, <2>1, <2>3, <2>6 DEF Owed
  <2>9. Told' = Told
    BY <2>1 DEF Told
  <2> QED
    BY <2>1, <2>2, <2>6, <2>7, <2>8, <2>9 DEF Promise!Raise, Notice, Owed, Told
<1> QED
  BY <1>2, <1>3

\* An event that is read stays the notice it was; the timer it stops is one of
\* its path.
LEMMA ScheduleKeepsPromise ==
  ASSUME StopInv, CountInv, ScheduleDebounced
  PROVE  (\E i \in 1..MaxOps : Promise!Supersede(i)) \/ UNCHANGED Promise!vars
<1>a. /\ timer \in Seq(Timer) /\ raw \in Seq(Raw)
      /\ Len(timer) \in Nat /\ Len(raw) \in Nat /\ DOMAIN timer = 1..Len(timer)
      /\ ops \in Nat /\ MaxOps \in Nat /\ ops <= MaxOps
  BY WatcherAssumption DEF StopInv, TypeOK
<1>b. Schedules
  BY ScheduleSchedules DEF StopInv
<1> DEFINE n == Len(timer) + Len(raw)
           x == Head(raw).path
           s == timers[x]
<1>1. /\ Len(raw) >= 1 /\ Len(raw') = Len(raw) - 1 /\ x = raw[1].path
      /\ \A k \in 1..Len(raw') : raw'[k] = raw[k + 1]
  BY <1>a, <1>b DEF Schedules
<1>2. /\ Len(timer') = Len(timer) + 1 /\ timer'[Len(timer) + 1].path = x
      /\ timer'[Len(timer) + 1].stage = "armed" /\ DOMAIN timer' = 1..(Len(timer) + 1)
  BY <1>b DEF Schedules
<1>3. \A j \in 1..Len(timer) :
        /\ timer'[j].path = timer[j].path
        /\ j = s /\ timer[j].stage = "armed" => timer'[j].stage = "stopped"
        /\ ~(j = s /\ timer[j].stage = "armed") => timer'[j] = timer[j]
  <2> TAKE j \in 1..Len(timer)
  <2>1. timer[j] \in Timer
    BY <1>a
  <2>2. IF j = s /\ timer[j].stage = "armed"
          THEN timer'[j] = [timer[j] EXCEPT !.stage = "stopped"]
          ELSE timer'[j] = timer[j]
    BY <1>a, <1>b DEF Schedules
  <2> QED
    BY <2>1, <2>2 DEF Timer
<1>4. looping' = looping
  BY DEF ScheduleDebounced
<1> HIDE DEF x, s
<1>5. \A i \in 1..n : EventPath(i)' = EventPath(i)
  <2> TAKE i \in 1..n
  <2>1. CASE i <= Len(timer)
    BY <1>a, <1>2, <1>3, <2>1 DEF EventPath
  <2>2. CASE i = Len(timer) + 1
    BY <1>a, <1>1, <1>2, <2>2 DEF EventPath
  <2>3. CASE i > Len(timer) + 1
    <3>1. i - (Len(timer) + 1) \in 1..Len(raw') /\ (i - (Len(timer) + 1)) + 1 = i - Len(timer)
      BY <1>a, <1>1, <2>3
    <3>2. raw'[i - (Len(timer) + 1)] = raw[i - Len(timer)]
      BY <1>1, <3>1
    <3> QED
      BY <1>a, <1>2, <2>3, <3>2 DEF EventPath
  <2> QED
    BY <1>a, <2>1, <2>2, <2>3
<1>6. Len(timer') + Len(raw') = n
  BY <1>a, <1>1, <1>2
<1>7. Notice' = Notice
  BY <1>5, <1>6 DEF Notice
<1>8. Told' = Told
  <2>1. \A j \in 1..Len(timer) : timer'[j].stage = "done" <=> timer[j].stage = "done"
    BY <1>3
  <2> QED
    BY <1>a, <1>2, <2>1 DEF Told
<1>9. CASE s \in 1..Len(timer) /\ timer[s].stage = "armed"
  <2>1. timer[s].path = x
    BY <1>a, <1>b, <1>9 DEF StopInv, MapInv, Schedules, s, x
  <2>2. s \in Owed /\ Len(timer) + 1 \in Owed /\ Len(timer) + 1 > s
    BY <1>a, <1>1, <1>9 DEF Owed
  <2>3. Notice[s] = x /\ Notice[Len(timer) + 1] = x
    BY <1>a, <1>1, <1>9, <2>1 DEF Notice, EventPath
  <2>4. Owed' = Owed \ {s}
    <3>1. Owed' = {i \in 1..n : i <= Len(timer') => timer'[i].stage \notin {"stopped", "done"}}
      BY <1>6 DEF Owed
    <3>2. \A i \in 1..n : (i <= Len(timer') => timer'[i].stage \notin {"stopped", "done"})
                         <=> (i \in Owed /\ i # s)
      <4> TAKE i \in 1..n
      <4>1. CASE i <= Len(timer)
        BY <1>a, <1>2, <1>3, <1>9, <4>1 DEF Owed
      <4>2. CASE i = Len(timer) + 1
        BY <1>a, <1>2, <1>9, <4>2 DEF Owed
      <4>3. CASE i > Len(timer) + 1
        BY <1>a, <1>2, <1>9, <4>3 DEF Owed
      <4> QED
        BY <1>a, <4>1, <4>2, <4>3
    <3>3. Owed \subseteq 1..n
      BY DEF Owed
    <3> QED
      BY <3>1, <3>2, <3>3
  <2>5. PICK k \in 1..MaxOps : k = s
    BY <1>a, <1>9 DEF CountInv
  <2>6. Promise!Supersede(k)
    BY <1>4, <1>7, <1>8, <2>2, <2>3, <2>4, <2>5 DEF Promise!Supersede, Notice, Owed, Told
  <2> QED
    BY <2>6
<1>10. CASE ~(s \in 1..Len(timer) /\ timer[s].stage = "armed")
  <2>1. \A j \in 1..Len(timer) : timer'[j] = timer[j]
    BY <1>3, <1>10
  <2>2. Owed' = Owed
    <3>1. Owed' = {i \in 1..n : i <= Len(timer') => timer'[i].stage \notin {"stopped", "done"}}
      BY <1>6 DEF Owed
    <3>2. \A i \in 1..n : (i <= Len(timer') => timer'[i].stage \notin {"stopped", "done"})
                         <=> (i <= Len(timer) => timer[i].stage \notin {"stopped", "done"})
      <4> TAKE i \in 1..n
      <4>1. CASE i <= Len(timer)
        BY <1>a, <1>2, <2>1, <4>1
      <4>2. CASE i > Len(timer)
        BY <1>a, <1>2, <4>2
      <4> QED
        BY <1>a, <4>1, <4>2
    <3> QED
      BY <3>1, <3>2 DEF Owed
  <2> QED
    BY <1>4, <1>7, <1>8, <2>2 DEF Promise!vars, Notice, Owed, Told
<1> QED
  BY <1>9, <1>10

\* The loop's end takes back what it has not read.
LEMMA EndKeepsPromise ==
  ASSUME TypeOK, LoopEnds
  PROVE  Promise!Close
<1>a. /\ timer \in Seq(Timer) /\ raw \in Seq(Raw)
      /\ Len(timer) \in Nat /\ Len(raw) \in Nat /\ DOMAIN timer = 1..Len(timer)
  BY DEF TypeOK
<1> DEFINE n == Len(timer) + Len(raw)
<1>1. timer' = timer /\ Len(raw') = 0 /\ looping /\ looping' = FALSE
  BY DEF LoopEnds
<1>2. \A i \in 1..n : EventPath(i) \in Entry
  <2> TAKE i \in 1..n
  <2>1. CASE i <= Len(timer)
    <3>1. timer[i] \in Timer
      BY <1>a, <2>1
    <3> QED
      BY <2>1, <3>1 DEF EventPath, Timer
  <2>2. CASE i > Len(timer)
    <3>1. i - Len(timer) \in 1..Len(raw)
      BY <1>a, <2>2
    <3>2. raw[i - Len(timer)] \in Raw
      BY <1>a, <3>1
    <3> QED
      BY <1>a, <2>2, <3>2 DEF EventPath, Raw
  <2> QED
    BY <1>a, <2>1, <2>2
<1>3. Notice \in Seq(Entry) /\ Len(Notice) = n
  BY <1>a, <1>2 DEF Notice
<1>4. Notice' = SubSeq(Notice, 1, Len(timer))
  <2>1. Notice' = [i \in 1..Len(timer) |-> EventPath(i)']
    BY <1>a, <1>1 DEF Notice
  <2>2. SubSeq(Notice, 1, Len(timer)) = [i \in 1..Len(timer) |-> Notice[i]]
    BY <1>a, <1>3
  <2>3. \A i \in 1..Len(timer) : EventPath(i)' = Notice[i]
    BY <1>a, <1>1 DEF Notice, EventPath
  <2> QED
    BY <2>1, <2>2, <2>3
<1>5. Len(timer) + 1 .. Len(Notice) \subseteq Owed
  BY <1>a, <1>3 DEF Owed
<1>6. Owed' = Owed \cap 1..Len(timer)
  BY <1>a, <1>1 DEF Owed
<1>7. Told' = Told
  BY <1>1 DEF Told
<1>8. Len(timer) \in 0..Len(Notice)
  BY <1>a, <1>3
<1> QED
  BY <1>1, <1>4, <1>5, <1>6, <1>7, <1>8 DEF Promise!Close, Notice, Owed, Told

\* onChange tells; the callback's other steps are nobody's business.
LEMMA CallbackKeepsPromise ==
  ASSUME TypeOK, CountInv, NEW i \in DOMAIN timer, CallbackStep(i)
  PROVE  (\E j \in 1..MaxOps : Promise!Tell(j)) \/ UNCHANGED Promise!vars
<1>a. /\ timer \in Seq(Timer) /\ raw \in Seq(Raw) /\ timer[i] \in Timer
      /\ Len(timer) \in Nat /\ Len(raw) \in Nat /\ DOMAIN timer = 1..Len(timer)
      /\ ops \in Nat /\ MaxOps \in Nat /\ ops <= MaxOps
  BY WatcherAssumption DEF TypeOK
<1> DEFINE n == Len(timer) + Len(raw)
<1>1. /\ DOMAIN timer' = DOMAIN timer /\ Len(timer') = Len(timer)
      /\ \A j \in DOMAIN timer : j # i => timer'[j] = timer[j]
      /\ timer'[i].path = timer[i].path
  BY CallbackMoves DEF Moves
<1>2. raw' = raw /\ looping' = looping
  BY DEF CallbackStep, Fire, Unlist, StatPath, AddWatch, ListDir, WalkEnds, OnChange
<1>3. Notice' = Notice
  <2>1. ASSUME NEW j \in 1..n PROVE EventPath(j)' = EventPath(j)
    <3>1. CASE j <= Len(timer)
      <4>1. j \in DOMAIN timer
        BY <1>a, <3>1
      <4>2. timer'[j].path = timer[j].path
        BY <1>1, <4>1
      <4> QED
        BY <1>1, <3>1, <4>2 DEF EventPath
    <3>2. CASE ~(j <= Len(timer))
      BY <1>1, <1>2, <3>2 DEF EventPath
    <3> QED
      BY <3>1, <3>2
  <2>2. Notice' = [j \in 1..n |-> EventPath(j)']
    BY <1>1, <1>2 DEF Notice
  <2>3. Notice = [j \in 1..n |-> EventPath(j)]
    BY DEF Notice
  <2> QED
    BY <2>1, <2>2, <2>3
<1>4. \/ timer[i].stage = "reporting" /\ timer'[i].stage = "done"
      \/ timer[i].stage \notin {"stopped", "done"} /\ timer'[i].stage \notin {"stopped", "done"}
  <2>1. CASE OnChange(i)
    BY <1>a, <2>1 DEF OnChange, Timer
  <2>2. CASE Fire(i) \/ Unlist(i) \/ WalkEnds(i)
    BY <1>a, <2>2 DEF Fire, Unlist, WalkEnds, Timer
  <2>3. CASE StatPath(i)
    BY <1>a, <2>3 DEF StatPath, Timer
  <2>4. CASE AddWatch(i)
    BY <1>a, <2>4 DEF AddWatch, Timer
  <2>5. CASE ListDir(i)
    BY <1>a, <2>5 DEF ListDir, Timer
  <2> QED
    BY <2>1, <2>2, <2>3, <2>4, <2>5 DEF CallbackStep
<1>5. CASE timer[i].stage = "reporting" /\ timer'[i].stage = "done"
  <2>1. i \in Owed
    BY <1>a, <1>5 DEF Owed
  <2>2. Owed' = Owed \ {i}
    <3>1. Owed' = {j \in 1..n : j <= Len(timer) => timer'[j].stage \notin {"stopped", "done"}}
      BY <1>1, <1>2 DEF Owed
    <3> QED
      BY <1>a, <1>1, <1>5, <3>1 DEF Owed
  <2>3. Told' = Told \cup {i}
    BY <1>1, <1>5 DEF Told
  <2>4. i \in 1..MaxOps
    BY <1>a DEF CountInv
  <2>5. Promise!Tell(i)
    BY <1>2, <1>3, <2>1, <2>2, <2>3 DEF Promise!Tell, Notice, Owed, Told
  <2> QED
    BY <2>4, <2>5
<1>6. CASE timer[i].stage \notin {"stopped", "done"} /\ timer'[i].stage \notin {"stopped", "done"}
  <2>1. Owed' = Owed
    <3>1. Owed' = {j \in 1..n : j <= Len(timer) => timer'[j].stage \notin {"stopped", "done"}}
      BY <1>1, <1>2 DEF Owed
    <3> QED
      BY <1>a, <1>1, <1>6, <3>1 DEF Owed
  <2>2. Told' = Told
    BY <1>1, <1>6 DEF Told
  <2> QED
    BY <1>2, <1>3, <2>1, <2>2 DEF Promise!vars, Notice, Owed, Told
<1> QED
  BY <1>4, <1>5, <1>6

\* The watcher's steps are those of Notices, or change nothing there: whatever
\* the callbacks delete from the map of timers, an event is reported, superseded
\* by a newer one of its path that is owed, or unread at the end.
THEOREM SafePromise == Spec => PromiseSafety
<1> DEFINE PInv == StopInv /\ CountInv
<1>1. Init => PInv /\ Promise!Init
  <2> SUFFICES ASSUME Init PROVE PInv /\ Promise!Init
    OBVIOUS
  <2>1. timer = <<>> /\ raw = <<>> /\ ops \in 0..MaxOps /\ ~stopped /\ looping
    BY DEF Init
  <2>2. StopInv
    BY TypeInit DEF Init, StopInv, MapInv, NewestNotStopped
  <2>3. CountInv
    BY <2>1 DEF CountInv
  <2>4. Promise!Init
    BY <2>1 DEF Promise!Init
  <2> QED
    BY <2>2, <2>3, <2>4
<1>2. PInv /\ [Next]_vars => PInv'
  BY StopInvStep, CountStep DEF StopInv
<1>3. PInv /\ [Next]_vars => [Promise!Next]_(Promise!vars)
  <2> SUFFICES ASSUME PInv, [Next]_vars
               PROVE  Promise!Next \/ UNCHANGED Promise!vars
    OBVIOUS
  <2>a. ASSUME UNCHANGED <<timer, raw, looping>> PROVE UNCHANGED Promise!vars
    BY <2>a DEF Promise!vars, EventPath
  <2>1. ASSUME NEW x \in Entry, Make(x) \/ Touch(x) \/ Remove(x)
        PROVE  Promise!Next \/ UNCHANGED Promise!vars
    BY <2>1, <2>a, ChangeKeepsPromise DEF Promise!Next, StopInv
  <2>2. CASE ScheduleDebounced
    BY <2>2, ScheduleKeepsPromise DEF Promise!Next
  <2>3. CASE Stop
    BY <2>3, <2>a DEF Stop
  <2>4. CASE LoopEnds
    BY <2>4, EndKeepsPromise DEF Promise!Next, StopInv
  <2>5. ASSUME NEW i \in DOMAIN timer, CallbackStep(i)
        PROVE  Promise!Next \/ UNCHANGED Promise!vars
    BY <2>5, CallbackKeepsPromise DEF Promise!Next, StopInv
  <2>6. CASE UNCHANGED vars
    BY <2>6, <2>a DEF vars
  <2> QED
    BY <2>1, <2>2, <2>3, <2>4, <2>5, <2>6 DEF Next
<1> QED
  BY <1>1, <1>2, <1>3, PTL DEF Spec, PromiseSafety
=============================================================================
