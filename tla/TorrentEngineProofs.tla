------------------------ MODULE TorrentEngineProofs ------------------------
(***************************************************************************)
(* Proofs about TorrentEngine: where a registered callback is, that it     *)
(* runs at most once, and that the engine takes only the steps that        *)
(* Downloads allows.                                                       *)
(***************************************************************************)
EXTENDS TorrentEngine, TLAPS

\* l is one of the callbacks of list s, and s has none twice.
In(l, s)    == \E i \in DOMAIN s : s[i] = l
Distinct(s) == \A i, j \in DOMAIN s : s[i] = s[j] => i = j

\* l's callback is registered and has not run.
Waits(l) == call[l] = "registered" /\ ran[l] = 0

\* A torrent's list has its own callbacks, those that wait.
ListInv(t) ==
  /\ Distinct(callbacks[t])
  /\ \A l \in Leech : In(l, callbacks[t]) => Of[l] = t /\ Waits(l)

\* A watcher holds callbacks while it is firing: of torrents that are complete,
\* and no longer listed.
WatchInv(w) ==
  /\ watcher[w].stage # "firing" => watcher[w].cbs = <<>>
  /\ Distinct(watcher[w].cbs)
  /\ \A l \in Leech : In(l, watcher[w].cbs) =>
       /\ Waits(l)
       /\ Of[l] \in complete
       /\ ~In(l, callbacks[Of[l]])

\* No two watchers hold the same callback.
ApartInv == \A v, w \in Leech : v # w =>
  \A l \in Leech : ~(In(l, watcher[v].cbs) /\ In(l, watcher[w].cbs))

\* A callback runs after it was registered, and once; a watcher is started
\* when its caller's StartLeech returns.
CallInv(l) ==
  /\ IF call[l] = "registered" THEN ran[l] <= 1 ELSE ran[l] = 0
  /\ watcher[l].stage # "none" => call[l] \in {"started", "registered"}

EngineInv ==
  /\ TypeOK
  /\ \A t \in Torrent : ListInv(t)
  /\ \A w \in Leech : WatchInv(w)
  /\ ApartInv
  /\ \A l \in Leech : CallInv(l)

-----------------------------------------------------------------------------
(* Lists of callbacks.                                                     *)

LEMMA AppendList ==
  ASSUME NEW s \in Seq(Leech), NEW l \in Leech
  PROVE  /\ Append(s, l) \in Seq(Leech)
         /\ \A x \in Leech : In(x, Append(s, l)) <=> In(x, s) \/ x = l
         /\ Distinct(s) /\ ~In(l, s) => Distinct(Append(s, l))
<1> DEFINE a == Append(s, l)
<1>1. /\ a \in Seq(Leech) /\ Len(a) = Len(s) + 1 /\ Len(s) \in Nat
      /\ DOMAIN a = 1..Len(a) /\ DOMAIN s = 1..Len(s)
      /\ \A i \in 1..Len(s) : a[i] = s[i]
      /\ a[Len(s) + 1] = l
  OBVIOUS
<1> HIDE DEF a
<1>2. \A x \in Leech : In(x, a) <=> In(x, s) \/ x = l
  BY <1>1 DEF In
<1>3. Distinct(s) /\ ~In(l, s) => Distinct(a)
  BY <1>1 DEF In, Distinct
<1> QED
  BY <1>1, <1>2, <1>3 DEF a

LEMMA TailList ==
  ASSUME NEW s \in Seq(Leech), s # <<>>
  PROVE  /\ Head(s) \in Leech /\ In(Head(s), s)
         /\ Tail(s) \in Seq(Leech)
         /\ \A x \in Leech : In(x, Tail(s)) => In(x, s)
         /\ \A x \in Leech : In(x, s) => x = Head(s) \/ In(x, Tail(s))
         /\ Distinct(s) => Distinct(Tail(s)) /\ ~In(Head(s), Tail(s))
<1> DEFINE r == Tail(s)
<1>1. /\ Len(s) \in Nat \ {0} /\ DOMAIN s = 1..Len(s)
      /\ r \in Seq(Leech) /\ Len(r) = Len(s) - 1 /\ DOMAIN r = 1..Len(r)
      /\ \A i \in 1..Len(r) : r[i] = s[i + 1]
      /\ Head(s) = s[1] /\ Head(s) \in Leech
  OBVIOUS
<1> HIDE DEF r
<1>2. \A x \in Leech : In(x, r) => In(x, s)
  BY <1>1 DEF In
<1>3. ASSUME NEW x \in Leech, In(x, s) PROVE x = Head(s) \/ In(x, r)
  <2>1. PICK i \in 1..Len(s) : s[i] = x
    BY <1>1, <1>3 DEF In
  <2>2. CASE i # 1
    <3>1. i - 1 \in 1..Len(r) /\ r[i - 1] = x
      BY <1>1, <2>1, <2>2
    <3> QED
      BY <1>1, <3>1 DEF In
  <2> QED
    BY <1>1, <2>1, <2>2
<1>4. ASSUME Distinct(s) PROVE Distinct(r) /\ ~In(Head(s), r)
  <2>1. \A i \in DOMAIN r : i + 1 \in DOMAIN s /\ i + 1 # 1
    BY <1>1
  <2>2. \A i, j \in DOMAIN r : s[i + 1] = s[j + 1] => i + 1 = j + 1
    BY <1>4, <2>1 DEF Distinct
  <2>3. Distinct(r)
    BY <1>1, <2>2, SMTT(30) DEF Distinct
  <2>4. 1 \in DOMAIN s /\ \A i \in DOMAIN r : s[i + 1] # s[1]
    BY <1>1, <1>4, <2>1 DEF Distinct
  <2> QED
    BY <1>1, <2>3, <2>4 DEF In
<1> QED
  BY <1>1, <1>2, <1>3, <1>4 DEF r, In

LEMMA EmptyList == /\ <<>> \in Seq(Leech) /\ Distinct(<<>>)
                   /\ \A l \in Leech : ~In(l, <<>>)
  BY DEF Distinct, In

-----------------------------------------------------------------------------
(* Types.                                                                  *)

LEMMA TypeInit == Init => TypeOK
  BY EmptyList DEF Init, TypeOK, Watcher

LEMMA TypeStep == TypeOK /\ [Next]_vars => TypeOK'
<1> SUFFICES ASSUME TypeOK, [Next]_vars PROVE TypeOK'
  OBVIOUS
<1> USE EngineAssumption
<1>1. ASSUME NEW l \in Leech, StartLeech(l) PROVE TypeOK'
  BY <1>1 DEF StartLeech, TypeOK
<1>2. ASSUME NEW l \in Leech, LeechReturns(l) PROVE TypeOK'
  BY <1>2 DEF LeechReturns, TypeOK, Watcher
<1>3. ASSUME NEW l \in Leech, OnComplete(l) PROVE TypeOK'
  <2>1. Append(callbacks[Of[l]], l) \in Seq(Leech)
    BY AppendList DEF TypeOK
  <2> QED
    BY <1>3, <2>1 DEF OnComplete, TypeOK
<1>4. ASSUME NEW l \in Leech, Poll(l) PROVE TypeOK'
  BY <1>4, EmptyList DEF Poll, Remaining, TypeOK, Watcher
<1>5. ASSUME NEW l \in Leech, RunCallback(l) PROVE TypeOK'
  <2>1. /\ watcher[l].cbs \in Seq(Leech)
        /\ watcher' = [watcher EXCEPT ![l].cbs = Tail(watcher[l].cbs)]
        /\ ran' = [ran EXCEPT ![Head(watcher[l].cbs)] = @ + 1]
        /\ watcher[l].cbs # <<>>
    BY <1>5 DEF RunCallback, TypeOK, Watcher
  <2>2. Tail(watcher[l].cbs) \in Seq(Leech) /\ Head(watcher[l].cbs) \in Leech
    BY <2>1, TailList
  <2>3. watcher' \in [Leech -> Watcher]
    BY <2>1, <2>2 DEF TypeOK, Watcher
  <2>4. ran' \in [Leech -> Nat]
    BY <2>1, <2>2, SMTT(30) DEF TypeOK
  <2> QED
    BY <1>5, <2>3, <2>4 DEF RunCallback, TypeOK
<1>6. ASSUME NEW l \in Leech, WatcherEnds(l) PROVE TypeOK'
  BY <1>6 DEF WatcherEnds, TypeOK, Watcher
<1>7. ASSUME NEW t \in Torrent, ClientStep(t) \/ CreateAndSeed(t) PROVE TypeOK'
  BY <1>7 DEF ClientStep, FetchInfo, FetchBytes, CreateAndSeed, TypeOK
<1>8. CASE UNCHANGED vars
  BY <1>8 DEF vars, TypeOK
<1> QED
  BY <1>1, <1>2, <1>3, <1>4, <1>5, <1>6, <1>7, <1>8
  DEF Next, CallerStep, WatcherStep

\* Every variable has its type; a torrent is complete, wanted, known by its
\* info and known to the client in this order.
THEOREM TypeCorrect == Spec => []TypeOK
  BY TypeInit, TypeStep, PTL DEF Spec

-----------------------------------------------------------------------------
(* RunsOnce.                                                               *)

LEMMA EngineInit == Init => EngineInv
<1> SUFFICES ASSUME Init PROVE EngineInv
  OBVIOUS
<1>1. TypeOK
  BY TypeInit
<1>2. ASSUME NEW t \in Torrent PROVE ListInv(t)
  BY EmptyList DEF Init, ListInv
<1>3. ASSUME NEW w \in Leech PROVE WatchInv(w) /\ watcher[w].cbs = <<>>
  BY EmptyList DEF Init, WatchInv
<1>4. ApartInv
  BY <1>3, EmptyList DEF ApartInv
<1>5. ASSUME NEW l \in Leech PROVE CallInv(l)
  BY DEF Init, CallInv
<1> QED
  BY <1>1, <1>2, <1>3, <1>4, <1>5 DEF EngineInv

\* A step that moves no callback.
LEMMA ListsStay ==
  ASSUME EngineInv, callbacks' = callbacks, ran' = ran,
         complete \subseteq complete',
         \A l \in Leech : call'[l] = "registered" <=> call[l] = "registered",
         \A w \in Leech : watcher'[w].cbs = watcher[w].cbs,
         \A w \in Leech : watcher'[w].stage # "firing" => watcher[w].cbs = <<>>
  PROVE  /\ \A t \in Torrent : ListInv(t)'
         /\ \A w \in Leech : WatchInv(w)'
         /\ ApartInv'
<1>1. \A l \in Leech : Waits(l)' <=> Waits(l)
  BY DEF Waits
<1>2. ASSUME NEW t \in Torrent PROVE ListInv(t)'
  BY <1>1 DEF EngineInv, ListInv
<1>3. ASSUME NEW w \in Leech PROVE WatchInv(w)'
  BY <1>1 DEF EngineInv, WatchInv
<1>4. ApartInv'
  BY DEF EngineInv, ApartInv
<1> QED
  BY <1>2, <1>3, <1>4

LEMMA CallerKeepsInv ==
  ASSUME EngineInv, TypeOK', NEW l \in Leech, CallerStep(l)
  PROVE  EngineInv'
<1> USE EngineAssumption
<1>1. CASE StartLeech(l)
  <2>1. \A k \in Leech : CallInv(k)'
    BY <1>1 DEF StartLeech, EngineInv, CallInv, TypeOK
  <2>2. /\ \A k \in Leech : call'[k] = "registered" <=> call[k] = "registered"
        /\ callbacks' = callbacks /\ ran' = ran /\ complete' = complete
        /\ watcher' = watcher
    BY <1>1 DEF StartLeech, EngineInv, TypeOK
  <2>3. \A w \in Leech : watcher[w].stage # "firing" => watcher[w].cbs = <<>>
    BY DEF EngineInv, WatchInv
  <2> QED
    BY <2>1, <2>2, <2>3, ListsStay DEF EngineInv
<1>2. CASE LeechReturns(l)
  <2>1. \A k \in Leech : CallInv(k)'
    BY <1>2 DEF LeechReturns, EngineInv, CallInv, TypeOK, Watcher
  <2>2. /\ \A k \in Leech : call'[k] = "registered" <=> call[k] = "registered"
        /\ callbacks' = callbacks /\ ran' = ran /\ complete' = complete
        /\ \A w \in Leech : /\ watcher'[w].cbs = watcher[w].cbs
                            /\ w # l => watcher'[w] = watcher[w]
    BY <1>2 DEF LeechReturns, EngineInv, TypeOK, Watcher
  <2>3. watcher[l].stage = "none"
    BY <1>2 DEF LeechReturns, EngineInv, CallInv
  <2>4. \A w \in Leech : watcher'[w].stage # "firing" => watcher[w].cbs = <<>>
    BY <2>2, <2>3 DEF EngineInv, WatchInv
  <2> QED
    BY <2>1, <2>2, <2>4, ListsStay DEF EngineInv
<1>3. CASE OnComplete(l)
  <2> DEFINE t == Of[l]
  <2>1. /\ t \in Torrent /\ callbacks[t] \in Seq(Leech)
        /\ call[l] = "started"
        /\ call' = [call EXCEPT ![l] = "registered"]
        /\ callbacks' = [callbacks EXCEPT ![t] = Append(callbacks[t], l)]
        /\ complete' = complete /\ watcher' = watcher /\ ran' = ran
    BY <1>3 DEF OnComplete, EngineInv, TypeOK
  <2>2. ran[l] = 0 /\ ~Waits(l)
    BY <2>1 DEF EngineInv, CallInv, Waits
  <2>3. \A k \in Leech : Waits(k)' <=> Waits(k) \/ k = l
    BY <2>1, <2>2 DEF Waits, EngineInv, TypeOK
  <2>4. ~In(l, callbacks[t])
    BY <2>1, <2>2 DEF EngineInv, ListInv
  <2>5. callbacks'[t] = Append(callbacks[t], l)
    BY <2>1 DEF EngineInv, TypeOK
  <2>6. \A u \in Torrent : u # t => callbacks'[u] = callbacks[u]
    BY <2>1 DEF EngineInv, TypeOK
  <2> HIDE DEF t
  <2>7. /\ Distinct(callbacks'[t])
        /\ \A k \in Leech : In(k, callbacks'[t]) <=> In(k, callbacks[t]) \/ k = l
    BY <2>1, <2>4, <2>5, AppendList DEF EngineInv, ListInv
  <2>8. ASSUME NEW u \in Torrent PROVE ListInv(u)'
    <3>1. CASE u = t
      BY <2>1, <2>3, <2>7, <3>1 DEF EngineInv, ListInv, t
    <3>2. CASE u # t
      BY <2>3, <2>6, <3>2 DEF EngineInv, ListInv
    <3> QED
      BY <3>1, <3>2
  <2>9. ASSUME NEW w \in Leech PROVE WatchInv(w)'
    <3>1. ASSUME NEW k \in Leech, In(k, watcher[w].cbs)
          PROVE  Waits(k)' /\ Of[k] \in complete' /\ ~In(k, callbacks'[Of[k]])
      <4>1. Waits(k) /\ Of[k] \in complete /\ ~In(k, callbacks[Of[k]])
        BY <3>1 DEF EngineInv, WatchInv
      <4>2. k # l /\ Of[k] \in Torrent
        BY <2>2, <4>1
      <4> QED
        BY <2>1, <2>3, <2>6, <2>7, <4>1, <4>2
    <3> QED
      BY <2>1, <3>1 DEF EngineInv, WatchInv
  <2>10. ApartInv'
    BY <2>1 DEF EngineInv, ApartInv
  <2>11. \A k \in Leech : CallInv(k)'
    BY <2>1, <2>2 DEF EngineInv, CallInv, TypeOK
  <2> QED
    BY <2>8, <2>9, <2>10, <2>11 DEF EngineInv
<1> QED
  BY <1>1, <1>2, <1>3 DEF CallerStep

\* The callback that a watcher runs next.
LEMMA NextCallback ==
  ASSUME EngineInv, NEW w \in Leech, RunCallback(w)
  PROVE  LET h == Head(watcher[w].cbs)
         IN  /\ h \in Leech /\ In(h, watcher[w].cbs)
             /\ Waits(h) /\ Of[h] \in complete /\ ~In(h, callbacks[Of[h]])
             /\ ran' = [ran EXCEPT ![h] = 1]
<1>1. /\ watcher[w].cbs \in Seq(Leech) /\ watcher[w].cbs # <<>>
      /\ ran' = [ran EXCEPT ![Head(watcher[w].cbs)] = @ + 1]
  BY DEF RunCallback, EngineInv, TypeOK, Watcher
<1>2. Head(watcher[w].cbs) \in Leech /\ In(Head(watcher[w].cbs), watcher[w].cbs)
  BY <1>1, TailList
<1>3. /\ Waits(Head(watcher[w].cbs)) /\ Of[Head(watcher[w].cbs)] \in complete
      /\ ~In(Head(watcher[w].cbs), callbacks[Of[Head(watcher[w].cbs)]])
  BY <1>2 DEF EngineInv, WatchInv
<1>4. ran[Head(watcher[w].cbs)] + 1 = 1
  BY <1>3 DEF Waits
<1> QED
  BY <1>1, <1>2, <1>3, <1>4

LEMMA WatcherKeepsInv ==
  ASSUME EngineInv, TypeOK', NEW w \in Leech, WatcherStep(w)
  PROVE  EngineInv'
<1> USE EngineAssumption
<1>1. CASE Poll(w)
  <2> DEFINE t == Of[w]
  <2>1. /\ t \in Torrent /\ t \in complete
        /\ watcher[w].stage = "sleeping"
        /\ watcher' = [watcher EXCEPT ![w] = [stage |-> "firing", cbs |-> callbacks[t]]]
        /\ callbacks' = [callbacks EXCEPT ![t] = <<>>]
        /\ complete' = complete /\ call' = call /\ ran' = ran
    BY <1>1 DEF Poll, Slept, NothingMissing, Remaining
  <2>2. \A k \in Leech : Waits(k)' <=> Waits(k)
    BY <2>1 DEF Waits
  <2>3. /\ callbacks'[t] = <<>>
        /\ \A u \in Torrent : u # t => callbacks'[u] = callbacks[u]
        /\ watcher'[w] = [stage |-> "firing", cbs |-> callbacks[t]]
        /\ \A v \in Leech : v # w => watcher'[v] = watcher[v]
    BY <2>1 DEF EngineInv, TypeOK
  <2> HIDE DEF t
  <2>4. \A k \in Leech : In(k, callbacks[t]) => Of[k] = t /\ Waits(k)
    BY <2>1 DEF EngineInv, ListInv
  <2>5. ASSUME NEW u \in Torrent PROVE ListInv(u)'
    BY <2>2, <2>3, EmptyList DEF EngineInv, ListInv
  <2>6. \A k \in Leech, u \in Torrent :
          ~In(k, callbacks[u]) => ~In(k, callbacks'[u])
    BY <2>3, EmptyList
  <2>7. ASSUME NEW v \in Leech PROVE WatchInv(v)'
    <3>1. CASE v = w
      <4>1. \A k \in Leech : ~In(k, callbacks'[t])
        BY <2>3, EmptyList
      <4>2. Distinct(callbacks[t])
        BY <2>1 DEF EngineInv, ListInv
      <4> QED
        BY <2>1, <2>2, <2>3, <2>4, <3>1, <4>1, <4>2 DEF WatchInv
    <3>2. CASE v # w
      BY <2>1, <2>2, <2>3, <2>6, <3>2 DEF EngineInv, WatchInv
    <3> QED
      BY <3>1, <3>2
  <2>8. ApartInv'
    <3>1. \A v, k \in Leech : ~(In(k, watcher[v].cbs) /\ In(k, callbacks[t]))
      BY <2>4 DEF EngineInv, WatchInv
    <3> QED
      BY <2>3, <3>1 DEF EngineInv, ApartInv
  <2>9. \A k \in Leech : CallInv(k)'
    BY <2>1, <2>3 DEF EngineInv, CallInv
  <2> QED
    BY <2>5, <2>7, <2>8, <2>9 DEF EngineInv
<1>2. CASE RunCallback(w)
  <2>1. PICK h \in Leech : /\ h = Head(watcher[w].cbs) /\ In(h, watcher[w].cbs)
                           /\ Waits(h) /\ ~In(h, callbacks[Of[h]])
                           /\ ran' = [ran EXCEPT ![h] = 1]
    BY <1>2, NextCallback
  <2>2. /\ watcher[w].cbs \in Seq(Leech) /\ watcher[w].cbs # <<>>
        /\ watcher[w].stage = "firing"
        /\ watcher' = [watcher EXCEPT ![w].cbs = Tail(@)]
        /\ complete' = complete /\ call' = call /\ callbacks' = callbacks
    BY <1>2 DEF RunCallback, EngineInv, TypeOK, Watcher
  <2>3. /\ \A k \in Leech : In(k, Tail(watcher[w].cbs)) => In(k, watcher[w].cbs)
        /\ Distinct(Tail(watcher[w].cbs)) /\ ~In(h, Tail(watcher[w].cbs))
    BY <2>1, <2>2, TailList DEF EngineInv, WatchInv
  <2>4. /\ watcher'[w].cbs = Tail(watcher[w].cbs) /\ watcher'[w].stage = "firing"
        /\ \A v \in Leech : v # w => watcher'[v] = watcher[v]
        /\ \A v \in Leech : watcher'[v].stage = watcher[v].stage
    BY <2>2 DEF EngineInv, TypeOK, Watcher
  <2>5. \A k \in Leech : k # h => (Waits(k)' <=> Waits(k))
    BY <2>1, <2>2 DEF Waits, EngineInv, TypeOK
  <2>6. ASSUME NEW u \in Torrent PROVE ListInv(u)'
    BY <2>1, <2>2, <2>5 DEF EngineInv, ListInv
  <2>7. ASSUME NEW v \in Leech PROVE WatchInv(v)'
    <3>1. CASE v = w
      BY <2>2, <2>3, <2>4, <2>5, <3>1 DEF EngineInv, WatchInv
    <3>2. CASE v # w
      <4>1. ~In(h, watcher[v].cbs)
        BY <2>1, <3>2 DEF EngineInv, ApartInv
      <4> QED
        BY <2>2, <2>4, <2>5, <3>2, <4>1 DEF EngineInv, WatchInv
    <3> QED
      BY <3>1, <3>2
  <2>8. ApartInv'
    BY <2>3, <2>4 DEF EngineInv, ApartInv
  <2>9. \A k \in Leech : CallInv(k)'
    BY <2>1, <2>2, <2>4, SMTT(30) DEF EngineInv, CallInv, Waits, TypeOK
  <2> QED
    BY <2>6, <2>7, <2>8, <2>9 DEF EngineInv
<1>3. CASE WatcherEnds(w)
  <2>1. /\ watcher[w].stage = "firing" /\ watcher[w].cbs = <<>>
        /\ \A v \in Leech : /\ watcher'[v].cbs = watcher[v].cbs
                            /\ v # w => watcher'[v] = watcher[v]
        /\ call' = call /\ callbacks' = callbacks /\ ran' = ran
        /\ complete' = complete
    BY <1>3 DEF WatcherEnds, EngineInv, TypeOK, Watcher
  <2>2. \A v \in Leech : watcher'[v].stage # "firing" => watcher[v].cbs = <<>>
    BY <2>1 DEF EngineInv, WatchInv
  <2>3. \A k \in Leech : CallInv(k)'
    BY <2>1 DEF EngineInv, CallInv
  <2> QED
    BY <2>1, <2>2, <2>3, ListsStay DEF EngineInv
<1> QED
  BY <1>1, <1>2, <1>3 DEF WatcherStep

LEMMA EngineInvHolds == Spec => []EngineInv
<1>1. EngineInv /\ [Next]_vars => EngineInv'
  <2> SUFFICES ASSUME EngineInv, [Next]_vars PROVE EngineInv'
    OBVIOUS
  <2>1. TypeOK'
    BY TypeStep DEF EngineInv
  <2>2. ASSUME NEW l \in Leech, CallerStep(l) \/ WatcherStep(l) PROVE EngineInv'
    BY <2>1, <2>2, CallerKeepsInv, WatcherKeepsInv
  <2>3. ASSUME NEW t \in Torrent, ClientStep(t) \/ CreateAndSeed(t)
        PROVE  EngineInv'
    <3>1. /\ callbacks' = callbacks /\ ran' = ran /\ call' = call
          /\ watcher' = watcher /\ complete \subseteq complete'
      BY <2>3 DEF ClientStep, FetchInfo, FetchBytes, CreateAndSeed
    <3>2. \A w \in Leech : watcher[w].stage # "firing" => watcher[w].cbs = <<>>
      BY DEF EngineInv, WatchInv
    <3>3. \A k \in Leech : CallInv(k)'
      BY <3>1 DEF EngineInv, CallInv
    <3> QED
      BY <2>1, <3>1, <3>2, <3>3, ListsStay DEF EngineInv
  <2>4. CASE UNCHANGED vars
    BY <2>1, <2>4 DEF vars, EngineInv, ListInv, WatchInv, ApartInv, CallInv, Waits
  <2> QED
    BY <2>2, <2>3, <2>4 DEF Next
<1> QED
  BY <1>1, EngineInit, PTL DEF Spec

\* RunsOnce holds: a callback is in one list at a time, and in none once it has
\* run, so that no second watcher can take it.
THEOREM RunsOnceHolds == Spec => []RunsOnce
<1>1. EngineInv => RunsOnce
  BY DEF EngineInv, CallInv, RunsOnce
<1> QED
  BY <1>1, EngineInvHolds, PTL

-----------------------------------------------------------------------------
(* NoOrphanCallback, for prompt callers.                                   *)

\* A watcher of a prompt caller sleeps until the caller has registered its
\* callback, and as long as that is listed.
PromptInv ==
  \A l \in Leech :
    /\ call[l] = "started" => watcher[l].stage = "sleeping"
    /\ call[l] = "registered" /\ ran[l] = 0 =>
         \/ \E w \in Leech : In(l, watcher[w].cbs)
         \/ watcher[l].stage = "sleeping" /\ In(l, callbacks[Of[l]])

LEMMA PromptStep ==
  ASSUME Prompt, EngineInv, PromptInv, [Next]_vars
  PROVE  PromptInv'
<1> USE EngineAssumption
<1>1. ASSUME NEW l \in Leech, StartLeech(l) PROVE PromptInv'
  BY <1>1 DEF StartLeech, PromptInv, EngineInv, TypeOK
<1>2. ASSUME NEW l \in Leech, LeechReturns(l) PROVE PromptInv'
  <2>1. /\ call' = [call EXCEPT ![l] = "started"] /\ call[l] = "waiting"
        /\ callbacks' = callbacks /\ ran' = ran
        /\ watcher'[l].stage = "sleeping"
        /\ \A w \in Leech : /\ watcher'[w].cbs = watcher[w].cbs
                            /\ w # l => watcher'[w] = watcher[w]
    BY <1>2 DEF LeechReturns, EngineInv, TypeOK, Watcher
  <2> QED
    BY <2>1 DEF PromptInv, EngineInv, TypeOK
<1>3. ASSUME NEW l \in Leech, OnComplete(l) PROVE PromptInv'
  <2>1. /\ Of[l] \in Torrent /\ callbacks[Of[l]] \in Seq(Leech)
        /\ call[l] = "started" /\ call' = [call EXCEPT ![l] = "registered"]
        /\ watcher' = watcher /\ ran' = ran
        /\ callbacks'[Of[l]] = Append(callbacks[Of[l]], l)
        /\ \A u \in Torrent : u # Of[l] => callbacks'[u] = callbacks[u]
    BY <1>3 DEF OnComplete, EngineInv, TypeOK
  <2>2. /\ In(l, callbacks'[Of[l]])
        /\ \A k \in Leech : In(k, callbacks[Of[k]]) => In(k, callbacks'[Of[k]])
    <3>1. \A k \in Leech : In(k, callbacks'[Of[l]]) <=> In(k, callbacks[Of[l]]) \/ k = l
      BY <2>1, AppendList
    <3>2. \A k \in Leech : Of[k] \in Torrent
      OBVIOUS
    <3> QED
      BY <2>1, <3>1, <3>2
  <2> QED
    BY <2>1, <2>2 DEF PromptInv, EngineInv, TypeOK
<1>4. ASSUME NEW w \in Leech, Poll(w) PROVE PromptInv'
  <2>1. /\ Of[w] \in Torrent /\ call[w] = "registered"
        /\ watcher[w].stage = "sleeping"
        /\ call' = call /\ ran' = ran
        /\ watcher'[w].cbs = callbacks[Of[w]]
        /\ \A v \in Leech : v # w => watcher'[v] = watcher[v]
        /\ \A u \in Torrent : u # Of[w] => callbacks'[u] = callbacks[u]
    BY <1>4 DEF Poll, Slept, Remaining, EngineInv, TypeOK, Watcher
  <2>2. watcher[w].cbs = <<>>
    BY <2>1 DEF EngineInv, WatchInv
  <2>3. \A k, v \in Leech : In(k, watcher[v].cbs) => In(k, watcher'[v].cbs)
    BY <2>1, <2>2, EmptyList
  <2>4. ASSUME NEW k \in Leech, In(k, callbacks[Of[k]]),
               watcher[k].stage = "sleeping"
        PROVE  \/ In(k, watcher'[w].cbs)
               \/ watcher'[k].stage = "sleeping" /\ In(k, callbacks'[Of[k]])
    BY <2>1, <2>4
  <2>5. ASSUME NEW k \in Leech, call[k] = "started"
        PROVE  watcher'[k].stage = "sleeping"
    BY <2>1, <2>5 DEF PromptInv
  <2> QED
    BY <2>1, <2>3, <2>4, <2>5 DEF PromptInv
<1>5. ASSUME NEW w \in Leech, RunCallback(w) PROVE PromptInv'
  <2>1. PICK h \in Leech : h = Head(watcher[w].cbs) /\ ran' = [ran EXCEPT ![h] = 1]
    BY <1>5, NextCallback
  <2>2. /\ watcher[w].cbs \in Seq(Leech) /\ watcher[w].cbs # <<>>
        /\ watcher'[w].cbs = Tail(watcher[w].cbs)
        /\ \A v \in Leech : /\ watcher'[v].stage = watcher[v].stage
                            /\ v # w => watcher'[v] = watcher[v]
        /\ call' = call /\ callbacks' = callbacks
    BY <1>5 DEF RunCallback, EngineInv, TypeOK, Watcher
  <2>3. \A k \in Leech : In(k, watcher[w].cbs) => k = h \/ In(k, watcher'[w].cbs)
    BY <2>1, <2>2, TailList
  <2>4. /\ ran'[h] = 1
        /\ \A k \in Leech : k # h => ran'[k] = ran[k]
    BY <2>1 DEF EngineInv, TypeOK
  <2>5. \A k, v \in Leech :
          In(k, watcher[v].cbs) /\ k # h => In(k, watcher'[v].cbs)
    BY <2>2, <2>3
  <2> QED
    BY <2>2, <2>4, <2>5 DEF PromptInv
<1>6. ASSUME NEW w \in Leech, WatcherEnds(w) PROVE PromptInv'
  <2>1. /\ watcher[w].stage = "firing"
        /\ \A v \in Leech : /\ watcher'[v].cbs = watcher[v].cbs
                            /\ v # w => watcher'[v] = watcher[v]
        /\ call' = call /\ callbacks' = callbacks /\ ran' = ran
    BY <1>6 DEF WatcherEnds, EngineInv, TypeOK, Watcher
  <2> QED
    BY <2>1 DEF PromptInv
<1>7. ASSUME UNCHANGED <<call, callbacks, watcher, ran>> PROVE PromptInv'
  BY <1>7 DEF PromptInv
<1> QED
  BY <1>1, <1>2, <1>3, <1>4, <1>5, <1>6, <1>7
  DEF Next, CallerStep, WatcherStep, ClientStep, FetchInfo, FetchBytes,
      CreateAndSeed, vars

\* NoOrphanCallback holds if callers get to OnComplete within the first sleep
\* of their watchers: a listed callback's own watcher has yet to poll, and a
\* poll of any of the torrent's watchers takes the callback over.
THEOREM NoOrphanCallbackHolds ==
  ASSUME Prompt
  PROVE  Spec => []NoOrphanCallback
<1>1. Init => PromptInv
  BY DEF Init, PromptInv
<1>2. EngineInv /\ PromptInv => NoOrphanCallback
  <2> SUFFICES ASSUME EngineInv, PromptInv,
                      NEW l \in Leech, call[l] = "registered", ran[l] = 0
               PROVE  \E w \in Leech :
                        \/ watcher[w].stage = "firing" /\ In(l, watcher[w].cbs)
                        \/ /\ watcher[w].stage = "sleeping" /\ Of[w] = Of[l]
                           /\ In(l, callbacks[Of[l]])
    BY DEF NoOrphanCallback, In
  <2>1. CASE \E w \in Leech : In(l, watcher[w].cbs)
    BY <2>1, EmptyList DEF EngineInv, WatchInv
  <2>2. CASE watcher[l].stage = "sleeping" /\ In(l, callbacks[Of[l]])
    BY <2>2
  <2> QED
    BY <2>1, <2>2 DEF PromptInv
<1>3. EngineInv /\ PromptInv /\ [Next]_vars => PromptInv'
  BY PromptStep
<1> QED
  BY <1>1, <1>2, <1>3, EngineInvHolds, PTL DEF Spec

-----------------------------------------------------------------------------
(* The safety part of KeepsPromise.                                        *)

PromiseSafety == Promise!Init /\ [][Promise!Next]_(Promise!downloads)

\* The engine's steps are those of Downloads, or change nothing there: a
\* callback is run when it was registered, has not run, and its torrent is
\* complete.
THEOREM SafePromise == Spec => PromiseSafety
<1> USE EngineAssumption
<1>1. Init => Promise!Init
  BY DEF Init, Promise!Init
<1>2. EngineInv /\ [Next]_vars => [Promise!Next]_(Promise!downloads)
  <2> DEFINE armed == {l \in Leech : call[l] = "registered"}
             done  == {l \in Leech : ran[l] > 0}
  <2> SUFFICES ASSUME EngineInv, [Next]_vars
               PROVE  Promise!Next \/ UNCHANGED Promise!downloads
    OBVIOUS
  <2>1. ASSUME NEW l \in Leech, OnComplete(l) PROVE Promise!Arm(l)
    BY <2>1 DEF OnComplete, Promise!Arm, EngineInv, TypeOK
  <2>2. ASSUME NEW w \in Leech, RunCallback(w) PROVE \E h \in Leech : Promise!Run(h)
    <3>1. PICK h \in Leech : /\ Waits(h) /\ Of[h] \in complete
                             /\ ran' = [ran EXCEPT ![h] = 1]
      BY <2>2, NextCallback
    <3>2. done' = done \cup {h} /\ h \in armed /\ h \notin done
      BY <3>1 DEF Waits, EngineInv, TypeOK
    <3>3. call' = call /\ complete' = complete
      BY <2>2 DEF RunCallback
    <3> QED
      BY <3>1, <3>2, <3>3 DEF Promise!Run
  <2>3. ASSUME NEW t \in Torrent, FetchBytes(t) PROVE Promise!Finish(t)
    BY <2>3 DEF FetchBytes, Promise!Finish
  <2>4. ASSUME NEW l \in Leech,
               \/ StartLeech(l) \/ LeechReturns(l) \/ Poll(l) \/ WatcherEnds(l)
        PROVE  UNCHANGED Promise!downloads
    BY <2>4 DEF StartLeech, LeechReturns, Poll, WatcherEnds, Promise!downloads,
                EngineInv, TypeOK
  <2>5. ASSUME NEW t \in Torrent, FetchInfo(t) \/ CreateAndSeed(t)
        PROVE  UNCHANGED Promise!downloads
    BY <2>5 DEF FetchInfo, CreateAndSeed, Promise!downloads
  <2>6. CASE UNCHANGED vars
    BY <2>6 DEF vars, Promise!downloads
  <2> QED
    BY <2>1, <2>2, <2>3, <2>4, <2>5, <2>6
    DEF Next, CallerStep, WatcherStep, ClientStep, Promise!Next
<1> QED
  BY <1>1, <1>2, EngineInvHolds, PTL DEF Spec, PromiseSafety
=============================================================================
