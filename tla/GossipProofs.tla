---------------------------- MODULE GossipProofs ----------------------------
(***************************************************************************)
(* Proofs about Gossip: its types, and that the peers maps keep no entry   *)
(* that nothing would remove.                                              *)
(***************************************************************************)
EXTENDS Gossip, TLAPS

Turn(c) == c[3]

\* A heartbeat in progress has peers other than its own node to connect to.
TodoInv == \A n \in Node : \A m \in todo[n] : m # n /\ beat[n] >= 1

\* An end of a connection that has not ended is on a node that is up.
EndsUp(c) ==
  /\ dialer[c] \notin {"none", "done"} => Dialer(c) \in up
  /\ acceptor[c] \notin {"none", "done"} => Acceptor(c) \in up

\* A connection of a later heartbeat, or of this one to a peer whose turn has
\* not come yet, is not there.
Ahead(c) == \/ beat[Dialer(c)] < Turn(c)
            \/ beat[Dialer(c)] = Turn(c) /\ Acceptor(c) \in todo[Dialer(c)]

Fresh(c) == Ahead(c) => dialer[c] = "none" /\ acceptor[c] = "none"

ConnInv == \A c \in Conn : EndsUp(c) /\ Fresh(c)

GossipInv == TypeOK /\ TodoInv /\ ConnInv /\ NoDeadEntries

-----------------------------------------------------------------------------
(* Connections.                                                            *)

LEMMA ConnParts ==
  ASSUME NEW c \in Conn
  PROVE  /\ Dialer(c) \in Node /\ Acceptor(c) \in Node
         /\ Dialer(c) # Acceptor(c)
         /\ Turn(c) \in 1..MaxBeats[Dialer(c)]
         /\ c = <<Dialer(c), Acceptor(c), Turn(c)>>
<1>1. PICK n \in Node : c \in {n} \X (Node \ {n}) \X (1..MaxBeats[n])
  BY DEF Conn
<1> QED
  BY <1>1 DEF Dialer, Acceptor, Turn

LEMMA ConnMade ==
  ASSUME NEW n \in Node, NEW m \in Node \ {n}, NEW k \in 1..MaxBeats[n]
  PROVE  /\ <<n, m, k>> \in Conn
         /\ Dialer(<<n, m, k>>) = n /\ Acceptor(<<n, m, k>>) = m
         /\ Turn(<<n, m, k>>) = k
<1>1. <<n, m, k>> \in {n} \X (Node \ {n}) \X (1..MaxBeats[n])
  OBVIOUS
<1> QED
  BY <1>1 DEF Conn, Dialer, Acceptor, Turn

\* The connection of the next dial.
LEMMA Dialled ==
  ASSUME TypeOK, TodoInv, NEW n \in Node, NEW m \in todo[n]
  PROVE  /\ m \in Node \ {n}
         /\ <<n, m, beat[n]>> \in Conn
         /\ Dialer(<<n, m, beat[n]>>) = n /\ Acceptor(<<n, m, beat[n]>>) = m
         /\ Turn(<<n, m, beat[n]>>) = beat[n]
<1>1. m \in Node \ {n} /\ beat[n] \in 1..MaxBeats[n]
  BY GossipAssumption DEF TypeOK, TodoInv
<1> QED
  BY <1>1, ConnMade

-----------------------------------------------------------------------------
LEMMA GossipInit == Init => GossipInv
<1> SUFFICES ASSUME Init PROVE GossipInv
  OBVIOUS
<1>1. TypeOK
  BY GossipAssumption DEF Init, TypeOK, Stage
<1>2. TodoInv /\ ConnInv /\ NoDeadEntries
  BY DEF Init, TodoInv, ConnInv, EndsUp, Fresh, Ahead, NoDeadEntries
<1> QED
  BY <1>1, <1>2 DEF GossipInv

\* Every step keeps the types.
LEMMA TypeStep ==
  ASSUME TypeOK, TodoInv, [Next]_vars
  PROVE  TypeOK'
<1>1. ASSUME NEW n \in Node, Heartbeat(n) PROVE TypeOK'
  <2>1. beat[n] + 1 \in Nat /\ beat[n] + 1 <= MaxBeats[n]
    <3>1. beat[n] \in Nat /\ MaxBeats[n] \in Nat /\ beat[n] < MaxBeats[n]
      BY <1>1, GossipAssumption DEF Heartbeat, TypeOK
    <3> QED
      BY <3>1
  <2> QED
    BY <1>1, <2>1 DEF Heartbeat, PeerList, TypeOK
<1>2. ASSUME NEW n \in Node, NEW m \in Node, Dial(n, m) PROVE TypeOK'
  <2>1. <<n, m, beat[n]>> \in Conn
    BY <1>2, Dialled DEF Dial
  <2> QED
    BY <1>2, <2>1 DEF Dial, TypeOK, Stage
<1>3. ASSUME NEW c \in Conn, ConnectStep(c) PROVE TypeOK'
  <2>1. Dialer(c) \in Node /\ Acceptor(c) \in Node
    BY ConnParts
  <2>2. CASE ConnectHello(c)
    BY <2>2 DEF ConnectHello, TypeOK, Stage
  <2>3. CASE ConnectFails(c)
    BY <2>3 DEF ConnectFails, TypeOK, Stage
  <2>4. CASE ConnectRegister(c)
    BY <2>1, <2>4 DEF ConnectRegister, TypeOK, Stage
  <2> QED
    BY <1>3, <2>2, <2>3, <2>4 DEF ConnectStep
<1>4. ASSUME NEW c \in Conn, InboundStep(c) PROVE TypeOK'
  <2>1. Dialer(c) \in Node /\ Acceptor(c) \in Node
    BY ConnParts
  <2>2. CASE Accept(c) \/ InboundHello(c)
    BY <2>2 DEF Accept, InboundHello, TypeOK, Stage
  <2>3. CASE InboundFails(c)
    BY <2>3 DEF InboundFails, TypeOK, Stage
  <2>4. CASE InboundRegister(c)
    BY <2>1, <2>4 DEF InboundRegister, TypeOK, Stage
  <2> QED
    BY <1>4, <2>2, <2>3, <2>4 DEF InboundStep
<1>5. ASSUME NEW c \in Conn, ReadStep(c) PROVE TypeOK'
  <2>1. PICK n \in Ends(c) : ReadEnds(n, c) \/ Disconnected(n, c)
    BY <1>5 DEF ReadStep
  <2>2. n \in Node
    BY <2>1, ConnParts DEF Ends
  <2>3. CASE ReadEnds(n, c)
    BY <2>3 DEF ReadEnds, SetEnd, TypeOK, Stage
  <2>4. CASE Disconnected(n, c)
    <3>1. peers' \in [Node -> [Node -> Conn \cup {NoConn}]]
      BY <2>2, <2>4 DEF Disconnected, TypeOK
    <3>2. /\ dialer' \in [Conn -> Stage \ {"backlog", "accepted"}]
          /\ acceptor' \in [Conn -> Stage \ {"waiting"}]
      BY <2>4 DEF Disconnected, SetEnd, TypeOK, Stage
    <3> QED
      BY <2>4, <3>1, <3>2 DEF Disconnected, TypeOK
  <2> QED
    BY <2>1, <2>3, <2>4
<1>6. ASSUME NEW c \in Conn, Break(c) PROVE TypeOK'
  <2>1. breaks' \in 0..MaxBreaks
    BY <1>6, GossipAssumption DEF Break, TypeOK
  <2> QED
    BY <1>6, <2>1 DEF Break, TypeOK
<1>7. ASSUME NEW n \in Node, Crash(n) PROVE TypeOK'
  <2>1. crashes' \in 0..MaxCrashes
    BY <1>7, GossipAssumption DEF Crash, TypeOK
  <2> QED
    BY <1>7, <2>1 DEF Crash, TypeOK, Stage
<1>8. ASSUME NEW n \in Node, AcceptFails(n) \/ Restart(n) PROVE TypeOK'
  BY <1>8 DEF AcceptFails, Restart, TypeOK
<1>9. CASE UNCHANGED vars
  BY <1>9 DEF vars, TypeOK
<1> QED
  BY <1>1, <1>2, <1>3, <1>4, <1>5, <1>6, <1>7, <1>8, <1>9 DEF Next, HeartbeatStep

\* The heartbeats' own part.
LEMMA TodoStep ==
  ASSUME TypeOK, TodoInv, [Next]_vars
  PROVE  TodoInv'
<1>1. ASSUME NEW n \in Node, Heartbeat(n) PROVE TodoInv'
  <2>1. /\ beat' = [beat EXCEPT ![n] = beat[n] + 1]
        /\ todo' = [todo EXCEPT ![n] = Node \ {n}]
        /\ beat[n] + 1 >= 1
    BY <1>1 DEF Heartbeat, PeerList, TypeOK
  <2> QED
    BY <2>1 DEF TodoInv, TypeOK
<1>2. ASSUME NEW n \in Node, NEW m \in Node, Dial(n, m) PROVE TodoInv'
  BY <1>2 DEF Dial, TodoInv, TypeOK
<1>3. ASSUME NEW n \in Node, Crash(n) PROVE TodoInv'
  BY <1>3 DEF Crash, TodoInv, TypeOK
<1>4. ASSUME todo' = todo, beat' = beat PROVE TodoInv'
  BY <1>4 DEF TodoInv
<1>5. ASSUME NEW c \in Conn,
             ConnectStep(c) \/ InboundStep(c) \/ ReadStep(c) \/ Break(c)
      PROVE  TodoInv'
  BY <1>4, <1>5 DEF ConnectStep, ConnectHello, ConnectFails, ConnectRegister,
     InboundStep, Accept, InboundHello, InboundFails, InboundRegister,
     ReadStep, ReadEnds, Disconnected, Break
<1> QED
  BY <1>1, <1>2, <1>3, <1>4, <1>5 DEF Next, HeartbeatStep, AcceptFails, Restart, vars

-----------------------------------------------------------------------------
(* ConnInv.                                                                *)

\* A step that moves ends of connections which are under way already.
LEMMA EndsMove ==
  ASSUME ConnInv, up' = up, beat' = beat, todo' = todo,
         \A c \in Conn : \/ dialer'[c] = dialer[c]
                         \/ dialer[c] \notin {"none", "done"},
         \A c \in Conn : \/ acceptor'[c] = acceptor[c]
                         \/ acceptor[c] \notin {"none", "done"}
  PROVE  ConnInv'
  BY DEF ConnInv, EndsUp, Fresh, Ahead

LEMMA ConnStep ==
  ASSUME TypeOK, TodoInv, ConnInv, [Next]_vars
  PROVE  ConnInv'
<1>1. ASSUME NEW n \in Node, Heartbeat(n) PROVE ConnInv'
  <2>1. ASSUME NEW c \in Conn PROVE EndsUp(c)' /\ Fresh(c)'
    <3>1. /\ Dialer(c) \in Node /\ Turn(c) \in Nat
          /\ beat[Dialer(c)] \in Nat
      BY ConnParts, GossipAssumption DEF TypeOK
    <3>2. /\ up' = up /\ dialer' = dialer /\ acceptor' = acceptor
          /\ beat' = [beat EXCEPT ![n] = beat[n] + 1]
          /\ todo' = [todo EXCEPT ![n] = PeerList(n)]
      BY <1>1 DEF Heartbeat
    <3>3. Ahead(c)' => Ahead(c)
      <4>1. CASE Dialer(c) = n
        <5>1. beat'[Dialer(c)] = beat[Dialer(c)] + 1
          BY <3>1, <3>2, <4>1 DEF TypeOK
        <5>2. beat'[Dialer(c)] <= Turn(c) => beat[Dialer(c)] < Turn(c)
          BY <3>1, <5>1
        <5> QED
          BY <3>1, <5>1, <5>2 DEF Ahead
      <4>2. CASE Dialer(c) # n
        BY <3>1, <3>2, <4>2 DEF Ahead, TypeOK
      <4> QED
        BY <4>1, <4>2
    <3> QED
      BY <3>2, <3>3 DEF ConnInv, EndsUp, Fresh
  <2> QED
    BY <2>1 DEF ConnInv
<1>2. ASSUME NEW n \in Node, NEW m \in Node, Dial(n, m) PROVE ConnInv'
  <2>1. PICK d \in Conn : /\ d = <<n, m, beat[n]>>
                          /\ Dialer(d) = n /\ Acceptor(d) = m
                          /\ Turn(d) = beat[n]
    BY <1>2, Dialled DEF Dial
  <2>2. /\ todo' = [todo EXCEPT ![n] = @ \ {m}]
        /\ beat' = beat /\ up' = up
    BY <1>2 DEF Dial
  <2>3. ASSUME NEW c \in Conn PROVE Ahead(c)' => Ahead(c) /\ c # d
    <3>1. Dialer(c) \in Node /\ beat[n] \in Nat
      BY ConnParts DEF TypeOK
    <3>2. Ahead(c)' => Ahead(c)
      BY <2>2, <3>1 DEF Ahead, TypeOK
    <3>3. ~Ahead(d)'
      BY <2>1, <2>2, <3>1 DEF Ahead, TypeOK
    <3> QED
      BY <3>2, <3>3
  <2>4. CASE PassedOver(n, m)
    BY <1>2, <2>2, <2>3, <2>4 DEF Dial, ConnInv, EndsUp, Fresh
  <2>5. CASE ~PassedOver(n, m)
    <3>1. /\ dialer' = [dialer EXCEPT ![d] = "waiting"]
          /\ acceptor' = [acceptor EXCEPT ![d] = "backlog"]
          /\ n \in up /\ m \in up
      BY <1>2, <2>1, <2>5 DEF Dial, PassedOver
    <3>2. EndsUp(d)'
      BY <2>1, <2>2, <3>1 DEF EndsUp
    <3>3. ASSUME NEW c \in Conn, c # d
          PROVE  dialer'[c] = dialer[c] /\ acceptor'[c] = acceptor[c]
      BY <3>1, <3>3 DEF TypeOK
    <3>4. ASSUME NEW c \in Conn PROVE EndsUp(c)'
      BY <2>2, <3>2, <3>3 DEF ConnInv, EndsUp
    <3>5. ASSUME NEW c \in Conn PROVE Fresh(c)'
      BY <2>3, <3>3 DEF ConnInv, Fresh
    <3> QED
      BY <3>4, <3>5 DEF ConnInv
  <2> QED
    BY <2>4, <2>5
<1>3. ASSUME NEW c \in Conn, ConnectStep(c) PROVE ConnInv'
  BY <1>3, EndsMove DEF ConnectStep, ConnectHello, ConnectFails,
                        ConnectRegister, TypeOK
<1>4. ASSUME NEW c \in Conn, InboundStep(c) PROVE ConnInv'
  BY <1>4, EndsMove DEF InboundStep, Accept, InboundHello, InboundFails,
                        InboundRegister, TypeOK
<1>5. ASSUME NEW c \in Conn, ReadStep(c) PROVE ConnInv'
  BY <1>5, EndsMove DEF ReadStep, ReadEnds, Disconnected, End, SetEnd, TypeOK
<1>6. ASSUME NEW c \in Conn, Break(c) PROVE ConnInv'
  BY <1>6, EndsMove DEF Break
<1>7. ASSUME NEW n \in Node, Crash(n) PROVE ConnInv'
  BY <1>7, ConnParts DEF Crash, ConnInv, EndsUp, Fresh, Ahead, TypeOK
<1>8. ASSUME NEW n \in Node, Restart(n) PROVE ConnInv'
  BY <1>8 DEF Restart, ConnInv, EndsUp, Fresh, Ahead
<1>9. CASE (\E n \in Node : AcceptFails(n)) \/ UNCHANGED vars
  BY <1>9, EndsMove DEF AcceptFails, vars
<1> QED
  BY <1>1, <1>2, <1>3, <1>4, <1>5, <1>6, <1>7, <1>8, <1>9 DEF Next, HeartbeatStep

-----------------------------------------------------------------------------
(* NoDeadEntries.                                                          *)

Listable == {"reading", "closing"}

\* A step that changes no map and takes no end out of its read loop.
LEMMA EntriesStay ==
  ASSUME TypeOK, NoDeadEntries, up' = up, peers' = peers,
         \A c \in Conn : dialer[c] \in Listable => dialer'[c] \in Listable,
         \A c \in Conn : acceptor[c] \in Listable => acceptor'[c] \in Listable
  PROVE  NoDeadEntries'
<1>1. ASSUME NEW n \in Node, NEW c \in Conn, End(n, c) \in Listable
      PROVE  End(n, c)' \in Listable
  BY <1>1 DEF End
<1>2. ASSUME NEW n \in Node, NEW m \in Node, peers[n][m] # NoConn
      PROVE  End(n, peers[n][m])' \in Listable
  <2>1. peers[n][m] \in Conn /\ End(n, peers[n][m]) \in Listable
    BY <1>2 DEF NoDeadEntries, Listable, TypeOK
  <2> QED
    BY <1>1, <2>1
<1> QED
  BY <1>2 DEF NoDeadEntries, Listable

\* A step that lists m at n under c, whose end at n is in its read loop then.
LEMMA EntryAdded ==
  ASSUME TypeOK, NoDeadEntries, NEW c \in Conn, NEW n \in up, NEW m,
         Ends(c) = {n, m}, up' = up,
         peers' = [peers EXCEPT ![n][m] = c],
         End(n, c)' \in Listable,
         \A k \in Node, b \in Conn :
           End(k, b) \in Listable => End(k, b)' \in Listable
  PROVE  NoDeadEntries'
<1>1. ASSUME NEW k \in Node, NEW j \in Node, peers'[k][j] # NoConn
      PROVE  /\ k \in up
             /\ {k, j} = Ends(peers'[k][j])
             /\ End(k, peers[k][j])' \in Listable
  <2>1. CASE k = n /\ j = m
    <3>1. peers'[k][j] = c
      BY <2>1 DEF TypeOK
    <3> QED
      BY <2>1, <3>1
  <2>2. CASE ~(k = n /\ j = m)
    <3>1. peers'[k][j] = peers[k][j] /\ peers[k][j] \in Conn
      BY <1>1, <2>2 DEF TypeOK
    <3>2. k \in up /\ {k, j} = Ends(peers[k][j]) /\ End(k, peers[k][j]) \in Listable
      BY <1>1, <3>1 DEF NoDeadEntries, Listable
    <3> QED
      BY <3>1, <3>2
  <2> QED
    BY <2>1, <2>2
<1> QED
  BY <1>1 DEF NoDeadEntries, Listable, Ends

LEMMA EntriesStep ==
  ASSUME GossipInv, [Next]_vars
  PROVE  NoDeadEntries'
<1> USE DEF GossipInv
<1>1. ASSUME NEW n \in Node, Heartbeat(n) PROVE NoDeadEntries'
  BY <1>1, EntriesStay DEF Heartbeat
<1>2. ASSUME NEW n \in Node, NEW m \in Node, Dial(n, m) PROVE NoDeadEntries'
  <2>1. PICK d \in Conn : /\ d = <<n, m, beat[n]>>
                          /\ dialer[d] = "none" /\ acceptor[d] = "none"
    BY <1>2, Dialled DEF Dial, ConnInv, Fresh, Ahead
  <2>2. /\ up' = up /\ peers' = peers
        /\ \/ dialer' = dialer /\ acceptor' = acceptor
           \/ /\ dialer' = [dialer EXCEPT ![d] = "waiting"]
              /\ acceptor' = [acceptor EXCEPT ![d] = "backlog"]
    BY <1>2, <2>1 DEF Dial
  <2> QED
    BY <2>1, <2>2, EntriesStay DEF Listable, TypeOK
<1>3. ASSUME NEW c \in Conn, ConnectStep(c) PROVE NoDeadEntries'
  <2>1. CASE ConnectHello(c) \/ ConnectFails(c)
    BY <2>1, EntriesStay DEF ConnectHello, ConnectFails, Listable, TypeOK
  <2>2. CASE ConnectRegister(c)
    <3>1. /\ Dialer(c) \in up
          /\ dialer' = [dialer EXCEPT ![c] = "reading"]
          /\ peers' = [peers EXCEPT ![Dialer(c)][Acceptor(c)] = c]
          /\ up' = up /\ acceptor' = acceptor
      BY <2>2 DEF ConnectRegister, ConnInv, EndsUp
    <3>2. End(Dialer(c), c)' \in Listable
      BY <3>1, ConnParts DEF End, Listable, TypeOK
    <3>3. ASSUME NEW k \in Node, NEW b \in Conn, End(k, b) \in Listable
          PROVE  End(k, b)' \in Listable
      BY <3>1, <3>3 DEF End, Listable, TypeOK
    <3>4. Ends(c) = {Dialer(c), Acceptor(c)}
      BY DEF Ends
    <3> QED
      BY <3>1, <3>2, <3>3, <3>4, EntryAdded
  <2> QED
    BY <1>3, <2>1, <2>2 DEF ConnectStep
<1>4. ASSUME NEW c \in Conn, InboundStep(c) PROVE NoDeadEntries'
  <2>1. CASE Accept(c) \/ InboundHello(c) \/ InboundFails(c)
    BY <2>1, EntriesStay DEF Accept, InboundHello, InboundFails, Listable, TypeOK
  <2>2. CASE InboundRegister(c)
    <3>1. /\ Acceptor(c) \in up
          /\ acceptor' = [acceptor EXCEPT ![c] = "reading"]
          /\ peers' = [peers EXCEPT ![Acceptor(c)][Dialer(c)] = c]
          /\ up' = up /\ dialer' = dialer
      BY <2>2 DEF InboundRegister, ConnInv, EndsUp
    <3>2. End(Acceptor(c), c)' \in Listable
      BY <3>1, ConnParts DEF End, Listable, TypeOK
    <3>3. ASSUME NEW k \in Node, NEW b \in Conn, End(k, b) \in Listable
          PROVE  End(k, b)' \in Listable
      BY <3>1, <3>3 DEF End, Listable, TypeOK
    <3>4. Ends(c) = {Dialer(c), Acceptor(c)}
      BY DEF Ends
    <3> QED
      BY <3>1, <3>2, <3>3, <3>4, EntryAdded, ZenonT(30)
  <2> QED
    BY <1>4, <2>1, <2>2 DEF InboundStep
<1>5. ASSUME NEW c \in Conn, ReadStep(c) PROVE NoDeadEntries'
  <2>1. PICK n \in Ends(c) : ReadEnds(n, c) \/ Disconnected(n, c)
    BY <1>5 DEF ReadStep
  <2>2. CASE ReadEnds(n, c)
    BY <2>2, EntriesStay DEF ReadEnds, SetEnd, Listable, TypeOK
  <2>3. CASE Disconnected(n, c)
    <3>1. n \in Node /\ Ends(c) \ {n} \subseteq Node
      BY <2>1, ConnParts DEF Ends
    <3>2. /\ up' = up
          /\ \A m \in Node : peers'[n][m] # NoConn =>
               peers'[n][m] = peers[n][m] /\ m \notin Ends(c) \ {n}
          /\ \A k \in Node \ {n} : peers'[k] = peers[k]
      BY <2>3, <3>1 DEF Disconnected, Deletes, TypeOK
    <3>3. ASSUME NEW k \in Node, NEW b \in Conn, <<k, b>> # <<n, c>>,
                 k \in Ends(b)
          PROVE  End(k, b)' = End(k, b)
      BY <2>1, <2>3, <3>3, ConnParts DEF Disconnected, SetEnd, End, Ends, TypeOK
    <3>4. ASSUME NEW k \in Node, NEW m \in Node, peers'[k][m] # NoConn
          PROVE  /\ peers'[k][m] = peers[k][m] /\ peers[k][m] \in Conn
                 /\ {k, m} = Ends(peers[k][m])
                 /\ <<k, peers[k][m]>> # <<n, c>>
      <4>1. peers'[k][m] = peers[k][m]
        <5>1. CASE k = n
          BY <3>2, <3>4, <5>1
        <5>2. CASE k # n
          BY <3>2, <5>2
        <5> QED
          BY <5>1, <5>2
      <4>2. peers[k][m] \in Conn
        BY <3>4, <4>1 DEF TypeOK
      <4>3. {k, m} = Ends(peers[k][m])
        BY <3>4, <4>1 DEF NoDeadEntries
      <4>4. k = n /\ peers[k][m] = c => m \in Ends(c) \ {n}
        BY <4>3, ConnParts DEF Ends
      <4> QED
        BY <3>2, <3>4, <4>1, <4>2, <4>3, <4>4
    <3> QED
      BY <3>2, <3>3, <3>4 DEF NoDeadEntries
  <2> QED
    BY <2>1, <2>2, <2>3
<1>6. ASSUME NEW c \in Conn, Break(c) PROVE NoDeadEntries'
  BY <1>6, EntriesStay DEF Break
<1>7. ASSUME NEW n \in Node, Crash(n) PROVE NoDeadEntries'
  <2>1. ASSUME NEW k \in Node, NEW m \in Node, peers'[k][m] # NoConn
        PROVE  k # n /\ peers'[k][m] = peers[k][m] /\ peers[k][m] \in Conn
    BY <1>7, <2>1 DEF Crash, TypeOK
  <2>2. ASSUME NEW k \in Node \ {n}, NEW b \in Conn, k \in Ends(b)
        PROVE  End(k, b)' = End(k, b)
    BY <1>7, <2>2 DEF Crash, End, Ends
  <2>3. up' = up \ {n}
    BY <1>7 DEF Crash
  <2> QED
    BY <2>1, <2>2, <2>3 DEF NoDeadEntries
<1>8. ASSUME NEW n \in Node, Restart(n) PROVE NoDeadEntries'
  BY <1>8 DEF Restart, NoDeadEntries, End
<1>9. CASE (\E n \in Node : AcceptFails(n)) \/ UNCHANGED vars
  BY <1>9, EntriesStay DEF AcceptFails, vars
<1> QED
  BY <1>1, <1>2, <1>3, <1>4, <1>5, <1>6, <1>7, <1>8, <1>9 DEF Next, HeartbeatStep

-----------------------------------------------------------------------------
LEMMA GossipInvHolds == Spec => []GossipInv
<1>1. GossipInv /\ [Next]_vars => GossipInv'
  BY TypeStep, TodoStep, ConnStep, EntriesStep DEF GossipInv
<1> QED
  BY <1>1, GossipInit, PTL DEF Spec

\* Every variable has its type; a dial is one of the bounded connections only
\* because of the peers that are left to dial.
THEOREM TypeCorrect == Spec => []TypeOK
<1>1. GossipInv => TypeOK
  BY DEF GossipInv
<1> QED
  BY <1>1, GossipInvHolds, PTL

\* NoDeadEntries holds: an end is listed from its registration to the clean-up
\* of its read loop at most, and only at a node that is up.
THEOREM NoDeadEntriesHolds == Spec => []NoDeadEntries
<1>1. GossipInv => NoDeadEntries
  BY DEF GossipInv
<1> QED
  BY <1>1, GossipInvHolds, PTL
=============================================================================
