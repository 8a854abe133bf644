------------------------------- MODULE Gossip -------------------------------
(***************************************************************************)
(* The connections of internal/gossip/gossip.go, on all nodes of a swarm:  *)
(* dialling and accepting, the exchange of hellos, the peers map, and the  *)
(* read loops that end when a connection does.  What is sent over them is  *)
(* Syncer's; here a read loop that has a message handled, maybe for good,  *)
(* is one that is slow to notice the end of its connection.                *)
(*                                                                         *)
(* The caller of Connect is updatePeers: at every heartbeat it connects to *)
(* every peer in turn, connected already or not.                           *)
(***************************************************************************)
EXTENDS Naturals

CONSTANTS
  Node,        \* the node IDs
  NoConn,      \* no entry in the peers map
  MaxBeats,    \* bound: MaxBeats[n] heartbeats of n get a list of peers
  MaxBreaks,   \* bound: connections broken by the network
  MaxCrashes   \* bound: agents that die and are started again

\* The connection that a node dials to a peer at its k-th heartbeat.
Conn == UNION {{n} \X (Node \ {n}) \X (1..MaxBeats[n]) : n \in Node}
Dialer(c)   == c[1]
Acceptor(c) == c[2]

ASSUME GossipAssumption ==
  /\ MaxBeats \in [Node -> Nat] /\ MaxBreaks \in Nat /\ MaxCrashes \in Nat
  /\ NoConn \notin Conn

VARIABLES
  up,        \* nodes whose agent runs
  accepting, \* nodes whose acceptLoop has not returned
  beat,      \* beat[n]: heartbeats so far
  todo,      \* todo[n]: peers that updatePeers has not connected to yet
  peers,     \* peers[n][m]: the connection under which n's map lists m
  open,      \* connections that neither end nor the network has closed
  replied,   \* connections whose dialer has been sent the hello response
  dialer,    \* dialer[c]: where the dialing end of c is
  acceptor,  \* acceptor[c]: where the accepting end of c is
  breaks,    \* connections broken so far
  crashes    \* crashes so far

vars == <<up, accepting, beat, todo, peers, open, replied, dialer, acceptor, breaks,
          crashes>>

\* Both ends of a connection go through these; only a dialer waits in Connect, in
\* tls.Dial or for the hello response, and only an acceptor is in the backlog of
\* the listener or "accepted".
Stage == {"none", "waiting", "backlog", "accepted", "register", "reading", "closing",
          "done"}

\* The stage of n's end of a connection, and the peer at the other end.
End(n, c)   == IF Dialer(c) = n THEN dialer[c] ELSE acceptor[c]
Ends(c)     == {Dialer(c), Acceptor(c)}

TypeOK ==
  /\ up \subseteq Node /\ accepting \subseteq up
  /\ beat \in [Node -> Nat] /\ \A n \in Node : beat[n] <= MaxBeats[n]
  /\ todo \in [Node -> SUBSET Node]
  /\ peers \in [Node -> [Node -> Conn \cup {NoConn}]]
  /\ open \subseteq Conn /\ replied \subseteq Conn
  /\ dialer \in [Conn -> Stage \ {"backlog", "accepted"}]
  /\ acceptor \in [Conn -> Stage \ {"waiting"}]
  /\ breaks \in 0..MaxBreaks /\ crashes \in 0..MaxCrashes

Init ==
  /\ up = Node /\ accepting = Node
  /\ beat = [n \in Node |-> 0]
  /\ todo = [n \in Node |-> {}]
  /\ peers = [n \in Node |-> [m \in Node |-> NoConn]]
  /\ open = {} /\ replied = {}
  /\ dialer = [c \in Conn |-> "none"]
  /\ acceptor = [c \in Conn |-> "none"]
  /\ breaks = 0 /\ crashes = 0

-----------------------------------------------------------------------------
(* Connect, called by updatePeers for one peer after the other.            *)

Connecting(n) == \E c \in Conn : Dialer(c) = n /\ dialer[c] \in {"waiting", "register"}

\* Slip: the node finds itself among its peers.
PeerListSelf(n) == Node

\* The peers a heartbeat response lists: the swarm's other nodes.
PeerList(n) == Node \ {n}

Heartbeat(n) ==
  /\ n \in up
  /\ beat[n] < MaxBeats[n]
  /\ todo[n] = {} /\ ~Connecting(n)
  /\ beat' = [beat EXCEPT ![n] = @ + 1]
  /\ todo' = [todo EXCEPT ![n] = PeerList(n)]
  /\ UNCHANGED <<up, accepting, peers, open, replied, dialer, acceptor, breaks, crashes>>

\* Slip: a peer that is listed is not connected to.
PassedOverListed(n, m) == m \notin up \/ peers[n][m] # NoConn

\* The peer does not answer the dial.
PassedOver(n, m) == m \notin up

\* tls.Dial.  The peer's kernel takes the connection, whether its acceptLoop still
\* runs or not; the handshake waits for handleInbound to read.  Neither it nor the
\* hello exchange has a timeout.
Dial(n, m) ==
  LET c == <<n, m, beat[n]>> IN
  /\ n \in up
  /\ m \in todo[n] /\ ~Connecting(n)
  /\ todo' = [todo EXCEPT ![n] = @ \ {m}]
  /\ IF PassedOver(n, m)
       THEN UNCHANGED <<open, dialer, acceptor>>
       ELSE /\ open' = open \cup {c}
            /\ dialer' = [dialer EXCEPT ![c] = "waiting"]
            /\ acceptor' = [acceptor EXCEPT ![c] = "backlog"]
  /\ UNCHANGED <<up, accepting, beat, peers, replied, breaks, crashes>>

\* The hello response is there, even if the connection has ended since.
ConnectHello(c) ==
  /\ dialer[c] = "waiting"
  /\ c \in replied
  /\ dialer' = [dialer EXCEPT ![c] = "register"]
  /\ UNCHANGED <<up, accepting, beat, todo, peers, open, replied, acceptor, breaks, crashes>>

\* The dial, the hello or the reading of the response fails.
ConnectFails(c) ==
  /\ dialer[c] = "waiting"
  /\ c \notin open
  /\ dialer' = [dialer EXCEPT ![c] = "done"]
  /\ UNCHANGED <<up, accepting, beat, todo, peers, open, replied, acceptor, breaks, crashes>>

\* g.peers[p.nodeID] = p, whatever is there; Connect starts a read loop and
\* returns.
ConnectRegister(c) ==
  /\ dialer[c] = "register"
  /\ peers' = [peers EXCEPT ![Dialer(c)][Acceptor(c)] = c]
  /\ dialer' = [dialer EXCEPT ![c] = "reading"]
  /\ UNCHANGED <<up, accepting, beat, todo, open, replied, acceptor, breaks, crashes>>

-----------------------------------------------------------------------------
(* acceptLoop, and handleInbound, a goroutine per connection.              *)

\* Slip: acceptLoop calls handleInbound itself, and so waits for its end.
AcceptInTurn(c) ==
  /\ acceptor[c] = "backlog"
  /\ Acceptor(c) \in accepting
  /\ \A d \in Conn : Acceptor(d) = Acceptor(c)
       => acceptor[d] \notin {"accepted", "register", "reading", "closing"}
  /\ acceptor' = [acceptor EXCEPT ![c] = "accepted"]
  /\ UNCHANGED <<up, accepting, beat, todo, peers, open, replied, dialer, breaks, crashes>>

\* The loop starts a handleInbound.
Accept(c) ==
  /\ acceptor[c] = "backlog"
  /\ Acceptor(c) \in accepting
  /\ acceptor' = [acceptor EXCEPT ![c] = "accepted"]
  /\ UNCHANGED <<up, accepting, beat, todo, peers, open, replied, dialer, breaks, crashes>>

\* Accept returns an error: out of file descriptors, say.  The loop returns for good;
\* the listener stays open and the agent goes on.
AcceptFails(n) ==
  /\ n \in accepting
  /\ accepting' = accepting \ {n}
  /\ UNCHANGED <<up, beat, todo, peers, open, replied, dialer, acceptor, breaks, crashes>>

\* Read the dialer's hello and reply with our own.
InboundHello(c) ==
  /\ acceptor[c] = "accepted"
  /\ acceptor' = [acceptor EXCEPT ![c] = "register"]
  /\ replied' = IF c \in open THEN replied \cup {c} ELSE replied
  /\ UNCHANGED <<up, accepting, beat, todo, peers, open, dialer, breaks, crashes>>

\* Reading the hello or sending the response fails.
InboundFails(c) ==
  /\ acceptor[c] = "accepted"
  /\ c \notin open
  /\ acceptor' = [acceptor EXCEPT ![c] = "done"]
  /\ UNCHANGED <<up, accepting, beat, todo, peers, open, replied, dialer, breaks, crashes>>

InboundRegister(c) ==
  /\ acceptor[c] = "register"
  /\ peers' = [peers EXCEPT ![Acceptor(c)][Dialer(c)] = c]
  /\ acceptor' = [acceptor EXCEPT ![c] = "reading"]
  /\ UNCHANGED <<up, accepting, beat, todo, open, replied, dialer, breaks, crashes>>

-----------------------------------------------------------------------------
(* readLoop, at either end.                                                *)

SetEnd(n, c, stage) ==
  IF n = Dialer(c)
    THEN dialer' = [dialer EXCEPT ![c] = stage] /\ UNCHANGED acceptor
    ELSE acceptor' = [acceptor EXCEPT ![c] = stage] /\ UNCHANGED dialer

\* Decode fails: the loop returns, once no handler holds it up.
ReadEnds(n, c) ==
  /\ End(n, c) = "reading"
  /\ c \notin open
  /\ SetEnd(n, c, "closing")
  /\ UNCHANGED <<up, accepting, beat, todo, peers, open, replied, breaks, crashes>>

\* Slip: the local node ID is deleted instead of the peer's.
DeletesLocal(n, c) == {n}

\* delete(g.peers, p.nodeID): by node ID, whichever connection is listed.
Deletes(n, c) == Ends(c) \ {n}

\* The deferred function.
Disconnected(n, c) ==
  /\ End(n, c) = "closing"
  /\ peers' = [peers EXCEPT ![n] = [m \in Node |-> IF m \in Deletes(n, c)
                                                   THEN NoConn ELSE @[m]]]
  /\ SetEnd(n, c, "done")
  /\ UNCHANGED <<up, accepting, beat, todo, open, replied, breaks, crashes>>

-----------------------------------------------------------------------------
(* Failures.                                                               *)

Break(c) ==
  /\ c \in open
  /\ breaks < MaxBreaks
  /\ breaks' = breaks + 1
  /\ open' = open \ {c}
  /\ UNCHANGED <<up, accepting, beat, todo, peers, replied, dialer, acceptor, crashes>>

\* The process ends, after Close or without: all its connections do.
Crash(n) ==
  /\ n \in up
  /\ crashes < MaxCrashes
  /\ crashes' = crashes + 1
  /\ up' = up \ {n} /\ accepting' = accepting \ {n}
  /\ todo' = [todo EXCEPT ![n] = {}]
  /\ peers' = [peers EXCEPT ![n] = [m \in Node |-> NoConn]]
  /\ open' = {c \in open : n \notin Ends(c)}
  /\ dialer' = [c \in Conn |-> IF Dialer(c) = n /\ dialer[c] # "none"
                               THEN "done" ELSE dialer[c]]
  /\ acceptor' = [c \in Conn |-> IF Acceptor(c) = n /\ acceptor[c] # "none"
                                 THEN "done" ELSE acceptor[c]]
  /\ UNCHANGED <<beat, replied, breaks>>

\* New and Start.
Restart(n) ==
  /\ n \notin up
  /\ up' = up \cup {n} /\ accepting' = accepting \cup {n}
  /\ UNCHANGED <<beat, todo, peers, open, replied, dialer, acceptor, breaks, crashes>>

-----------------------------------------------------------------------------
HeartbeatStep(n) == Heartbeat(n) \/ \E m \in Node : Dial(n, m)
ConnectStep(c)   == ConnectHello(c) \/ ConnectFails(c) \/ ConnectRegister(c)
InboundStep(c)   == Accept(c) \/ InboundHello(c) \/ InboundFails(c) \/ InboundRegister(c)
ReadStep(c)      == \E n \in Ends(c) : ReadEnds(n, c) \/ Disconnected(n, c)

Next == \/ \E n \in Node : \/ HeartbeatStep(n) \/ AcceptFails(n)
                           \/ Crash(n) \/ Restart(n)
        \/ \E c \in Conn : ConnectStep(c) \/ InboundStep(c) \/ ReadStep(c) \/ Break(c)

Spec == Init /\ [][Next]_vars

\* The ticker and the goroutines of Connect, acceptLoop and handleInbound are
\* scheduled.  A read loop may be held up by a handler for good, an acceptLoop may
\* return for good, and no agent that died has to be started again.
Fairness ==
  /\ \A n \in Node : WF_vars(HeartbeatStep(n))
  /\ \A c \in Conn : WF_vars(ConnectStep(c)) /\ WF_vars(InboundStep(c))

FairSpec == Spec /\ Fairness

-----------------------------------------------------------------------------
\* Whatever connections are replaced, fail half-way or end at one side only,
\* the map lists a peer under a connection to that very peer whose read loop
\* on this node has not cleaned up: no entry is left behind that nothing
\* would ever delete, and a node that is down lists nobody.
NoDeadEntries ==
  \A n, m \in Node : peers[n][m] # NoConn =>
    /\ n \in up
    /\ {n, m} = Ends(peers[n][m])
    /\ End(n, peers[n][m]) \in {"reading", "closing"}

\* What keeps Connect, and with it the heartbeat loop, from returning is nothing but
\* a peer whose acceptLoop has returned, and only for a connection that it had not
\* taken by then: else the hello comes or the connection ends, however many others
\* the peer is serving, in read loops that hang or not.
ConnectReturns ==
  \A c \in Conn : dialer[c] = "waiting" ~>
    \/ dialer[c] # "waiting"
    \/ acceptor[c] = "backlog" /\ Acceptor(c) \notin accepting

\* Nothing goes wrong any more; so far, every acceptLoop runs.
Calm == up = Node /\ accepting = Node /\ breaks = MaxBreaks /\ crashes = MaxCrashes

\* A node that has lost its peers gets them back: once failures are over, and as
\* long as no acceptLoop returns, a heartbeat that is still to come lists every peer
\* under a connection that is open, even where the old one is still listed and its
\* read loop hangs in a handler.
Relinks ==
  \A n, m \in Node : n # m =>
    (Calm /\ beat[n] < MaxBeats[n]
       ~> \/ \E c \in Conn : peers[n][m] = c /\ c \in open
          \/ accepting # Node)

\* "Broadcast sends a message to all currently connected peers"
\* (gossip.go:146): with no registration or clean-up under way at n, a peer
\* that an open connection leads to is in the map that Broadcast goes through.
ConnectedIsListed ==
  \A c \in open : \A n \in Ends(c) :
    /\ End(n, c) = "reading"
    /\ \A d \in Conn : n \in Ends(d) => End(n, d) \notin {"register", "closing"}
    => \A m \in Ends(c) \ {n} : peers[n][m] # NoConn
=============================================================================
