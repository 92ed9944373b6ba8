-------------------------- MODULE GameServerProofs --------------------------
(***************************************************************************)
(* Proofs about GameServer, for any number of peers, packets and waiting   *)
(* events, whether or not a connection may end before its login is         *)
(* handled: nothing here depends on HastyQuit.                             *)
(***************************************************************************)
EXTENDS GameServer, FiniteSetTheorems, TLAPS

----------------------------------------------------------------------------
(* The orders in which add_peer may announce the nodes *)

\* An order of a finite set is a sequence of its elements that leaves none out and repeats
\* none.
LEMMA OrderCovers ==
  ASSUME NEW S, IsFiniteSet(S), NEW order \in SetToSeqs(S)
  PROVE  /\ order \in Seq(S)
         /\ \A x \in S : \E i \in DOMAIN order : order[i] = x
         /\ \A i, j \in DOMAIN order : order[i] = order[j] => i = j
<1> DEFINE D == 1..Cardinality(S)
<1>1. Cardinality(S) \in Nat
  BY FS_CardinalityType
<1>2. order \in [D -> S] /\ \A i, j \in D : i # j => order[i] # order[j]
  BY DEF SetToSeqs
<1>3. IsFiniteSet(D) /\ Cardinality(D) = Cardinality(S)
  BY <1>1, FS_Interval
<1>4. order \in Injection(D, S)
  BY <1>2 DEF Injection, IsInjective
<1>5. order \in Surjection(D, S)
  BY <1>3, <1>4, FS_Injection
<1>6. QED
  BY <1>1, <1>2, <1>5 DEF Surjection

----------------------------------------------------------------------------
(* Type correctness *)

\* The group is finite, since it grows by the two nodes of a player at a time.
GroupFinite == IsFiniteSet(group_nodes)

LEMMA InitTypeOK == Init => TypeOK /\ GroupFinite
<1>1. Init => GroupFinite
  BY FS_EmptySet DEF Init, GroupFinite
<1>2. Init => TypeOK
  <2>1. 0 \in 0..MaxData /\ 0 \in Pos
    BY GameServerAssumption DEF Pos
  <2>2. ASSUME Init
        PROVE  /\ conn \in [Peer -> {"none", "mapped", "open", "unmapped", "done"}]
               /\ received \in [Peer -> 0..MaxData]
               /\ state \in [Peer -> {"Login", "Play"}]
               /\ sess_entity \in [Peer -> Life] /\ player \in [Peer -> Life]
               /\ pos \in [Peer -> Pos]
    BY <2>1, <2>2 DEF Init, Life
  <2>3. ASSUME Init
        PROVE  /\ events \in Seq(Event) /\ on_join \in Seq(Peer) /\ on_quit \in Seq(Peer)
               /\ shown \in [Node -> SUBSET Peer] /\ log \in [Peer -> Seq(Packet)]
    BY <2>3 DEF Init
  <2>4. QED
    BY <2>2, <2>3 DEF Init, TypeOK
<1>3. QED
  BY <1>1, <1>2

LEMMA NodeType ==
  /\ \A p \in Peer : rpc(p) \in Node /\ rpc_owner(p) \in Node /\ rpc_puppet(p) \in Node
  /\ \A n \in Node : /\ n[1] \in {"rpc", "owner", "puppet"} /\ n[2] \in Peer
                     /\ n = <<n[1], n[2]>>
BY DEF Node, rpc, rpc_owner, rpc_puppet

LEMMA PacketType ==
  ASSUME pos \in [Peer -> Pos], NEW n \in Node
  PROVE  /\ Create(n) \in Packet
         /\ \A v \in Pos : Message(n, v) \in Packet
         /\ Delete(n) \in Packet
BY NodeType, GameServerAssumption DEF Create, Message, Delete, Packet, Pos

LEMMA EventType ==
  ASSUME NEW p \in Peer
  PROVE  /\ Connected(p) \in Event /\ Disconnected(p) \in Event
         /\ \A packet \in Sent : DataReceived(p, packet) \in Event
BY DEF Connected, Disconnected, DataReceived, Event

LEMMA SendType ==
  ASSUME events \in Seq(Event), NEW event \in Event, Send(event)
  PROVE  events' \in Seq(Event)
BY DEF Send

LEMMA HandleType ==
  ASSUME events \in Seq(Event), NEW p, NEW kind, Handle(p, kind)
  PROVE  /\ Head(events) \in Event /\ events' \in Seq(Event)
         /\ events # <<>> /\ Head(events).ev = kind /\ Head(events).peer = p
BY DEF Handle

LEMMA TransportTypeOK ==
  ASSUME TypeOK, GroupFinite, NEW p \in Peer, TransportStep(p)
  PROVE  TypeOK' /\ GroupFinite'
<1> USE DEF TypeOK, GroupFinite, Transport, mp, group, world
<1>1. CASE Accept(p)
  BY <1>1 DEF Accept
<1>2. CASE Open(p)
  <2>1. events' \in Seq(Event)
    BY <1>2, EventType, SendType DEF Open
  <2>2. QED
    BY <1>2, <2>1 DEF Open
<1>3. ASSUME NEW packet \in Sent, Receive(p, packet) PROVE TypeOK' /\ GroupFinite'
  <2>1. events' \in Seq(Event)
    BY <1>3, EventType, SendType DEF Receive
  <2>2. received' \in [Peer -> 0..MaxData]
    BY <1>3, GameServerAssumption DEF Receive
  <2>3. QED
    BY <1>3, <2>1, <2>2 DEF Receive
<1>4. CASE Unmap(p)
  BY <1>4 DEF Unmap
<1>5. CASE Close(p)
  <2>1. events' \in Seq(Event)
    BY <1>5, EventType, SendType DEF Close
  <2>2. QED
    BY <1>5, <2>1 DEF Close
<1>6. QED
  BY <1>1, <1>2, <1>3, <1>4, <1>5 DEF TransportStep

LEMMA ProcessTypeOK ==
  ASSUME TypeOK, GroupFinite, NEW p \in Peer,
         HandleConnected(p) \/ HandleDisconnected(p) \/ DropData(p) \/ HandlePlay(p)
  PROVE  TypeOK' /\ GroupFinite'
<1> USE DEF TypeOK, GroupFinite, mp, group, world
<1>1. CASE HandleConnected(p)
  BY <1>1, HandleType DEF HandleConnected, Handle, Life
<1>2. CASE HandleDisconnected(p)
  <2>1. Handle(p, "Disconnected") /\ events' \in Seq(Event)
    BY <1>2, HandleType DEF HandleDisconnected
  <2>2. sess_entity' \in [Peer -> Life]
    BY <1>2 DEF HandleDisconnected, Life
  <2>3. connected' \subseteq Peer /\ group_peers' \subseteq Peer /\ sessions' \subseteq Peer
    BY <1>2 DEF HandleDisconnected, remove_peer
  <2>4. shown' \in [Node -> SUBSET Peer]
    BY <1>2 DEF HandleDisconnected
  <2>5. on_quit' \in Seq(Peer)
    <3>1. on_quit' = on_quit \/ on_quit' = Append(on_quit, p)
      BY <1>2 DEF HandleDisconnected, FireQuit
    <3>2. on_quit \in Seq(Peer)
      OBVIOUS
    <3> HIDE DEF TypeOK, mp
    <3>3. QED
      BY <3>1, <3>2
  <2>6. UNCHANGED <<conn, peer_map, kicked, received, state, on_join, group_nodes, player, pos,
                    log, phase, crashed>>
    BY <1>2, <2>1 DEF HandleDisconnected, Handle
  <2>7. QED
    BY <2>1, <2>2, <2>3, <2>4, <2>5, <2>6
<1>3. CASE DropData(p)
  BY <1>3, HandleType DEF DropData, Handle
<1>4. CASE HandlePlay(p)
  <2> DEFINE packet == Head(events).packet
  <2>1. Handle(p, "DataReceived") /\ events' \in Seq(Event) /\ Head(events) \in Event
        /\ Head(events).ev = "DataReceived"
    BY <1>4, HandleType DEF HandlePlay
  <2>2. CASE Kick(p)
    BY <1>4, <2>1, <2>2 DEF Kick, Handle
  <2>3. CASE UNCHANGED <<kicked, mp, group, world>>
    BY <2>1, <2>3 DEF Handle
  <2>4. CASE /\ packet.kind = "SetPos" /\ Accepts(p, packet.node)
             /\ packet.node[1] = "owner"
             /\ LET q == packet.node[2]
                IN /\ pos' = [pos EXCEPT ![q] = packet.val]
                   /\ log' = [w \in Peer |->
                                IF w \in shown[rpc_puppet(q)]
                                THEN Append(log[w], Message(rpc_puppet(q), packet.val))
                                ELSE log[w]]
             /\ UNCHANGED <<kicked, mp, group, player, connected, shown>>
    <3>1. packet.node \in Node /\ packet.val \in Pos
      <4>1. packet \in Sent
        BY <2>1 DEF Event
      <4>2. QED
        <5>1. PICK n \in Node, v \in 1..MaxPos : packet = SetPos(n, v)
          BY <2>4, <4>1 DEF Sent, Hello, Garbage
        <5>2. QED
          BY <5>1, GameServerAssumption DEF SetPos, Pos
    <3>2. Message(rpc_puppet(packet.node[2]), packet.val) \in Packet
      BY <3>1, NodeType, PacketType
    <3>3. log' \in [Peer -> Seq(Packet)]
      BY <2>4, <3>2
    <3>4. pos' \in [Peer -> Pos]
      BY <2>4, <3>1
    <3>5. QED
      BY <2>1, <2>4, <3>3, <3>4 DEF Handle
  <2>5. QED
    BY <1>4, <2>2, <2>3, <2>4 DEF HandlePlay
<1>5. QED
  BY <1>1, <1>2, <1>3, <1>4

\* What add_peer appends to the log of the new member: every node it sees, in some order.
LEMMA AddPeerLog ==
  ASSUME TypeOK, GroupFinite, NEW p \in Peer, add_peer(p)
  PROVE  \E news \in Seq(Packet) :
           /\ log' = [log EXCEPT ![p] = log[p] \o news]
           /\ \A i \in DOMAIN news : \E n \in Followed(p) : news[i] = Create(n)
           /\ \A n \in Followed(p) : \E i \in DOMAIN news : news[i] = Create(n)
           /\ \A i, j \in DOMAIN news : news[i] = news[j] => i = j
<1>1. IsFiniteSet(Followed(p)) /\ Followed(p) \subseteq Node
  BY FS_Subset DEF GroupFinite, Followed, TypeOK
<1>2. PICK order \in SetToSeqs(Followed(p)) :
             log' = [log EXCEPT ![p] = @ \o [i \in DOMAIN order |-> Create(order[i])]]
  BY DEF add_peer
<1>3. /\ order \in Seq(Followed(p))
      /\ \A n \in Followed(p) : \E i \in DOMAIN order : order[i] = n
      /\ \A i, j \in DOMAIN order : order[i] = order[j] => i = j
  BY <1>1, OrderCovers
<1> DEFINE news == [i \in DOMAIN order |-> Create(order[i])]
<1>4. \A i \in DOMAIN order : order[i] \in Followed(p)
  BY <1>3
<1>5. \A i \in DOMAIN order : Create(order[i]) \in Packet
  BY <1>1, <1>4, PacketType DEF TypeOK
<1>6. news \in Seq(Packet)
  <2>1. Len(order) \in Nat /\ DOMAIN order = 1..Len(order)
    BY <1>3
  <2>2. QED
    BY <1>5, <2>1
<1>7. \A i, j \in DOMAIN news : news[i] = news[j] => i = j
  BY <1>3 DEF Create
<1>8. QED
  BY <1>2, <1>3, <1>4, <1>6, <1>7

LEMMA LoginTypeOK ==
  ASSUME TypeOK, GroupFinite, NEW p \in Peer, HandleLogin(p)
  PROVE  TypeOK' /\ GroupFinite'
<1> USE DEF TypeOK, GroupFinite, mp, group, world
<1>1. Handle(p, "DataReceived") /\ events' \in Seq(Event)
  BY HandleType DEF HandleLogin
<1>2. CASE Kick(p)
  BY <1>1, <1>2 DEF HandleLogin, Handle, Kick
<1>3. CASE /\ connected' = connected \cup {p}
           /\ on_join' = FireJoin(p)
           /\ add_peer(p)
           /\ state' = [state EXCEPT ![p] = "Play"]
           /\ UNCHANGED <<kicked, sessions, sess_entity, on_quit, player, pos>>
  <2>1. log' \in [Peer -> Seq(Packet)]
    <3>1. PICK news \in Seq(Packet) : log' = [log EXCEPT ![p] = log[p] \o news]
      BY <1>3, AddPeerLog
    <3>2. log[p] \o news \in Seq(Packet)
      OBVIOUS
    <3>3. QED
      BY <3>1, <3>2
  <2>2. QED
    BY <1>1, <1>3, <2>1 DEF Handle, FireJoin, add_peer
<1>4. QED
  BY <1>2, <1>3 DEF HandleLogin

\* The effect of a login that is handled in time: the player's three nodes are shown.
LEMMA JoinEffect ==
  ASSUME NEW p, HandleJoin(p), sess_entity[p] = "live"
  PROVE  LET members == group_peers \cap connected
         IN /\ on_join' = Tail(on_join)
            /\ player' = [player EXCEPT ![p] = "live"]
            /\ group_nodes' = group_nodes \cup {rpc(p), rpc_puppet(p)}
            /\ group_peers' = members
            /\ shown' = [shown EXCEPT ![rpc(p)] = members, ![rpc_puppet(p)] = members \ {p},
                                      ![rpc_owner(p)] = {p} \cap connected]
            /\ log' = [q \in Peer |->
                        IF q \in members
                        THEN log[q] \o <<Create(rpc(p)),
                                         Create(IF q = p THEN rpc_owner(p) ELSE rpc_puppet(p))>>
                        ELSE log[q]]
BY DEF HandleJoin

\* And what it and the panic leave alone.
LEMMA JoinFrame ==
  ASSUME NEW p, HandleJoin(p)
  PROVE  /\ ~crashed /\ phase = "joins" /\ on_join # <<>> /\ p = Head(on_join)
         /\ UNCHANGED <<conn, peer_map, kicked, received, events>>
         /\ UNCHANGED <<sessions, state, sess_entity, on_quit, phase, pos, connected>>
         /\ crashed' \in BOOLEAN \/ crashed' = crashed
         /\ sess_entity[p] # "live" =>
              /\ UNCHANGED <<on_join, group_nodes, group_peers, player, shown, log>>
BY DEF HandleJoin, transport, group, world

LEMMA JoinTypeOK ==
  ASSUME TypeOK, GroupFinite, NEW p \in Peer, HandleJoin(p)
  PROVE  TypeOK' /\ GroupFinite'
<1>1. CASE sess_entity[p] # "live"
  BY <1>1, JoinFrame DEF TypeOK, GroupFinite
<1>2. CASE sess_entity[p] = "live"
  <2> DEFINE members == group_peers \cap connected
  <2>1. /\ on_join' = Tail(on_join)
        /\ player' = [player EXCEPT ![p] = "live"]
        /\ group_nodes' = group_nodes \cup {rpc(p), rpc_puppet(p)}
        /\ group_peers' = members
    BY <1>2, JoinEffect
  <2>2. /\ shown' = [shown EXCEPT ![rpc(p)] = members, ![rpc_puppet(p)] = members \ {p},
                                  ![rpc_owner(p)] = {p} \cap connected]
        /\ log' = [q \in Peer |->
                    IF q \in members
                    THEN log[q] \o <<Create(rpc(p)),
                                     Create(IF q = p THEN rpc_owner(p) ELSE rpc_puppet(p))>>
                    ELSE log[q]]
    BY <1>2, JoinEffect
  <2>3. members \subseteq Peer
    BY DEF TypeOK
  <2> HIDE DEF members
  <2>4. GroupFinite'
    <3>1. group_nodes' = (group_nodes \cup {rpc(p)}) \cup {rpc_puppet(p)}
      BY <2>1
    <3>2. QED
      BY <3>1, FS_AddElement DEF GroupFinite
  <2>5. group_nodes' \subseteq Node /\ group_peers' \subseteq Peer
    BY <2>1, <2>3, NodeType DEF TypeOK
  <2>6. player' \in [Peer -> Life]
    BY <2>1 DEF TypeOK, Life
  <2>7. on_join' \in Seq(Peer)
    BY <2>1, JoinFrame DEF TypeOK
  <2>8. shown' \in [Node -> SUBSET Peer]
    <3> DEFINE others == members \ {p}
               owner == {p} \cap connected
    <3>1. others \subseteq Peer /\ owner \subseteq Peer
      BY <2>3
    <3>2. shown' = [shown EXCEPT ![rpc(p)] = members, ![rpc_puppet(p)] = others,
                                 ![rpc_owner(p)] = owner]
      BY <2>2
    <3> HIDE DEF others, owner
    <3>3. QED
      BY <2>3, <3>1, <3>2 DEF TypeOK
  <2>9. log' \in [Peer -> Seq(Packet)]
    <3>1. ASSUME NEW q \in Peer
          PROVE  log[q] \o <<Create(rpc(p)), Create(IF q = p THEN rpc_owner(p)
                                                             ELSE rpc_puppet(p))>> \in Seq(Packet)
      <4>1. rpc(p) \in Node /\ (IF q = p THEN rpc_owner(p) ELSE rpc_puppet(p)) \in Node
        BY NodeType
      <4>2. /\ Create(rpc(p)) \in Packet
            /\ Create(IF q = p THEN rpc_owner(p) ELSE rpc_puppet(p)) \in Packet
        BY <4>1, PacketType DEF TypeOK
      <4>3. log[q] \in Seq(Packet)
        BY DEF TypeOK
      <4>4. QED
        BY <4>2, <4>3
    <3>2. \A q \in Peer : log'[q] \in Seq(Packet)
      BY <2>2, <3>1 DEF TypeOK
    <3>3. QED
      BY <2>2, <3>2
  <2>10. QED
    BY <2>4, <2>5, <2>6, <2>7, <2>8, <2>9, JoinFrame DEF TypeOK
<1>3. QED
  BY <1>1, <1>2

LEMMA QuitTypeOK ==
  ASSUME TypeOK, GroupFinite, NEW p \in Peer, HandleQuit(p)
  PROVE  TypeOK' /\ GroupFinite'
BY DEF HandleQuit, TypeOK, GroupFinite, Life, transport, group

LEMMA PhaseTypeOK ==
  ASSUME TypeOK, GroupFinite,
         \/ ProcessEnd \/ JoinsEnd \/ QuitsEnd \/ FlushEnd
         \/ \E n \in Node : Unregister(n)
  PROVE  TypeOK' /\ GroupFinite'
<1> USE DEF TypeOK, GroupFinite, transport, mp, group, world
<1>1. CASE ProcessEnd \/ JoinsEnd \/ QuitsEnd
  BY <1>1 DEF ProcessEnd, JoinsEnd, QuitsEnd
<1>2. CASE FlushEnd
  <2>1. GroupFinite' /\ group_nodes' \subseteq Node
    BY <1>2, FS_Subset DEF FlushEnd, DropFollowers
  <2>2. QED
    BY <1>2, <2>1 DEF FlushEnd, Life
<1>3. ASSUME NEW n \in Node, Unregister(n) PROVE TypeOK' /\ GroupFinite'
  <2>1. Delete(n) \in Packet
    BY PacketType
  <2>2. log' \in [Peer -> Seq(Packet)]
    BY <1>3, <2>1 DEF Unregister
  <2>3. QED
    BY <1>3, <2>2 DEF Unregister
<1>4. QED
  BY <1>1, <1>2, <1>3

LEMMA TypeCorrect == Spec => [](TypeOK /\ GroupFinite)
<1>1. TypeOK /\ GroupFinite /\ [Next]_vars => TypeOK' /\ GroupFinite'
  <2>1. TypeOK /\ GroupFinite /\ UNCHANGED vars => TypeOK' /\ GroupFinite'
    BY DEF TypeOK, GroupFinite, vars, transport, mp, group, world
  <2>2. QED
    BY <2>1, TransportTypeOK, ProcessTypeOK, LoginTypeOK, JoinTypeOK, QuitTypeOK, PhaseTypeOK
    DEF Next, MainStep
<1>2. QED
  BY InitTypeOK, <1>1, PTL DEF Spec

----------------------------------------------------------------------------
(* The inductive invariant *)

\* A peer is in the map from the start of its run_conn until its end begins.
MapExact == \A p \in Peer : p \in peer_map <=> conn[p] \in {"mapped", "open"}

\* The queue holds the rest of each connection's story: Connected comes first, before
\* there is a session, and Disconnected last, when the tasks are done; a session whose
\* end was handled has nothing left in it.
EventsInOrder ==
  \A i \in DOMAIN events :
    LET e == events[i]
    IN /\ conn[e.peer] \notin {"none", "mapped"}
       /\ sess_entity[e.peer] \in {"none", "live"}
       /\ e.ev = "Connected" =>
            /\ sess_entity[e.peer] = "none"
            /\ \A j \in DOMAIN events : j < i => events[j].peer # e.peer
       /\ e.ev = "Disconnected" =>
            /\ conn[e.peer] = "done"
            /\ \A j \in DOMAIN events : j > i => events[j].peer # e.peer

\* An opened connection has its session, or the event that will make it; a session is
\* of an opened connection, and over only when the connection is.
SessionsFollow ==
  \A p \in Peer :
    /\ sess_entity[p] = "none" =>
         \/ conn[p] \in {"none", "mapped"}
         \/ \E i \in DOMAIN events : events[i].ev = "Connected" /\ events[i].peer = p
    /\ sess_entity[p] # "none" => conn[p] \notin {"none", "mapped"}
    /\ sess_entity[p] \in {"condemned", "dead"} => conn[p] = "done"

ConnInv == MapExact /\ EventsInOrder /\ SessionsFollow

\* A session is the live entity that holds it, and only one that began can be played in.
SessionsExact ==
  \A p \in Peer :
    /\ p \in sessions <=> sess_entity[p] = "live"
    /\ state[p] = "Play" => sess_entity[p] # "none"
    /\ state[p] = "Login" => player[p] = "none"
    /\ p \in sessions => player[p] \in {"none", "live"}

\* A login is fired once, for a peer that has no player yet, and waits until it has one.
JoinsExact ==
  /\ \A i \in DOMAIN on_join :
       /\ player[on_join[i]] = "none" /\ state[on_join[i]] = "Play"
       /\ \A j \in DOMAIN on_join : on_join[j] = on_join[i] => j = i
  /\ \A p \in Peer : state[p] = "Play" /\ player[p] = "none" =>
       \E i \in DOMAIN on_join : on_join[i] = p

\* Who quits has no session, and a player, or will have one when the logins of the tick
\* are handled.
QuitsExact ==
  \A i \in DOMAIN on_quit :
    /\ sess_entity[on_quit[i]] \in {"condemned", "dead"}
    /\ \/ player[on_quit[i]] \in {"live", "condemned"}
       \/ \E j \in DOMAIN on_join : on_join[j] = on_quit[i]

\* Each loop of a tick empties its signal before the next one starts.
PhasesInOrder ==
  /\ phase \in {"quits", "flush"} => on_join = <<>>
  /\ phase = "flush" => on_quit = <<>>

SessInv ==
  /\ SessionsExact
  /\ JoinsExact
  /\ QuitsExact
  /\ PhasesInOrder
  /\ MembersExact
  /\ FollowsPlayers

\* The owner's node of a player is shown to nobody else.
OwnerAlone == \A p \in Peer : shown[rpc_owner(p)] \subseteq {p}

SeenInv == OwnerAlone /\ EveryoneSeesEveryone

\* What a packet has to do with the place of q, and the last thing a log says of it.
About(packet, q) ==
  \/ packet.node = rpc(q) /\ packet.op = "CreateNode"
  \/ packet.node = rpc_puppet(q) /\ packet.op = "SendMessage"
Silent(lg, q) == \A i \in DOMAIN lg : ~About(lg[i], q)
LastTold(lg, q, v) ==
  \E i \in DOMAIN lg :
    /\ About(lg[i], q) /\ lg[i].val = v
    /\ \A j \in DOMAIN lg : About(lg[j], q) => j <= i

\* Every member was told of every other player, and last of where it is.
WatchInv ==
  \A q \in Peer : player[q] = "live" =>
    \A p \in group_peers \ {q} : LastTold(log[p], q, pos[q])

IInv == GroupFinite /\ ConnInv /\ SessInv /\ SeenInv

LEMMA InitIInv == Init => IInv
<1> SUFFICES ASSUME Init PROVE IInv
  OBVIOUS
<1>1. ConnInv
  BY DEF Init, ConnInv, MapExact, EventsInOrder, SessionsFollow
<1>2. SessInv
  BY DEF Init, SessInv, SessionsExact, JoinsExact, QuitsExact, PhasesInOrder, MembersExact,
         FollowsPlayers, Node
<1>3. SeenInv
  BY NodeType DEF Init, SeenInv, OwnerAlone, EveryoneSeesEveryone
<1>4. QED
  BY <1>1, <1>2, <1>3, InitTypeOK DEF IInv

LEMMA AppendIndex ==
  ASSUME NEW S, NEW s \in Seq(S), NEW e
  PROVE  LET t == Append(s, e)
         IN /\ Len(s) \in Nat /\ DOMAIN s = 1..Len(s) /\ DOMAIN t = 1..(Len(s) + 1)
            /\ \A i \in DOMAIN s : t[i] = s[i]
            /\ t[Len(s) + 1] = e
OBVIOUS

LEMMA TailIndex ==
  ASSUME NEW S, NEW s \in Seq(S), s # <<>>
  PROVE  /\ Head(s) = s[1] /\ 1 \in DOMAIN s
         /\ \A i \in DOMAIN Tail(s) : i \in Nat /\ i + 1 > 1 /\ i + 1 \in DOMAIN s
                                      /\ Tail(s)[i] = s[i + 1]
         /\ \A i \in DOMAIN s : i # 1 => /\ i \in Nat /\ i > 1 /\ i - 1 \in DOMAIN Tail(s)
                                         /\ Tail(s)[i - 1] = s[i]
OBVIOUS

----------------------------------------------------------------------------
(* The connections, their events and their sessions *)

\* What MpServer::process finds at the head of the queue fits the sessions it has.
LEMMA HeadFits ==
  ASSUME TypeOK, ConnInv, SessInv, events # <<>>
  PROVE  LET e == Head(events)
         IN /\ e.ev = "Connected" => sess_entity[e.peer] = "none"
            /\ e.ev # "Connected" => sess_entity[e.peer] = "live"
            /\ e.ev = "Connected" => e.peer \notin sessions
            /\ e.ev # "Connected" => e.peer \in sessions
<1> DEFINE e == Head(events)
<1>1. e = events[1] /\ 1 \in DOMAIN events /\ e \in Event /\ e.peer \in Peer
  BY TailIndex DEF TypeOK, Event
<1>2. conn[e.peer] \notin {"none", "mapped"} /\ sess_entity[e.peer] \in {"none", "live"}
  BY <1>1 DEF ConnInv, EventsInOrder
<1>3. ASSUME e.ev # "Connected", sess_entity[e.peer] = "none" PROVE FALSE
  <2>1. PICK i \in DOMAIN events : events[i].ev = "Connected" /\ events[i].peer = e.peer
    BY <1>1, <1>2, <1>3 DEF ConnInv, SessionsFollow
  <2>2. i # 1 /\ 1 < i
    BY <1>1, <1>3, <2>1 DEF TypeOK
  <2>3. QED
    BY <1>1, <2>1, <2>2 DEF ConnInv, EventsInOrder
<1>4. QED
  BY <1>1, <1>2, <1>3 DEF ConnInv, EventsInOrder, SessInv, SessionsExact

\* An event of p at the end of the queue: the first one, one of an open connection, or
\* the last one.
LEMMA SendStep ==
  ASSUME TypeOK, ConnInv, NEW p \in Peer, NEW e \in Event, e.peer = p, Send(e),
         UNCHANGED sess_entity,
         \A q \in Peer : q # p => conn'[q] = conn[q],
         conn[p] # "none" /\ conn'[p] \notin {"none", "mapped"},
         conn[p] # "done",
         e.ev = "Connected" <=> conn[p] = "mapped",
         e.ev = "Disconnected" <=> conn'[p] = "done"
  PROVE  EventsInOrder' /\ SessionsFollow'
<1> USE DEF ConnInv
<1> DEFINE k == Len(events) + 1
<1>1. /\ k \in DOMAIN events' /\ events'[k] = e
      /\ \A i \in DOMAIN events : i \in DOMAIN events' /\ events'[i] = events[i] /\ i < k
      /\ \A i \in DOMAIN events' : i = k \/ i \in DOMAIN events
  BY AppendIndex DEF Send, TypeOK
<1>2. \A i \in DOMAIN events : events[i].peer \in Peer
  BY DEF TypeOK, Event
<1>3. sess_entity[p] \in {"none", "live"}
  BY DEF SessionsFollow, TypeOK, Life
<1>4. conn[p] = "mapped" => sess_entity[p] = "none" /\ \A i \in DOMAIN events : events[i].peer # p
  BY DEF SessionsFollow, EventsInOrder
<1>5. \A i \in DOMAIN events : events[i].ev = "Disconnected" => events[i].peer # p
  BY DEF EventsInOrder
<1>6. \A i \in DOMAIN events : conn'[events[i].peer] \notin {"none", "mapped"}
  BY <1>2 DEF EventsInOrder
<1>7. \A i \in DOMAIN events' : ~(k < i)
  BY <1>1
<1> HIDE DEF k
<1>8. EventsInOrder'
  <2>1. SUFFICES ASSUME NEW i \in DOMAIN events'
                 PROVE  LET x == events'[i]
                        IN /\ conn'[x.peer] \notin {"none", "mapped"}
                           /\ sess_entity'[x.peer] \in {"none", "live"}
                           /\ x.ev = "Connected" =>
                                /\ sess_entity'[x.peer] = "none"
                                /\ \A j \in DOMAIN events' : j < i => events'[j].peer # x.peer
                           /\ x.ev = "Disconnected" =>
                                /\ conn'[x.peer] = "done"
                                /\ \A j \in DOMAIN events' : j > i => events'[j].peer # x.peer
    BY DEF EventsInOrder
  <2>2. CASE i = k
    <3>1. \A j \in DOMAIN events' : j < k => j # k
      BY <1>1, <1>7
    <3>2. \A j \in DOMAIN events' : j < k => j \in DOMAIN events /\ events'[j] = events[j]
      BY <1>1, <3>1
    <3>3. QED
      BY <1>1, <1>3, <1>4, <1>7, <2>2, <3>2
  <2>3. CASE i # k
    <3>1. i \in DOMAIN events /\ events'[i] = events[i] /\ i < k
      BY <1>1, <2>1, <2>3
    <3>2. events[i].ev = "Connected" =>
            /\ sess_entity[events[i].peer] = "none"
            /\ \A j \in DOMAIN events' : j < i => events'[j].peer # events[i].peer
      <4>1. \A j \in DOMAIN events' : j < i => j \in DOMAIN events
        <5>1. \A j \in DOMAIN events' : j < i => j # k
          BY <1>7, <2>1
        <5>2. QED
          BY <1>1, <5>1
      <4>2. QED
        BY <1>1, <3>1, <4>1 DEF EventsInOrder
    <3>3. events[i].ev = "Disconnected" =>
            /\ conn'[events[i].peer] = "done"
            /\ \A j \in DOMAIN events' : j > i => events'[j].peer # events[i].peer
      BY <1>1, <1>2, <1>5, <3>1 DEF EventsInOrder
    <3>4. QED
      BY <1>6, <3>1, <3>2, <3>3 DEF EventsInOrder
  <2>4. QED
    BY <2>2, <2>3
<1>9. SessionsFollow'
  <2>1. SUFFICES ASSUME NEW q \in Peer
                 PROVE  /\ sess_entity[q] = "none" =>
                             \/ conn'[q] \in {"none", "mapped"}
                             \/ \E i \in DOMAIN events' :
                                  events'[i].ev = "Connected" /\ events'[i].peer = q
                        /\ sess_entity[q] # "none" => conn'[q] \notin {"none", "mapped"}
                        /\ sess_entity[q] \in {"condemned", "dead"} => conn'[q] = "done"
    BY DEF SessionsFollow
  <2>2. CASE q # p
    BY <1>1, <2>2 DEF SessionsFollow
  <2>3. CASE q = p
    <3>1. CASE conn[p] = "mapped"
      BY <1>1, <1>4, <2>3, <3>1
    <3>2. CASE conn[p] # "mapped"
      BY <1>1, <1>3, <2>3, <3>2 DEF SessionsFollow
    <3>3. QED
      BY <3>1, <3>2
  <2>4. QED
    BY <2>2, <2>3
<1>10. QED
  BY <1>8, <1>9

\* The head of the queue is handled, and the session that it begins or ends follows it.
LEMMA HandledStep ==
  ASSUME TypeOK, ConnInv, SessInv, events # <<>>, events' = Tail(events),
         UNCHANGED <<conn, peer_map>>,
         LET e == Head(events)
         IN /\ e.ev = "Connected" => sess_entity' = [sess_entity EXCEPT ![e.peer] = "live"]
            /\ e.ev = "Disconnected" =>
                 sess_entity' = [sess_entity EXCEPT ![e.peer] = "condemned"]
            /\ e.ev = "DataReceived" => sess_entity' = sess_entity
  PROVE  ConnInv'
<1> DEFINE e == Head(events)
           Q == events'
<1>1. /\ e = events[1] /\ 1 \in DOMAIN events /\ e \in Event /\ e.peer \in Peer
      /\ \A i \in DOMAIN Q : i \in Nat /\ i + 1 > 1 /\ i + 1 \in DOMAIN events
                             /\ Q[i] = events[i + 1]
      /\ \A i \in DOMAIN events : i # 1 => /\ i \in Nat /\ i > 1 /\ i - 1 \in DOMAIN Q
                                           /\ Q[i - 1] = events[i]
  BY TailIndex DEF TypeOK, Event
<1>2. e.ev \in {"Connected", "Disconnected", "DataReceived"}
  BY <1>1 DEF Event
<1>3. \A i \in DOMAIN Q : Q[i].peer \in Peer
  BY <1>1 DEF TypeOK, Event
<1> HIDE DEF Q, e
<1>4. \A q \in Peer : q # e.peer => sess_entity'[q] = sess_entity[q]
  BY <1>2 DEF e, TypeOK
<1>5. e.ev = "Connected" => sess_entity[e.peer] = "none" /\ sess_entity'[e.peer] = "live"
  BY <1>1, HeadFits DEF e, TypeOK
<1>6. e.ev # "Connected" => sess_entity[e.peer] = "live"
  BY HeadFits DEF e
<1>7. e.ev = "Disconnected" =>
        /\ sess_entity'[e.peer] = "condemned" /\ conn[e.peer] = "done"
        /\ \A i \in DOMAIN Q : Q[i].peer # e.peer
  BY <1>1 DEF e, TypeOK, ConnInv, EventsInOrder
<1>8. e.ev = "DataReceived" => sess_entity'[e.peer] = sess_entity[e.peer]
  BY DEF e
<1>9. EventsInOrder'
  <2>1. SUFFICES ASSUME NEW i \in DOMAIN Q
                 PROVE  LET x == Q[i]
                        IN /\ conn[x.peer] \notin {"none", "mapped"}
                           /\ sess_entity'[x.peer] \in {"none", "live"}
                           /\ x.ev = "Connected" =>
                                /\ sess_entity'[x.peer] = "none"
                                /\ \A j \in DOMAIN Q : j < i => Q[j].peer # x.peer
                           /\ x.ev = "Disconnected" =>
                                /\ conn[x.peer] = "done"
                                /\ \A j \in DOMAIN Q : j > i => Q[j].peer # x.peer
    BY DEF EventsInOrder, Q
  <2>2. /\ i + 1 \in DOMAIN events /\ i + 1 > 1 /\ Q[i] = events[i + 1]
        /\ \A j \in DOMAIN Q : j + 1 \in DOMAIN events /\ Q[j] = events[j + 1]
        /\ \A j \in DOMAIN Q : (j < i => j + 1 < i + 1) /\ (j > i => j + 1 > i + 1)
    BY <1>1
  <2>3. Q[i].ev = "Connected" => Q[i].peer # e.peer
    BY <1>1, <2>2 DEF ConnInv, EventsInOrder
  <2>4. sess_entity'[Q[i].peer] \in {"none", "live"}
    BY <1>2, <1>3, <1>4, <1>5, <1>6, <1>7, <1>8, <2>2 DEF ConnInv, EventsInOrder
  <2>5. Q[i].ev = "Connected" => sess_entity'[Q[i].peer] = "none"
    BY <1>3, <1>4, <2>2, <2>3 DEF ConnInv, EventsInOrder
  <2>6. QED
    BY <2>2, <2>4, <2>5 DEF ConnInv, EventsInOrder
<1>10. SessionsFollow'
  <2>1. SUFFICES ASSUME NEW q \in Peer
                 PROVE  /\ sess_entity'[q] = "none" =>
                             \/ conn[q] \in {"none", "mapped"}
                             \/ \E i \in DOMAIN Q : Q[i].ev = "Connected" /\ Q[i].peer = q
                        /\ sess_entity'[q] # "none" => conn[q] \notin {"none", "mapped"}
                        /\ sess_entity'[q] \in {"condemned", "dead"} => conn[q] = "done"
    BY DEF SessionsFollow, Q
  <2>2. CASE q = e.peer
    <3>1. conn[q] \notin {"none", "mapped"}
      BY <1>1, <2>2 DEF ConnInv, EventsInOrder
    <3>2. QED
      BY <1>2, <1>5, <1>6, <1>7, <1>8, <2>2, <3>1
  <2>3. CASE q # e.peer
    <3>1. ASSUME NEW i \in DOMAIN events, events[i].ev = "Connected", events[i].peer = q
          PROVE  \E j \in DOMAIN Q : Q[j].ev = "Connected" /\ Q[j].peer = q
      BY <1>1, <2>3, <3>1
    <3>2. QED
      BY <1>4, <2>3, <3>1 DEF ConnInv, SessionsFollow
  <2>4. QED
    BY <2>2, <2>3
<1>11. MapExact'
  BY DEF ConnInv, MapExact
<1>12. QED
  BY <1>9, <1>10, <1>11 DEF ConnInv

LEMMA ConnInvStep ==
  ASSUME TypeOK, IInv, [Next]_vars
  PROVE  ConnInv'
<1> USE DEF IInv
<1>1. CASE UNCHANGED <<conn, peer_map, events, sess_entity>>
  BY <1>1 DEF ConnInv, MapExact, EventsInOrder, SessionsFollow
<1>2. ASSUME NEW p \in Peer, Accept(p) PROVE ConnInv'
  <2>1. /\ conn[p] = "none" /\ conn' = [conn EXCEPT ![p] = "mapped"]
        /\ peer_map' = peer_map \cup {p} /\ UNCHANGED <<events, sess_entity>>
    BY <1>2 DEF Accept, Transport, mp
  <2>2. MapExact'
    BY <2>1 DEF ConnInv, MapExact, TypeOK
  <2>3. \A i \in DOMAIN events : events[i].peer # p
    BY <2>1 DEF ConnInv, EventsInOrder
  <2>4. sess_entity[p] = "none"
    BY <2>1 DEF ConnInv, SessionsFollow
  <2>5. \A q \in Peer : q # p => conn'[q] = conn[q]
    BY <2>1 DEF TypeOK
  <2>6. EventsInOrder'
    <3>1. \A i \in DOMAIN events : conn'[events[i].peer] = conn[events[i].peer]
      BY <2>3, <2>5 DEF TypeOK, Event
    <3>2. QED
      BY <2>1, <3>1 DEF ConnInv, EventsInOrder
  <2>7. SessionsFollow'
    BY <2>1, <2>4, <2>5 DEF ConnInv, SessionsFollow, TypeOK
  <2>8. QED
    BY <2>2, <2>6, <2>7 DEF ConnInv
<1>3. ASSUME NEW p \in Peer, Open(p) PROVE ConnInv'
  <2>1. /\ conn[p] = "mapped" /\ conn' = [conn EXCEPT ![p] = "open"] /\ Send(Connected(p))
        /\ UNCHANGED <<peer_map, sess_entity>>
    BY <1>3 DEF Open, Transport, mp
  <2>2. /\ Connected(p) \in Event /\ Connected(p).peer = p /\ Connected(p).ev = "Connected"
        /\ conn'[p] = "open" /\ \A q \in Peer : q # p => conn'[q] = conn[q]
    BY <2>1, EventType DEF Connected, TypeOK
  <2>3. EventsInOrder' /\ SessionsFollow'
    BY <2>1, <2>2, SendStep
  <2>4. QED
    BY <2>1, <2>2, <2>3 DEF ConnInv, MapExact
<1>4. ASSUME NEW p \in Peer, NEW packet \in Sent, Receive(p, packet) PROVE ConnInv'
  <2>1. /\ conn[p] = "open" /\ Send(DataReceived(p, packet))
        /\ UNCHANGED <<conn, peer_map, sess_entity>>
    BY <1>4 DEF Receive, Transport, mp
  <2>2. /\ DataReceived(p, packet) \in Event /\ DataReceived(p, packet).peer = p
        /\ DataReceived(p, packet).ev = "DataReceived"
    BY EventType DEF DataReceived
  <2>3. EventsInOrder' /\ SessionsFollow'
    BY <2>1, <2>2, SendStep
  <2>4. QED
    BY <2>1, <2>3 DEF ConnInv, MapExact
<1>5. ASSUME NEW p \in Peer, Unmap(p) PROVE ConnInv'
  <2>1. /\ conn[p] = "open" /\ conn' = [conn EXCEPT ![p] = "unmapped"]
        /\ peer_map' = peer_map \ {p} /\ UNCHANGED <<events, sess_entity>>
    BY <1>5 DEF Unmap, Transport, mp
  <2>2. conn'[p] = "unmapped" /\ \A q \in Peer : q # p => conn'[q] = conn[q]
    BY <2>1 DEF TypeOK
  <2>3. EventsInOrder'
    <3>1. \A i \in DOMAIN events : events[i].peer \in Peer
      BY DEF TypeOK, Event
    <3>2. QED
      BY <2>1, <2>2, <3>1 DEF ConnInv, EventsInOrder
  <2>4. QED
    BY <2>1, <2>2, <2>3 DEF ConnInv, MapExact, SessionsFollow
<1>6. ASSUME NEW p \in Peer, Close(p) PROVE ConnInv'
  <2>1. /\ conn[p] = "unmapped" /\ conn' = [conn EXCEPT ![p] = "done"]
        /\ Send(Disconnected(p)) /\ UNCHANGED <<peer_map, sess_entity>>
    BY <1>6 DEF Close, Transport, mp
  <2>2. /\ Disconnected(p) \in Event /\ Disconnected(p).peer = p
        /\ Disconnected(p).ev = "Disconnected"
        /\ conn'[p] = "done" /\ \A q \in Peer : q # p => conn'[q] = conn[q]
    BY <2>1, EventType DEF Disconnected, TypeOK
  <2>3. EventsInOrder' /\ SessionsFollow'
    BY <2>1, <2>2, SendStep
  <2>4. QED
    BY <2>1, <2>2, <2>3 DEF ConnInv, MapExact
<1>7. ASSUME NEW p \in Peer, HandleConnected(p) PROVE ConnInv'
  BY <1>7, HandledStep DEF HandleConnected, Handle
<1>8. ASSUME NEW p \in Peer, HandleDisconnected(p) PROVE ConnInv'
  BY <1>8, HandledStep DEF HandleDisconnected, Handle
<1>9. ASSUME NEW p \in Peer, DropData(p) \/ HandleLogin(p) \/ HandlePlay(p) PROVE ConnInv'
  <2>1. Handle(p, "DataReceived")
    BY <1>9 DEF DropData, HandleLogin, HandlePlay
  <2>2. UNCHANGED sess_entity
    BY <1>9 DEF DropData, HandleLogin, HandlePlay, Kick, mp
  <2>3. QED
    BY <2>1, <2>2, HandledStep DEF Handle
<1>10. CASE FlushEnd
  <2>1. UNCHANGED <<conn, peer_map, events>>
    BY <1>10 DEF FlushEnd, transport
  <2>2. sess_entity' = [p \in Peer |-> IF sess_entity[p] = "condemned" THEN "dead"
                                                                     ELSE sess_entity[p]]
    BY <1>10 DEF FlushEnd
  <2>3. \A i \in DOMAIN events : events[i].peer \in Peer
    BY DEF TypeOK, Event
  <2>4. QED
    BY <2>1, <2>2, <2>3 DEF ConnInv, MapExact, EventsInOrder, SessionsFollow
<1>11. ASSUME NEW p \in Peer, HandleJoin(p) \/ HandleQuit(p) PROVE ConnInv'
  BY <1>1, <1>11 DEF HandleJoin, HandleQuit, transport
<1>12. CASE ProcessEnd \/ JoinsEnd \/ QuitsEnd \/ \E n \in Node : Unregister(n)
  BY <1>1, <1>12 DEF ProcessEnd, JoinsEnd, QuitsEnd, Unregister, transport, mp
<1>13. CASE UNCHANGED vars
  BY <1>1, <1>13 DEF vars, transport, mp
<1>14. QED
  BY <1>2, <1>3, <1>4, <1>5, <1>6, <1>7, <1>8, <1>9, <1>10, <1>11, <1>12, <1>13
  DEF Next, MainStep, TransportStep
----------------------------------------------------------------------------
(* The sessions, the group and the players *)

SessFrame ==
  /\ UNCHANGED <<sessions, state, sess_entity, on_join, on_quit>>
  /\ UNCHANGED <<group_nodes, group_peers, player, connected>>

LEMMA SessKept ==
  ASSUME SessInv, SessFrame, PhasesInOrder'
  PROVE  SessInv'
<1> USE DEF SessFrame, SessInv
<1>1. SessionsExact'
  BY DEF SessionsExact
<1>2. JoinsExact'
  BY DEF JoinsExact
<1>3. QuitsExact'
  BY DEF QuitsExact
<1>4. MembersExact'
  BY DEF MembersExact
<1>5. FollowsPlayers'
  BY DEF FollowsPlayers
<1>6. QED
  BY <1>1, <1>2, <1>3, <1>4, <1>5

LEMMA SessConnected ==
  ASSUME TypeOK, IInv, NEW p \in Peer, HandleConnected(p)
  PROVE  SessInv'
<1> USE DEF IInv, SessInv
<1>1. /\ sessions' = sessions \cup {p} /\ sess_entity' = [sess_entity EXCEPT ![p] = "live"]
      /\ UNCHANGED <<state, on_join, on_quit, group_nodes, group_peers, player, connected, phase>>
  BY DEF HandleConnected, Handle, group, world
<1>2. sess_entity[p] = "none"
  BY HeadFits DEF HandleConnected, Handle
<1>3. state[p] = "Login"
  BY <1>2 DEF SessionsExact, TypeOK
<1>4. SessionsExact'
  BY <1>1, <1>3 DEF SessionsExact, TypeOK
<1>5. MembersExact'
  BY <1>1, <1>3 DEF MembersExact
<1>6. QuitsExact'
  <2>1. \A i \in DOMAIN on_quit : on_quit[i] \in Peer
    BY DEF TypeOK
  <2>2. QED
    BY <1>1, <1>2, <2>1 DEF QuitsExact, TypeOK
<1>7. JoinsExact' /\ PhasesInOrder' /\ FollowsPlayers'
  BY <1>1 DEF JoinsExact, PhasesInOrder, FollowsPlayers
<1>8. QED
  BY <1>4, <1>5, <1>6, <1>7

LEMMA SessDisconnected ==
  ASSUME TypeOK, IInv, NEW p \in Peer, HandleDisconnected(p)
  PROVE  SessInv'
<1> USE DEF IInv, SessInv
<1>1. /\ sessions' = sessions \ {p} /\ sess_entity' = [sess_entity EXCEPT ![p] = "condemned"]
      /\ UNCHANGED <<state, on_join, group_nodes, player, phase>>
  BY DEF HandleDisconnected, Handle
<1>2. p \in sessions
  BY HeadFits DEF HandleDisconnected, Handle
<1>3. SessionsExact'
  BY <1>1 DEF SessionsExact, TypeOK
<1>4. CASE state[p] = "Login"
  <2>1. UNCHANGED <<connected, group_peers, on_quit>>
    BY <1>4 DEF HandleDisconnected
  <2>2. MembersExact'
    BY <1>1, <1>4, <2>1 DEF MembersExact
  <2>3. QED
    BY <1>1, <1>3, <2>1, <2>2 DEF JoinsExact, QuitsExact, PhasesInOrder, FollowsPlayers
<1>5. CASE state[p] = "Play"
  <2>1. /\ connected' = connected \ {p} /\ group_peers' = group_peers \ {p}
        /\ on_quit' = Append(on_quit, p)
    BY <1>5 DEF HandleDisconnected, FireQuit, remove_peer
  <2>2. MembersExact'
    BY <1>1, <2>1 DEF MembersExact
  <2>3. player[p] \in {"live", "condemned"} \/ \E j \in DOMAIN on_join : on_join[j] = p
    BY <1>2, <1>5 DEF SessionsExact, JoinsExact
  <2>4. QuitsExact'
    <3>1. SUFFICES ASSUME NEW i \in DOMAIN on_quit'
                   PROVE  /\ sess_entity'[on_quit'[i]] \in {"condemned", "dead"}
                          /\ \/ player[on_quit'[i]] \in {"live", "condemned"}
                             \/ \E j \in DOMAIN on_join : on_join[j] = on_quit'[i]
      BY <1>1 DEF QuitsExact
    <3>2. on_quit'[i] = p \/ (i \in DOMAIN on_quit /\ on_quit'[i] = on_quit[i])
      <4>1. on_quit \in Seq(Peer)
        BY DEF TypeOK
      <4>2. QED
        BY <2>1, <4>1, AppendIndex
    <3>3. CASE on_quit'[i] = p
      BY <1>1, <2>3, <3>3 DEF TypeOK
    <3>4. CASE i \in DOMAIN on_quit /\ on_quit'[i] = on_quit[i]
      <4>1. on_quit[i] \in Peer
        BY <3>4 DEF TypeOK
      <4>2. QED
        BY <1>1, <3>4, <4>1 DEF QuitsExact, TypeOK
    <3>5. QED
      BY <3>2, <3>3, <3>4
  <2>5. PhasesInOrder'
    BY <1>1, <2>1 DEF PhasesInOrder, HandleDisconnected, Handle
  <2>6. QED
    BY <1>1, <1>3, <2>2, <2>4, <2>5 DEF JoinsExact, FollowsPlayers
<1>6. QED
  BY <1>4, <1>5 DEF HandleDisconnected

LEMMA SessLogin ==
  ASSUME TypeOK, IInv, NEW p \in Peer, HandleLogin(p)
  PROVE  SessInv'
<1> USE DEF IInv, SessInv
<1>1. p \in sessions /\ state[p] = "Login" /\ player[p] = "none"
  BY HeadFits DEF HandleLogin, Handle, SessionsExact
<1>2. CASE Kick(p)
  <2>1. SessFrame /\ PhasesInOrder'
    BY <1>2 DEF HandleLogin, Handle, Kick, mp, group, world, SessFrame, PhasesInOrder
  <2>2. QED
    BY <2>1, SessKept
<1>3. CASE /\ connected' = connected \cup {p}
           /\ on_join' = FireJoin(p)
           /\ add_peer(p)
           /\ state' = [state EXCEPT ![p] = "Play"]
           /\ UNCHANGED <<kicked, sessions, sess_entity, on_quit, player, pos>>
  <2>1. /\ on_join' = Append(on_join, p) /\ group_peers' = group_peers \cup {p}
        /\ UNCHANGED <<group_nodes, phase>> /\ phase = "process"
    BY <1>3 DEF FireJoin, add_peer, HandleLogin, Handle
  <2>2. SessionsExact'
    BY <1>1, <1>3 DEF SessionsExact, TypeOK
  <2>3. MembersExact'
    BY <1>1, <1>3, <2>1 DEF MembersExact, TypeOK
  <2>4. /\ \A i \in DOMAIN on_join : i \in DOMAIN on_join' /\ on_join'[i] = on_join[i]
                                     /\ on_join[i] \in Peer
        /\ \E k \in DOMAIN on_join' :
             on_join'[k] = p /\ \A i \in DOMAIN on_join' : i = k \/ i \in DOMAIN on_join
    <3>1. on_join \in Seq(Peer)
      BY DEF TypeOK
    <3>2. QED
      BY <2>1, <3>1, AppendIndex
  <2>5. \A i \in DOMAIN on_join : on_join[i] # p
    BY <1>1 DEF JoinsExact
  <2>6. JoinsExact'
    <3>1. /\ state'[p] = "Play"
          /\ \A q \in Peer : q # p => state'[q] = state[q]
      BY <1>3 DEF TypeOK
    <3>2. \A q \in Peer : state'[q] = "Play" /\ player'[q] = "none" =>
            \E i \in DOMAIN on_join' : on_join'[i] = q
      BY <1>3, <2>4, <3>1 DEF JoinsExact
    <3>3. ASSUME NEW i \in DOMAIN on_join'
          PROVE  /\ player'[on_join'[i]] = "none" /\ state'[on_join'[i]] = "Play"
                 /\ \A j \in DOMAIN on_join' : on_join'[j] = on_join'[i] => j = i
      BY <1>1, <1>3, <2>4, <2>5, <3>1, <3>3 DEF JoinsExact
    <3>4. QED
      BY <3>2, <3>3 DEF JoinsExact
  <2>7. QuitsExact'
    BY <1>3, <2>4 DEF QuitsExact
  <2>8. QED
    BY <1>3, <2>1, <2>2, <2>3, <2>6, <2>7 DEF PhasesInOrder, FollowsPlayers
<1>4. QED
  BY <1>2, <1>3 DEF HandleLogin

LEMMA SessJoin ==
  ASSUME TypeOK, IInv, NEW p \in Peer, HandleJoin(p)
  PROVE  SessInv'
<1> USE DEF IInv, SessInv
<1>1. CASE sess_entity[p] # "live"
  <2>1. SessFrame /\ PhasesInOrder'
    BY <1>1, JoinFrame DEF SessFrame, PhasesInOrder
  <2>2. QED
    BY <2>1, SessKept
<1>2. CASE sess_entity[p] = "live"
  <2> DEFINE Q == Tail(on_join)
  <2>1. /\ on_join' = Q /\ player' = [player EXCEPT ![p] = "live"]
        /\ group_nodes' = group_nodes \cup {rpc(p), rpc_puppet(p)}
        /\ group_peers' = group_peers \cap connected
    BY <1>2, JoinEffect
  <2>2. /\ on_join # <<>> /\ p = Head(on_join)
        /\ UNCHANGED <<sessions, state, sess_entity, on_quit, phase, connected>>
    BY JoinFrame
  <2>3. /\ p = on_join[1] /\ 1 \in DOMAIN on_join
        /\ \A i \in DOMAIN Q : i \in Nat /\ i + 1 > 1 /\ i + 1 \in DOMAIN on_join
                               /\ Q[i] = on_join[i + 1]
        /\ \A i \in DOMAIN on_join : i # 1 => /\ i \in Nat /\ i > 1 /\ i - 1 \in DOMAIN Q
                                              /\ Q[i - 1] = on_join[i]
    BY <2>2, TailIndex DEF TypeOK
  <2> HIDE DEF Q
  <2>4. player[p] = "none" /\ state[p] = "Play"
    BY <2>3 DEF JoinsExact
  <2>5. \A q \in Peer : player'[q] = IF q = p THEN "live" ELSE player[q]
    BY <2>1 DEF TypeOK
  <2>6. SessionsExact'
    BY <2>2, <2>4, <2>5 DEF SessionsExact
  <2>7. JoinsExact'
    <3>1. \A i \in DOMAIN Q : Q[i] # p /\ Q[i] \in Peer /\ i + 1 # 1
      BY <2>3 DEF JoinsExact, TypeOK
    <3>2. \A i, j \in DOMAIN Q : i + 1 = j + 1 => i = j
      BY <2>3
    <3>3. \A i \in DOMAIN Q :
            /\ player'[Q[i]] = "none" /\ state'[Q[i]] = "Play"
            /\ \A j \in DOMAIN Q : Q[j] = Q[i] => j = i
      BY <2>2, <2>3, <2>5, <3>1, <3>2 DEF JoinsExact
    <3>4. \A q \in Peer : state[q] = "Play" /\ player'[q] = "none" =>
            \E i \in DOMAIN Q : Q[i] = q
      BY <2>3, <2>5 DEF JoinsExact
    <3>5. QED
      BY <2>1, <2>2, <3>3, <3>4 DEF JoinsExact
  <2>8. QuitsExact'
    <3>1. \A i \in DOMAIN on_quit : on_quit[i] \in Peer
      BY DEF TypeOK
    <3>2. \A i \in DOMAIN on_join : on_join[i] = p \/ \E j \in DOMAIN Q : Q[j] = on_join[i]
      BY <2>3
    <3>3. QED
      BY <2>1, <2>2, <2>5, <3>1, <3>2 DEF QuitsExact
  <2>9. FollowsPlayers'
    <3>1. \A n \in Node : n = rpc(p) \/ n = rpc_puppet(p) <=> n[1] # "owner" /\ n[2] = p
      BY NodeType DEF rpc, rpc_puppet
    <3>2. rpc(p) \in Node /\ rpc_puppet(p) \in Node
      BY NodeType
    <3>3. group_nodes' = {n \in Node : n[1] # "owner" /\ player'[n[2]] \in {"live", "condemned"}}
      BY <2>1, <2>5, <3>1, <3>2, NodeType DEF FollowsPlayers
    <3>4. QED
      BY <3>3 DEF FollowsPlayers
  <2>10. QED
    BY <2>1, <2>2, <2>6, <2>7, <2>8, <2>9, JoinFrame DEF PhasesInOrder, MembersExact
<1>3. QED
  BY <1>1, <1>2

LEMMA SessQuit ==
  ASSUME TypeOK, IInv, NEW p \in Peer, HandleQuit(p)
  PROVE  SessInv'
<1> USE DEF IInv, SessInv
<1> DEFINE Q == Tail(on_quit)
<1>1. /\ on_quit # <<>> /\ p = Head(on_quit) /\ on_quit' = Q /\ phase = "quits"
      /\ player' = [player EXCEPT ![p] = "condemned"]
      /\ UNCHANGED <<sessions, state, sess_entity, on_join, group_nodes, group_peers, connected,
                     phase>>
  BY DEF HandleQuit, group
<1>2. /\ p = on_quit[1] /\ 1 \in DOMAIN on_quit
      /\ \A i \in DOMAIN Q : i + 1 \in DOMAIN on_quit /\ Q[i] = on_quit[i + 1]
      /\ \A i \in DOMAIN on_quit : on_quit[i] \in Peer
  BY <1>1, TailIndex DEF TypeOK
<1> HIDE DEF Q
<1>3. on_join = <<>>
  BY <1>1 DEF PhasesInOrder
<1>4. player[p] \in {"live", "condemned"} /\ sess_entity[p] \in {"condemned", "dead"}
  BY <1>2, <1>3 DEF QuitsExact
<1>5. \A q \in Peer : player'[q] = IF q = p THEN "condemned" ELSE player[q]
  BY <1>1 DEF TypeOK
<1>6. SessionsExact'
  BY <1>1, <1>4, <1>5 DEF SessionsExact
<1>7. JoinsExact'
  BY <1>1, <1>3, <1>5 DEF JoinsExact
<1>8. QuitsExact'
  BY <1>1, <1>2, <1>3, <1>5 DEF QuitsExact
<1>9. FollowsPlayers'
  BY <1>1, <1>4, <1>5, NodeType DEF FollowsPlayers
<1>10. QED
  BY <1>1, <1>3, <1>6, <1>7, <1>8, <1>9 DEF PhasesInOrder, MembersExact

LEMMA SessFlush ==
  ASSUME TypeOK, IInv, FlushEnd
  PROVE  SessInv'
<1> USE DEF IInv, SessInv
<1>1. /\ phase = "flush" /\ phase' = "process"
      /\ group_nodes' = {n \in group_nodes : player[n[2]] # "condemned"}
      /\ group_peers' = IF \E n \in group_nodes : player[n[2]] = "condemned"
                        THEN group_peers \cap connected ELSE group_peers
      /\ UNCHANGED <<sessions, state, on_join, on_quit, connected>>
  BY DEF FlushEnd, DropFollowers
<1>2. /\ \A p \in Peer : player'[p] = IF player[p] = "condemned" THEN "dead" ELSE player[p]
      /\ \A p \in Peer : sess_entity'[p] = IF sess_entity[p] = "condemned" THEN "dead"
                                                                         ELSE sess_entity[p]
  BY DEF FlushEnd
<1>3. on_join = <<>> /\ on_quit = <<>>
  BY <1>1 DEF PhasesInOrder
<1>4. SessionsExact'
  BY <1>1, <1>2 DEF SessionsExact
<1>5. JoinsExact'
  BY <1>1, <1>2, <1>3 DEF JoinsExact
<1>6. MembersExact'
  BY <1>1 DEF MembersExact
<1>7. FollowsPlayers'
  BY <1>1, <1>2, NodeType DEF FollowsPlayers
<1>8. QED
  BY <1>1, <1>3, <1>4, <1>5, <1>6, <1>7 DEF QuitsExact, PhasesInOrder

LEMMA SessInvStep ==
  ASSUME TypeOK, IInv, [Next]_vars
  PROVE  SessInv'
<1>1. ASSUME NEW p \in Peer, TransportStep(p) PROVE SessFrame /\ phase' = phase
  BY <1>1 DEF TransportStep, Accept, Open, Receive, Unmap, Close, Transport, mp, group, world,
              SessFrame
<1>2. ASSUME NEW p \in Peer, DropData(p) \/ HandlePlay(p) PROVE SessFrame /\ phase' = phase
  BY <1>2 DEF DropData, HandlePlay, Handle, Kick, mp, group, world, SessFrame
<1>3. ASSUME NEW n \in Node, Unregister(n) PROVE SessFrame /\ phase' = phase
  BY <1>3 DEF Unregister, mp, group, SessFrame
<1>4. CASE ProcessEnd \/ JoinsEnd \/ QuitsEnd
  <2>1. SessFrame
    BY <1>4 DEF ProcessEnd, JoinsEnd, QuitsEnd, mp, group, world, SessFrame
  <2>2. PhasesInOrder'
    BY <1>4, <2>1 DEF ProcessEnd, JoinsEnd, QuitsEnd, PhasesInOrder, SessFrame, IInv, SessInv
  <2>3. QED
    BY <2>1, <2>2, SessKept DEF IInv
<1>5. CASE SessFrame /\ phase' = phase
  <2>1. PhasesInOrder'
    BY <1>5 DEF PhasesInOrder, SessFrame, IInv, SessInv
  <2>2. QED
    BY <1>5, <2>1, SessKept DEF IInv
<1>6. CASE UNCHANGED vars
  BY <1>5, <1>6 DEF vars, mp, group, world, SessFrame
<1>7. QED
  BY <1>1, <1>2, <1>3, <1>4, <1>5, <1>6, SessConnected, SessDisconnected, SessLogin, SessJoin,
     SessQuit, SessFlush
  DEF Next, MainStep
----------------------------------------------------------------------------
(* Who sees whom *)

\* The nodes of two players are different, and so are the three nodes of one.
LEMMA NodesDiffer ==
  \A p, q \in Peer :
    /\ rpc(p) # rpc_puppet(q) /\ rpc(p) # rpc_owner(q) /\ rpc_puppet(p) # rpc_owner(q)
    /\ p # q => rpc(p) # rpc(q) /\ rpc_puppet(p) # rpc_puppet(q) /\ rpc_owner(p) # rpc_owner(q)
BY DEF rpc, rpc_owner, rpc_puppet

LEMMA NodeParts ==
  \A p : /\ rpc(p)[1] = "rpc" /\ rpc_owner(p)[1] = "owner" /\ rpc_puppet(p)[1] = "puppet"
         /\ rpc(p)[2] = p /\ rpc_owner(p)[2] = p /\ rpc_puppet(p)[2] = p
BY DEF rpc, rpc_owner, rpc_puppet

LEMMA SeenLogin ==
  ASSUME TypeOK, IInv, NEW p \in Peer, HandleLogin(p)
  PROVE  SeenInv'
<1> USE DEF IInv, SessInv, SeenInv
<1>1. player[p] = "none"
  BY DEF HandleLogin, SessionsExact
<1>2. CASE Kick(p)
  BY <1>2 DEF HandleLogin, Handle, Kick, group, world, OwnerAlone, EveryoneSeesEveryone
<1>3. CASE add_peer(p) /\ UNCHANGED player
  <2>1. /\ group_peers' = group_peers \cup {p}
        /\ \A n \in Node : shown'[n] = IF n \in Followed(p) THEN shown[n] \cup {p} ELSE shown[n]
    BY <1>3 DEF add_peer
  <2>2. \A q \in Peer : rpc_owner(q) \notin Followed(p)
    BY NodeParts DEF Followed, FollowsPlayers
  <2>3. OwnerAlone'
    BY <2>1, <2>2, NodeType DEF OwnerAlone
  <2>4. SUFFICES ASSUME NEW q \in Peer, player'[q] = "live"
                 PROVE  /\ shown'[rpc(q)] = group_peers'
                        /\ shown'[rpc_puppet(q)] = group_peers' \ {q}
                        /\ shown'[rpc_owner(q)] = group_peers' \cap {q}
    BY <2>3 DEF EveryoneSeesEveryone
  <2>5. player[q] = "live" /\ q # p
    BY <1>1, <1>3, <2>4
  <2>6. rpc(q) \in Followed(p) /\ rpc_puppet(q) \in Followed(p)
    <3>1. rpc(q) \in group_nodes /\ rpc_puppet(q) \in group_nodes
      BY <2>5, NodeType, NodeParts DEF FollowsPlayers
    <3>2. QED
      BY <2>5, <3>1, NodesDiffer DEF Followed
  <2>7. QED
    BY <2>1, <2>2, <2>5, <2>6, NodeType DEF EveryoneSeesEveryone
<1>4. QED
  BY <1>2, <1>3 DEF HandleLogin

LEMMA SeenJoin ==
  ASSUME TypeOK, IInv, NEW p \in Peer, HandleJoin(p)
  PROVE  SeenInv'
<1> USE DEF IInv, SessInv, SeenInv
<1>1. CASE sess_entity[p] # "live"
  BY <1>1, JoinFrame DEF OwnerAlone, EveryoneSeesEveryone
<1>2. CASE sess_entity[p] = "live"
  <2>1. group_peers \cap connected = group_peers /\ {p} \cap connected = group_peers \cap {p}
    BY DEF MembersExact
  <2> DEFINE others == group_peers \ {p}
             owner == group_peers \cap {p}
  <2>2. /\ player' = [player EXCEPT ![p] = "live"] /\ group_peers' = group_peers
        /\ shown' = [shown EXCEPT ![rpc(p)] = group_peers, ![rpc_puppet(p)] = others,
                                  ![rpc_owner(p)] = owner]
    BY <1>2, <2>1, JoinEffect
  <2> HIDE DEF others, owner
  <2>3. /\ shown'[rpc(p)] = group_peers /\ shown'[rpc_puppet(p)] = others
        /\ shown'[rpc_owner(p)] = owner
    BY <2>2, NodeType, NodesDiffer DEF TypeOK
  <2>4. \A q \in Peer : q # p => /\ shown'[rpc(q)] = shown[rpc(q)]
                                 /\ shown'[rpc_puppet(q)] = shown[rpc_puppet(q)]
                                 /\ shown'[rpc_owner(q)] = shown[rpc_owner(q)]
    BY <2>2, NodeType, NodesDiffer DEF TypeOK
  <2>5. \A q \in Peer : q # p => player'[q] = player[q]
    BY <2>2 DEF TypeOK
  <2>6. OwnerAlone'
    BY <2>3, <2>4 DEF OwnerAlone, owner
  <2>7. EveryoneSeesEveryone'
    BY <2>2, <2>3, <2>4, <2>5 DEF EveryoneSeesEveryone, owner, others
  <2>8. QED
    BY <2>6, <2>7
<1>3. QED
  BY <1>1, <1>2

LEMMA SeenInvStep ==
  ASSUME TypeOK, IInv, [Next]_vars
  PROVE  SeenInv'
<1> USE DEF IInv, SessInv, SeenInv
<1>1. CASE UNCHANGED <<shown, player, group_peers>>
  BY <1>1 DEF OwnerAlone, EveryoneSeesEveryone
<1>2. ASSUME NEW p \in Peer, HandleDisconnected(p) PROVE SeenInv'
  <2>1. CASE state[p] = "Login"
    BY <1>1, <1>2, <2>1 DEF HandleDisconnected
  <2>2. CASE state[p] = "Play"
    <3>1. /\ \A n \in Node : shown'[n] = shown[n] \ {p}
          /\ group_peers' = group_peers \ {p} /\ UNCHANGED player
      BY <1>2, <2>2 DEF HandleDisconnected, remove_peer
    <3>2. OwnerAlone'
      BY <3>1, NodeType DEF OwnerAlone
    <3>3. ASSUME NEW q \in Peer, player[q] = "live"
          PROVE  /\ shown'[rpc(q)] = group_peers'
                 /\ shown'[rpc_puppet(q)] = group_peers' \ {q}
                 /\ shown'[rpc_owner(q)] = group_peers' \cap {q}
      <4>1. /\ shown'[rpc(q)] = group_peers \ {p}
            /\ shown'[rpc_puppet(q)] = (group_peers \ {q}) \ {p}
            /\ shown'[rpc_owner(q)] = (group_peers \cap {q}) \ {p}
        BY <3>1, <3>3, NodeType DEF EveryoneSeesEveryone
      <4>2. QED
        BY <3>1, <4>1
    <3>4. QED
      BY <3>1, <3>2, <3>3 DEF EveryoneSeesEveryone
  <2>3. QED
    BY <1>2, <2>1, <2>2 DEF HandleDisconnected
<1>3. ASSUME NEW p \in Peer, HandleQuit(p) PROVE SeenInv'
  <2>1. UNCHANGED <<shown, group_peers>> /\ \A q \in Peer : player'[q] = "live" => player[q] = "live"
    BY <1>3 DEF HandleQuit, group, TypeOK
  <2>2. QED
    BY <2>1 DEF OwnerAlone, EveryoneSeesEveryone
<1>4. ASSUME NEW n \in Node, Unregister(n) PROVE SeenInv'
  <2>1. /\ player[n[2]] = "condemned" /\ UNCHANGED <<player, group_peers>>
        /\ \A m \in Node : m # n => shown'[m] = shown[m]
        /\ shown'[n] = {}
    BY <1>4 DEF Unregister, group, TypeOK
  <2>2. \A q \in Peer : player[q] = "live" => rpc(q) # n /\ rpc_puppet(q) # n /\ rpc_owner(q) # n
    BY <2>1, NodeParts
  <2>3. QED
    BY <2>1, <2>2, NodeType DEF OwnerAlone, EveryoneSeesEveryone
<1>5. CASE FlushEnd
  <2>1. /\ group_peers' = group_peers /\ UNCHANGED shown
        /\ \A q \in Peer : player'[q] = "live" => player[q] = "live"
    BY <1>5 DEF FlushEnd, MembersExact
  <2>2. QED
    BY <2>1 DEF OwnerAlone, EveryoneSeesEveryone
<1>6. ASSUME NEW p \in Peer, TransportStep(p) PROVE SeenInv'
  BY <1>1, <1>6 DEF TransportStep, Accept, Open, Receive, Unmap, Close, Transport, group, world
<1>7. ASSUME NEW p \in Peer, HandleConnected(p) \/ DropData(p) \/ HandlePlay(p) PROVE SeenInv'
  BY <1>1, <1>7 DEF HandleConnected, DropData, HandlePlay, Kick, group, world
<1>8. CASE ProcessEnd \/ JoinsEnd \/ QuitsEnd \/ UNCHANGED vars
  BY <1>1, <1>8 DEF ProcessEnd, JoinsEnd, QuitsEnd, vars, group, world
<1>9. QED
  BY <1>2, <1>3, <1>4, <1>5, <1>6, <1>7, <1>8, SeenLogin, SeenJoin DEF Next, MainStep

\* A message that is acted on came from the owner: it sets the position of the sender's own
\* player, and whoever sees the puppet is told.
LEMMA PlayStep ==
  ASSUME TypeOK, OwnerAlone, NEW p \in Peer, HandlePlay(p)
  PROVE  /\ p \notin kicked /\ events # <<>> /\ Head(events).peer = p
         /\ UNCHANGED <<state, player, group_nodes, group_peers, shown>>
         /\ \/ UNCHANGED <<pos, log>>
            \/ \E v \in Pos :
                 /\ pos' = [pos EXCEPT ![p] = v]
                 /\ log' = [w \in Peer |-> IF w \in shown[rpc_puppet(p)]
                                           THEN Append(log[w], Message(rpc_puppet(p), v))
                                           ELSE log[w]]
<1> DEFINE packet == Head(events).packet
<1>1. p \notin kicked /\ events # <<>> /\ Head(events).peer = p
  BY DEF HandlePlay, Handle, peer_alive
<1>2. CASE UNCHANGED <<mp, group, world>>
  BY <1>1, <1>2 DEF mp, group, world
<1>3. CASE /\ packet.kind = "SetPos" /\ Accepts(p, packet.node) /\ packet.node[1] = "owner"
           /\ LET q == packet.node[2]
              IN /\ pos' = [pos EXCEPT ![q] = packet.val]
                 /\ log' = [w \in Peer |->
                              IF w \in shown[rpc_puppet(q)]
                              THEN Append(log[w], Message(rpc_puppet(q), packet.val))
                              ELSE log[w]]
           /\ UNCHANGED <<kicked, mp, group, player, connected, shown>>
  <2>1. packet \in Sent
    <3>1. Head(events) \in Event /\ Head(events).ev = "DataReceived"
      BY HandleType DEF TypeOK, HandlePlay
    <3>2. QED
      BY <3>1 DEF Event
  <2>2. packet.node \in Node /\ packet.val \in Pos
    <3>1. PICK n \in Node, v \in 1..MaxPos : packet = SetPos(n, v)
      BY <1>3, <2>1 DEF Sent, Hello, Garbage
    <3>2. QED
      BY <3>1, GameServerAssumption DEF SetPos, Pos
  <2>3. packet.node[2] \in Peer /\ packet.node = rpc_owner(packet.node[2])
    BY <1>3, <2>2, NodeType DEF rpc_owner
  <2>4. packet.node[2] = p
    BY <1>3, <2>3 DEF OwnerAlone, Accepts
  <2>5. QED
    BY <1>1, <1>3, <2>2, <2>4 DEF mp, group
<1>4. QED
  BY <1>2, <1>3 DEF HandlePlay, Kick

----------------------------------------------------------------------------
(* What the watchers are told *)

LEMMA LogAppend ==
  ASSUME NEW s \in Seq(Packet), NEW news \in Seq(Packet), NEW q, NEW v
  PROVE  /\ s \o news \in Seq(Packet)
         /\ LastTold(s, q, v) /\ Silent(news, q) => LastTold(s \o news, q, v)
         /\ LastTold(news, q, v) => LastTold(s \o news, q, v)
<1> DEFINE t == s \o news
<1>1. /\ t \in Seq(Packet) /\ Len(s) \in Nat
      /\ \A i \in DOMAIN s : i \in DOMAIN t /\ t[i] = s[i] /\ i \in Nat /\ i <= Len(s)
      /\ \A i \in DOMAIN news : i + Len(s) \in DOMAIN t /\ t[i + Len(s)] = news[i]
                                /\ i \in Nat /\ i >= 1
      /\ \A j \in DOMAIN t : j \in Nat /\ \/ j \in DOMAIN s
                                          \/ j > Len(s) /\ j - Len(s) \in DOMAIN news
                                             /\ t[j] = news[j - Len(s)]
  OBVIOUS
<1> HIDE DEF t
<1>2. ASSUME LastTold(s, q, v), Silent(news, q) PROVE LastTold(t, q, v)
  <2>1. PICK i \in DOMAIN s : /\ About(s[i], q) /\ s[i].val = v
                              /\ \A j \in DOMAIN s : About(s[j], q) => j <= i
    BY <1>2 DEF LastTold
  <2>2. ASSUME NEW j \in DOMAIN t, About(t[j], q) PROVE j <= i
    BY <1>1, <1>2, <2>1, <2>2 DEF Silent
  <2>3. QED
    BY <1>1, <2>1, <2>2 DEF LastTold
<1>3. ASSUME LastTold(news, q, v) PROVE LastTold(t, q, v)
  <2>1. PICK i \in DOMAIN news : /\ About(news[i], q) /\ news[i].val = v
                                 /\ \A j \in DOMAIN news : About(news[j], q) => j <= i
    BY <1>3 DEF LastTold
  <2>2. ASSUME NEW j \in DOMAIN t, About(t[j], q) PROVE j <= i + Len(s)
    BY <1>1, <2>1, <2>2
  <2>3. QED
    BY <1>1, <2>1, <2>2 DEF LastTold
<1>4. QED
  BY <1>1, <1>2, <1>3 DEF t

\* One packet more.
LEMMA LogAppendOne ==
  ASSUME NEW s \in Seq(Packet), NEW packet \in Packet, NEW q
  PROVE  /\ ~About(packet, q) => \A v : LastTold(s, q, v) => LastTold(Append(s, packet), q, v)
         /\ About(packet, q) => LastTold(Append(s, packet), q, packet.val)
<1>1. Append(s, packet) = s \o <<packet>> /\ <<packet>> \in Seq(Packet)
  OBVIOUS
<1>2. ~About(packet, q) => Silent(<<packet>>, q)
  BY DEF Silent
<1>3. About(packet, q) => LastTold(<<packet>>, q, packet.val)
  BY DEF LastTold
<1>4. ASSUME NEW v, LastTold(s, q, v), ~About(packet, q) PROVE LastTold(s \o <<packet>>, q, v)
  BY <1>1, <1>2, <1>4, LogAppend
<1>5. ASSUME About(packet, q) PROVE LastTold(s \o <<packet>>, q, packet.val)
  BY <1>1, <1>3, <1>5, LogAppend
<1>6. QED
  BY <1>1, <1>4, <1>5

LEMMA AboutPackets ==
  ASSUME NEW q, NEW n \in Node, NEW v
  PROVE  /\ About(Create(n), q) <=> n = rpc(q)
         /\ About(Message(n, v), q) <=> n = rpc_puppet(q)
         /\ ~About(Delete(n), q)
         /\ Create(n).val = pos[n[2]] /\ Message(n, v).val = v
<1>1. About(Create(n), q) <=> n = rpc(q)
  BY DEF About, Create
<1>2. About(Message(n, v), q) <=> n = rpc_puppet(q)
  BY DEF About, Message
<1>3. ~About(Delete(n), q)
  BY DEF About, Delete
<1>4. QED
  BY <1>1, <1>2, <1>3 DEF Create, Message

LEMMA WatchLogin ==
  ASSUME TypeOK, IInv, WatchInv, NEW p \in Peer, HandleLogin(p)
  PROVE  WatchInv'
<1> USE DEF IInv, SessInv
<1>1. player[p] = "none"
  BY DEF HandleLogin, SessionsExact
<1>2. CASE Kick(p)
  BY <1>2 DEF HandleLogin, Handle, Kick, group, world, WatchInv
<1>3. CASE add_peer(p) /\ UNCHANGED <<player, pos>>
  <2>1. PICK news \in Seq(Packet) :
          /\ log' = [log EXCEPT ![p] = log[p] \o news]
          /\ \A i \in DOMAIN news : \E n \in Followed(p) : news[i] = Create(n)
          /\ \A n \in Followed(p) : \E i \in DOMAIN news : news[i] = Create(n)
          /\ \A i, j \in DOMAIN news : news[i] = news[j] => i = j
    BY <1>3, AddPeerLog
  <2>2. group_peers' = group_peers \cup {p} /\ log \in [Peer -> Seq(Packet)]
    BY <1>3 DEF add_peer, TypeOK
  <2>3. SUFFICES ASSUME NEW q \in Peer, player'[q] = "live", NEW w \in group_peers' \ {q}
                 PROVE  LastTold(log'[w], q, pos'[q])
    BY DEF WatchInv
  <2>4. player[q] = "live" /\ q # p
    BY <1>1, <1>3, <2>3
  <2>5. CASE w # p
    BY <1>3, <2>1, <2>2, <2>3, <2>4, <2>5 DEF WatchInv, TypeOK
  <2>6. CASE w = p
    <3>1. rpc(q) \in Followed(p)
      BY <2>4, NodeType, NodeParts, NodesDiffer DEF FollowsPlayers, Followed
    <3>2. PICK i \in DOMAIN news : news[i] = Create(rpc(q))
      BY <2>1, <3>1
    <3>3. ASSUME NEW j \in DOMAIN news, About(news[j], q) PROVE j = i
      <4>1. PICK n \in Followed(p) : news[j] = Create(n)
        BY <2>1
      <4>2. n \in Node
        BY DEF Followed, TypeOK
      <4>3. news[j] = news[i]
        BY <3>2, <3>3, <4>1, <4>2, AboutPackets
      <4>4. QED
        BY <2>1, <4>3
    <3>4. About(news[i], q) /\ news[i].val = pos[q]
      BY <3>2, NodeParts DEF About, Create
    <3>5. i <= i
      BY <3>2
    <3>6. LastTold(news, q, pos[q])
      BY <3>3, <3>4, <3>5 DEF LastTold
    <3>7. LastTold(log[p] \o news, q, pos[q])
      BY <2>2, <3>6, LogAppend
    <3>8. QED
      BY <1>3, <2>1, <2>2, <2>6, <3>7
  <2>7. QED
    BY <2>5, <2>6
<1>4. QED
  BY <1>2, <1>3 DEF HandleLogin

LEMMA WatchPlay ==
  ASSUME TypeOK, IInv, WatchInv, NEW p \in Peer, HandlePlay(p)
  PROVE  WatchInv'
<1>1. UNCHANGED <<player, group_peers, shown>>
  BY PlayStep DEF IInv, SeenInv
<1>2. CASE UNCHANGED <<pos, log>>
  BY <1>1, <1>2 DEF WatchInv
<1>3. ASSUME NEW v \in Pos,
             pos' = [pos EXCEPT ![p] = v],
             log' = [w \in Peer |-> IF w \in shown[rpc_puppet(p)]
                                    THEN Append(log[w], Message(rpc_puppet(p), v))
                                    ELSE log[w]]
      PROVE  WatchInv'
  <2>1. SUFFICES ASSUME NEW q \in Peer, player[q] = "live", NEW w \in group_peers \ {q}
                 PROVE  LastTold(log'[w], q, pos'[q])
    BY <1>1 DEF WatchInv
  <2>2. rpc_puppet(p) \in Node /\ Message(rpc_puppet(p), v) \in Packet
    BY NodeType, PacketType DEF TypeOK
  <2>3. w \in Peer /\ log[w] \in Seq(Packet) /\ LastTold(log[w], q, pos[q])
    BY <2>1 DEF TypeOK, WatchInv
  <2>4. CASE q = p
    <3>1. w \in shown[rpc_puppet(p)]
      BY <2>1, <2>4 DEF IInv, SeenInv, EveryoneSeesEveryone
    <3>2. About(Message(rpc_puppet(p), v), q) /\ Message(rpc_puppet(p), v).val = v
      BY <2>2, <2>4, AboutPackets
    <3>3. LastTold(Append(log[w], Message(rpc_puppet(p), v)), q, v)
      BY <2>2, <2>3, <3>2, LogAppendOne
    <3>4. QED
      BY <1>3, <2>3, <2>4, <3>1, <3>3 DEF TypeOK
  <2>5. CASE q # p
    <3>1. ~About(Message(rpc_puppet(p), v), q)
      BY <2>2, <2>5, AboutPackets, NodesDiffer
    <3>2. LastTold(Append(log[w], Message(rpc_puppet(p), v)), q, pos[q])
      BY <2>2, <2>3, <3>1, LogAppendOne
    <3>3. pos'[q] = pos[q]
      BY <1>3, <2>5 DEF TypeOK
    <3>4. QED
      BY <1>3, <2>3, <3>2, <3>3
  <2>6. QED
    BY <2>4, <2>5
<1>4. QED
  BY <1>2, <1>3, PlayStep DEF IInv, SeenInv

LEMMA WatchJoin ==
  ASSUME TypeOK, IInv, WatchInv, NEW p \in Peer, HandleJoin(p)
  PROVE  WatchInv'
<1>1. CASE sess_entity[p] # "live"
  BY <1>1, JoinFrame DEF WatchInv
<1>2. CASE sess_entity[p] = "live"
  <2> DEFINE news(w) == <<Create(rpc(p)), Create(IF w = p THEN rpc_owner(p) ELSE rpc_puppet(p))>>
  <2>1. group_peers \cap connected = group_peers
    BY DEF IInv, SessInv, MembersExact
  <2>2. /\ player' = [player EXCEPT ![p] = "live"] /\ group_peers' = group_peers
        /\ log' = [w \in Peer |-> IF w \in group_peers THEN log[w] \o news(w) ELSE log[w]]
    BY <1>2, <2>1, JoinEffect
  <2>3. UNCHANGED pos
    BY JoinFrame
  <2>4. SUFFICES ASSUME NEW q \in Peer, player'[q] = "live", NEW w \in group_peers \ {q}
                 PROVE  LastTold(log'[w], q, pos[q])
    BY <2>2, <2>3 DEF WatchInv
  <2>5. w \in Peer /\ log[w] \in Seq(Packet) /\ log'[w] = log[w] \o news(w)
    BY <2>2 DEF TypeOK
  <2> DEFINE second == IF w = p THEN rpc_owner(p) ELSE rpc_puppet(p)
  <2>6. /\ rpc(p) \in Node /\ second \in Node /\ \A r \in Peer : second # rpc(r)
        /\ Create(rpc(p)) \in Packet /\ Create(second) \in Packet
    BY NodeType, NodesDiffer, PacketType DEF TypeOK
  <2>7. news(w) = <<Create(rpc(p)), Create(second)>>
    OBVIOUS
  <2> HIDE DEF news, second
  <2>8. news(w) \in Seq(Packet)
    BY <2>6, <2>7
  <2>9. ~About(Create(second), q)
    BY <2>6, AboutPackets
  <2>10. CASE q = p
    <3>1. About(Create(rpc(p)), q) /\ Create(rpc(p)).val = pos[q]
      BY <2>6, <2>10, AboutPackets, NodeParts
    <3>2. LastTold(news(w), q, pos[q])
      BY <2>7, <2>9, <3>1 DEF LastTold
    <3>3. QED
      BY <2>5, <2>8, <3>2, LogAppend
  <2>11. CASE q # p
    <3>1. player[q] = "live"
      BY <2>2, <2>4, <2>11 DEF TypeOK
    <3>2. ~About(Create(rpc(p)), q)
      BY <2>6, <2>11, AboutPackets, NodesDiffer
    <3>3. Silent(news(w), q)
      BY <2>7, <2>9, <3>2 DEF Silent
    <3>4. LastTold(log[w], q, pos[q])
      BY <2>4, <3>1 DEF WatchInv
    <3>5. QED
      BY <2>5, <2>8, <3>3, <3>4, LogAppend
  <2>12. QED
    BY <2>10, <2>11
<1>3. QED
  BY <1>1, <1>2

LEMMA WatchInvStep ==
  ASSUME TypeOK, IInv, WatchInv, [Next]_vars
  PROVE  WatchInv'
<1>1. CASE /\ UNCHANGED <<pos, log>> /\ group_peers' \subseteq group_peers
           /\ \A q \in Peer : player'[q] = "live" => player[q] = "live"
  BY <1>1 DEF WatchInv
<1>2. ASSUME NEW p \in Peer, TransportStep(p) PROVE WatchInv'
  BY <1>1, <1>2 DEF TransportStep, Accept, Open, Receive, Unmap, Close, Transport, group, world
<1>3. ASSUME NEW p \in Peer, HandleConnected(p) \/ DropData(p) PROVE WatchInv'
  BY <1>1, <1>3 DEF HandleConnected, DropData, group, world
<1>4. ASSUME NEW p \in Peer, HandleDisconnected(p) PROVE WatchInv'
  BY <1>1, <1>4 DEF HandleDisconnected, remove_peer
<1>5. ASSUME NEW p \in Peer, HandleQuit(p) PROVE WatchInv'
  BY <1>1, <1>5 DEF HandleQuit, group, TypeOK
<1>6. ASSUME NEW n \in Node, Unregister(n) PROVE WatchInv'
  <2>1. Delete(n) \in Packet /\ \A q : ~About(Delete(n), q)
    BY PacketType, AboutPackets DEF TypeOK
  <2>2. /\ UNCHANGED <<pos, player, group_peers>>
        /\ \A w \in Peer : log'[w] = log[w] \/ log'[w] = Append(log[w], Delete(n))
    BY <1>6 DEF Unregister, group
  <2>3. \A q \in Peer, w \in Peer : LastTold(log[w], q, pos[q]) => LastTold(log'[w], q, pos[q])
    BY <2>1, <2>2, LogAppendOne DEF TypeOK
  <2>4. QED
    BY <2>2, <2>3 DEF WatchInv, TypeOK
<1>7. CASE ProcessEnd \/ JoinsEnd \/ QuitsEnd \/ UNCHANGED vars
  BY <1>1, <1>7 DEF ProcessEnd, JoinsEnd, QuitsEnd, vars, group, world
<1>8. CASE FlushEnd
  BY <1>1, <1>8 DEF FlushEnd
<1>9. QED
  BY <1>2, <1>3, <1>4, <1>5, <1>6, <1>7, <1>8, WatchLogin, WatchPlay, WatchJoin
  DEF Next, MainStep

LEMMA Invariance == Spec => [](TypeOK /\ IInv)
<1>1. TypeOK /\ IInv /\ TypeOK' /\ GroupFinite' /\ [Next]_vars => IInv'
  BY ConnInvStep, SessInvStep, SeenInvStep DEF IInv
<1>2. QED
  BY InitIInv, InitTypeOK, TypeCorrect, <1>1, PTL DEF Spec

----------------------------------------------------------------------------
(* The theorems *)

\* Whatever the transport's tasks and the main loop have got to, MpServer::process has a
\* session for every event but the first of a connection; the members of the group are the
\* sessions in the play state and the connected RPC peers; and the group follows the nodes
\* of exactly the players that exist.
THEOREM PresenceCorrect == Spec => []PresenceAgrees
<1>1. TypeOK /\ IInv => PresenceAgrees
  <2>1. SUFFICES ASSUME TypeOK, IInv PROVE SessionKnown
    BY DEF PresenceAgrees, IInv, SessInv
  <2>2. SUFFICES ASSUME events # <<>>
                 PROVE  LET e == Head(events)
                        IN /\ e.ev = "Connected" => e.peer \notin sessions
                           /\ e.ev # "Connected" => e.peer \in sessions
    BY DEF SessionKnown
  <2>3. QED
    BY <2>1, <2>2, HeadFits DEF IInv
<1>2. QED
  BY <1>1, Invariance, PTL

\* In whatever order peers log in, get their player and go: every member of the group is
\* shown every player that lives, its own one as the owner and nobody else's.
THEOREM AllSeeAll == Spec => []EveryoneSeesEveryone
<1>1. IInv => EveryoneSeesEveryone
  BY DEF IInv, SeenInv
<1>2. QED
  BY <1>1, Invariance, PTL

\* The position of a player changes only while a message of its own peer is handled, and
\* nothing changes for a peer that has been kicked, although what it sent is still queued.
THEOREM MovesChecked == Spec => MovesAreTheOwners
<1>1. TypeOK /\ IInv /\ [Next]_vars =>
        /\ [\A q \in Peer : pos'[q] # pos[q] => events # <<>> /\ Head(events).peer = q]_vars
        /\ [\A p \in kicked : pos'[p] = pos[p] /\ state'[p] = state[p]]_vars
  <2> SUFFICES ASSUME TypeOK, IInv, Next
               PROVE  /\ \A q \in Peer : pos'[q] # pos[q] => events # <<>> /\ Head(events).peer = q
                      /\ \A p \in kicked : pos'[p] = pos[p] /\ state'[p] = state[p]
    OBVIOUS
  <2>1. CASE UNCHANGED <<pos, state>>
    BY <2>1
  <2>2. ASSUME NEW p \in Peer, TransportStep(p) PROVE UNCHANGED <<pos, state>>
    BY <2>2 DEF TransportStep, Accept, Open, Receive, Unmap, Close, Transport, mp, world
  <2>3. ASSUME NEW p \in Peer,
               HandleConnected(p) \/ HandleDisconnected(p) \/ DropData(p) \/ HandleQuit(p)
        PROVE  UNCHANGED <<pos, state>>
    BY <2>3 DEF HandleConnected, HandleDisconnected, DropData, HandleQuit, mp, world
  <2>4. ASSUME NEW p \in Peer, HandleJoin(p) PROVE UNCHANGED <<pos, state>>
    BY <2>4, JoinFrame
  <2>5. CASE ProcessEnd \/ JoinsEnd \/ QuitsEnd \/ FlushEnd \/ \E n \in Node : Unregister(n)
    BY <2>1, <2>5 DEF ProcessEnd, JoinsEnd, QuitsEnd, FlushEnd, Unregister, mp, world
  <2>6. ASSUME NEW p \in Peer, HandleLogin(p)
        PROVE  /\ \A q \in Peer : pos'[q] = pos[q]
               /\ \A q \in kicked : state'[q] = state[q]
    BY <2>6 DEF HandleLogin, Kick, mp, world, peer_alive, TypeOK
  <2>7. ASSUME NEW p \in Peer, HandlePlay(p)
        PROVE  /\ UNCHANGED state /\ p \notin kicked /\ events # <<>> /\ Head(events).peer = p
               /\ \A q \in Peer : q # p => pos'[q] = pos[q]
    <3>1. OwnerAlone
      BY DEF IInv, SeenInv
    <3>2. /\ UNCHANGED state /\ p \notin kicked /\ events # <<>> /\ Head(events).peer = p
          /\ pos' = pos \/ \E v \in Pos : pos' = [pos EXCEPT ![p] = v]
      BY <2>7, <3>1, PlayStep
    <3>3. pos \in [Peer -> Pos]
      BY DEF TypeOK
    <3>4. QED
      BY <3>2, <3>3
  <2>8. QED
    BY <2>1, <2>2, <2>3, <2>4, <2>5, <2>6, <2>7 DEF Next, MainStep, TypeOK
<1>2. QED
  BY <1>1, Invariance, PTL DEF Spec, MovesAreTheOwners, OnlyOwnerMoves, KickIsFinal

\* What a member was told last of another living player, by the player's catch-up or by its
\* puppet's messages (two different nodes), is where the server has it now: no move is lost
\* and none arrives from before the catch-up.
THEOREM WatchersUpToDate == Spec => []WatchersCurrent
<1>1. TypeOK /\ WatchInv => WatchersCurrent
  <2>1. SUFFICES ASSUME TypeOK, NEW q \in Peer, NEW p \in Peer, LastTold(log[p], q, pos[q])
                 PROVE  LastWord(p, q) = {pos[q]}
    BY DEF WatchInv, WatchersCurrent, TypeOK
  <2> DEFINE about == {i \in DOMAIN log[p] : About(log[p][i], q)}
             latest == {i \in about : \A j \in about : j <= i}
  <2>2. LastWord(p, q) = {log[p][i].val : i \in latest}
    BY DEF LastWord, About
  <2>3. PICK i \in about : log[p][i].val = pos[q] /\ \A j \in about : j <= i
    BY <2>1 DEF LastTold
  <2>4. \A j \in about : j \in Nat
    <3>1. log[p] \in Seq(Packet)
      BY <2>1 DEF TypeOK
    <3>2. QED
      BY <3>1
  <2> HIDE DEF about
  <2>5. latest = {i}
    BY <2>3, <2>4
  <2>6. {log[p][j].val : j \in {i}} = {log[p][i].val}
    OBVIOUS
  <2>7. QED
    BY <2>2, <2>3, <2>5, <2>6
<1>2. TypeOK /\ IInv /\ WatchInv /\ [Next]_vars => WatchInv'
  BY WatchInvStep
<1>3. Init => WatchInv
  BY DEF Init, WatchInv
<1>4. QED
  BY <1>1, <1>2, <1>3, Invariance, PTL DEF Spec
=============================================================================
