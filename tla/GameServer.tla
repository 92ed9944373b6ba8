------------------------------ MODULE GameServer ------------------------------
(***************************************************************************)
(* The server program: the QUIC transport as its main thread sees it       *)
(* (a peer map, the kicked flags and one event queue, filled by tokio      *)
(* tasks), MpServer::process, the RpcGroup of all players, and the tick    *)
(* and flush of hg-server.                                                 *)
(*                                                                         *)
(* RpcServer is used through what it is shown to implement, Replication:   *)
(* `shown` and `log` are the peers of a node and everything a peer is told *)
(* now or at the next flush.  An event is handled in one step, since only  *)
(* the main thread touches what it changes; the transport's tasks run      *)
(* between the steps, and within MpServer::process too.                    *)
(***************************************************************************)
EXTENDS Naturals, Sequences, SequencesExt

CONSTANTS
  Peer,     \* peer ids; an id is used for one connection only
  MaxPos,   \* bound: positions are 0..MaxPos, 0 where a player spawns
  MaxData,  \* bound: packets received from one peer
  MaxQueue, \* bound: events waiting in the transport's queue
  HastyQuit \* whether a connection may end before the tick that logs it in does

ASSUME GameServerAssumption ==
  /\ MaxPos \in Nat /\ MaxData \in Nat /\ MaxQueue \in Nat
  /\ HastyQuit \in BOOLEAN

VARIABLES
  conn,        \* what the run_conn task of each peer has done
  peer_map,    \* TransportListenState::peer_map
  kicked,      \* the peers with TransportPeerState::kicked
  received,    \* the number of packets received from a peer
  events,      \* the transport's event queue
  sessions,    \* MpServer::sessions
  state,       \* MpServerSession::state
  sess_entity, \* the life of the session's entity, which also holds the RpcServerPeer
  on_join,     \* the two signals: sessions in the order they were fired
  on_quit,
  group_nodes, \* RpcGroupInner::nodes, by the node that is followed
  group_peers, \* RpcGroupInner::peers
  player,      \* the life of the player entity of each peer
  pos,         \* its position
  connected,   \* the peers whose RpcServerPeer is connected
  shown,       \* the peers each node is replicated to
  log,         \* what each peer is told
  phase,       \* where the main loop is
  crashed      \* whether it has panicked

transport == <<conn, peer_map, kicked, received, events>>
mp == <<sessions, state, sess_entity, on_join, on_quit>>
group == <<group_nodes, group_peers>>
world == <<player, pos, connected, shown, log>>
vars == <<transport, mp, group, world, phase, crashed>>

Pos == 0..MaxPos

\* The three RPC nodes of a player.
Node == {"rpc", "owner", "puppet"} \X Peer
rpc(p) == <<"rpc", p>>
rpc_owner(p) == <<"owner", p>>
rpc_puppet(p) == <<"puppet", p>>

Life == {"none", "live", "condemned", "dead"}

Connected(p) == [ev |-> "Connected", peer |-> p]
Disconnected(p) == [ev |-> "Disconnected", peer |-> p]
DataReceived(p, packet) == [ev |-> "DataReceived", peer |-> p, packet |-> packet]

\* What a peer may send: the login, something that does not parse, or a message to any
\* node, which every kind but the owner's fails to parse.
Hello == [kind |-> "hello"]
Garbage == [kind |-> "garbage"]
SetPos(n, v) == [kind |-> "SetPos", node |-> n, val |-> v]
Sent == {Hello, Garbage} \cup {SetPos(n, v) : n \in Node, v \in 1..MaxPos}

\* The catch-up of `rpc` is the position at the time of the call.
\* Mutation: the position is the one of the spawn.
CreateAtSpawn(n) == [op |-> "CreateNode", node |-> n, val |-> 0]
Create(n) == [op |-> "CreateNode", node |-> n, val |-> pos[n[2]]]
Message(n, v) == [op |-> "SendMessage", node |-> n, val |-> v]
Delete(n) == [op |-> "DeleteNode", node |-> n, val |-> 0]

Init ==
  /\ conn = [p \in Peer |-> "none"]
  /\ peer_map = {}
  /\ kicked = {}
  /\ received = [p \in Peer |-> 0]
  /\ events = <<>>
  /\ sessions = {}
  /\ state = [p \in Peer |-> "Login"]
  /\ sess_entity = [p \in Peer |-> "none"]
  /\ on_join = <<>> /\ on_quit = <<>>
  /\ group_nodes = {} /\ group_peers = {}
  /\ player = [p \in Peer |-> "none"]
  /\ pos = [p \in Peer |-> 0]
  /\ connected = {}
  /\ shown = [n \in Node |-> {}]
  /\ log = [p \in Peer |-> <<>>]
  /\ phase = "process"
  /\ crashed = FALSE

----------------------------------------------------------------------------
(* The transport's tasks (quic_server.rs). *)

Transport ==
  /\ ~crashed
  /\ UNCHANGED <<mp, group, world, phase, crashed>>

\* The event queue.  Mutation: an event overtakes the ones that wait.
SendFirst(event) ==
  /\ Len(events) < MaxQueue
  /\ events' = <<event>> \o events
Send(event) ==
  /\ Len(events) < MaxQueue
  /\ events' = Append(events, event)

\* run_conn inserts the peer before it sends the first event.
Accept(p) ==
  /\ Transport
  /\ conn[p] = "none"
  /\ conn' = [conn EXCEPT ![p] = "mapped"]
  /\ peer_map' = peer_map \cup {p}
  /\ UNCHANGED <<kicked, received, events>>

Open(p) ==
  /\ Transport
  /\ conn[p] = "mapped"
  /\ conn' = [conn EXCEPT ![p] = "open"]
  /\ Send(Connected(p))
  /\ UNCHANGED <<peer_map, kicked, received>>

\* run_conn_rx
Receive(p, packet) ==
  /\ Transport
  /\ conn[p] = "open"
  /\ received[p] < MaxData
  /\ received' = [received EXCEPT ![p] = @ + 1]
  /\ Send(DataReceived(p, packet))
  /\ UNCHANGED <<conn, peer_map, kicked>>

\* The connection ends, because of the peer, the network or a kick: the peer is taken
\* out of the map first, and the event is sent after that.
Unmap(p) ==
  /\ Transport
  /\ conn[p] = "open"
  /\ conn' = [conn EXCEPT ![p] = "unmapped"]
  /\ peer_map' = peer_map \ {p}
  /\ UNCHANGED <<kicked, received, events>>

LoggingIn(p) ==
  \/ p \in ToSet(on_join)
  \/ \E i \in DOMAIN events : events[i] = DataReceived(p, Hello)

Close(p) ==
  /\ Transport
  /\ conn[p] = "unmapped"
  /\ HastyQuit \/ ~LoggingIn(p)
  /\ conn' = [conn EXCEPT ![p] = "done"]
  /\ Send(Disconnected(p))
  /\ UNCHANGED <<peer_map, kicked, received>>

----------------------------------------------------------------------------
(* The group of all players (rpc/groups.rs) and the replication it asks for. *)

\* The nodes that add_peer shows to p.  Mutation: any exclusion counts.
FollowedOpen(p) == {n \in group_nodes : n[1] # "puppet"}
Followed(p) == {n \in group_nodes : n # rpc_puppet(p)}

\* RpcGroup::add_peer: the nodes are announced in the order of a hash set.
add_peer(p) ==
  /\ group_peers' = group_peers \cup {p}
  /\ shown' = [n \in Node |-> IF n \in Followed(p) THEN shown[n] \cup {p} ELSE shown[n]]
  /\ \E order \in SetToSeqs(Followed(p)) :
       log' = [log EXCEPT ![p] = @ \o [i \in DOMAIN order |-> Create(order[i])]]
  /\ UNCHANGED group_nodes

\* RpcGroup::remove_peer, on a peer that has been disconnected before.
\* Mutation: it returns for such a peer before it removes it.
RemovePeerLate(p) == group_peers
remove_peer(p) == group_peers \ {p}

----------------------------------------------------------------------------
(* MpServer::process *)

Handle(p, kind) ==
  /\ ~crashed /\ phase = "process"
  /\ events # <<>>
  /\ Head(events).ev = kind
  /\ Head(events).peer = p
  /\ events' = Tail(events)
  /\ UNCHANGED <<conn, peer_map, received, phase, crashed>>

\* on_join.fire and on_quit.fire.
\* Mutations: a second login of the tick is lost; a kicked peer does not count as one
\* that quits; the signal is given the entity for the session.
FireJoinOnce(p) == IF on_join = <<>> THEN <<p>> ELSE on_join
FireJoin(p) == Append(on_join, p)
FireQuitUnlessKicked(p) == IF p \in kicked THEN on_quit ELSE Append(on_quit, p)
FireQuitEntity(p) == Append(on_quit, sess_entity[p])
FireQuit(p) == Append(on_quit, p)

HandleConnected(p) ==
  /\ Handle(p, "Connected")
  /\ sessions' = sessions \cup {p}
  /\ sess_entity' = [sess_entity EXCEPT ![p] = "live"]
  /\ UNCHANGED <<kicked, state, on_join, on_quit, group, world>>

\* RpcServerPeer::disconnect also takes the peer out of every node's visible_to.
HandleDisconnected(p) ==
  /\ Handle(p, "Disconnected")
  /\ sessions' = sessions \ {p}
  /\ sess_entity' = [sess_entity EXCEPT ![p] = "condemned"]
  /\ \/ /\ state[p] = "Play"
        /\ connected' = connected \ {p}
        /\ shown' = [n \in Node |-> shown[n] \ {p}]
        /\ on_quit' = FireQuit(p)
        /\ group_peers' = remove_peer(p)
     \/ /\ state[p] = "Login"
        /\ UNCHANGED <<connected, shown, on_quit, group_peers>>
  /\ UNCHANGED <<kicked, state, on_join, group_nodes, player, pos, log>>

\* QuicServerTransport::peer finds it.  Mutation: kicked peers are not filtered out.
peer_mapped(p) == p \in peer_map
peer_alive(p) == p \in peer_map /\ p \notin kicked

\* QuicServerTransport::process skips what a dead or a kicked peer had sent.
DropData(p) ==
  /\ Handle(p, "DataReceived")
  /\ ~peer_alive(p)
  /\ UNCHANGED <<kicked, mp, group, world>>

\* A packet that is reported as an error: peer_kick.  (For a peer that the transport takes
\* out of its map at this moment it does nothing, which comes to the same.)
Kick(p) ==
  /\ kicked' = kicked \cup {p}
  /\ UNCHANGED <<mp, group, world>>

HandleLogin(p) ==
  /\ Handle(p, "DataReceived")
  /\ peer_alive(p)
  /\ state[p] = "Login"
  /\ \/ /\ Head(events).packet = Hello
        /\ connected' = connected \cup {p}
        /\ on_join' = FireJoin(p)
        /\ add_peer(p)
        /\ state' = [state EXCEPT ![p] = "Play"]
        /\ UNCHANGED <<kicked, sessions, sess_entity, on_quit, player, pos>>
     \/ Head(events).packet # Hello /\ Kick(p)

\* RpcServer::recv_packet.  Mutation: the visibility is not checked.
AcceptsAny(p, n) == player[n[2]] \in {"live", "condemned"}
Accepts(p, n) == player[n[2]] \in {"live", "condemned"} /\ p \in shown[n]

HandlePlay(p) ==
  LET packet == Head(events).packet
  IN /\ Handle(p, "DataReceived")
     /\ peer_alive(p)
     /\ state[p] = "Play"
     /\ \/ /\ packet.kind # "SetPos"
           /\ Kick(p)
        \/ /\ packet.kind = "SetPos"
           /\ ~Accepts(p, packet.node)
           /\ UNCHANGED <<kicked, mp, group, world>>
        \/ /\ packet.kind = "SetPos"
           /\ Accepts(p, packet.node)
           /\ packet.node[1] # "owner"
           /\ Kick(p)
        \/ /\ packet.kind = "SetPos"
           /\ Accepts(p, packet.node)
           /\ packet.node[1] = "owner"
           /\ LET q == packet.node[2]
              IN /\ pos' = [pos EXCEPT ![q] = packet.val]
                 /\ log' = [w \in Peer |->
                              IF w \in shown[rpc_puppet(q)]
                              THEN Append(log[w], Message(rpc_puppet(q), packet.val))
                              ELSE log[w]]
           /\ UNCHANGED <<kicked, mp, group, player, connected, shown>>

\* The loop ends when it finds the queue empty.
ProcessEnd ==
  /\ ~crashed /\ phase = "process"
  /\ events = <<>>
  /\ phase' = "joins"
  /\ UNCHANGED <<transport, mp, group, world, crashed>>

----------------------------------------------------------------------------
(* world_tick and world_flush *)

\* Entity::add asserts that the session's entity is not condemned; then spawn_player.
\* add_node shows `rpc` to everyone and `rpc_puppet` to everyone but the owner.
HandleJoin(p) ==
  /\ ~crashed /\ phase = "joins"
  /\ on_join # <<>> /\ p = Head(on_join)
  /\ UNCHANGED <<transport, sessions, state, sess_entity, on_quit, phase>>
  /\ \/ /\ sess_entity[p] = "live"
        /\ on_join' = Tail(on_join)
        /\ player' = [player EXCEPT ![p] = "live"]
        /\ group_nodes' = group_nodes \cup {rpc(p), rpc_puppet(p)}
        /\ group_peers' = group_peers \cap connected
        /\ shown' = [shown EXCEPT ![rpc(p)] = group_peers \cap connected,
                                  ![rpc_puppet(p)] = (group_peers \cap connected) \ {p},
                                  ![rpc_owner(p)] = {p} \cap connected]
        /\ log' = [q \in Peer |->
                     IF q \in group_peers \cap connected
                     THEN log[q] \o <<Create(rpc(p)),
                                      Create(IF q = p THEN rpc_owner(p) ELSE rpc_puppet(p))>>
                     ELSE log[q]]
        /\ UNCHANGED <<pos, connected, crashed>>
     \/ /\ sess_entity[p] # "live"
        /\ crashed' = TRUE
        /\ UNCHANGED <<on_join, group, world>>

JoinsEnd ==
  /\ ~crashed /\ phase = "joins"
  /\ on_join = <<>>
  /\ phase' = "quits"
  /\ UNCHANGED <<transport, mp, group, world, crashed>>

HandleQuit(p) ==
  /\ ~crashed /\ phase = "quits"
  /\ on_quit # <<>> /\ p = Head(on_quit)
  /\ on_quit' = Tail(on_quit)
  /\ player' = [player EXCEPT ![p] = "condemned"]
  /\ UNCHANGED <<transport, sessions, state, sess_entity, on_join, group, pos, connected,
                 shown, log, phase, crashed>>

QuitsEnd ==
  /\ ~crashed /\ phase = "quits"
  /\ on_quit = <<>>
  /\ phase' = "flush"
  /\ UNCHANGED <<transport, mp, group, world, crashed>>

\* sys_flush_rpc_server, in any order, for the nodes of the condemned players; the
\* followers, which sys_flush_rpc_groups handles next, then find nobody left to tell.
Unregister(n) ==
  /\ ~crashed /\ phase = "flush"
  /\ player[n[2]] = "condemned"
  /\ shown[n] # {}
  /\ shown' = [shown EXCEPT ![n] = {}]
  /\ log' = [q \in Peer |-> IF q \in shown[n] THEN Append(log[q], Delete(n)) ELSE log[q]]
  /\ UNCHANGED <<transport, mp, group, player, pos, connected, phase, crashed>>

\* Mutation: the followers of dead players stay in the group.
KeepFollowers == group_nodes
DropFollowers == {n \in group_nodes : player[n[2]] # "condemned"}

FlushEnd ==
  /\ ~crashed /\ phase = "flush"
  /\ \A n \in Node : player[n[2]] = "condemned" => shown[n] = {}
  /\ phase' = "process"
  /\ group_nodes' = DropFollowers
  /\ group_peers' = IF \E n \in group_nodes : player[n[2]] = "condemned"
                    THEN group_peers \cap connected ELSE group_peers
  /\ player' = [p \in Peer |-> IF player[p] = "condemned" THEN "dead" ELSE player[p]]
  /\ sess_entity' = [p \in Peer |-> IF sess_entity[p] = "condemned" THEN "dead"
                                                                    ELSE sess_entity[p]]
  /\ UNCHANGED <<transport, sessions, state, on_join, on_quit, pos, connected, shown, log,
                 crashed>>

----------------------------------------------------------------------------
TransportStep(p) ==
  \/ Accept(p)
  \/ Open(p)
  \/ \E packet \in Sent : Receive(p, packet)
  \/ Unmap(p)
  \/ Close(p)

MainStep ==
  \/ \E p \in Peer :
       \/ HandleConnected(p)
       \/ HandleDisconnected(p)
       \/ DropData(p)
       \/ HandleLogin(p)
       \/ HandlePlay(p)
       \/ HandleJoin(p)
       \/ HandleQuit(p)
  \/ ProcessEnd
  \/ JoinsEnd
  \/ QuitsEnd
  \/ \E n \in Node : Unregister(n)
  \/ FlushEnd

Next == MainStep \/ \E p \in Peer : TransportStep(p)

Spec == Init /\ [][Next]_vars

\* The main loop always runs; a task finishes what it has begun, and a kicked peer's
\* connection is closed by its run_conn_tx.
Fairness ==
  /\ WF_vars(MainStep)
  /\ \A p \in Peer :
       /\ WF_vars(Open(p))
       /\ WF_vars(Close(p))
       /\ WF_vars(p \in kicked /\ Unmap(p))

FairSpec == Spec /\ Fairness

----------------------------------------------------------------------------
Event ==
  [ev : {"Connected", "Disconnected"}, peer : Peer]
    \cup [ev : {"DataReceived"}, peer : Peer, packet : Sent]
Packet == [op : {"CreateNode", "SendMessage", "DeleteNode"}, node : Node, val : Pos]

TypeOK ==
  /\ conn \in [Peer -> {"none", "mapped", "open", "unmapped", "done"}]
  /\ peer_map \subseteq Peer
  /\ kicked \subseteq Peer
  /\ received \in [Peer -> 0..MaxData]
  /\ events \in Seq(Event)
  /\ sessions \subseteq Peer
  /\ state \in [Peer -> {"Login", "Play"}]
  /\ sess_entity \in [Peer -> Life]
  /\ on_join \in Seq(Peer) /\ on_quit \in Seq(Peer)
  /\ group_nodes \subseteq Node /\ group_peers \subseteq Peer
  /\ player \in [Peer -> Life]
  /\ pos \in [Peer -> Pos]
  /\ connected \subseteq Peer
  /\ shown \in [Node -> SUBSET Peer]
  /\ log \in [Peer -> Seq(Packet)]
  /\ phase \in {"process", "joins", "quits", "flush"}
  /\ crashed \in BOOLEAN

\* MpServer::process unwraps sessions.remove and indexes sessions: the tasks that fill
\* the queue and the map never let it meet a peer it has no session for, or one twice.
SessionKnown ==
  events # <<>> =>
    LET e == Head(events)
    IN /\ e.ev = "Connected" => e.peer \notin sessions
       /\ e.ev = "Disconnected" => e.peer \in sessions
       /\ e.ev = "DataReceived" /\ peer_alive(e.peer) => e.peer \in sessions

\* The group's own set of peers, which it prunes lazily, is never behind: its members
\* are the sessions in the play state, and those are the connected RPC peers.
MembersExact ==
  /\ group_peers = connected
  /\ group_peers = {p \in sessions : state[p] = "Play"}

\* Whatever the order of logins, spawns and departures, every member sees every player,
\* its own one as the owner and nobody else's.
EveryoneSeesEveryone ==
  \A p \in Peer : player[p] = "live" =>
    /\ shown[rpc(p)] = group_peers
    /\ shown[rpc_puppet(p)] = group_peers \ {p}
    /\ shown[rpc_owner(p)] = group_peers \cap {p}

\* The group follows exactly the nodes of the players that exist.
FollowsPlayers ==
  group_nodes = {n \in Node : n[1] # "owner" /\ player[n[2]] \in {"live", "condemned"}}

\* A watcher's last word on a player, from the player's catch-up or from its puppet's
\* messages (two different nodes), is the position the server has.
LastWord(p, q) ==
  LET about == {i \in DOMAIN log[p] :
                  \/ log[p][i].node = rpc(q) /\ log[p][i].op = "CreateNode"
                  \/ log[p][i].node = rpc_puppet(q) /\ log[p][i].op = "SendMessage"}
  IN {log[p][i].val : i \in {i \in about : \A j \in about : j <= i}}
WatchersCurrent ==
  \A q \in Peer : player[q] = "live" =>
    \A p \in group_peers \ {q} : LastWord(p, q) = {pos[q]}

\* A player moves only when the peer that owns it says so.
OnlyOwnerMoves ==
  [][\A q \in Peer : pos'[q] # pos[q] => events # <<>> /\ Head(events).peer = q]_vars

\* After a kick, what the peer had already sent and still sends changes nothing.
KickIsFinal ==
  [][\A p \in kicked : pos'[p] = pos[p] /\ state'[p] = state[p]]_vars

\* No assertion of the entity store stops the server.
NoCrash == ~crashed

\* A peer that has gone leaves neither a session nor a player behind.
QuitRemoves ==
  \A p \in Peer :
    conn[p] = "done" ~> [](p \notin sessions /\ player[p] \in {"none", "dead"})

\* A peer that logs in is told of the player it owns, or has gone.
LoginTold ==
  \A p \in Peer :
    state[p] = "Play" ~> \/ \E i \in DOMAIN log[p] : log[p][i].node = rpc_owner(p)
                        \/ p \notin sessions

\* The transport's map, the sessions, the group and the players tell the same story of who
\* is there, whatever the tasks and the main loop have got to.
PresenceAgrees == TypeOK /\ SessionKnown /\ MembersExact /\ FollowsPlayers

\* A player moves when its own peer says so, and never after that peer has been kicked.
MovesAreTheOwners == OnlyOwnerMoves /\ KickIsFinal

\* Whoever logs in is told of its player, and whoever goes leaves nothing behind.
SessionsSettle == QuitRemoves /\ LoginTold
=============================================================================
