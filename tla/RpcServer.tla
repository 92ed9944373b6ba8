----------------------------- MODULE RpcServer -----------------------------
(***************************************************************************)
(* The server half of the RPC layer (hg-engine-common, rpc/server.rs).     *)
(*                                                                         *)
(* Game code replicates nodes to peers, hides them again, broadcasts to    *)
(* them and destroys them.  None of these calls sends anything: each one   *)
(* updates the logical visibility sets at once and queues an action;       *)
(* RpcServer::flush, which runs once per tick, turns the queue into        *)
(* packets with a second, lagging visibility set per node.  The module is  *)
(* about the agreement of the two: a peer is told exactly what the calls   *)
(* said, in the order in which they said it.                               *)
(*                                                                         *)
(* The program is single threaded here: flush and the world flush run to   *)
(* completion.  They are cut into steps, one per loop iteration, and       *)
(* `phase` keeps every other call out while one of them runs.              *)
(***************************************************************************)
EXTENDS Naturals, Sequences

CONSTANTS
  Peer,      \* the RpcServerPeer components that ever exist, one per session
  MaxNode,   \* bound: node ids are 1..MaxNode (the code stops at 2^64)
  MaxValue,  \* bound: updates of one node's replicated state
  MaxWire    \* bound: actions ever queued and packets ever sent to one peer

ASSUME RpcServerAssumption ==
  /\ MaxNode \in Nat
  /\ MaxValue \in Nat
  /\ MaxWire \in Nat

VARIABLES
  id_gen,        \* the next node id, never reused
  id_to_node,    \* ids of the registered nodes
  node_queues,   \* ids whose RpcNodeServerQueue is registered
  action_queue,  \* the actions queued since the last flush; during one, what is left
  node_entity,   \* the life of each node's entity
  visible_to,    \* RpcServerNode::visible_to: what the game code asked for
  queue_visible, \* RpcNodeServerQueue::visible_to: what the peers were told
  value,         \* the replicated state of a node, a number of updates
  peer_entity,   \* the life of each peer's entity
  connected,     \* RpcServerPeer::connected
  vis_set,       \* RpcServerPeer::vis_set
  phase,         \* which of the two loops is running, if any
  wire           \* all packets handed to the transport for a peer, oldest first

vars == <<id_gen, id_to_node, node_queues, action_queue, node_entity, visible_to,
          queue_visible, value, peer_entity, connected, vis_set, phase, wire>>

NodeId == 1..MaxNode
Value == 0..MaxValue

\* "none": not created; "condemned": destroyed, its components stay readable until
\* the world flush ends; "unregistered": condemned and already handled by it.
Life == {"none", "live", "condemned", "unregistered", "dead"}
Alive == {"live", "condemned", "unregistered"}

\* RpcCbHeader with what the client needs to tell packets apart.
\* Mutations: the snapshot is read when it is sent; the arguments are swapped.
CreateNodeLate(n, v) == [op |-> "CreateNode", node |-> n, val |-> value[n]]
CreateNodeSwapped(n, v) == [op |-> "CreateNode", node |-> v, val |-> n]
CreateNode(n, v) == [op |-> "CreateNode", node |-> n, val |-> v]
\* Mutation: the message is encoded before the state is written.
SendMessageStale(n, v) == [op |-> "SendMessage", node |-> n, val |-> v - 1]
SendMessage(n, v) == [op |-> "SendMessage", node |-> n, val |-> v]
DeleteNode(n) == [op |-> "DeleteNode", node |-> n, val |-> 0]
Packet == [op : {"CreateNode", "SendMessage", "DeleteNode"}, node : NodeId, val : Value]

ReplicateTo(n, p, v) == [op |-> "ReplicateTo", queue |-> n, peer |-> p, val |-> v]
DestroyRemotely(n, p) == [op |-> "DestroyRemotely", queue |-> n, peer |-> p]
Broadcast(n, v) == [op |-> "Broadcast", queue |-> n, val |-> v]
DestroyNode(n) == [op |-> "DestroyNode", queue |-> n]
QueuedAction ==
  [op : {"ReplicateTo"}, queue : NodeId, peer : Peer, val : Value]
    \cup [op : {"DestroyRemotely"}, queue : NodeId, peer : Peer]
    \cup [op : {"Broadcast"}, queue : NodeId, val : Value]
    \cup [op : {"DestroyNode"}, queue : NodeId]

is_connected(p) == peer_entity[p] \in Alive /\ connected[p]

\* Whether the bounds leave room for one more call.
Room == \A p \in Peer : Len(wire[p]) + Len(action_queue) < MaxWire

\* Mutations: an action is dropped, or overtakes the queued ones.
PushUnless(a, op) == action_queue' = IF a.op = op THEN action_queue
                                                  ELSE Append(action_queue, a)
PushNoCreate(a) == PushUnless(a, "ReplicateTo")
PushNoHide(a) == PushUnless(a, "DestroyRemotely")
PushNoDestroy(a) == PushUnless(a, "DestroyNode")
PushFront(a) == action_queue' = <<a>> \o action_queue
Push(a) == action_queue' = Append(action_queue, a)

\* The nodes' sets once the peers in ps have been taken out through their vis_set.
\* Mutation: disconnect forgets the nodes.
DropNobody(ps) == visible_to
DropPeers(ps) == [n \in NodeId |-> {p \in visible_to[n] : p \in ps => n \notin vis_set[p]}]

----------------------------------------------------------------------------
Init ==
  /\ id_gen = 1
  /\ id_to_node = {}
  /\ node_queues = {}
  /\ action_queue = <<>>
  /\ node_entity = [n \in NodeId |-> "none"]
  /\ visible_to = [n \in NodeId |-> {}]
  /\ queue_visible = [n \in NodeId |-> {}]
  /\ value = [n \in NodeId |-> 0]
  /\ peer_entity = [p \in Peer |-> "none"]
  /\ connected = [p \in Peer |-> FALSE]
  /\ vis_set = [p \in Peer |-> {}]
  /\ phase = "run"
  /\ wire = [p \in Peer |-> <<>>]

\* RpcServer::register_node (through spawn_server_rpc, which makes the entity).
RegisterNode ==
  /\ phase = "run"
  /\ id_gen \in NodeId
  /\ id_gen' = id_gen + 1
  /\ node_queues' = node_queues \cup {id_gen}
  /\ id_to_node' = id_to_node \cup {id_gen}
  /\ node_entity' = [node_entity EXCEPT ![id_gen] = "live"]
  /\ UNCHANGED <<action_queue, visible_to, queue_visible, value, peer_entity,
                 connected, vis_set, phase, wire>>

\* RpcServer::register_peer
RegisterPeer(p) ==
  /\ phase = "run"
  /\ peer_entity[p] = "none"
  /\ peer_entity' = [peer_entity EXCEPT ![p] = "live"]
  /\ connected' = [connected EXCEPT ![p] = TRUE]
  /\ UNCHANGED <<id_gen, id_to_node, node_queues, action_queue, node_entity,
                 visible_to, queue_visible, value, vis_set, phase, wire>>

\* RpcServerNode::replicate: the snapshot is encoded here, not when it is sent.
Replicate(n, p) ==
  /\ phase = "run" /\ Room
  /\ node_entity[n] \in {"live", "condemned"}
  /\ is_connected(p)
  /\ p \notin visible_to[n]
  /\ visible_to' = [visible_to EXCEPT ![n] = @ \cup {p}]
  /\ vis_set' = [vis_set EXCEPT ![p] = @ \cup {n}]
  /\ Push(ReplicateTo(n, p, value[n]))
  /\ UNCHANGED <<id_gen, id_to_node, node_queues, node_entity, queue_visible, value,
                 peer_entity, connected, phase, wire>>

\* RpcServerNode::de_replicate
DeReplicate(n, p) ==
  /\ phase = "run" /\ Room
  /\ node_entity[n] \in {"live", "condemned"}
  /\ is_connected(p)
  /\ p \in visible_to[n]
  /\ visible_to' = [visible_to EXCEPT ![n] = @ \ {p}]
  /\ vis_set' = [vis_set EXCEPT ![p] = @ \ {n}]
  /\ Push(DestroyRemotely(n, p))
  /\ UNCHANGED <<id_gen, id_to_node, node_queues, node_entity, queue_visible, value,
                 peer_entity, connected, phase, wire>>

\* RpcServerNode::broadcast.  Every broadcast of the game announces a change of the
\* state it has just written (controller.rs, SetPos), so the two are one step.
BroadcastUpdate(n) ==
  /\ phase = "run" /\ Room
  /\ node_entity[n] \in {"live", "condemned"}
  /\ value[n] < MaxValue
  /\ value' = [value EXCEPT ![n] = @ + 1]
  /\ Push(Broadcast(n, value[n] + 1))
  /\ UNCHANGED <<id_gen, id_to_node, node_queues, node_entity, visible_to,
                 queue_visible, peer_entity, connected, vis_set, phase, wire>>

\* RpcServer::recv_packet: a packet for an unknown or invisible node is dropped; the
\* one handler of the game that does anything (SetPos) broadcasts.
RecvPacket(p, n) ==
  /\ peer_entity[p] \in Alive
  /\ n \in id_to_node
  /\ p \in visible_to[n]
  /\ BroadcastUpdate(n)

\* RpcServerPeer::disconnect
Disconnect(p) ==
  /\ phase = "run"
  /\ is_connected(p)
  /\ connected' = [connected EXCEPT ![p] = FALSE]
  /\ visible_to' = DropPeers({p})
  /\ vis_set' = [vis_set EXCEPT ![p] = {}]
  /\ UNCHANGED <<id_gen, id_to_node, node_queues, action_queue, node_entity,
                 queue_visible, value, peer_entity, phase, wire>>

\* Entity::destroy of the entity that holds the node, or the peer.
CondemnNode(n) ==
  /\ phase = "run"
  /\ node_entity[n] = "live"
  /\ node_entity' = [node_entity EXCEPT ![n] = "condemned"]
  /\ UNCHANGED <<id_gen, id_to_node, node_queues, action_queue, visible_to,
                 queue_visible, value, peer_entity, connected, vis_set, phase, wire>>

CondemnPeer(p) ==
  /\ phase = "run"
  /\ peer_entity[p] = "live"
  /\ peer_entity' = [peer_entity EXCEPT ![p] = "condemned"]
  /\ UNCHANGED <<id_gen, id_to_node, node_queues, action_queue, node_entity,
                 visible_to, queue_visible, value, connected, vis_set, phase, wire>>

----------------------------------------------------------------------------
(* RpcServer::flush *)

\* Peers that have gone are dropped from every queue first: nothing can be sent to them.
\* Mutation: nobody is dropped.
RetainAll == queue_visible
RetainConnected ==
  [n \in NodeId |-> IF n \in node_queues
                    THEN {p \in queue_visible[n] : is_connected(p)}
                    ELSE queue_visible[n]]

FlushBegin ==
  /\ phase = "run"
  /\ phase' = "sending"
  /\ queue_visible' = RetainConnected
  /\ UNCHANGED <<id_gen, id_to_node, node_queues, action_queue, node_entity,
                 visible_to, value, peer_entity, connected, vis_set, wire>>

\* Mutation: every packet goes to every peer.
SendToAll(peers, packet) == wire' = [p \in Peer |-> Append(wire[p], packet)]
SendTo(peers, packet) ==
  wire' = [p \in Peer |-> IF p \in peers THEN Append(wire[p], packet) ELSE wire[p]]

\* One iteration of the loop over the queue, up to what it does with the action.
NextAction(op) ==
  /\ phase = "sending"
  /\ action_queue # <<>>
  /\ Head(action_queue).op = op
  /\ action_queue' = Tail(action_queue)
  /\ UNCHANGED <<id_gen, id_to_node, node_entity, visible_to, value, peer_entity,
                 connected, vis_set, phase>>

FlushReplicateTo ==
  LET a == Head(action_queue)
  IN /\ NextAction("ReplicateTo")
     /\ \/ /\ is_connected(a.peer)
           /\ SendTo({a.peer}, CreateNode(a.queue, a.val))
           /\ queue_visible' = [queue_visible EXCEPT ![a.queue] = @ \cup {a.peer}]
        \/ /\ ~is_connected(a.peer)
           /\ UNCHANGED <<queue_visible, wire>>
     /\ UNCHANGED node_queues

FlushDestroyRemotely ==
  LET a == Head(action_queue)
  IN /\ NextAction("DestroyRemotely")
     /\ \/ /\ is_connected(a.peer)
           /\ SendTo({a.peer}, DeleteNode(a.queue))
           /\ queue_visible' = [queue_visible EXCEPT ![a.queue] = @ \ {a.peer}]
        \/ /\ ~is_connected(a.peer)
           /\ UNCHANGED <<queue_visible, wire>>
     /\ UNCHANGED node_queues

\* Sent to whoever the queue is visible to, with no look at the connection.
FlushBroadcast ==
  LET a == Head(action_queue)
  IN /\ NextAction("Broadcast")
     /\ SendTo(queue_visible[a.queue], SendMessage(a.queue, a.val))
     /\ UNCHANGED <<queue_visible, node_queues>>

FlushDestroyNode ==
  LET a == Head(action_queue)
  IN /\ NextAction("DestroyNode")
     /\ SendTo(queue_visible[a.queue], DeleteNode(a.queue))
     /\ queue_visible' = [queue_visible EXCEPT ![a.queue] = {}]
     /\ node_queues' = node_queues \ {a.queue}

FlushEnd ==
  /\ phase = "sending"
  /\ action_queue = <<>>
  /\ phase' = "run"
  /\ UNCHANGED <<id_gen, id_to_node, node_queues, action_queue, node_entity, visible_to,
                 queue_visible, value, peer_entity, connected, vis_set, wire>>

----------------------------------------------------------------------------
(* sys_flush_rpc_server, run by Entity::flush over the components that go away *)

WorldFlushBegin ==
  /\ phase = "run"
  /\ phase' = "removing"
  /\ UNCHANGED <<id_gen, id_to_node, node_queues, action_queue, node_entity, visible_to,
                 queue_visible, value, peer_entity, connected, vis_set, wire>>

\* RpcServerNode::unregister, in any order of the removed nodes.
Unregister(n) ==
  /\ phase = "removing"
  /\ node_entity[n] = "condemned"
  /\ Push(DestroyNode(n))
  /\ id_to_node' = id_to_node \ {n}
  /\ vis_set' = [p \in Peer |->
                   IF p \in visible_to[n] THEN vis_set[p] \ {n} ELSE vis_set[p]]
  /\ visible_to' = [visible_to EXCEPT ![n] = {}]
  /\ node_entity' = [node_entity EXCEPT ![n] = "unregistered"]
  /\ UNCHANGED <<id_gen, node_queues, queue_visible, value, peer_entity, connected,
                 phase, wire>>

\* After the nodes, RpcServerPeer::disconnect for the removed peers; then the flush
\* frees the components of everything condemned.
WorldFlushEnd ==
  LET removed == {p \in Peer : peer_entity[p] = "condemned"}
  IN /\ phase = "removing"
     /\ \A n \in NodeId : node_entity[n] # "condemned"
     /\ phase' = "run"
     /\ connected' = [p \in Peer |-> connected[p] /\ p \notin removed]
     /\ visible_to' = DropPeers(removed)
     /\ vis_set' = [p \in Peer |-> IF p \in removed THEN {} ELSE vis_set[p]]
     /\ peer_entity' = [p \in Peer |-> IF p \in removed THEN "dead" ELSE peer_entity[p]]
     /\ node_entity' = [n \in NodeId |-> IF node_entity[n] = "unregistered"
                                         THEN "dead" ELSE node_entity[n]]
     /\ UNCHANGED <<id_gen, id_to_node, node_queues, action_queue, queue_visible,
                    value, wire>>

----------------------------------------------------------------------------
Call ==
  \/ RegisterNode
  \/ \E p \in Peer : RegisterPeer(p) \/ Disconnect(p) \/ CondemnPeer(p)
  \/ \E n \in NodeId : BroadcastUpdate(n) \/ CondemnNode(n)
  \/ \E n \in NodeId, p \in Peer :
       Replicate(n, p) \/ DeReplicate(n, p) \/ RecvPacket(p, n)

FlushStep ==
  \/ FlushReplicateTo
  \/ FlushDestroyRemotely
  \/ FlushBroadcast
  \/ FlushDestroyNode
  \/ FlushEnd

WorldFlushStep == WorldFlushEnd \/ \E n \in NodeId : Unregister(n)

Next == Call \/ FlushBegin \/ FlushStep \/ WorldFlushBegin \/ WorldFlushStep

Spec == Init /\ [][Next]_vars

\* The main loop (hg-server, driver.rs) flushes the server and the world on every tick,
\* and a flush that has begun runs to its end.
Fairness ==
  /\ WF_vars(FlushStep)
  /\ WF_vars(WorldFlushStep)
  /\ SF_vars(FlushBegin)
  /\ SF_vars(WorldFlushBegin)

FairSpec == Spec /\ Fairness

----------------------------------------------------------------------------
TypeOK ==
  /\ id_gen \in 1..(MaxNode + 1)
  /\ id_to_node \subseteq NodeId
  /\ node_queues \subseteq NodeId
  /\ action_queue \in Seq(QueuedAction)
  /\ node_entity \in [NodeId -> Life]
  /\ visible_to \in [NodeId -> SUBSET Peer]
  /\ queue_visible \in [NodeId -> SUBSET Peer]
  /\ value \in [NodeId -> Value]
  /\ peer_entity \in [Peer -> Life]
  /\ connected \in [Peer -> BOOLEAN]
  /\ vis_set \in [Peer -> SUBSET NodeId]
  /\ phase \in {"run", "sending", "removing"}
  /\ wire \in [Peer -> Seq(Packet)]

\* The two visibility sets that server.rs keeps by hand on both ends, visible_to of the
\* node and vis_set of the peer, describe one relation, and it holds only connected
\* peers and registered nodes: what disconnect and unregister drain is all there is.
VisibilitySymmetric ==
  /\ \A n \in NodeId, p \in Peer : p \in visible_to[n] <=> n \in vis_set[p]
  /\ \A n \in NodeId : \A p \in visible_to[n] : is_connected(p) /\ n \in id_to_node

\* What an action of the queue will do to p's view of n when it is flushed.
Shows(a, n, p) == a.op = "ReplicateTo" /\ a.queue = n /\ a.peer = p
Hides(a, n, p) == \/ a.op = "DestroyRemotely" /\ a.queue = n /\ a.peer = p
                  \/ a.op = "DestroyNode" /\ a.queue = n

\* Whether p will see n once the whole queue is flushed, if it stays connected.
WillSee(n, p) ==
  \/ \E i \in DOMAIN action_queue :
       /\ Shows(action_queue[i], n, p)
       /\ \A j \in DOMAIN action_queue : j > i => ~Hides(action_queue[j], n, p)
  \/ /\ p \in queue_visible[n]
     /\ \A i \in DOMAIN action_queue : ~Hides(action_queue[i], n, p)

\* The lagging set of flush and its queue add up to what the game code asked for: for
\* every connected peer, the queue turns queue.visible_to into node.visible_to.
QueueAgrees ==
  \A n \in NodeId, p \in Peer : is_connected(p) => (WillSee(n, p) <=> p \in visible_to[n])

\* No queued action refers to a queue that flush has destroyed, and nothing is queued
\* for a node behind its DestroyNode: flush never reads a freed RpcNodeServerQueue.
QueueAlive ==
  \A i \in DOMAIN action_queue :
    /\ action_queue[i].queue \in node_queues
    /\ action_queue[i].op = "DestroyNode" =>
         \A j \in DOMAIN action_queue : j > i => action_queue[j].queue # action_queue[i].queue

----------------------------------------------------------------------------
\* Whether the first k packets of the log leave n created at the client.
CreatedAt(log, n, k) ==
  \E i \in 1..k :
    /\ log[i].op = "CreateNode" /\ log[i].node = n
    /\ \A j \in (i + 1)..k : ~(log[j].op = "DeleteNode" /\ log[j].node = n)

\* Every client is sent, for every node, Create (Message* Delete Create)*: it never gets
\* a message for, or a deletion of, a node it does not have, nor a second creation of
\* one it has (RpcClient::recv_packet answers each of these with a protocol error).
WireWellFormed ==
  \A p \in Peer : \A k \in DOMAIN wire[p] :
    LET packet == wire[p][k]
    IN (packet.op = "CreateNode") <=> ~CreatedAt(wire[p], packet.node, k - 1)

\* A snapshot is taken when replicate is called and sent much later, with broadcasts
\* before, between and after: still every message continues the state that the client
\* was last given, so no update is lost or applied twice.
NoLostUpdate ==
  \A p \in Peer : \A k \in DOMAIN wire[p] :
    wire[p][k].op = "SendMessage" =>
      \E i \in 1..(k - 1) :
        /\ wire[p][i].node = wire[p][k].node
        /\ wire[p][i].val = wire[p][k].val - 1
        /\ \A j \in (i + 1)..(k - 1) : wire[p][j].node # wire[p][k].node

\* After a flush, a connected peer has exactly the nodes replicated to it, each with its
\* current state.
CaughtUp ==
  action_queue = <<>> =>
    \A n \in NodeId, p \in Peer : is_connected(p) =>
      LET log == wire[p]
      IN /\ CreatedAt(log, n, Len(log)) <=> p \in visible_to[n]
         /\ p \in visible_to[n] =>
              \E i \in DOMAIN log :
                /\ log[i].node = n /\ log[i].val = value[n]
                /\ \A j \in DOMAIN log : j > i => log[j].node # n

\* Packets go only to peers whose session still stands: send_packet reads the
\* MpServerSession of the peer's entity and panics when the entity is dead.
SendOnlyConnected == [][\A p \in Peer : wire'[p] # wire[p] => is_connected(p)]_vars

\* A node that is replicated to a peer is announced to it unless it is hidden, or the
\* peer goes, before the flush; and one that was destroyed is taken back.
EventuallyTold ==
  \A n \in NodeId, p \in Peer :
    p \in visible_to[n] ~>
      (CreatedAt(wire[p], n, Len(wire[p])) \/ p \notin visible_to[n])
EventuallyTakenBack ==
  \A n \in NodeId, p \in Peer :
    (node_entity[n] = "condemned") ~>
      (~CreatedAt(wire[p], n, Len(wire[p])) \/ ~is_connected(p))

\* No peer misses an update or hears of it twice: what it is sent is well formed, leads to
\* what the server holds, and begins with the state of the moment it came to see the node.
PeersUpToDate == WireWellFormed /\ NoLostUpdate /\ CaughtUp
=============================================================================
