-------------------------- MODULE RpcServerProofs --------------------------
(***************************************************************************)
(* Proofs about RpcServer, for any number of nodes, peers and calls.  The  *)
(* second part is about what it sends, PeersUpToDate: its invariant        *)
(* follows two things through the queue, whether a peer sees a node at the *)
(* moment an action of the queue is performed, and the state of a node at  *)
(* that moment.  The third part is the refinement of Replication: a call   *)
(* pushes one packet to the end of what the peers it reaches are owed, and *)
(* a step of flush moves the first one to the wire.                        *)
(***************************************************************************)
EXTENDS RpcServerRefines, FiniteSetTheorems, SequenceTheorems, TLAPS

----------------------------------------------------------------------------
(* Type correctness *)

LEMMA InitTypeOK == Init => TypeOK
BY RpcServerAssumption DEF Init, TypeOK, NodeId, Value, Life

\* Appending an action of the right type keeps the queue well typed.
LEMMA PushType ==
  ASSUME action_queue \in Seq(QueuedAction), NEW a \in QueuedAction, Push(a)
  PROVE  action_queue' \in Seq(QueuedAction)
BY DEF Push

LEMMA SendToType ==
  ASSUME wire \in [Peer -> Seq(Packet)], NEW ps, NEW packet \in Packet, SendTo(ps, packet)
  PROVE  wire' \in [Peer -> Seq(Packet)]
BY DEF SendTo

\* The head of a nonempty queue is an action, and what is left is a queue.
LEMMA NextActionType ==
  ASSUME action_queue \in Seq(QueuedAction), action_queue # <<>>
  PROVE  Head(action_queue) \in QueuedAction /\ Tail(action_queue) \in Seq(QueuedAction)
OBVIOUS

LEMMA CallTypeOK == TypeOK /\ Call => TypeOK'
<1> SUFFICES ASSUME TypeOK, Call PROVE TypeOK'
  OBVIOUS
<1> USE RpcServerAssumption DEF TypeOK, NodeId, Value, Life
<1>1. CASE RegisterNode
  BY <1>1 DEF RegisterNode
<1>2. ASSUME NEW p \in Peer, RegisterPeer(p) PROVE TypeOK'
  BY <1>2 DEF RegisterPeer
<1>3. ASSUME NEW p \in Peer, Disconnect(p) PROVE TypeOK'
  BY <1>3 DEF Disconnect, DropPeers
<1>4. ASSUME NEW p \in Peer, CondemnPeer(p) PROVE TypeOK'
  BY <1>4 DEF CondemnPeer
<1>5. ASSUME NEW n \in NodeId, BroadcastUpdate(n) PROVE TypeOK'
  <2>1. Broadcast(n, value[n] + 1) \in QueuedAction
    BY <1>5 DEF Broadcast, QueuedAction, BroadcastUpdate
  <2>2. action_queue' \in Seq(QueuedAction)
    BY <1>5, <2>1, PushType DEF BroadcastUpdate
  <2>3. value' = [value EXCEPT ![n] = @ + 1] /\ value[n] < MaxValue
    BY <1>5 DEF BroadcastUpdate
  <2>4. value' \in [NodeId -> Value]
    BY <2>3
  <2>5. UNCHANGED <<id_gen, id_to_node, node_queues, node_entity, visible_to,
                    queue_visible, peer_entity, connected, vis_set, phase, wire>>
    BY <1>5 DEF BroadcastUpdate
  <2>6. QED
    BY <2>2, <2>4, <2>5
<1>6. ASSUME NEW n \in NodeId, CondemnNode(n) PROVE TypeOK'
  BY <1>6 DEF CondemnNode
<1>7. ASSUME NEW n \in NodeId, NEW p \in Peer, Replicate(n, p) PROVE TypeOK'
  <2>1. ReplicateTo(n, p, value[n]) \in QueuedAction
    BY DEF ReplicateTo, QueuedAction
  <2>2. action_queue' \in Seq(QueuedAction)
    BY <1>7, <2>1, PushType DEF Replicate
  <2>3. QED
    BY <1>7, <2>2 DEF Replicate
<1>8. ASSUME NEW n \in NodeId, NEW p \in Peer, DeReplicate(n, p) PROVE TypeOK'
  <2>1. DestroyRemotely(n, p) \in QueuedAction
    BY DEF DestroyRemotely, QueuedAction
  <2>2. action_queue' \in Seq(QueuedAction)
    BY <1>8, <2>1, PushType DEF DeReplicate
  <2>3. QED
    BY <1>8, <2>2 DEF DeReplicate
<1>9. ASSUME NEW n \in NodeId, NEW p \in Peer, RecvPacket(p, n) PROVE TypeOK'
  BY <1>9, <1>5 DEF RecvPacket
<1>10. QED
  BY <1>1, <1>2, <1>3, <1>4, <1>5, <1>6, <1>7, <1>8, <1>9 DEF Call

LEMMA FlushTypeOK == TypeOK /\ (FlushBegin \/ FlushStep) => TypeOK'
<1> SUFFICES ASSUME TypeOK, FlushBegin \/ FlushStep PROVE TypeOK'
  OBVIOUS
<1> DEFINE a == Head(action_queue)
<1>1. CASE FlushBegin
  BY <1>1 DEF FlushBegin, RetainConnected, TypeOK
<1>2. CASE FlushReplicateTo
  <2>1. a \in QueuedAction /\ Tail(action_queue) \in Seq(QueuedAction) /\ a.op = "ReplicateTo"
    BY <1>2, NextActionType DEF FlushReplicateTo, NextAction, TypeOK
  <2>2. a.queue \in NodeId /\ a.peer \in Peer /\ a.val \in Value
    BY <2>1 DEF QueuedAction
  <2>3. CreateNode(a.queue, a.val) \in Packet
    BY <2>2 DEF CreateNode, Packet
  <2>4. wire' \in [Peer -> Seq(Packet)]
    BY <1>2, <2>3, SendToType DEF FlushReplicateTo, TypeOK
  <2>5. queue_visible' \in [NodeId -> SUBSET Peer]
    <3>1. queue_visible[a.queue] \cup {a.peer} \in SUBSET Peer
      BY <2>2 DEF TypeOK
    <3>2. \/ queue_visible' = [queue_visible EXCEPT
                                ![a.queue] = queue_visible[a.queue] \cup {a.peer}]
          \/ queue_visible' = queue_visible
      BY <1>2 DEF FlushReplicateTo
    <3>3. QED
      BY <3>1, <3>2 DEF TypeOK
  <2>6. QED
    BY <1>2, <2>1, <2>4, <2>5 DEF FlushReplicateTo, NextAction, TypeOK
<1>3. CASE FlushDestroyRemotely
  <2>1. a \in QueuedAction /\ Tail(action_queue) \in Seq(QueuedAction)
        /\ a.op = "DestroyRemotely"
    BY <1>3, NextActionType DEF FlushDestroyRemotely, NextAction, TypeOK
  <2>2. a.queue \in NodeId /\ a.peer \in Peer
    BY <2>1 DEF QueuedAction
  <2>3. DeleteNode(a.queue) \in Packet
    BY <2>2, RpcServerAssumption DEF DeleteNode, Packet, Value
  <2>4. wire' \in [Peer -> Seq(Packet)]
    BY <1>3, <2>3, SendToType DEF FlushDestroyRemotely, TypeOK
  <2>5. queue_visible' \in [NodeId -> SUBSET Peer]
    <3>1. queue_visible[a.queue] \ {a.peer} \in SUBSET Peer
      BY <2>2 DEF TypeOK
    <3>2. \/ queue_visible' = [queue_visible EXCEPT
                                ![a.queue] = queue_visible[a.queue] \ {a.peer}]
          \/ queue_visible' = queue_visible
      BY <1>3 DEF FlushDestroyRemotely
    <3>3. QED
      BY <3>1, <3>2 DEF TypeOK
  <2>6. QED
    BY <1>3, <2>1, <2>4, <2>5 DEF FlushDestroyRemotely, NextAction, TypeOK
<1>4. CASE FlushBroadcast
  <2>1. a \in QueuedAction /\ Tail(action_queue) \in Seq(QueuedAction) /\ a.op = "Broadcast"
    BY <1>4, NextActionType DEF FlushBroadcast, NextAction, TypeOK
  <2>2. a.queue \in NodeId /\ a.val \in Value
    BY <2>1 DEF QueuedAction
  <2>3. SendMessage(a.queue, a.val) \in Packet
    BY <2>2 DEF SendMessage, Packet
  <2>4. wire' \in [Peer -> Seq(Packet)]
    BY <1>4, <2>3, SendToType DEF FlushBroadcast, TypeOK
  <2>5. QED
    BY <1>4, <2>1, <2>4 DEF FlushBroadcast, NextAction, TypeOK
<1>5. CASE FlushDestroyNode
  <2>1. a \in QueuedAction /\ Tail(action_queue) \in Seq(QueuedAction)
        /\ a.op = "DestroyNode"
    BY <1>5, NextActionType DEF FlushDestroyNode, NextAction, TypeOK
  <2>2. a.queue \in NodeId
    BY <2>1 DEF QueuedAction
  <2>3. DeleteNode(a.queue) \in Packet
    BY <2>2, RpcServerAssumption DEF DeleteNode, Packet, Value
  <2>4. wire' \in [Peer -> Seq(Packet)]
    BY <1>5, <2>3, SendToType DEF FlushDestroyNode, TypeOK
  <2>5. QED
    BY <1>5, <2>1, <2>2, <2>4 DEF FlushDestroyNode, NextAction, TypeOK
<1>6. CASE FlushEnd
  BY <1>6 DEF FlushEnd, TypeOK
<1>7. QED
  BY <1>1, <1>2, <1>3, <1>4, <1>5, <1>6 DEF FlushStep

LEMMA WorldFlushTypeOK == TypeOK /\ (WorldFlushBegin \/ WorldFlushStep) => TypeOK'
<1> SUFFICES ASSUME TypeOK, WorldFlushBegin \/ WorldFlushStep PROVE TypeOK'
  OBVIOUS
<1>1. CASE WorldFlushBegin
  BY <1>1 DEF WorldFlushBegin, TypeOK
<1>2. CASE WorldFlushEnd
  BY <1>2 DEF WorldFlushEnd, DropPeers, TypeOK, Life
<1>3. ASSUME NEW n \in NodeId, Unregister(n) PROVE TypeOK'
  <2>1. DestroyNode(n) \in QueuedAction
    BY DEF DestroyNode, QueuedAction
  <2>2. action_queue' \in Seq(QueuedAction)
    BY <1>3, <2>1, PushType DEF Unregister, TypeOK
  <2>3. QED
    BY <1>3, <2>2 DEF Unregister, TypeOK, Life
<1>4. QED
  BY <1>1, <1>2, <1>3 DEF WorldFlushStep

\* Every variable keeps its type, for any bounds: in particular a queue or a log never
\* holds anything but the actions and packets that flush knows how to handle.
THEOREM TypeCorrect == Spec => []TypeOK
<1>1. TypeOK /\ [Next]_vars => TypeOK'
  <2>1. TypeOK /\ UNCHANGED vars => TypeOK'
    BY DEF TypeOK, vars
  <2>2. QED
    BY <2>1, CallTypeOK, FlushTypeOK, WorldFlushTypeOK DEF Next
<1>2. QED
  BY InitTypeOK, <1>1, PTL DEF Spec

----------------------------------------------------------------------------
(* The inductive invariant *)

\* A node is in the id map from its creation until it is unregistered, and ids at and
\* above id_gen are still unused.
NodeLife ==
  \A n \in NodeId :
    /\ n \in id_to_node <=> node_entity[n] \in {"live", "condemned"}
    /\ node_entity[n] = "none" <=> n >= id_gen
    /\ n \in node_queues => n < id_gen

\* A registered node has its queue and no pending DestroyNode.
QueueOfNode ==
  \A n \in id_to_node :
    /\ n \in node_queues
    /\ \A i \in DOMAIN action_queue :
         action_queue[i].op = "DestroyNode" => action_queue[i].queue # n

\* Nothing was queued for, or told to, a peer that has not been registered.
PeerUnborn ==
  \A p \in Peer : peer_entity[p] = "none" =>
    /\ ~connected[p]
    /\ \A n \in NodeId : p \notin queue_visible[n]
    /\ \A i \in DOMAIN action_queue :
         action_queue[i].op = "ReplicateTo" => action_queue[i].peer # p

\* While flush sends, the peers it has not dropped are connected.
SendingToConnected ==
  phase = "sending" =>
    \A n \in node_queues : \A p \in queue_visible[n] : is_connected(p)

IInv ==
  /\ VisibilitySymmetric
  /\ NodeLife
  /\ QueueAlive
  /\ QueueOfNode
  /\ PeerUnborn
  /\ SendingToConnected
  /\ QueueAgrees

LEMMA InitIInv == Init => IInv
BY RpcServerAssumption
DEF Init, IInv, VisibilitySymmetric, NodeLife, QueueAlive, QueueOfNode, PeerUnborn,
    SendingToConnected, QueueAgrees, WillSee, NodeId, is_connected, Alive

\* The next-state relation with the calls that change nothing the invariant reads, and
\* RecvPacket, which is a BroadcastUpdate, folded into the others.
LEMMA NextCases ==
  ASSUME [Next]_vars,
         NEW ACTION P,
         RegisterNode => P,
         \A p \in Peer : RegisterPeer(p) => P,
         \A p \in Peer : Disconnect(p) => P,
         \A p \in Peer : CondemnPeer(p) => P,
         \A n \in NodeId : BroadcastUpdate(n) => P,
         \A n \in NodeId : CondemnNode(n) => P,
         \A n \in NodeId, p \in Peer : Replicate(n, p) => P,
         \A n \in NodeId, p \in Peer : DeReplicate(n, p) => P,
         FlushBegin => P,
         FlushReplicateTo => P,
         FlushDestroyRemotely => P,
         FlushBroadcast => P,
         FlushDestroyNode => P,
         FlushEnd => P,
         WorldFlushBegin => P,
         \A n \in NodeId : Unregister(n) => P,
         WorldFlushEnd => P,
         UNCHANGED vars => P
  PROVE  P
BY DEF Next, Call, FlushStep, WorldFlushStep, RecvPacket

LEMMA VisibilityStep ==
  ASSUME TypeOK, IInv, [Next]_vars
  PROVE  VisibilitySymmetric'
<1> USE DEF TypeOK, IInv, VisibilitySymmetric, is_connected, Alive, Life
<1>1. RegisterNode => VisibilitySymmetric'
  BY DEF RegisterNode
<1>2. \A p \in Peer : RegisterPeer(p) => VisibilitySymmetric'
  BY DEF RegisterPeer
<1>3. \A p \in Peer : Disconnect(p) => VisibilitySymmetric'
  BY DEF Disconnect, DropPeers
<1>4. \A p \in Peer : CondemnPeer(p) => VisibilitySymmetric'
  BY DEF CondemnPeer
<1>5. \A n \in NodeId : BroadcastUpdate(n) => VisibilitySymmetric'
  BY DEF BroadcastUpdate
<1>6. \A n \in NodeId : CondemnNode(n) => VisibilitySymmetric'
  BY DEF CondemnNode
<1>7. \A n \in NodeId, p \in Peer : Replicate(n, p) => VisibilitySymmetric'
  BY DEF Replicate, NodeLife
<1>8. \A n \in NodeId, p \in Peer : DeReplicate(n, p) => VisibilitySymmetric'
  BY DEF DeReplicate
<1>9. FlushBegin => VisibilitySymmetric'
  BY DEF FlushBegin
<1>10. FlushReplicateTo => VisibilitySymmetric'
  BY DEF FlushReplicateTo, NextAction
<1>11. FlushDestroyRemotely => VisibilitySymmetric'
  BY DEF FlushDestroyRemotely, NextAction
<1>12. FlushBroadcast => VisibilitySymmetric'
  BY DEF FlushBroadcast, NextAction
<1>13. FlushDestroyNode => VisibilitySymmetric'
  BY DEF FlushDestroyNode, NextAction
<1>14. FlushEnd => VisibilitySymmetric'
  BY DEF FlushEnd
<1>15. WorldFlushBegin => VisibilitySymmetric'
  BY DEF WorldFlushBegin
<1>16. \A n \in NodeId : Unregister(n) => VisibilitySymmetric'
  BY DEF Unregister
<1>17. WorldFlushEnd => VisibilitySymmetric'
  BY DEF WorldFlushEnd, DropPeers
<1>18. UNCHANGED vars => VisibilitySymmetric'
  BY DEF vars
<1> HIDE DEF TypeOK, IInv, VisibilitySymmetric, is_connected, Alive, Life
<1>19. QED
  BY <1>1, <1>2, <1>3, <1>4, <1>5, <1>6, <1>7, <1>8, <1>9, <1>10, <1>11, <1>12, <1>13,
     <1>14, <1>15, <1>16, <1>17, <1>18, NextCases

LEMMA NodeLifeStep ==
  ASSUME TypeOK, IInv, [Next]_vars
  PROVE  NodeLife'
<1> USE RpcServerAssumption DEF TypeOK, IInv, NodeLife, NodeId, Life
<1>1. RegisterNode => NodeLife'
  BY DEF RegisterNode
<1>2. \A p \in Peer : RegisterPeer(p) => NodeLife'
  BY DEF RegisterPeer
<1>3. \A p \in Peer : Disconnect(p) => NodeLife'
  BY DEF Disconnect
<1>4. \A p \in Peer : CondemnPeer(p) => NodeLife'
  BY DEF CondemnPeer
<1>5. \A n \in NodeId : BroadcastUpdate(n) => NodeLife'
  BY DEF BroadcastUpdate
<1>6. \A n \in NodeId : CondemnNode(n) => NodeLife'
  BY DEF CondemnNode
<1>7. \A n \in NodeId, p \in Peer : Replicate(n, p) => NodeLife'
  BY DEF Replicate
<1>8. \A n \in NodeId, p \in Peer : DeReplicate(n, p) => NodeLife'
  BY DEF DeReplicate
<1>9. FlushBegin => NodeLife'
  BY DEF FlushBegin
<1>10. FlushReplicateTo => NodeLife'
  BY DEF FlushReplicateTo, NextAction
<1>11. FlushDestroyRemotely => NodeLife'
  BY DEF FlushDestroyRemotely, NextAction
<1>12. FlushBroadcast => NodeLife'
  BY DEF FlushBroadcast, NextAction
<1>13. FlushDestroyNode => NodeLife'
  BY DEF FlushDestroyNode, NextAction
<1>14. FlushEnd => NodeLife'
  BY DEF FlushEnd
<1>15. WorldFlushBegin => NodeLife'
  BY DEF WorldFlushBegin
<1>16. \A n \in NodeId : Unregister(n) => NodeLife'
  BY DEF Unregister
<1>17. WorldFlushEnd => NodeLife'
  BY DEF WorldFlushEnd
<1>18. UNCHANGED vars => NodeLife'
  BY DEF vars
<1> HIDE DEF TypeOK, IInv, NodeLife, NodeId, Life
<1>19. QED
  BY <1>1, <1>2, <1>3, <1>4, <1>5, <1>6, <1>7, <1>8, <1>9, <1>10, <1>11, <1>12, <1>13,
     <1>14, <1>15, <1>16, <1>17, <1>18, NextCases

\* How the queue can change: it does not, one action is pushed for a registered node, or
\* flush takes its head.
LEMMA QueueChanges ==
  ASSUME TypeOK, IInv, [Next]_vars
  PROVE  \/ action_queue' = action_queue /\ node_queues \subseteq node_queues'
         \/ /\ UNCHANGED node_queues
            /\ \E a \in QueuedAction : /\ Push(a)
                                       /\ a.queue \in id_to_node
                                       /\ a.op = "DestroyNode" => a.queue \notin id_to_node'
         \/ /\ phase = "sending" /\ action_queue # <<>>
            /\ action_queue' = Tail(action_queue)
            /\ node_queues' = IF Head(action_queue).op = "DestroyNode"
                              THEN node_queues \ {Head(action_queue).queue}
                              ELSE node_queues
<1> DEFINE P == \/ action_queue' = action_queue /\ node_queues \subseteq node_queues'
                \/ /\ UNCHANGED node_queues
                   /\ \E a \in QueuedAction :
                        /\ Push(a)
                        /\ a.queue \in id_to_node
                        /\ a.op = "DestroyNode" => a.queue \notin id_to_node'
                \/ /\ phase = "sending" /\ action_queue # <<>>
                   /\ action_queue' = Tail(action_queue)
                   /\ node_queues' = IF Head(action_queue).op = "DestroyNode"
                                     THEN node_queues \ {Head(action_queue).queue}
                                     ELSE node_queues
<1>1. \A n \in NodeId : BroadcastUpdate(n) => P
  <2> SUFFICES ASSUME NEW n \in NodeId, BroadcastUpdate(n) PROVE P
    OBVIOUS
  <2>1. Broadcast(n, value[n] + 1) \in QueuedAction
    BY RpcServerAssumption DEF BroadcastUpdate, Broadcast, QueuedAction, TypeOK, Value
  <2>2. n \in id_to_node
    BY DEF BroadcastUpdate, IInv, NodeLife
  <2>3. QED
    BY <2>1, <2>2 DEF BroadcastUpdate, Broadcast
<1>2. \A n \in NodeId, p \in Peer : Replicate(n, p) => P
  <2> SUFFICES ASSUME NEW n \in NodeId, NEW p \in Peer, Replicate(n, p) PROVE P
    OBVIOUS
  <2>1. ReplicateTo(n, p, value[n]) \in QueuedAction
    BY DEF ReplicateTo, QueuedAction, TypeOK
  <2>2. n \in id_to_node
    BY DEF Replicate, IInv, NodeLife
  <2>3. QED
    BY <2>1, <2>2 DEF Replicate, ReplicateTo
<1>3. \A n \in NodeId, p \in Peer : DeReplicate(n, p) => P
  <2> SUFFICES ASSUME NEW n \in NodeId, NEW p \in Peer, DeReplicate(n, p) PROVE P
    OBVIOUS
  <2>1. DestroyRemotely(n, p) \in QueuedAction
    BY DEF DestroyRemotely, QueuedAction
  <2>2. n \in id_to_node
    BY DEF DeReplicate, IInv, NodeLife
  <2>3. QED
    BY <2>1, <2>2 DEF DeReplicate, DestroyRemotely
<1>4. \A n \in NodeId : Unregister(n) => P
  <2> SUFFICES ASSUME NEW n \in NodeId, Unregister(n) PROVE P
    OBVIOUS
  <2>1. DestroyNode(n) \in QueuedAction /\ DestroyNode(n).queue = n
    BY DEF DestroyNode, QueuedAction
  <2>2. n \in id_to_node
    BY DEF Unregister, IInv, NodeLife
  <2>3. QED
    BY <2>1, <2>2 DEF Unregister
<1>5. RegisterNode => P
  BY DEF RegisterNode
<1>6. \A p \in Peer : RegisterPeer(p) \/ Disconnect(p) \/ CondemnPeer(p) => P
  BY DEF RegisterPeer, Disconnect, CondemnPeer
<1>7. \A n \in NodeId : CondemnNode(n) => P
  BY DEF CondemnNode
<1>8. FlushBegin \/ FlushEnd \/ WorldFlushBegin \/ WorldFlushEnd \/ UNCHANGED vars => P
  BY DEF FlushBegin, FlushEnd, WorldFlushBegin, WorldFlushEnd, vars
<1>9. FlushReplicateTo => P
  BY DEF FlushReplicateTo, NextAction
<1>10. FlushDestroyRemotely => P
  BY DEF FlushDestroyRemotely, NextAction
<1>11. FlushBroadcast => P
  BY DEF FlushBroadcast, NextAction
<1>12. FlushDestroyNode => P
  BY DEF FlushDestroyNode, NextAction
<1> HIDE DEF P
<1>13. P
  BY <1>1, <1>2, <1>3, <1>4, <1>5, <1>6, <1>7, <1>8, <1>9, <1>10, <1>11, <1>12, NextCases
<1>14. QED
  BY <1>13 DEF P

\* Once unregistered, a node does not come back under its id: the ids of a step's map
\* are those of before, and perhaps the unused id_gen.
LEMMA IdMapChanges ==
  ASSUME TypeOK, IInv, [Next]_vars
  PROVE  /\ id_to_node' \subseteq id_to_node \cup {id_gen}
         /\ id_to_node' \subseteq id_to_node \/ RegisterNode
<1> DEFINE P == /\ id_to_node' \subseteq id_to_node \cup {id_gen}
                /\ id_to_node' \subseteq id_to_node \/ RegisterNode
<1>1. RegisterNode => P
  BY DEF RegisterNode
<1>2. \A p \in Peer : RegisterPeer(p) \/ Disconnect(p) \/ CondemnPeer(p) => P
  BY DEF RegisterPeer, Disconnect, CondemnPeer
<1>3. \A n \in NodeId : BroadcastUpdate(n) \/ CondemnNode(n) \/ Unregister(n) => P
  BY DEF BroadcastUpdate, CondemnNode, Unregister
<1>4. \A n \in NodeId, p \in Peer : Replicate(n, p) \/ DeReplicate(n, p) => P
  BY DEF Replicate, DeReplicate
<1>5. FlushBegin \/ FlushEnd \/ WorldFlushBegin \/ WorldFlushEnd \/ UNCHANGED vars => P
  BY DEF FlushBegin, FlushEnd, WorldFlushBegin, WorldFlushEnd, vars
<1>6. FlushReplicateTo \/ FlushDestroyRemotely \/ FlushBroadcast \/ FlushDestroyNode => P
  BY DEF FlushReplicateTo, FlushDestroyRemotely, FlushBroadcast, FlushDestroyNode,
         NextAction
<1> HIDE DEF P
<1>7. P
  BY <1>1, <1>2, <1>3, <1>4, <1>5, <1>6, NextCases
<1>8. QED
  BY <1>7 DEF P

LEMMA QueueAliveStep ==
  ASSUME TypeOK, IInv, [Next]_vars
  PROVE  QueueAlive'
<1> USE DEF TypeOK, IInv, QueueAlive
<1>1. CASE action_queue' = action_queue /\ node_queues \subseteq node_queues'
  BY <1>1
<1>2. CASE /\ UNCHANGED node_queues
           /\ \E a \in QueuedAction : Push(a) /\ a.queue \in id_to_node
  BY <1>2 DEF Push, QueueOfNode
<1>3. CASE /\ action_queue # <<>>
           /\ action_queue' = Tail(action_queue)
           /\ node_queues' = IF Head(action_queue).op = "DestroyNode"
                             THEN node_queues \ {Head(action_queue).queue}
                             ELSE node_queues
  <2>1. \A i \in DOMAIN action_queue' :
          /\ i \in Nat /\ i + 1 > 1
          /\ i + 1 \in DOMAIN action_queue
          /\ action_queue'[i] = action_queue[i + 1]
    BY <1>3
  <2>2. Head(action_queue) = action_queue[1] /\ 1 \in DOMAIN action_queue
    BY <1>3
  <2>3. ASSUME NEW i \in DOMAIN action_queue'
        PROVE  action_queue'[i].queue \in node_queues'
    <3>1. action_queue[i + 1].queue \in node_queues
      BY <2>1
    <3>2. action_queue[1].op = "DestroyNode" =>
            action_queue[i + 1].queue # action_queue[1].queue
      BY <2>1, <2>2
    <3>3. QED
      BY <1>3, <2>1, <2>2, <3>1, <3>2
  <2>4. ASSUME NEW i \in DOMAIN action_queue', NEW j \in DOMAIN action_queue', j > i,
               action_queue'[i].op = "DestroyNode"
        PROVE  action_queue'[j].queue # action_queue'[i].queue
    <3>1. j + 1 > i + 1
      BY <2>1, <2>4
    <3>2. action_queue[i + 1].op = "DestroyNode"
      BY <2>1, <2>4
    <3>3. action_queue[j + 1].queue # action_queue[i + 1].queue
      BY <2>1, <3>1, <3>2
    <3>4. QED
      BY <2>1, <3>3
  <2>5. QED
    BY <2>3, <2>4
<1>4. QED
  BY <1>1, <1>2, <1>3, QueueChanges

LEMMA QueueOfNodeStep ==
  ASSUME TypeOK, IInv, [Next]_vars
  PROVE  QueueOfNode'
<1> SUFFICES ASSUME NEW n \in id_to_node'
             PROVE  /\ n \in node_queues'
                    /\ \A i \in DOMAIN action_queue' :
                         action_queue'[i].op = "DestroyNode" => action_queue'[i].queue # n
  BY DEF QueueOfNode
<1>1. CASE RegisterNode
  <2>1. CASE n = id_gen
    <3>1. id_gen \in NodeId /\ id_gen \notin node_queues
      BY <1>1, RpcServerAssumption DEF RegisterNode, IInv, NodeLife, NodeId
    <3>2. QED
      BY <1>1, <2>1, <3>1 DEF RegisterNode, IInv, QueueAlive
  <2>2. CASE n \in id_to_node
    BY <1>1, <2>2 DEF RegisterNode, IInv, QueueOfNode
  <2>3. QED
    BY <2>1, <2>2, IdMapChanges
<1>2. CASE n \in id_to_node
  <2> USE DEF TypeOK, IInv, QueueOfNode
  <2>1. CASE action_queue' = action_queue /\ node_queues \subseteq node_queues'
    BY <1>2, <2>1
  <2>2. CASE /\ UNCHANGED node_queues
             /\ \E a \in QueuedAction : /\ Push(a)
                                        /\ a.op = "DestroyNode" => a.queue \notin id_to_node'
    BY <1>2, <2>2 DEF Push
  <2>3. CASE /\ action_queue # <<>>
             /\ action_queue' = Tail(action_queue)
             /\ node_queues' = IF Head(action_queue).op = "DestroyNode"
                               THEN node_queues \ {Head(action_queue).queue}
                               ELSE node_queues
    <3>1. \A i \in DOMAIN action_queue' :
            /\ i + 1 \in DOMAIN action_queue
            /\ action_queue'[i] = action_queue[i + 1]
      BY <2>3
    <3>2. Head(action_queue) = action_queue[1] /\ 1 \in DOMAIN action_queue
      BY <2>3
    <3>3. QED
      BY <1>2, <2>3, <3>1, <3>2
  <2>4. QED
    BY <2>1, <2>2, <2>3, QueueChanges
<1>3. QED
  BY <1>1, <1>2, IdMapChanges

\* The queue after flush has taken its head: everything moves up by one.
LEMMA TailIndex ==
  ASSUME TypeOK, action_queue # <<>>, action_queue' = Tail(action_queue)
  PROVE  /\ Head(action_queue) = action_queue[1] /\ 1 \in DOMAIN action_queue
         /\ \A i \in DOMAIN action_queue' :
              /\ i \in Nat /\ i + 1 > 1
              /\ i + 1 \in DOMAIN action_queue
              /\ action_queue'[i] = action_queue[i + 1]
         /\ \A i \in DOMAIN action_queue : i # 1 =>
              /\ i \in Nat /\ i > 1
              /\ i - 1 \in DOMAIN action_queue'
              /\ action_queue'[i - 1] = action_queue[i]
BY DEF TypeOK

LEMMA PeerUnbornStep ==
  ASSUME TypeOK, IInv, [Next]_vars
  PROVE  PeerUnborn'
<1> USE DEF TypeOK, PeerUnborn, Life
<1>0. PeerUnborn
  BY DEF IInv
<1>1. RegisterNode => PeerUnborn'
  BY <1>0 DEF RegisterNode
<1>2. \A p \in Peer : RegisterPeer(p) => PeerUnborn'
  BY <1>0 DEF RegisterPeer
<1>3. \A p \in Peer : Disconnect(p) => PeerUnborn'
  BY <1>0 DEF Disconnect
<1>4. \A p \in Peer : CondemnPeer(p) => PeerUnborn'
  BY <1>0 DEF CondemnPeer
<1>5. \A n \in NodeId : BroadcastUpdate(n) => PeerUnborn'
  BY <1>0 DEF BroadcastUpdate, Push, Broadcast
<1>6. \A n \in NodeId : CondemnNode(n) => PeerUnborn'
  BY <1>0 DEF CondemnNode
<1>7. \A n \in NodeId, p \in Peer : Replicate(n, p) => PeerUnborn'
  BY <1>0 DEF Replicate, Push, ReplicateTo, is_connected, Alive
<1>8. \A n \in NodeId, p \in Peer : DeReplicate(n, p) => PeerUnborn'
  BY <1>0 DEF DeReplicate, Push, DestroyRemotely
<1>9. FlushBegin => PeerUnborn'
  BY <1>0 DEF FlushBegin, RetainConnected
<1>10. FlushReplicateTo => PeerUnborn'
  <2> SUFFICES ASSUME FlushReplicateTo PROVE PeerUnborn'
    OBVIOUS
  <2> DEFINE a == Head(action_queue)
  <2>1. /\ action_queue # <<>> /\ action_queue' = Tail(action_queue)
        /\ a.op = "ReplicateTo" /\ UNCHANGED <<peer_entity, connected>>
    BY DEF FlushReplicateTo, NextAction
  <2>2. \A n \in NodeId : queue_visible'[n] \subseteq queue_visible[n] \cup {a.peer}
    <3>1. \/ queue_visible' = [queue_visible EXCEPT
                                ![a.queue] = queue_visible[a.queue] \cup {a.peer}]
          \/ queue_visible' = queue_visible
      BY DEF FlushReplicateTo
    <3>2. QED
      BY <3>1
  <2>3. \A p \in Peer : peer_entity[p] = "none" => a.peer # p
    BY <1>0, <2>1, TailIndex
  <2>4. ASSUME NEW p \in Peer, peer_entity'[p] = "none"
        PROVE  /\ ~connected'[p]
               /\ \A n \in NodeId : p \notin queue_visible'[n]
    BY <1>0, <2>1, <2>2, <2>3, <2>4
  <2>5. ASSUME NEW p \in Peer, peer_entity'[p] = "none", NEW i \in DOMAIN action_queue',
               action_queue'[i].op = "ReplicateTo"
        PROVE  action_queue'[i].peer # p
    BY <1>0, <2>1, <2>5, TailIndex
  <2>6. QED
    BY <2>4, <2>5
<1>11. FlushDestroyRemotely => PeerUnborn'
  <2> SUFFICES ASSUME FlushDestroyRemotely PROVE PeerUnborn'
    OBVIOUS
  <2> DEFINE a == Head(action_queue)
  <2>1. /\ action_queue # <<>> /\ action_queue' = Tail(action_queue)
        /\ UNCHANGED <<peer_entity, connected>>
    BY DEF FlushDestroyRemotely, NextAction
  <2>2. \A n \in NodeId : queue_visible'[n] \subseteq queue_visible[n]
    <3>1. \/ queue_visible' = [queue_visible EXCEPT
                                ![a.queue] = queue_visible[a.queue] \ {a.peer}]
          \/ queue_visible' = queue_visible
      BY DEF FlushDestroyRemotely
    <3>2. QED
      BY <3>1
  <2>3. QED
    BY <1>0, <2>1, <2>2, TailIndex
<1>12. FlushBroadcast => PeerUnborn'
  BY <1>0, TailIndex DEF FlushBroadcast, NextAction
<1>13. FlushDestroyNode => PeerUnborn'
  BY <1>0, TailIndex DEF FlushDestroyNode, NextAction
<1>14. FlushEnd => PeerUnborn'
  BY <1>0 DEF FlushEnd
<1>15. WorldFlushBegin => PeerUnborn'
  BY <1>0 DEF WorldFlushBegin
<1>16. \A n \in NodeId : Unregister(n) => PeerUnborn'
  BY <1>0 DEF Unregister, Push, DestroyNode
<1>17. WorldFlushEnd => PeerUnborn'
  BY <1>0 DEF WorldFlushEnd
<1>18. UNCHANGED vars => PeerUnborn'
  BY <1>0 DEF vars
<1> HIDE DEF TypeOK, PeerUnborn, Life
<1>19. QED
  BY <1>1, <1>2, <1>3, <1>4, <1>5, <1>6, <1>7, <1>8, <1>9, <1>10, <1>11, <1>12, <1>13,
     <1>14, <1>15, <1>16, <1>17, <1>18, NextCases

LEMMA SendingToConnectedStep ==
  ASSUME TypeOK, IInv, [Next]_vars
  PROVE  SendingToConnected'
<1> USE DEF SendingToConnected
<1>0. SendingToConnected
  BY DEF IInv
<1>1. CASE phase' # "sending"
  BY <1>1
<1>2. FlushBegin => SendingToConnected'
  BY DEF FlushBegin, RetainConnected, is_connected, TypeOK
<1>3. FlushReplicateTo => SendingToConnected'
  <2> SUFFICES ASSUME FlushReplicateTo PROVE SendingToConnected'
    OBVIOUS
  <2> DEFINE a == Head(action_queue)
  <2>1. /\ phase = "sending" /\ UNCHANGED <<peer_entity, connected, node_queues>>
    BY DEF FlushReplicateTo, NextAction
  <2>2. \/ queue_visible' = queue_visible
        \/ /\ queue_visible' = [queue_visible EXCEPT
                                  ![a.queue] = queue_visible[a.queue] \cup {a.peer}]
           /\ is_connected(a.peer)
    BY DEF FlushReplicateTo
  <2>3. CASE queue_visible' = queue_visible
    BY <1>0, <2>1, <2>3 DEF is_connected
  <2>4. CASE /\ queue_visible' = [queue_visible EXCEPT
                                  ![a.queue] = queue_visible[a.queue] \cup {a.peer}]
             /\ is_connected(a.peer)
    <3>1. \A n \in NodeId : queue_visible'[n] \subseteq queue_visible[n] \cup {a.peer}
      BY <2>4 DEF TypeOK
    <3>2. \A p \in Peer : is_connected(p) => is_connected(p)'
      BY <2>1 DEF is_connected
    <3>3. \A p : p = a.peer => is_connected(p)'
      BY <2>1, <2>4 DEF is_connected
    <3>4. ASSUME NEW n \in node_queues', NEW p \in queue_visible'[n]
          PROVE  is_connected(p)'
      <4>1. n \in NodeId /\ n \in node_queues
        BY <2>1 DEF TypeOK
      <4>2. p \in queue_visible[n] \/ p = a.peer
        BY <3>1, <4>1
      <4>3. p \in queue_visible[n] => is_connected(p) /\ p \in Peer
        BY <1>0, <2>1, <4>1 DEF TypeOK
      <4>4. QED
        BY <3>2, <3>3, <4>2, <4>3
    <3>5. QED
      BY <3>4
  <2>5. QED
    BY <2>2, <2>3, <2>4
<1>4. FlushDestroyRemotely => SendingToConnected'
  <2> SUFFICES ASSUME FlushDestroyRemotely PROVE SendingToConnected'
    OBVIOUS
  <2> DEFINE a == Head(action_queue)
  <2>1. /\ phase = "sending" /\ UNCHANGED <<peer_entity, connected, node_queues>>
    BY DEF FlushDestroyRemotely, NextAction
  <2>2. \A n \in NodeId : queue_visible'[n] \subseteq queue_visible[n]
    <3>1. \/ queue_visible' = [queue_visible EXCEPT
                                ![a.queue] = queue_visible[a.queue] \ {a.peer}]
          \/ queue_visible' = queue_visible
      BY DEF FlushDestroyRemotely
    <3>2. QED
      BY <3>1 DEF TypeOK
  <2>3. QED
    BY <1>0, <2>1, <2>2 DEF TypeOK, is_connected
<1>5. FlushBroadcast => SendingToConnected'
  BY <1>0 DEF FlushBroadcast, NextAction, is_connected
<1>6. FlushDestroyNode => SendingToConnected'
  BY <1>0 DEF FlushDestroyNode, NextAction, is_connected, TypeOK
<1>7. UNCHANGED vars => SendingToConnected'
  BY <1>0 DEF vars, is_connected
<1>8. \/ phase' # "sending" \/ FlushBegin \/ UNCHANGED vars
      \/ FlushReplicateTo \/ FlushDestroyRemotely \/ FlushBroadcast \/ FlushDestroyNode
  BY DEF Next, Call, FlushStep, WorldFlushStep, RegisterNode, RegisterPeer, Disconnect,
         CondemnPeer, BroadcastUpdate, CondemnNode, Replicate, DeReplicate, RecvPacket,
         FlushEnd, WorldFlushBegin, WorldFlushEnd, Unregister
<1>9. QED
  BY <1>1, <1>2, <1>3, <1>4, <1>5, <1>6, <1>7, <1>8

----------------------------------------------------------------------------
(* The queue and the lagging visibility set *)

\* A pushed action has the last word on the node and peer it is about.
LEMMA WillSeePush ==
  ASSUME TypeOK, NEW a \in QueuedAction, Push(a), UNCHANGED queue_visible, NEW n, NEW p
  PROVE  WillSee(n, p)' <=> Shows(a, n, p) \/ (WillSee(n, p) /\ ~Hides(a, n, p))
<1> DEFINE k == Len(action_queue) + 1
<1>1. /\ k \in DOMAIN action_queue' /\ action_queue'[k] = a
      /\ k \notin DOMAIN action_queue
      /\ \A i \in DOMAIN action_queue :
           i \in DOMAIN action_queue' /\ action_queue'[i] = action_queue[i] /\ i < k
      /\ \A i \in DOMAIN action_queue' : i # k => i \in DOMAIN action_queue
      /\ \A i \in DOMAIN action_queue' : ~(i > k)
  BY DEF TypeOK, Push
<1> HIDE DEF k
<1>2. Shows(a, n, p) => ~Hides(a, n, p)
  BY DEF Shows, Hides
<1> DEFINE Q == action_queue'
<1>3. WillSee(n, p)' <=> \/ \E i \in DOMAIN Q : /\ Shows(Q[i], n, p)
                                               /\ \A j \in DOMAIN Q : j > i => ~Hides(Q[j], n, p)
                         \/ /\ p \in queue_visible[n]
                            /\ \A i \in DOMAIN Q : ~Hides(Q[i], n, p)
  BY DEF WillSee, Shows, Hides
<1> HIDE DEF Q
<1>4. ASSUME WillSee(n, p)', ~Shows(a, n, p)
      PROVE  WillSee(n, p) /\ ~Hides(a, n, p)
  <2>1. CASE p \in queue_visible[n] /\ \A i \in DOMAIN Q : ~Hides(Q[i], n, p)
    BY <1>1, <2>1 DEF WillSee, Q
  <2>2. CASE \E i \in DOMAIN Q : /\ Shows(Q[i], n, p)
                                 /\ \A j \in DOMAIN Q : j > i => ~Hides(Q[j], n, p)
    <3>1. PICK i \in DOMAIN Q : /\ Shows(Q[i], n, p)
                                /\ \A j \in DOMAIN Q : j > i => ~Hides(Q[j], n, p)
      BY <2>2
    <3>2. i \in DOMAIN action_queue /\ i < k
      BY <1>1, <1>4, <3>1 DEF Q
    <3>3. ~Hides(a, n, p)
      BY <1>1, <3>1, <3>2 DEF Q, k
    <3>4. QED
      BY <1>1, <3>1, <3>2, <3>3 DEF WillSee, Q
  <2>3. QED
    BY <1>3, <1>4, <2>1, <2>2
<1>5. ASSUME Shows(a, n, p) PROVE WillSee(n, p)'
  BY <1>1, <1>3, <1>5 DEF Q
<1>6. ASSUME WillSee(n, p), ~Hides(a, n, p) PROVE WillSee(n, p)'
  <2>1. \A j \in DOMAIN Q : j = k \/ (j \in DOMAIN action_queue /\ Q[j] = action_queue[j])
    BY <1>1 DEF Q
  <2>2. CASE p \in queue_visible[n] /\ \A i \in DOMAIN action_queue :
                                          ~Hides(action_queue[i], n, p)
    BY <1>1, <1>3, <1>6, <2>1, <2>2 DEF Q
  <2>3. CASE \E i \in DOMAIN action_queue :
               /\ Shows(action_queue[i], n, p)
               /\ \A j \in DOMAIN action_queue : j > i => ~Hides(action_queue[j], n, p)
    BY <1>1, <1>3, <1>6, <2>1, <2>3 DEF Q
  <2>4. QED
    BY <1>6, <2>2, <2>3 DEF WillSee
<1>7. QED
  BY <1>2, <1>4, <1>5, <1>6

\* Performing the head of the queue on the lagging set changes nothing in the end.
LEMMA WillSeeTail ==
  ASSUME TypeOK, action_queue # <<>>, action_queue' = Tail(action_queue),
         NEW n, NEW p,
         LET a == Head(action_queue)
         IN p \in queue_visible'[n] <=>
              Shows(a, n, p) \/ (p \in queue_visible[n] /\ ~Hides(a, n, p))
  PROVE  WillSee(n, p)' <=> WillSee(n, p)
<1> DEFINE Q == action_queue'
<1>1. WillSee(n, p)' <=> \/ \E i \in DOMAIN Q : /\ Shows(Q[i], n, p)
                                               /\ \A j \in DOMAIN Q : j > i => ~Hides(Q[j], n, p)
                         \/ /\ p \in queue_visible'[n]
                            /\ \A i \in DOMAIN Q : ~Hides(Q[i], n, p)
  BY DEF WillSee, Shows, Hides
<1>2. /\ Head(action_queue) = action_queue[1] /\ 1 \in DOMAIN action_queue
      /\ \A i \in DOMAIN Q : /\ i \in Nat /\ i + 1 > 1
                             /\ i + 1 \in DOMAIN action_queue
                             /\ Q[i] = action_queue[i + 1]
      /\ \A i \in DOMAIN action_queue : i # 1 =>
           /\ i \in Nat /\ i > 1
           /\ i - 1 \in DOMAIN Q
           /\ Q[i - 1] = action_queue[i]
  BY TailIndex
<1> HIDE DEF Q
<1>3. p \in queue_visible'[n] <=>
        Shows(action_queue[1], n, p) \/ (p \in queue_visible[n] /\ ~Hides(action_queue[1], n, p))
  BY <1>2
<1>4. Shows(action_queue[1], n, p) => ~Hides(action_queue[1], n, p)
  BY DEF Shows, Hides
<1>5. ASSUME WillSee(n, p)' PROVE WillSee(n, p)
  <2>1. CASE \E i \in DOMAIN Q : /\ Shows(Q[i], n, p)
                                 /\ \A j \in DOMAIN Q : j > i => ~Hides(Q[j], n, p)
    <3>1. PICK i \in DOMAIN Q : /\ Shows(Q[i], n, p)
                                /\ \A j \in DOMAIN Q : j > i => ~Hides(Q[j], n, p)
      BY <2>1
    <3>2. ASSUME NEW j \in DOMAIN action_queue, j > i + 1
          PROVE  ~Hides(action_queue[j], n, p)
      <4>1. j # 1 /\ j - 1 > i
        BY <1>2, <3>2
      <4>2. QED
        BY <1>2, <3>1, <4>1
    <3>3. QED
      BY <1>2, <3>1, <3>2 DEF WillSee
  <2>2. CASE p \in queue_visible'[n] /\ \A i \in DOMAIN Q : ~Hides(Q[i], n, p)
    <3>1. \A j \in DOMAIN action_queue : j # 1 => ~Hides(action_queue[j], n, p)
      BY <1>2, <2>2
    <3>2. CASE Shows(action_queue[1], n, p)
      BY <1>2, <3>1, <3>2 DEF WillSee
    <3>3. CASE p \in queue_visible[n] /\ ~Hides(action_queue[1], n, p)
      BY <1>2, <3>1, <3>3 DEF WillSee
    <3>4. QED
      BY <1>3, <2>2, <3>2, <3>3
  <2>3. QED
    BY <1>1, <1>5, <2>1, <2>2
<1>6. ASSUME WillSee(n, p) PROVE WillSee(n, p)'
  <2>1. CASE \E i \in DOMAIN action_queue :
               /\ Shows(action_queue[i], n, p)
               /\ \A j \in DOMAIN action_queue : j > i => ~Hides(action_queue[j], n, p)
    <3>1. PICK i \in DOMAIN action_queue :
               /\ Shows(action_queue[i], n, p)
               /\ \A j \in DOMAIN action_queue : j > i => ~Hides(action_queue[j], n, p)
      BY <2>1
    <3>2. CASE i = 1
      <4>1. \A j \in DOMAIN Q : ~Hides(Q[j], n, p)
        BY <1>2, <3>1, <3>2
      <4>2. QED
        BY <1>1, <1>3, <3>1, <3>2, <4>1
    <3>3. CASE i # 1
      <4>1. ASSUME NEW j \in DOMAIN Q, j > i - 1
            PROVE  ~Hides(Q[j], n, p)
        <5>1. j + 1 > i
          BY <1>2, <3>3, <4>1
        <5>2. QED
          BY <1>2, <3>1, <5>1
      <4>2. QED
        BY <1>1, <1>2, <3>1, <3>3, <4>1
    <3>4. QED
      BY <3>2, <3>3
  <2>2. CASE /\ p \in queue_visible[n]
             /\ \A i \in DOMAIN action_queue : ~Hides(action_queue[i], n, p)
    BY <1>1, <1>2, <1>3, <2>2
  <2>3. QED
    BY <1>6, <2>1, <2>2 DEF WillSee
<1>7. QED
  BY <1>5, <1>6

\* A step that leaves the queue and the lagging set alone leaves WillSee alone.
LEMMA WillSeeUnchanged ==
  ASSUME UNCHANGED <<action_queue, queue_visible>>, NEW n, NEW p
  PROVE  WillSee(n, p)' <=> WillSee(n, p)
BY DEF WillSee, Shows, Hides

\* The steps of flush: nobody's connection changes and the head is performed.
LEMMA QueueAgreesTail ==
  ASSUME TypeOK, QueueAgrees, action_queue # <<>>, action_queue' = Tail(action_queue),
         UNCHANGED <<peer_entity, connected, visible_to>>,
         \A n \in NodeId, p \in Peer : is_connected(p) =>
           LET a == Head(action_queue)
           IN p \in queue_visible'[n] <=>
                Shows(a, n, p) \/ (p \in queue_visible[n] /\ ~Hides(a, n, p))
  PROVE  QueueAgrees'
<1> SUFFICES ASSUME NEW n \in NodeId, NEW p \in Peer, is_connected(p)'
             PROVE  WillSee(n, p)' <=> p \in visible_to'[n]
  BY DEF QueueAgrees
<1>1. is_connected(p)
  BY DEF is_connected
<1>2. WillSee(n, p)' <=> WillSee(n, p)
  BY <1>1, WillSeeTail
<1>3. QED
  BY <1>1, <1>2 DEF QueueAgrees

LEMMA QueueAgreesStep ==
  ASSUME TypeOK, IInv, [Next]_vars
  PROVE  QueueAgrees'
<1> USE DEF IInv
<1>1. CASE /\ UNCHANGED <<action_queue, queue_visible>>
           /\ \A p \in Peer : is_connected(p)' => is_connected(p)
           /\ \A n \in NodeId : \A p \in Peer :
                is_connected(p)' => (p \in visible_to'[n] <=> p \in visible_to[n])
  BY <1>1, WillSeeUnchanged DEF QueueAgrees
<1>2. RegisterNode => QueueAgrees'
  BY <1>1 DEF RegisterNode, is_connected
<1>3. \A p \in Peer : RegisterPeer(p) => QueueAgrees'
  <2> SUFFICES ASSUME NEW p \in Peer, RegisterPeer(p),
                      NEW m \in NodeId, NEW q \in Peer, is_connected(q)'
               PROVE  WillSee(m, q)' <=> q \in visible_to'[m]
    BY DEF QueueAgrees
  <2>1. WillSee(m, q)' <=> WillSee(m, q)
    BY WillSeeUnchanged DEF RegisterPeer
  <2>2. CASE q = p
    <3>1. peer_entity[p] = "none"
      BY DEF RegisterPeer
    <3>2. ~WillSee(m, p)
      BY <3>1 DEF WillSee, Shows, PeerUnborn, TypeOK
    <3>3. p \notin visible_to[m]
      BY <3>1 DEF VisibilitySymmetric, is_connected, Alive
    <3>4. QED
      BY <2>1, <2>2, <3>2, <3>3 DEF RegisterPeer
  <2>3. CASE q # p
    BY <2>1, <2>3 DEF RegisterPeer, QueueAgrees, is_connected, TypeOK
  <2>4. QED
    BY <2>2, <2>3
<1>4. \A p \in Peer : Disconnect(p) => QueueAgrees'
  BY <1>1 DEF Disconnect, DropPeers, is_connected, TypeOK
<1>5. \A p \in Peer : CondemnPeer(p) => QueueAgrees'
  BY <1>1 DEF CondemnPeer, is_connected, TypeOK, Alive
<1>6. \A n \in NodeId : BroadcastUpdate(n) => QueueAgrees'
  <2> SUFFICES ASSUME NEW n \in NodeId, BroadcastUpdate(n),
                      NEW m \in NodeId, NEW q \in Peer, is_connected(q)'
               PROVE  WillSee(m, q)' <=> q \in visible_to'[m]
    BY DEF QueueAgrees
  <2> DEFINE a == Broadcast(n, value[n] + 1)
  <2>1. a \in QueuedAction /\ Push(a) /\ UNCHANGED <<queue_visible, visible_to>>
    BY RpcServerAssumption DEF BroadcastUpdate, Broadcast, QueuedAction, TypeOK, Value
  <2>2. ~Shows(a, m, q) /\ ~Hides(a, m, q)
    BY DEF Shows, Hides, Broadcast
  <2>3. is_connected(q)
    BY DEF BroadcastUpdate, is_connected
  <2> HIDE DEF a
  <2>4. QED
    BY <2>1, <2>2, <2>3, WillSeePush DEF QueueAgrees
<1>7. \A n \in NodeId : CondemnNode(n) => QueueAgrees'
  BY <1>1 DEF CondemnNode, is_connected
<1>8. \A n \in NodeId, p \in Peer : Replicate(n, p) => QueueAgrees'
  <2> SUFFICES ASSUME NEW n \in NodeId, NEW p \in Peer, Replicate(n, p),
                      NEW m \in NodeId, NEW q \in Peer, is_connected(q)'
               PROVE  WillSee(m, q)' <=> q \in visible_to'[m]
    BY DEF QueueAgrees
  <2> DEFINE a == ReplicateTo(n, p, value[n])
  <2>1. a \in QueuedAction /\ Push(a) /\ UNCHANGED queue_visible
    BY DEF Replicate, ReplicateTo, QueuedAction, TypeOK
  <2>2. (Shows(a, m, q) <=> m = n /\ q = p) /\ ~Hides(a, m, q)
    BY DEF Shows, Hides, ReplicateTo
  <2>3. is_connected(q)
    BY DEF Replicate, is_connected
  <2>4. q \in visible_to'[m] <=> q \in visible_to[m] \/ (m = n /\ q = p)
    BY DEF Replicate, TypeOK
  <2> HIDE DEF a
  <2>5. QED
    BY <2>1, <2>2, <2>3, <2>4, WillSeePush DEF QueueAgrees
<1>9. \A n \in NodeId, p \in Peer : DeReplicate(n, p) => QueueAgrees'
  <2> SUFFICES ASSUME NEW n \in NodeId, NEW p \in Peer, DeReplicate(n, p),
                      NEW m \in NodeId, NEW q \in Peer, is_connected(q)'
               PROVE  WillSee(m, q)' <=> q \in visible_to'[m]
    BY DEF QueueAgrees
  <2> DEFINE a == DestroyRemotely(n, p)
  <2>1. a \in QueuedAction /\ Push(a) /\ UNCHANGED queue_visible
    BY DEF DeReplicate, DestroyRemotely, QueuedAction, TypeOK
  <2>2. (Hides(a, m, q) <=> m = n /\ q = p) /\ ~Shows(a, m, q)
    BY DEF Shows, Hides, DestroyRemotely
  <2>3. is_connected(q)
    BY DEF DeReplicate, is_connected
  <2>4. q \in visible_to'[m] <=> q \in visible_to[m] /\ ~(m = n /\ q = p)
    BY DEF DeReplicate, TypeOK
  <2> HIDE DEF a
  <2>5. QED
    BY <2>1, <2>2, <2>3, <2>4, WillSeePush DEF QueueAgrees
<1>10. FlushBegin => QueueAgrees'
  <2> SUFFICES ASSUME FlushBegin, NEW n \in NodeId, NEW p \in Peer, is_connected(p)'
               PROVE  WillSee(n, p)' <=> p \in visible_to'[n]
    BY DEF QueueAgrees
  <2>1. is_connected(p) /\ (p \in queue_visible'[n] <=> p \in queue_visible[n])
    BY DEF FlushBegin, RetainConnected, is_connected, TypeOK
  <2>2. WillSee(n, p)' <=> WillSee(n, p)
    BY <2>1 DEF FlushBegin, WillSee, Shows, Hides
  <2>3. QED
    BY <2>1, <2>2 DEF FlushBegin, QueueAgrees
<1>11. FlushReplicateTo => QueueAgrees'
  <2> SUFFICES ASSUME FlushReplicateTo PROVE QueueAgrees'
    OBVIOUS
  <2> DEFINE a == Head(action_queue)
  <2>1. /\ action_queue # <<>> /\ action_queue' = Tail(action_queue)
        /\ a.op = "ReplicateTo" /\ UNCHANGED <<peer_entity, connected, visible_to>>
    BY DEF FlushReplicateTo, NextAction
  <2>2. a.queue \in NodeId
    BY <2>1, NextActionType DEF TypeOK, QueuedAction
  <2>3. ASSUME NEW n \in NodeId, NEW p \in Peer, is_connected(p)
        PROVE  p \in queue_visible'[n] <=>
                 Shows(a, n, p) \/ (p \in queue_visible[n] /\ ~Hides(a, n, p))
    <3>1. ~Hides(a, n, p) /\ (Shows(a, n, p) <=> a.queue = n /\ a.peer = p)
      BY <2>1 DEF Shows, Hides
    <3>2. CASE queue_visible' = [queue_visible EXCEPT
                                   ![a.queue] = queue_visible[a.queue] \cup {a.peer}]
      BY <2>2, <3>1, <3>2 DEF TypeOK
    <3>3. CASE ~is_connected(a.peer) /\ queue_visible' = queue_visible
      BY <2>3, <3>1, <3>3
    <3>4. QED
      BY <3>2, <3>3 DEF FlushReplicateTo
  <2>4. QED
    BY <2>1, <2>3, QueueAgreesTail
<1>12. FlushDestroyRemotely => QueueAgrees'
  <2> SUFFICES ASSUME FlushDestroyRemotely PROVE QueueAgrees'
    OBVIOUS
  <2> DEFINE a == Head(action_queue)
  <2>1. /\ action_queue # <<>> /\ action_queue' = Tail(action_queue)
        /\ a.op = "DestroyRemotely" /\ UNCHANGED <<peer_entity, connected, visible_to>>
    BY DEF FlushDestroyRemotely, NextAction
  <2>2. a.queue \in NodeId
    BY <2>1, NextActionType DEF TypeOK, QueuedAction
  <2>3. ASSUME NEW n \in NodeId, NEW p \in Peer, is_connected(p)
        PROVE  p \in queue_visible'[n] <=>
                 Shows(a, n, p) \/ (p \in queue_visible[n] /\ ~Hides(a, n, p))
    <3>1. ~Shows(a, n, p) /\ (Hides(a, n, p) <=> a.queue = n /\ a.peer = p)
      BY <2>1 DEF Shows, Hides
    <3>2. CASE queue_visible' = [queue_visible EXCEPT
                                   ![a.queue] = queue_visible[a.queue] \ {a.peer}]
      BY <2>2, <3>1, <3>2 DEF TypeOK
    <3>3. CASE ~is_connected(a.peer) /\ queue_visible' = queue_visible
      BY <2>3, <3>1, <3>3
    <3>4. QED
      BY <3>2, <3>3 DEF FlushDestroyRemotely
  <2>4. QED
    BY <2>1, <2>3, QueueAgreesTail
<1>13. FlushBroadcast => QueueAgrees'
  BY QueueAgreesTail DEF FlushBroadcast, NextAction, Shows, Hides
<1>14. FlushDestroyNode => QueueAgrees'
  <2> SUFFICES ASSUME FlushDestroyNode PROVE QueueAgrees'
    OBVIOUS
  <2> DEFINE a == Head(action_queue)
  <2>1. /\ action_queue # <<>> /\ action_queue' = Tail(action_queue)
        /\ a.op = "DestroyNode" /\ UNCHANGED <<peer_entity, connected, visible_to>>
        /\ queue_visible' = [queue_visible EXCEPT ![a.queue] = {}]
    BY DEF FlushDestroyNode, NextAction
  <2>2. ASSUME NEW n \in NodeId, NEW p \in Peer
        PROVE  p \in queue_visible'[n] <=>
                 Shows(a, n, p) \/ (p \in queue_visible[n] /\ ~Hides(a, n, p))
    BY <2>1 DEF Shows, Hides, TypeOK
  <2>3. QED
    BY <2>1, <2>2, QueueAgreesTail
<1>15. FlushEnd => QueueAgrees'
  BY <1>1 DEF FlushEnd, is_connected
<1>16. WorldFlushBegin => QueueAgrees'
  BY <1>1 DEF WorldFlushBegin, is_connected
<1>17. \A n \in NodeId : Unregister(n) => QueueAgrees'
  <2> SUFFICES ASSUME NEW n \in NodeId, Unregister(n),
                      NEW m \in NodeId, NEW q \in Peer, is_connected(q)'
               PROVE  WillSee(m, q)' <=> q \in visible_to'[m]
    BY DEF QueueAgrees
  <2> DEFINE a == DestroyNode(n)
  <2>1. a \in QueuedAction /\ Push(a) /\ UNCHANGED queue_visible
    BY DEF Unregister, DestroyNode, QueuedAction
  <2>2. (Hides(a, m, q) <=> m = n) /\ ~Shows(a, m, q)
    BY DEF Shows, Hides, DestroyNode
  <2>3. is_connected(q)
    BY DEF Unregister, is_connected
  <2>4. q \in visible_to'[m] <=> q \in visible_to[m] /\ m # n
    BY DEF Unregister, TypeOK
  <2> HIDE DEF a
  <2>5. QED
    BY <2>1, <2>2, <2>3, <2>4, WillSeePush DEF QueueAgrees
<1>18. WorldFlushEnd => QueueAgrees'
  BY <1>1 DEF WorldFlushEnd, DropPeers, is_connected, TypeOK, Alive
<1>19. UNCHANGED vars => QueueAgrees'
  BY <1>1 DEF vars, is_connected
<1>20. QED
  BY <1>2, <1>3, <1>4, <1>5, <1>6, <1>7, <1>8, <1>9, <1>10, <1>11, <1>12, <1>13, <1>14,
     <1>15, <1>16, <1>17, <1>18, <1>19, NextCases

----------------------------------------------------------------------------
(* The theorems *)

LEMMA Invariance == Spec => [](TypeOK /\ IInv)
<1>1. TypeOK /\ IInv /\ [Next]_vars => IInv'
  BY VisibilityStep, NodeLifeStep, QueueAliveStep, QueueOfNodeStep, PeerUnbornStep,
     SendingToConnectedStep, QueueAgreesStep DEF IInv
<1>2. QED
  BY TypeCorrect, InitIInv, <1>1, PTL DEF Spec

\* visible_to and vis_set always describe one relation between registered nodes and
\* connected peers.
THEOREM VisibilityCorrect == Spec => []VisibilitySymmetric
<1>1. IInv => VisibilitySymmetric
  BY DEF IInv
<1>2. QED
  BY Invariance, <1>1, PTL

\* Flushing the queue on the lagging set gives every connected peer what was asked for.
THEOREM QueueCorrect == Spec => []QueueAgrees
<1>1. IInv => QueueAgrees
  BY DEF IInv
<1>2. QED
  BY Invariance, <1>1, PTL

\* No action of the queue refers to a destroyed RpcNodeServerQueue.
THEOREM QueueSafe == Spec => []QueueAlive
<1>1. IInv => QueueAlive
  BY DEF IInv
<1>2. QED
  BY Invariance, <1>1, PTL

\* Only a flush sends, and only to peers that are connected when it does.
LEMMA SendStep ==
  ASSUME TypeOK, IInv, [Next]_vars, NEW p \in Peer, wire'[p] # wire[p]
  PROVE  is_connected(p)
<1>1. CASE FlushReplicateTo
  <2>1. is_connected(Head(action_queue).peer) /\ p \in {Head(action_queue).peer}
    BY <1>1 DEF FlushReplicateTo, SendTo
  <2>2. QED
    BY <2>1
<1>2. CASE FlushDestroyRemotely
  <2>1. is_connected(Head(action_queue).peer) /\ p \in {Head(action_queue).peer}
    BY <1>2 DEF FlushDestroyRemotely, SendTo
  <2>2. QED
    BY <2>1
<1>3. CASE FlushBroadcast \/ FlushDestroyNode
  <2>1. phase = "sending" /\ p \in queue_visible[Head(action_queue).queue]
    BY <1>3 DEF FlushBroadcast, FlushDestroyNode, NextAction, SendTo
  <2>2. Head(action_queue).queue \in node_queues
    <3>1. action_queue # <<>> /\ Head(action_queue) = action_queue[1]
          /\ 1 \in DOMAIN action_queue
      BY <1>3 DEF FlushBroadcast, FlushDestroyNode, NextAction, TypeOK
    <3>2. QED
      BY <3>1 DEF IInv, QueueAlive
  <2>3. QED
    BY <2>1, <2>2 DEF IInv, SendingToConnected
<1>4. CASE UNCHANGED wire
  BY <1>4
<1>5. \/ FlushReplicateTo \/ FlushDestroyRemotely \/ FlushBroadcast \/ FlushDestroyNode
      \/ UNCHANGED wire
  BY DEF Next, Call, FlushStep, WorldFlushStep, RegisterNode, RegisterPeer, Disconnect,
         CondemnPeer, BroadcastUpdate, CondemnNode, Replicate, DeReplicate, RecvPacket,
         FlushBegin, FlushEnd, WorldFlushBegin, WorldFlushEnd, Unregister, vars
<1>6. QED
  BY <1>1, <1>2, <1>3, <1>4, <1>5

\* A packet is handed to the transport only for a peer whose session still stands,
\* although broadcasts do not look: the sweep at the start of flush is enough.
THEOREM SendSafe == Spec => SendOnlyConnected
<1>1. TypeOK /\ IInv /\ [Next]_vars => [\A p \in Peer : wire'[p] # wire[p] => is_connected(p)]_vars
  BY SendStep
<1>2. QED
  BY Invariance, <1>1, PTL DEF Spec, SendOnlyConnected

----------------------------------------------------------------------------
(* The inductive invariant of what is sent *)

\* The action at position i of the queue announces an update of n.
Updates(i, n) == action_queue[i].op = "Broadcast" /\ action_queue[i].queue = n

\* v is the state of n before position k of the queue is performed: the first update of n
\* from there on leads from v to v + 1, and if there is none v is what the server holds.
StateAt(n, k, v) ==
  /\ \A i \in k..Len(action_queue) :
       Updates(i, n) /\ (\A j \in k..(i - 1) : ~Updates(j, n)) => action_queue[i].val = v + 1
  /\ (\A i \in k..Len(action_queue) : ~Updates(i, n)) => v = value[n]

\* The i-th packet of the log is the last one about n.
LastAbout(log, i, n) ==
  /\ i \in DOMAIN log
  /\ log[i].node = n
  /\ \A j \in DOMAIN log : j > i => log[j].node # n

\* Nothing is queued or was sent for a peer that has not been registered.
PeerUnheard ==
  \A p \in Peer : peer_entity[p] = "none" =>
    /\ wire[p] = <<>>
    /\ \A i \in DOMAIN action_queue :
         action_queue[i].op \in {"ReplicateTo", "DestroyRemotely"} => action_queue[i].peer # p

\* A queued ReplicateTo reaches a peer that does not see the node then, and a queued
\* DestroyRemotely one that does.
QueueAlternates ==
  \A p \in Peer : is_connected(p) =>
    \A k \in DOMAIN action_queue :
      LET a == action_queue[k]
      IN /\ a.op = "ReplicateTo" /\ a.peer = p => ~SeesAt(a.queue, p, k - 1)
         /\ a.op = "DestroyRemotely" /\ a.peer = p => SeesAt(a.queue, p, k - 1)

\* A snapshot and an update leave a peer with the state the rest of the queue starts from.
QueueContinues ==
  \A k \in DOMAIN action_queue :
    action_queue[k].op \in {"ReplicateTo", "Broadcast"} =>
      StateAt(action_queue[k].queue, k + 1, action_queue[k].val)

\* queue.visible_to is what the peers were told, and what they were told last is the
\* state the queue starts from.
ToldIsVisible ==
  \A n \in NodeId, p \in Peer : is_connected(p) =>
    (CreatedAt(wire[p], n, Len(wire[p])) <=> p \in queue_visible[n])
ToldIsCurrent ==
  \A n \in NodeId, p \in Peer : is_connected(p) /\ p \in queue_visible[n] =>
    \E i \in DOMAIN wire[p] : LastAbout(wire[p], i, n) /\ StateAt(n, 1, wire[p][i].val)

WireInv ==
  /\ PeerUnheard
  /\ QueueAlternates
  /\ QueueContinues
  /\ ToldIsVisible
  /\ ToldIsCurrent
  /\ WireWellFormed
  /\ NoLostUpdate

LEMMA InitWireInv == Init => WireInv
BY DEF Init, WireInv, PeerUnheard, QueueAlternates, QueueContinues, ToldIsVisible,
       ToldIsCurrent, WireWellFormed, NoLostUpdate, CreatedAt, is_connected, Alive

----------------------------------------------------------------------------
(* The two kinds of step: a call, which may queue an action, and a step of flush *)

\* Connections end, or begin with a registration.
PeersStep ==
  \A p \in Peer :
    /\ is_connected(p)' => is_connected(p) \/ peer_entity[p] = "none"
    /\ peer_entity'[p] = "none" => peer_entity[p] = "none"

\* What a call may queue, and what it then says of the node's state.
Queues(a) ==
  /\ Push(a)
  /\ a.queue \in NodeId
  /\ a.op \in {"ReplicateTo", "DestroyRemotely"} => is_connected(a.peer) /\ a.peer \in Peer
  /\ a.op = "ReplicateTo" => ~WillSee(a.queue, a.peer) /\ a.val = value[a.queue]
  /\ a.op = "DestroyRemotely" => WillSee(a.queue, a.peer)
  /\ a.op = "Broadcast" => /\ value' = [value EXCEPT ![a.queue] = a.val]
                           /\ a.val = value[a.queue] + 1
  /\ a.op # "Broadcast" => value' = value

CallKind ==
  /\ UNCHANGED wire
  /\ PeersStep
  /\ \A n \in NodeId, p \in Peer :
       is_connected(p)' => (p \in queue_visible'[n] <=> p \in queue_visible[n])
  /\ \/ UNCHANGED <<action_queue, value>>
     \/ \E a \in QueuedAction : Queues(a)

\* Whom flush sends the packet for an action to, and which packet it is.
Addressed(a, p) ==
  IF a.op \in {"ReplicateTo", "DestroyRemotely"} THEN a.peer = p
                                                 ELSE p \in queue_visible[a.queue]
FlushKind ==
  LET a == Head(action_queue)
  IN /\ action_queue # <<>>
     /\ action_queue' = Tail(action_queue)
     /\ UNCHANGED <<peer_entity, connected, value>>
     /\ \A n \in NodeId, p \in Peer : is_connected(p) =>
          (p \in queue_visible'[n] <=>
             Shows(a, n, p) \/ (p \in queue_visible[n] /\ ~Hides(a, n, p)))
     /\ wire' = [p \in Peer |-> IF is_connected(p) /\ Addressed(a, p)
                                THEN Append(wire[p], PacketOf(a)) ELSE wire[p]]

LEMMA CallKinds ==
  ASSUME TypeOK, IInv, Call \/ FlushBegin \/ FlushEnd \/ WorldFlushBegin \/ WorldFlushStep
                         \/ UNCHANGED vars
  PROVE  CallKind
<1> USE DEF TypeOK
<1>1. CASE /\ UNCHANGED <<wire, queue_visible, action_queue, value>>
           /\ PeersStep
  BY <1>1 DEF CallKind
<1>2. CASE RegisterNode
  BY <1>1, <1>2 DEF RegisterNode, PeersStep, is_connected
<1>3. ASSUME NEW p \in Peer, RegisterPeer(p) PROVE CallKind
  BY <1>1, <1>3 DEF RegisterPeer, PeersStep, is_connected
<1>4. ASSUME NEW p \in Peer, Disconnect(p) PROVE CallKind
  BY <1>1, <1>4 DEF Disconnect, PeersStep, is_connected
<1>5. ASSUME NEW p \in Peer, CondemnPeer(p) PROVE CallKind
  BY <1>1, <1>5 DEF CondemnPeer, PeersStep, is_connected, Alive
<1>6. ASSUME NEW n \in NodeId, BroadcastUpdate(n) PROVE CallKind
  <2> DEFINE a == Broadcast(n, value[n] + 1)
  <2>1. a \in QueuedAction
    BY <1>6, RpcServerAssumption DEF BroadcastUpdate, Broadcast, QueuedAction, Value
  <2>2. a.op = "Broadcast" /\ a.queue = n /\ a.val = value[n] + 1
    BY DEF Broadcast
  <2>3. Push(a) /\ value' = [value EXCEPT ![n] = a.val]
    BY <1>6, <2>2 DEF BroadcastUpdate
  <2> HIDE DEF a
  <2>4. Queues(a)
    BY <2>2, <2>3 DEF Queues
  <2>5. QED
    BY <1>6, <2>1, <2>4 DEF BroadcastUpdate, CallKind, PeersStep, is_connected
<1>7. ASSUME NEW n \in NodeId, CondemnNode(n) PROVE CallKind
  BY <1>1, <1>7 DEF CondemnNode, PeersStep, is_connected
<1>8. ASSUME NEW n \in NodeId, NEW p \in Peer, Replicate(n, p) PROVE CallKind
  <2> DEFINE a == ReplicateTo(n, p, value[n])
  <2>1. a \in QueuedAction
    BY DEF ReplicateTo, QueuedAction
  <2>2. a.op = "ReplicateTo" /\ a.queue = n /\ a.peer = p /\ a.val = value[n]
    BY DEF ReplicateTo
  <2>3. Push(a) /\ is_connected(p) /\ p \notin visible_to[n] /\ UNCHANGED value
    BY <1>8 DEF Replicate
  <2> HIDE DEF a
  <2>4. ~WillSee(n, p)
    BY <2>3 DEF IInv, QueueAgrees
  <2>5. Queues(a)
    BY <2>2, <2>3, <2>4 DEF Queues
  <2>6. QED
    BY <1>8, <2>1, <2>5 DEF Replicate, CallKind, PeersStep, is_connected
<1>9. ASSUME NEW n \in NodeId, NEW p \in Peer, DeReplicate(n, p) PROVE CallKind
  <2> DEFINE a == DestroyRemotely(n, p)
  <2>1. a \in QueuedAction
    BY DEF DestroyRemotely, QueuedAction
  <2>2. a.op = "DestroyRemotely" /\ a.queue = n /\ a.peer = p
    BY DEF DestroyRemotely
  <2>3. Push(a) /\ is_connected(p) /\ p \in visible_to[n] /\ UNCHANGED value
    BY <1>9 DEF DeReplicate
  <2> HIDE DEF a
  <2>4. WillSee(n, p)
    BY <2>3 DEF IInv, QueueAgrees
  <2>5. Queues(a)
    BY <2>2, <2>3, <2>4 DEF Queues
  <2>6. QED
    BY <1>9, <2>1, <2>5 DEF DeReplicate, CallKind, PeersStep, is_connected
<1>10. ASSUME NEW n \in NodeId, NEW p \in Peer, RecvPacket(p, n) PROVE CallKind
  BY <1>6, <1>10 DEF RecvPacket
<1>11. CASE FlushBegin
  BY <1>11 DEF FlushBegin, RetainConnected, CallKind, PeersStep, is_connected
<1>12. CASE FlushEnd \/ WorldFlushBegin \/ UNCHANGED vars
  BY <1>1, <1>12 DEF FlushEnd, WorldFlushBegin, vars, PeersStep, is_connected
<1>13. ASSUME NEW n \in NodeId, Unregister(n) PROVE CallKind
  <2> DEFINE a == DestroyNode(n)
  <2>1. a \in QueuedAction
    BY DEF DestroyNode, QueuedAction
  <2>2. a.op = "DestroyNode" /\ a.queue = n
    BY DEF DestroyNode
  <2>3. Push(a) /\ UNCHANGED value
    BY <1>13 DEF Unregister
  <2> HIDE DEF a
  <2>4. Queues(a)
    BY <2>2, <2>3 DEF Queues
  <2>5. QED
    BY <1>13, <2>1, <2>4 DEF Unregister, CallKind, PeersStep, is_connected
<1>14. CASE WorldFlushEnd
  BY <1>1, <1>14 DEF WorldFlushEnd, PeersStep, is_connected, Alive
<1>15. QED
  BY <1>2, <1>3, <1>4, <1>5, <1>6, <1>7, <1>8, <1>9, <1>10, <1>11, <1>12, <1>13, <1>14
  DEF Call, WorldFlushStep

LEMMA FlushKinds ==
  ASSUME TypeOK, IInv,
         \/ FlushReplicateTo \/ FlushDestroyRemotely \/ FlushBroadcast \/ FlushDestroyNode
  PROVE  FlushKind
<1> DEFINE a == Head(action_queue)
<1>1. /\ action_queue # <<>> /\ action_queue' = Tail(action_queue)
      /\ phase = "sending" /\ UNCHANGED <<peer_entity, connected, value>>
  BY DEF FlushReplicateTo, FlushDestroyRemotely, FlushBroadcast, FlushDestroyNode, NextAction
<1>2. a \in QueuedAction /\ a.queue \in NodeId /\ a.queue \in node_queues
  <2>1. a \in QueuedAction /\ a = action_queue[1] /\ 1 \in DOMAIN action_queue
    BY <1>1 DEF TypeOK
  <2>2. QED
    BY <2>1 DEF IInv, QueueAlive, QueuedAction
<1>3. \A p \in Peer : p \in queue_visible[a.queue] => is_connected(p)
  BY <1>1, <1>2 DEF IInv, SendingToConnected
<1>4. CASE FlushReplicateTo
  <2>1. a.op = "ReplicateTo"
    BY <1>4 DEF FlushReplicateTo, NextAction
  <2>2. /\ PacketOf(a) = CreateNode(a.queue, a.val)
        /\ \A p \in Peer : Addressed(a, p) <=> p = a.peer
        /\ \A n, p : ~Hides(a, n, p) /\ (Shows(a, n, p) <=> n = a.queue /\ p = a.peer)
    BY <2>1 DEF PacketOf, Addressed, Shows, Hides
  <2>3. CASE /\ is_connected(a.peer)
             /\ SendTo({a.peer}, CreateNode(a.queue, a.val))
             /\ queue_visible' = [queue_visible EXCEPT
                                    ![a.queue] = queue_visible[a.queue] \cup {a.peer}]
    <3>1. wire' = [p \in Peer |-> IF is_connected(p) /\ Addressed(a, p)
                                  THEN Append(wire[p], PacketOf(a)) ELSE wire[p]]
      BY <2>2, <2>3 DEF SendTo
    <3>2. QED
      BY <1>1, <1>2, <2>2, <2>3, <3>1 DEF FlushKind, TypeOK
  <2>4. CASE ~is_connected(a.peer) /\ UNCHANGED <<queue_visible, wire>>
    <3>1. wire' = [p \in Peer |-> IF is_connected(p) /\ Addressed(a, p)
                                  THEN Append(wire[p], PacketOf(a)) ELSE wire[p]]
      BY <2>2, <2>4 DEF TypeOK
    <3>2. QED
      BY <1>1, <1>2, <2>2, <2>4, <3>1 DEF FlushKind, TypeOK
  <2>5. QED
    BY <1>4, <2>3, <2>4 DEF FlushReplicateTo
<1>5. CASE FlushDestroyRemotely
  <2>1. a.op = "DestroyRemotely"
    BY <1>5 DEF FlushDestroyRemotely, NextAction
  <2>2. /\ PacketOf(a) = DeleteNode(a.queue)
        /\ \A p \in Peer : Addressed(a, p) <=> p = a.peer
        /\ \A n, p : ~Shows(a, n, p) /\ (Hides(a, n, p) <=> n = a.queue /\ p = a.peer)
    BY <2>1 DEF PacketOf, Addressed, Shows, Hides
  <2>3. CASE /\ is_connected(a.peer)
             /\ SendTo({a.peer}, DeleteNode(a.queue))
             /\ queue_visible' = [queue_visible EXCEPT
                                    ![a.queue] = queue_visible[a.queue] \ {a.peer}]
    <3>1. wire' = [p \in Peer |-> IF is_connected(p) /\ Addressed(a, p)
                                  THEN Append(wire[p], PacketOf(a)) ELSE wire[p]]
      BY <2>2, <2>3 DEF SendTo
    <3>2. QED
      BY <1>1, <1>2, <2>2, <2>3, <3>1 DEF FlushKind, TypeOK
  <2>4. CASE ~is_connected(a.peer) /\ UNCHANGED <<queue_visible, wire>>
    <3>1. wire' = [p \in Peer |-> IF is_connected(p) /\ Addressed(a, p)
                                  THEN Append(wire[p], PacketOf(a)) ELSE wire[p]]
      BY <2>2, <2>4 DEF TypeOK
    <3>2. QED
      BY <1>1, <1>2, <2>2, <2>4, <3>1 DEF FlushKind, TypeOK
  <2>5. QED
    BY <1>5, <2>3, <2>4 DEF FlushDestroyRemotely
<1>6. CASE FlushBroadcast
  <2>1. a.op = "Broadcast"
    BY <1>6 DEF FlushBroadcast, NextAction
  <2>2. /\ PacketOf(a) = SendMessage(a.queue, a.val)
        /\ \A p \in Peer : Addressed(a, p) <=> p \in queue_visible[a.queue]
        /\ \A n, p : ~Shows(a, n, p) /\ ~Hides(a, n, p)
    BY <2>1 DEF PacketOf, Addressed, Shows, Hides
  <2>3. wire' = [p \in Peer |-> IF is_connected(p) /\ Addressed(a, p)
                                THEN Append(wire[p], PacketOf(a)) ELSE wire[p]]
    BY <1>3, <1>6, <2>2 DEF FlushBroadcast, SendTo
  <2>4. QED
    BY <1>1, <1>6, <2>2, <2>3 DEF FlushKind, FlushBroadcast
<1>7. CASE FlushDestroyNode
  <2>1. a.op = "DestroyNode"
    BY <1>7 DEF FlushDestroyNode, NextAction
  <2>2. /\ PacketOf(a) = DeleteNode(a.queue)
        /\ \A p \in Peer : Addressed(a, p) <=> p \in queue_visible[a.queue]
        /\ \A n, p : ~Shows(a, n, p) /\ (Hides(a, n, p) <=> n = a.queue)
    BY <2>1 DEF PacketOf, Addressed, Shows, Hides
  <2>3. wire' = [p \in Peer |-> IF is_connected(p) /\ Addressed(a, p)
                                THEN Append(wire[p], PacketOf(a)) ELSE wire[p]]
    BY <1>3, <1>7, <2>2 DEF FlushDestroyNode, SendTo
  <2>4. QED
    BY <1>1, <1>2, <1>7, <2>2, <2>3 DEF FlushKind, FlushDestroyNode, TypeOK
<1>8. QED
  BY <1>4, <1>5, <1>6, <1>7

LEMMA StepKinds ==
  ASSUME TypeOK, IInv, [Next]_vars
  PROVE  CallKind \/ FlushKind
BY CallKinds, FlushKinds DEF Next, FlushStep

----------------------------------------------------------------------------
(* One packet more at the end of a log *)

\* The two halves of the property that speak of one peer's log alone.
LogWellFormed(log) ==
  \A k \in DOMAIN log : (log[k].op = "CreateNode") <=> ~CreatedAt(log, log[k].node, k - 1)
LogContinues(log) ==
  \A k \in DOMAIN log :
    log[k].op = "SendMessage" =>
      \E i \in 1..(k - 1) :
        /\ log[i].node = log[k].node
        /\ log[i].val = log[k].val - 1
        /\ \A j \in (i + 1)..(k - 1) : log[j].node # log[k].node

LEMMA AppendIndex ==
  ASSUME NEW log \in Seq(Packet), NEW packet \in Packet
  PROVE  LET long == Append(log, packet)
         IN /\ long \in Seq(Packet)
            /\ Len(log) \in Nat /\ Len(long) = Len(log) + 1
            /\ DOMAIN log = 1..Len(log) /\ DOMAIN long = 1..(Len(log) + 1)
            /\ \A i \in 1..Len(log) : long[i] = log[i]
            /\ long[Len(log) + 1] = packet
OBVIOUS

\* What came before decides what was created before, and a packet about a node decides
\* what is created after it.
LEMMA CreatedAppend ==
  ASSUME NEW log \in Seq(Packet), NEW packet \in Packet, NEW n
  PROVE  LET long == Append(log, packet)
         IN /\ \A k \in 0..Len(log) : CreatedAt(long, n, k) <=> CreatedAt(log, n, k)
            /\ CreatedAt(long, n, Len(long)) <=>
                 \/ packet.op = "CreateNode" /\ packet.node = n
                 \/ /\ CreatedAt(log, n, Len(log))
                    /\ ~(packet.op = "DeleteNode" /\ packet.node = n)
<1> DEFINE long == Append(log, packet)
           k == Len(log) + 1
<1>1. /\ Len(log) \in Nat /\ Len(long) = k /\ long[k] = packet
      /\ \A i \in 1..Len(log) : long[i] = log[i]
  BY AppendIndex
<1> HIDE DEF long
<1>2. \A m \in 0..Len(log) : CreatedAt(long, n, m) <=> CreatedAt(log, n, m)
  BY <1>1 DEF CreatedAt
<1>3. ASSUME CreatedAt(long, n, k), ~(packet.op = "CreateNode" /\ packet.node = n)
      PROVE  CreatedAt(log, n, Len(log)) /\ ~(packet.op = "DeleteNode" /\ packet.node = n)
  <2>1. PICK i \in 1..k : /\ long[i].op = "CreateNode" /\ long[i].node = n
                          /\ \A j \in (i + 1)..k : ~(long[j].op = "DeleteNode" /\ long[j].node = n)
    BY <1>3 DEF CreatedAt
  <2>2. i \in 1..Len(log) /\ k \in (i + 1)..k
    BY <1>1, <1>3, <2>1
  <2>3. QED
    BY <1>1, <2>1, <2>2 DEF CreatedAt
<1>4. ASSUME packet.op = "CreateNode", packet.node = n PROVE CreatedAt(long, n, k)
  <2>1. k \in 1..k /\ \A j \in (k + 1)..k : FALSE
    BY <1>1
  <2>2. QED
    BY <1>1, <1>4, <2>1 DEF CreatedAt
<1>5. ASSUME CreatedAt(log, n, Len(log)), ~(packet.op = "DeleteNode" /\ packet.node = n)
      PROVE  CreatedAt(long, n, k)
  <2>1. PICK i \in 1..Len(log) :
               /\ log[i].op = "CreateNode" /\ log[i].node = n
               /\ \A j \in (i + 1)..Len(log) : ~(log[j].op = "DeleteNode" /\ log[j].node = n)
    BY <1>5 DEF CreatedAt
  <2>2. i \in 1..k /\ \A j \in (i + 1)..k : j \in (i + 1)..Len(log) \/ j = k
    BY <1>1, <2>1
  <2>3. \A j \in (i + 1)..Len(log) : j \in 1..Len(log)
    BY <1>1, <2>1
  <2>4. QED
    BY <1>1, <1>5, <2>1, <2>2, <2>3 DEF CreatedAt
<1>6. CreatedAt(long, n, k) <=>
        \/ packet.op = "CreateNode" /\ packet.node = n
        \/ CreatedAt(log, n, Len(log)) /\ ~(packet.op = "DeleteNode" /\ packet.node = n)
  BY <1>3, <1>4, <1>5
<1>7. QED
  BY <1>1, <1>2, <1>6 DEF long

LEMMA WellFormedAppend ==
  ASSUME NEW log \in Seq(Packet), NEW packet \in Packet, LogWellFormed(log),
         packet.op = "CreateNode" <=> ~CreatedAt(log, packet.node, Len(log))
  PROVE  LogWellFormed(Append(log, packet))
<1> DEFINE long == Append(log, packet)
<1>1. /\ Len(log) \in Nat /\ long[Len(log) + 1] = packet
      /\ DOMAIN log = 1..Len(log) /\ DOMAIN long = 1..(Len(log) + 1)
      /\ \A i \in 1..Len(log) : long[i] = log[i]
  BY AppendIndex
<1>2. \A n : \A k \in 0..Len(log) : CreatedAt(long, n, k) <=> CreatedAt(log, n, k)
  BY CreatedAppend
<1> HIDE DEF long
<1>3. SUFFICES ASSUME NEW k \in DOMAIN long
               PROVE  (long[k].op = "CreateNode") <=> ~CreatedAt(long, long[k].node, k - 1)
  BY DEF LogWellFormed, long
<1>4. k - 1 \in 0..Len(log)
  BY <1>1
<1>5. CASE k = Len(log) + 1
  BY <1>1, <1>2, <1>5
<1>6. CASE k \in 1..Len(log)
  BY <1>1, <1>2, <1>4, <1>6 DEF LogWellFormed
<1>7. QED
  BY <1>1, <1>5, <1>6

LEMMA ContinuesAppend ==
  ASSUME NEW log \in Seq(Packet), NEW packet \in Packet, LogContinues(log),
         packet.op = "SendMessage" =>
           \E i \in DOMAIN log : LastAbout(log, i, packet.node) /\ log[i].val = packet.val - 1
  PROVE  LogContinues(Append(log, packet))
<1> DEFINE long == Append(log, packet)
<1>1. /\ Len(log) \in Nat /\ long[Len(log) + 1] = packet
      /\ DOMAIN log = 1..Len(log) /\ DOMAIN long = 1..(Len(log) + 1)
      /\ \A i \in 1..Len(log) : long[i] = log[i]
  BY AppendIndex
<1> HIDE DEF long
<1>2. SUFFICES ASSUME NEW k \in DOMAIN long, long[k].op = "SendMessage"
               PROVE  \E i \in 1..(k - 1) :
                        /\ long[i].node = long[k].node
                        /\ long[i].val = long[k].val - 1
                        /\ \A j \in (i + 1)..(k - 1) : long[j].node # long[k].node
  BY DEF LogContinues, long
<1>3. CASE k = Len(log) + 1
  <2>1. PICK i \in DOMAIN log : LastAbout(log, i, packet.node) /\ log[i].val = packet.val - 1
    BY <1>1, <1>2, <1>3
  <2>2. i \in 1..(k - 1) /\ \A j \in (i + 1)..(k - 1) : j \in DOMAIN log /\ j > i
    BY <1>1, <1>3, <2>1
  <2>3. QED
    BY <1>1, <1>3, <2>1, <2>2 DEF LastAbout
<1>4. CASE k \in 1..Len(log)
  <2>1. PICK i \in 1..(k - 1) :
               /\ log[i].node = log[k].node
               /\ log[i].val = log[k].val - 1
               /\ \A j \in (i + 1)..(k - 1) : log[j].node # log[k].node
    BY <1>1, <1>2, <1>4 DEF LogContinues
  <2>2. i \in 1..Len(log) /\ \A j \in (i + 1)..(k - 1) : j \in 1..Len(log)
    BY <1>1, <1>4, <2>1
  <2>3. QED
    BY <1>1, <1>4, <2>1, <2>2
<1>5. QED
  BY <1>1, <1>3, <1>4

\* A packet is the last about its node, and leaves the last about any other as it was.
LEMMA LastAppend ==
  ASSUME NEW log \in Seq(Packet), NEW packet \in Packet
  PROVE  LET long == Append(log, packet)
         IN /\ LastAbout(long, Len(long), packet.node) /\ long[Len(long)] = packet
            /\ \A n, i : n # packet.node /\ LastAbout(log, i, n) =>
                           LastAbout(long, i, n) /\ long[i] = log[i]
BY AppendIndex DEF LastAbout

----------------------------------------------------------------------------
(* The two ways a queue changes *)

LEMMA PushIndex ==
  ASSUME TypeOK, NEW a \in QueuedAction, Push(a)
  PROVE  /\ Len(action_queue) \in Nat /\ Len(action_queue') = Len(action_queue) + 1
         /\ DOMAIN action_queue = 1..Len(action_queue)
         /\ DOMAIN action_queue' = 1..(Len(action_queue) + 1)
         /\ \A i \in 1..Len(action_queue) : action_queue'[i] = action_queue[i]
         /\ action_queue'[Len(action_queue) + 1] = a
BY DEF TypeOK, Push

LEMMA TailLen ==
  ASSUME TypeOK, action_queue # <<>>, action_queue' = Tail(action_queue)
  PROVE  /\ Len(action_queue) \in Nat /\ Len(action_queue') \in Nat
         /\ Len(action_queue) = Len(action_queue') + 1
         /\ DOMAIN action_queue = 1..Len(action_queue)
         /\ DOMAIN action_queue' = 1..Len(action_queue')
         /\ \A i \in 1..Len(action_queue') : action_queue'[i] = action_queue[i + 1]
         /\ Head(action_queue) = action_queue[1]
BY DEF TypeOK

LEMMA SeesAtEnds ==
  ASSUME TypeOK, NEW n, NEW p
  PROVE  /\ SeesAt(n, p, 0) <=> p \in queue_visible[n]
         /\ SeesAt(n, p, Len(action_queue)) <=> WillSee(n, p)
<1>1. Len(action_queue) \in Nat /\ DOMAIN action_queue = 1..Len(action_queue)
  BY DEF TypeOK
<1>2. SeesAt(n, p, 0) <=> p \in queue_visible[n]
  BY DEF SeesAt
<1>3. \A i \in 1..Len(action_queue) : \A j :
        j \in (i + 1)..Len(action_queue) <=> j \in 1..Len(action_queue) /\ j > i
  BY <1>1
<1>4. QED
  BY <1>1, <1>2, <1>3 DEF SeesAt, WillSee

\* What lies behind a position does not matter to it.
LEMMA SeesAtPush ==
  ASSUME TypeOK, NEW a \in QueuedAction, Push(a), NEW n, NEW p,
         p \in queue_visible'[n] <=> p \in queue_visible[n],
         NEW k \in 0..Len(action_queue)
  PROVE  SeesAt(n, p, k)' <=> SeesAt(n, p, k)
<1> DEFINE Q == action_queue'
<1>1. Len(action_queue) \in Nat /\ \A i \in 1..k : Q[i] = action_queue[i]
  BY PushIndex
<1>2. SeesAt(n, p, k)' <=> \/ \E i \in 1..k : /\ Shows(Q[i], n, p)
                                             /\ \A j \in (i + 1)..k : ~Hides(Q[j], n, p)
                           \/ /\ p \in queue_visible'[n]
                              /\ \A i \in 1..k : ~Hides(Q[i], n, p)
  BY DEF SeesAt, Shows, Hides
<1> HIDE DEF Q
<1>3. \A i \in 1..k : \A j \in (i + 1)..k : j \in 1..k
  BY <1>1
<1>4. QED
  BY <1>1, <1>2, <1>3 DEF SeesAt

\* Once the head is performed, a position sees what the next one saw.
LEMMA SeesAtTail ==
  ASSUME TypeOK, action_queue # <<>>, action_queue' = Tail(action_queue), NEW n, NEW p,
         LET a == Head(action_queue)
         IN p \in queue_visible'[n] <=>
              Shows(a, n, p) \/ (p \in queue_visible[n] /\ ~Hides(a, n, p)),
         NEW k \in 0..Len(action_queue')
  PROVE  SeesAt(n, p, k)' <=> SeesAt(n, p, k + 1)
<1> DEFINE Q == action_queue'
           R == action_queue
<1>1. /\ Len(R) \in Nat /\ Len(Q) \in Nat /\ k \in Nat
      /\ \A i \in 1..k : Q[i] = R[i + 1]
      /\ Head(R) = R[1]
  BY TailLen
<1>2. SeesAt(n, p, k)' <=> \/ \E i \in 1..k : /\ Shows(Q[i], n, p)
                                             /\ \A j \in (i + 1)..k : ~Hides(Q[j], n, p)
                           \/ /\ p \in queue_visible'[n]
                              /\ \A i \in 1..k : ~Hides(Q[i], n, p)
  BY DEF SeesAt, Shows, Hides
<1>3. SeesAt(n, p, k + 1) <=>
        \/ \E i \in 1..(k + 1) : /\ Shows(R[i], n, p)
                                 /\ \A j \in (i + 1)..(k + 1) : ~Hides(R[j], n, p)
        \/ p \in queue_visible[n] /\ \A i \in 1..(k + 1) : ~Hides(R[i], n, p)
  BY DEF SeesAt
<1>4. p \in queue_visible'[n] <=>
        Shows(R[1], n, p) \/ (p \in queue_visible[n] /\ ~Hides(R[1], n, p))
  BY <1>1
<1> HIDE DEF Q, R
<1>5. /\ \A i \in 1..k : i + 1 \in 1..(k + 1) /\ Q[i] = R[i + 1]
      /\ \A i \in 1..(k + 1) : i = 1 \/ (i - 1 \in 1..k /\ Q[i - 1] = R[i])
      /\ 1 \in 1..(k + 1)
  <2>1. \A i \in 1..(k + 1) : i = 1 \/ (i - 1 \in 1..k /\ (i - 1) + 1 = i)
    BY <1>1
  <2>2. QED
    BY <1>1, <2>1
<1>6. /\ \A i \in 1..k, j \in 1..k : j \in (i + 1)..k <=> j + 1 \in (i + 2)..(k + 1)
      /\ \A i \in 1..k : \A j \in (i + 1)..k : j \in 1..k
      /\ \A i \in 2..(k + 1) : \A j \in (i + 1)..(k + 1) :
           j - 1 \in i..k /\ j \in 1..(k + 1) /\ j # 1
      /\ \A j \in 2..(k + 1) : j \in 1..(k + 1) /\ j # 1
  BY <1>1
<1>7. (\E i \in 1..k : Shows(Q[i], n, p) /\ \A j \in (i + 1)..k : ~Hides(Q[j], n, p))
      <=> \E i \in 2..(k + 1) : /\ Shows(R[i], n, p)
                                /\ \A j \in (i + 1)..(k + 1) : ~Hides(R[j], n, p)
  <2>1. ASSUME NEW i \in 1..k, Shows(Q[i], n, p), \A j \in (i + 1)..k : ~Hides(Q[j], n, p)
        PROVE  /\ i + 1 \in 2..(k + 1)
               /\ Shows(R[i + 1], n, p)
               /\ \A j \in ((i + 1) + 1)..(k + 1) : ~Hides(R[j], n, p)
    <3>1. \A j \in ((i + 1) + 1)..(k + 1) : j - 1 \in (i + 1)..k /\ j \in 1..(k + 1) /\ j # 1
      BY <1>1
    <3>2. i + 1 \in 2..(k + 1)
      BY <1>1
    <3>3. QED
      BY <1>5, <2>1, <3>1, <3>2
  <2>2. ASSUME NEW i \in 2..(k + 1), Shows(R[i], n, p),
               \A j \in (i + 1)..(k + 1) : ~Hides(R[j], n, p)
        PROVE  /\ i - 1 \in 1..k
               /\ Shows(Q[i - 1], n, p)
               /\ \A j \in ((i - 1) + 1)..k : ~Hides(Q[j], n, p)
    <3>1. \A j \in ((i - 1) + 1)..k : j \in 1..k /\ j + 1 \in (i + 1)..(k + 1)
      BY <1>1
    <3>2. i - 1 \in 1..k /\ Q[i - 1] = R[i]
      BY <1>5, <1>6
    <3>3. QED
      BY <1>5, <2>2, <3>1, <3>2
  <2>3. QED
    BY <2>1, <2>2
<1>8. (\A i \in 1..k : ~Hides(Q[i], n, p)) <=> (\A j \in 2..(k + 1) : ~Hides(R[j], n, p))
  <2>1. \A i \in 1..k : i + 1 \in 2..(k + 1)
    BY <1>1
  <2>2. QED
    BY <1>5, <1>6, <2>1
<1>9. SeesAt(n, p, k + 1) <=>
        \/ \E i \in 2..(k + 1) : /\ Shows(R[i], n, p)
                                 /\ \A j \in (i + 1)..(k + 1) : ~Hides(R[j], n, p)
        \/ Shows(R[1], n, p) /\ \A j \in 2..(k + 1) : ~Hides(R[j], n, p)
        \/ p \in queue_visible[n] /\ ~Hides(R[1], n, p) /\ \A j \in 2..(k + 1) : ~Hides(R[j], n, p)
  <2>1. \A i : i \in 1..(k + 1) <=> i = 1 \/ i \in 2..(k + 1)
    BY <1>1
  <2>2. (1 + 1)..(k + 1) = 2..(k + 1)
    OBVIOUS
  <2>3. QED
    BY <1>3, <2>1, <2>2
<1>10. QED
  BY <1>2, <1>4, <1>7, <1>8, <1>9

\* A call keeps what the queue says of a node's state, at every position.
LEMMA StateAtCall ==
  ASSUME TypeOK, CallKind, NEW n \in NodeId, NEW k \in 1..(Len(action_queue) + 1), NEW v,
         StateAt(n, k, v)
  PROVE  StateAt(n, k, v)'
<1> DEFINE Q == action_queue'
           IsUpdate(i) == Q[i].op = "Broadcast" /\ Q[i].queue = n
           L == Len(action_queue)
<1>1. StateAt(n, k, v)' <=>
        /\ \A i \in k..Len(Q) :
             IsUpdate(i) /\ (\A j \in k..(i - 1) : ~IsUpdate(j)) => Q[i].val = v + 1
        /\ (\A i \in k..Len(Q) : ~IsUpdate(i)) => v = value'[n]
  BY DEF StateAt, Updates
<1>2. CASE UNCHANGED <<action_queue, value>>
  BY <1>1, <1>2 DEF StateAt, Updates
<1>3. ASSUME NEW a \in QueuedAction, Queues(a) PROVE StateAt(n, k, v)'
  <2>1. /\ L \in Nat /\ Len(Q) = L + 1
        /\ \A i \in 1..L : Q[i] = action_queue[i]
        /\ Q[L + 1] = a
    BY <1>3, PushIndex DEF Queues
  <2>2. \A i \in k..L : i \in 1..L /\ (IsUpdate(i) <=> Updates(i, n))
    BY <2>1 DEF Updates
  <2> HIDE DEF Q, L
  <2>3. \A i \in k..(L + 1) : i \in k..L \/ i = L + 1
    BY <2>1
  <2>4. \A i \in k..L : \A j \in k..(i - 1) : j \in k..L
    BY <2>1
  <2>5. ASSUME NEW i \in k..(L + 1), IsUpdate(i), \A j \in k..(i - 1) : ~IsUpdate(j)
        PROVE  Q[i].val = v + 1
    <3>1. CASE i \in k..L
      BY <2>1, <2>2, <2>4, <2>5, <3>1 DEF StateAt, L
    <3>2. CASE i = L + 1
      <4>1. \A j \in k..L : ~Updates(j, n)
        BY <2>1, <2>2, <2>5, <3>2
      <4>2. v = value[n]
        BY <4>1 DEF StateAt, L
      <4>3. QED
        BY <1>3, <2>1, <2>5, <3>2, <4>2 DEF Queues
    <3>3. QED
      BY <2>3, <3>1, <3>2
  <2>6. ASSUME \A i \in k..(L + 1) : ~IsUpdate(i)
        PROVE  v = value'[n]
    <3>1. L + 1 \in k..(L + 1) /\ \A i \in k..L : i \in k..(L + 1)
      BY <2>1 DEF L
    <3>2. ~(a.op = "Broadcast" /\ a.queue = n)
      BY <2>1, <2>6, <3>1
    <3>3. v = value[n]
      BY <2>2, <2>6, <3>1 DEF StateAt, L
    <3>4. QED
      BY <1>3, <3>2, <3>3 DEF Queues, TypeOK
  <2>7. QED
    BY <1>1, <2>1, <2>5, <2>6 DEF Q
<1>4. QED
  BY <1>2, <1>3 DEF CallKind

\* Taking the head of the queue shifts its positions by one.
LEMMA StateAtTail ==
  ASSUME TypeOK, action_queue # <<>>, action_queue' = Tail(action_queue), UNCHANGED value,
         NEW n, NEW k \in 1..(Len(action_queue') + 1), NEW v, StateAt(n, k + 1, v)
  PROVE  StateAt(n, k, v)'
<1> DEFINE Q == action_queue'
           R == action_queue
           IsUpdate(i) == Q[i].op = "Broadcast" /\ Q[i].queue = n
<1>1. StateAt(n, k, v)' <=>
        /\ \A i \in k..Len(Q) :
             IsUpdate(i) /\ (\A j \in k..(i - 1) : ~IsUpdate(j)) => Q[i].val = v + 1
        /\ (\A i \in k..Len(Q) : ~IsUpdate(i)) => v = value'[n]
  BY DEF StateAt, Updates
<1>2. /\ Len(Q) \in Nat /\ Len(R) = Len(Q) + 1
      /\ \A i \in 1..Len(Q) : Q[i] = R[i + 1]
  BY TailLen
<1>3. \A i \in k..Len(Q) : i + 1 \in (k + 1)..Len(R) /\ (IsUpdate(i) <=> Updates(i + 1, n))
                           /\ Q[i] = R[i + 1]
  BY <1>2 DEF Updates
<1>4. \A i \in (k + 1)..Len(R) : i - 1 \in k..Len(Q) /\ (IsUpdate(i - 1) <=> Updates(i, n))
  <2>1. \A i \in (k + 1)..Len(R) : i - 1 \in k..Len(Q) /\ (i - 1) + 1 = i
    BY <1>2
  <2>2. QED
    BY <1>3, <2>1
<1> HIDE DEF Q, R, IsUpdate
<1>5. ASSUME NEW i \in k..Len(Q), IsUpdate(i), \A j \in k..(i - 1) : ~IsUpdate(j)
      PROVE  Q[i].val = v + 1
  <2>1. \A j \in (k + 1)..((i + 1) - 1) : j \in (k + 1)..Len(R) /\ j - 1 \in k..(i - 1)
    BY <1>2
  <2>2. Updates(i + 1, n) /\ \A j \in (k + 1)..((i + 1) - 1) : ~Updates(j, n)
    BY <1>3, <1>4, <1>5, <2>1
  <2>3. R[i + 1].val = v + 1
    BY <1>3, <2>2 DEF StateAt, R
  <2>4. QED
    BY <1>3, <2>3
<1>6. (\A i \in k..Len(Q) : ~IsUpdate(i)) => v = value'[n]
  BY <1>4 DEF StateAt, R
<1>7. QED
  BY <1>1, <1>5, <1>6 DEF Q, IsUpdate

\* The head is the next update of its node, and no matter to the others.
LEMMA StateAtHead ==
  ASSUME TypeOK, action_queue # <<>>, NEW n, NEW v, StateAt(n, 1, v)
  PROVE  /\ Updates(1, n) => action_queue[1].val = v + 1
         /\ ~Updates(1, n) => StateAt(n, 2, v)
<1>1. Len(action_queue) \in Nat /\ Len(action_queue) > 0
  BY DEF TypeOK
<1>2. Updates(1, n) => action_queue[1].val = v + 1
  <2>1. 1 \in 1..Len(action_queue) /\ \A j \in 1..(1 - 1) : FALSE
    BY <1>1
  <2>2. QED
    BY <2>1 DEF StateAt
<1>3. ASSUME ~Updates(1, n) PROVE StateAt(n, 2, v)
  <2>1. \A i \in 2..Len(action_queue) : i \in 1..Len(action_queue)
    BY <1>1
  <2>2. \A i \in 1..Len(action_queue) : i = 1 \/ i \in 2..Len(action_queue)
    BY <1>1
  <2>3. \A i \in 2..Len(action_queue) : \A j \in 1..(i - 1) : j = 1 \/ j \in 2..(i - 1)
    BY <1>1
  <2>4. QED
    BY <1>3, <2>1, <2>2, <2>3 DEF StateAt
<1>4. QED
  BY <1>2, <1>3

----------------------------------------------------------------------------
(* The invariant is kept *)

LEMMA PeerUnheardStep ==
  ASSUME TypeOK, IInv, WireInv, [Next]_vars
  PROVE  PeerUnheard'
<1> SUFFICES ASSUME NEW p \in Peer, peer_entity'[p] = "none"
             PROVE  /\ wire'[p] = <<>>
                    /\ \A i \in DOMAIN action_queue' :
                         action_queue'[i].op \in {"ReplicateTo", "DestroyRemotely"} =>
                           action_queue'[i].peer # p
  BY DEF PeerUnheard
<1>1. CASE CallKind
  <2>1. peer_entity[p] = "none" /\ wire'[p] = wire[p] /\ ~is_connected(p)
    BY <1>1 DEF CallKind, PeersStep, is_connected, Alive
  <2>2. CASE UNCHANGED action_queue
    BY <2>1, <2>2 DEF WireInv, PeerUnheard
  <2>3. ASSUME NEW a \in QueuedAction, Queues(a)
        PROVE  \A i \in DOMAIN action_queue' :
                 action_queue'[i].op \in {"ReplicateTo", "DestroyRemotely"} =>
                   action_queue'[i].peer # p
    <3>1. a.op \in {"ReplicateTo", "DestroyRemotely"} => a.peer # p
      BY <2>1, <2>3 DEF Queues
    <3>2. \A i \in DOMAIN action_queue' :
            \/ action_queue'[i] = a
            \/ i \in DOMAIN action_queue /\ action_queue'[i] = action_queue[i]
      <4>1. Push(a)
        BY <2>3 DEF Queues
      <4>2. QED
        BY <4>1, PushIndex
    <3>3. QED
      BY <2>1, <3>1, <3>2 DEF WireInv, PeerUnheard
  <2>4. QED
    BY <1>1, <2>1, <2>2, <2>3 DEF CallKind, WireInv, PeerUnheard
<1>2. CASE FlushKind
  <2>1. peer_entity[p] = "none" /\ ~is_connected(p)
    BY <1>2 DEF FlushKind, is_connected, Alive
  <2>2. wire'[p] = wire[p]
    BY <1>2, <2>1 DEF FlushKind
  <2>3. action_queue # <<>> /\ action_queue' = Tail(action_queue)
    BY <1>2 DEF FlushKind
  <2>4. \A i \in DOMAIN action_queue' : \E j \in DOMAIN action_queue :
          action_queue'[i] = action_queue[j]
    BY <2>3, TailIndex
  <2>5. QED
    BY <2>1, <2>2, <2>4 DEF WireInv, PeerUnheard
<1>3. QED
  BY <1>1, <1>2, StepKinds

LEMMA QueueAlternatesStep ==
  ASSUME TypeOK, IInv, WireInv, [Next]_vars
  PROVE  QueueAlternates'
<1> DEFINE Q == action_queue'
           Goal(p, k, n) == /\ Q[k].op = "ReplicateTo" /\ Q[k].peer = p => ~SeesAt(n, p, k - 1)'
                            /\ Q[k].op = "DestroyRemotely" /\ Q[k].peer = p =>
                                 SeesAt(n, p, k - 1)'
<1>1. SUFFICES ASSUME NEW p \in Peer, is_connected(p)', NEW k \in DOMAIN Q,
                      NEW n, n = Q[k].queue
               PROVE  Goal(p, k, n)
  BY DEF QueueAlternates, SeesAt
<1>2. CASE CallKind
  <2>1. CASE ~is_connected(p)
    <3>1. peer_entity[p] = "none"
      BY <1>1, <1>2, <2>1 DEF CallKind, PeersStep
    <3>2. \A i \in DOMAIN action_queue :
            action_queue[i].op \in {"ReplicateTo", "DestroyRemotely"} =>
              action_queue[i].peer # p
      BY <3>1 DEF WireInv, PeerUnheard
    <3>3. CASE UNCHANGED action_queue
      BY <3>2, <3>3
    <3>4. ASSUME NEW a \in QueuedAction, Queues(a) PROVE Goal(p, k, n)
      <4>1. Push(a) /\ (a.op \in {"ReplicateTo", "DestroyRemotely"} => a.peer # p)
        BY <2>1, <3>4 DEF Queues
      <4>2. Q[k] = a \/ (k \in DOMAIN action_queue /\ Q[k] = action_queue[k])
        BY <4>1, PushIndex
      <4>3. QED
        BY <3>2, <4>1, <4>2
    <3>5. QED
      BY <1>2, <3>3, <3>4 DEF CallKind
  <2>2. CASE is_connected(p)
    <3>1. ASSUME n \in NodeId PROVE p \in queue_visible'[n] <=> p \in queue_visible[n]
      BY <1>1, <1>2, <3>1 DEF CallKind
    <3>2. \A i \in DOMAIN action_queue : action_queue[i].queue \in NodeId
      BY DEF TypeOK, QueuedAction
    <3>3. CASE UNCHANGED action_queue
      <4>1. n \in NodeId
        BY <1>1, <3>2, <3>3
      <4>2. SeesAt(n, p, k - 1)' <=> SeesAt(n, p, k - 1)
        BY <3>1, <3>3, <4>1 DEF SeesAt, Shows, Hides
      <4>3. QED
        BY <1>1, <2>2, <3>3, <4>2 DEF WireInv, QueueAlternates
    <3>4. ASSUME NEW a \in QueuedAction, Queues(a) PROVE Goal(p, k, n)
      <4>1. /\ Push(a) /\ a.queue \in NodeId
            /\ Len(action_queue) \in Nat
            /\ DOMAIN action_queue = 1..Len(action_queue)
            /\ DOMAIN Q = 1..(Len(action_queue) + 1)
            /\ \A i \in 1..Len(action_queue) : Q[i] = action_queue[i]
            /\ Q[Len(action_queue) + 1] = a
        BY <3>4, PushIndex DEF Queues
      <4>2. k - 1 \in 0..Len(action_queue) /\ n \in NodeId
        BY <1>1, <3>2, <4>1
      <4>3. SeesAt(n, p, k - 1)' <=> SeesAt(n, p, k - 1)
        BY <3>1, <4>1, <4>2, SeesAtPush
      <4>4. CASE k \in 1..Len(action_queue)
        BY <1>1, <2>2, <4>1, <4>3, <4>4 DEF WireInv, QueueAlternates
      <4>5. CASE k = Len(action_queue) + 1
        <5>1. SeesAt(n, p, k - 1) <=> WillSee(n, p)
          BY <4>1, <4>5, SeesAtEnds
        <5>2. QED
          BY <1>1, <3>4, <4>1, <4>3, <4>5, <5>1 DEF Queues
      <4>6. QED
        BY <4>1, <4>4, <4>5
    <3>5. QED
      BY <1>2, <3>3, <3>4 DEF CallKind
  <2>3. QED
    BY <2>1, <2>2
<1>3. CASE FlushKind
  <2>1. action_queue # <<>> /\ action_queue' = Tail(action_queue) /\ is_connected(p)
    BY <1>1, <1>3 DEF FlushKind, is_connected
  <2>2. /\ k + 1 \in DOMAIN action_queue /\ Q[k] = action_queue[k + 1] /\ k \in Nat
        /\ k - 1 \in 0..Len(Q) /\ (k - 1) + 1 = (k + 1) - 1
    BY <1>1, <2>1, TailLen
  <2>3. n \in NodeId
    BY <1>1, <2>2 DEF TypeOK, QueuedAction
  <2>4. p \in queue_visible'[n] <=>
          \/ Shows(Head(action_queue), n, p)
          \/ p \in queue_visible[n] /\ ~Hides(Head(action_queue), n, p)
    BY <1>3, <2>1, <2>3 DEF FlushKind
  <2>5. SeesAt(n, p, k - 1)' <=> SeesAt(n, p, (k + 1) - 1)
    BY <2>1, <2>2, <2>4, SeesAtTail
  <2>6. QED
    BY <1>1, <2>1, <2>2, <2>5 DEF WireInv, QueueAlternates
<1>4. QED
  BY <1>2, <1>3, StepKinds

LEMMA QueueContinuesStep ==
  ASSUME TypeOK, IInv, WireInv, [Next]_vars
  PROVE  QueueContinues'
<1> DEFINE Q == action_queue'
<1>1. SUFFICES ASSUME NEW k \in DOMAIN Q, Q[k].op \in {"ReplicateTo", "Broadcast"},
                      NEW n, n = Q[k].queue, NEW v, v = Q[k].val
               PROVE  StateAt(n, k + 1, v)'
  BY DEF QueueContinues, StateAt, Updates
<1>2. CASE CallKind
  <2>1. ASSUME k \in DOMAIN action_queue, Q[k] = action_queue[k]
        PROVE  StateAt(n, k + 1, v)'
    <3>1. k + 1 \in 1..(Len(action_queue) + 1) /\ n \in NodeId
      BY <1>1, <2>1 DEF TypeOK, QueuedAction
    <3>2. StateAt(n, k + 1, v)
      BY <1>1, <2>1 DEF WireInv, QueueContinues
    <3>3. QED
      BY <1>2, <3>1, <3>2, StateAtCall
  <2>2. ASSUME NEW a \in QueuedAction, Queues(a) PROVE StateAt(n, k + 1, v)'
    <3>1. /\ Len(action_queue) \in Nat
          /\ Len(Q) = Len(action_queue) + 1
          /\ DOMAIN action_queue = 1..Len(action_queue)
          /\ DOMAIN Q = 1..(Len(action_queue) + 1)
          /\ \A i \in 1..Len(action_queue) : Q[i] = action_queue[i]
          /\ Q[Len(action_queue) + 1] = a
      BY <2>2, PushIndex DEF Queues
    <3>2. CASE k \in 1..Len(action_queue)
      BY <2>1, <3>1, <3>2
    <3>3. CASE k = Len(action_queue) + 1
      <4>1. \A i \in (k + 1)..Len(Q) : FALSE
        BY <3>1, <3>3
      <4>2. v = value'[n]
        BY <1>1, <2>2, <3>1, <3>3 DEF Queues, TypeOK
      <4>3. QED
        BY <4>1, <4>2 DEF StateAt
    <3>4. QED
      BY <3>1, <3>2, <3>3
  <2>3. QED
    BY <1>2, <2>1, <2>2 DEF CallKind
<1>3. CASE FlushKind
  <2>1. action_queue # <<>> /\ action_queue' = Tail(action_queue) /\ UNCHANGED value
    BY <1>3 DEF FlushKind
  <2>2. /\ k + 1 \in DOMAIN action_queue /\ Q[k] = action_queue[k + 1]
        /\ k + 1 \in 1..(Len(Q) + 1)
    BY <2>1, TailLen
  <2>3. StateAt(n, (k + 1) + 1, v)
    BY <1>1, <2>2 DEF WireInv, QueueContinues
  <2>4. QED
    BY <2>1, <2>2, <2>3, StateAtTail
<1>4. QED
  BY <1>2, <1>3, StepKinds

----------------------------------------------------------------------------
(* What flush sends *)

\* The packet for an action does to the client what the action does to queue.visible_to,
\* and a peer that is sent none has nothing done to it.
LEMMA PacketActs ==
  ASSUME TypeOK, NEW a \in QueuedAction, NEW p \in Peer
  PROVE  /\ PacketOf(a) \in Packet /\ PacketOf(a).node = a.queue
         /\ Addressed(a, p) => \A n :
              /\ Shows(a, n, p) <=> PacketOf(a).op = "CreateNode" /\ PacketOf(a).node = n
              /\ Hides(a, n, p) <=> PacketOf(a).op = "DeleteNode" /\ PacketOf(a).node = n
         /\ ~Addressed(a, p) => \A n :
              ~Shows(a, n, p) /\ (Hides(a, n, p) => p \notin queue_visible[n])
<1>1. CASE a.op = "ReplicateTo"
  <2>1. a.queue \in NodeId /\ a.peer \in Peer /\ a.val \in Value
    BY <1>1 DEF QueuedAction
  <2>2. PacketOf(a) \in Packet
    BY <1>1, <2>1 DEF PacketOf, CreateNode, Packet
  <2>3. QED
    BY <1>1, <2>2 DEF PacketOf, CreateNode, Addressed, Shows, Hides
<1>2. CASE a.op = "Broadcast"
  <2>1. a.queue \in NodeId /\ a.val \in Value
    BY <1>2 DEF QueuedAction
  <2>2. PacketOf(a) \in Packet
    BY <1>2, <2>1 DEF PacketOf, SendMessage, Packet
  <2>3. QED
    BY <1>2, <2>2 DEF PacketOf, SendMessage, Addressed, Shows, Hides
<1>3. CASE a.op \in {"DestroyRemotely", "DestroyNode"}
  <2>1. a.queue \in NodeId
    BY <1>3 DEF QueuedAction
  <2>2. PacketOf(a) \in Packet
    BY <1>3, <2>1, RpcServerAssumption DEF PacketOf, DeleteNode, Packet, Value
  <2>3. QED
    BY <1>3, <2>2 DEF PacketOf, DeleteNode, Addressed, Shows, Hides
<1>4. QED
  BY <1>1, <1>2, <1>3 DEF QueuedAction

\* A packet fits what the peer has: a creation goes to a peer that does not see the node,
\* anything else to one that does, and a message continues what it was told last.
LEMMA PacketFits ==
  ASSUME TypeOK, WireInv, FlushKind, NEW p \in Peer, is_connected(p),
         Addressed(Head(action_queue), p)
  PROVE  LET packet == PacketOf(Head(action_queue))
         IN /\ (packet.op = "CreateNode") <=> ~CreatedAt(wire[p], packet.node, Len(wire[p]))
            /\ packet.op = "SendMessage" =>
                 \E i \in DOMAIN wire[p] :
                   LastAbout(wire[p], i, packet.node) /\ wire[p][i].val = packet.val - 1
<1> DEFINE a == Head(action_queue)
           packet == PacketOf(a)
<1>1. /\ action_queue # <<>> /\ action_queue' = Tail(action_queue)
      /\ a = action_queue[1] /\ 1 \in DOMAIN action_queue /\ a \in QueuedAction
  BY NextActionType, TailLen DEF FlushKind, TypeOK
<1>2. a.queue \in NodeId /\ packet.node = a.queue
  BY <1>1, PacketActs DEF QueuedAction
<1>3. p \in queue_visible[a.queue] <=> CreatedAt(wire[p], a.queue, Len(wire[p]))
  BY <1>2 DEF WireInv, ToldIsVisible
<1>4. p \in queue_visible[a.queue] <=> SeesAt(a.queue, p, 1 - 1)
  BY SeesAtEnds
<1>5. a.op = "ReplicateTo" => p \notin queue_visible[a.queue]
  BY <1>1, <1>4 DEF WireInv, QueueAlternates, Addressed
<1>6. a.op # "ReplicateTo" => p \in queue_visible[a.queue]
  BY <1>1, <1>4 DEF WireInv, QueueAlternates, Addressed
<1>7. (packet.op = "CreateNode") <=> (a.op = "ReplicateTo")
  BY DEF PacketOf, CreateNode, SendMessage, DeleteNode
<1>8. ASSUME packet.op = "SendMessage"
      PROVE  \E i \in DOMAIN wire[p] :
               LastAbout(wire[p], i, a.queue) /\ wire[p][i].val = packet.val - 1
  <2>1. a.op = "Broadcast" /\ packet.val = a.val
    BY <1>8 DEF PacketOf, CreateNode, SendMessage, DeleteNode
  <2>2. PICK i \in DOMAIN wire[p] :
               LastAbout(wire[p], i, a.queue) /\ StateAt(a.queue, 1, wire[p][i].val)
    BY <1>2, <1>6, <2>1 DEF WireInv, ToldIsCurrent
  <2>3. a.val = wire[p][i].val + 1
    <3>1. Updates(1, a.queue)
      BY <1>1, <2>1 DEF Updates
    <3>2. \A v : StateAt(a.queue, 1, v) => action_queue[1].val = v + 1
      BY <1>1, <3>1, StateAtHead
    <3>3. QED
      BY <1>1, <2>2, <3>2
  <2>4. wire[p][i].val \in Nat
    <3>1. wire[p] \in Seq(Packet)
      BY DEF TypeOK
    <3>2. wire[p][i] \in Packet
      BY <3>1
    <3>3. QED
      BY <3>2, RpcServerAssumption DEF Packet, Value
  <2>5. QED
    BY <2>1, <2>2, <2>3, <2>4
<1>9. QED
  BY <1>2, <1>3, <1>5, <1>6, <1>7, <1>8

\* A log is either left alone or given one packet that fits it.
LEMMA LogSteps ==
  ASSUME TypeOK, IInv, WireInv, [Next]_vars, NEW p \in Peer
  PROVE  /\ LogWellFormed(wire[p]) => LogWellFormed(wire'[p])
         /\ LogContinues(wire[p]) => LogContinues(wire'[p])
<1>1. CASE wire'[p] = wire[p]
  BY <1>1
<1>2. CASE FlushKind /\ is_connected(p) /\ Addressed(Head(action_queue), p)
  <2> DEFINE packet == PacketOf(Head(action_queue))
  <2>1. Head(action_queue) \in QueuedAction
    BY <1>2, NextActionType DEF FlushKind, TypeOK
  <2>2. packet \in Packet /\ wire[p] \in Seq(Packet) /\ wire'[p] = Append(wire[p], packet)
    BY <1>2, <2>1, PacketActs DEF FlushKind, TypeOK
  <2>3. /\ (packet.op = "CreateNode") <=> ~CreatedAt(wire[p], packet.node, Len(wire[p]))
        /\ packet.op = "SendMessage" =>
             \E i \in DOMAIN wire[p] :
               LastAbout(wire[p], i, packet.node) /\ wire[p][i].val = packet.val - 1
    BY <1>2, PacketFits
  <2> HIDE DEF packet
  <2>4. QED
    BY <2>2, <2>3, WellFormedAppend, ContinuesAppend
<1>3. CASE FlushKind /\ ~(is_connected(p) /\ Addressed(Head(action_queue), p))
  BY <1>1, <1>3 DEF FlushKind
<1>4. QED
  BY <1>1, <1>2, <1>3, StepKinds DEF CallKind

LEMMA LogsStep ==
  ASSUME TypeOK, IInv, WireInv, [Next]_vars
  PROVE  WireWellFormed' /\ NoLostUpdate'
<1>1. WireWellFormed <=> \A p \in Peer : LogWellFormed(wire[p])
  BY DEF WireWellFormed, LogWellFormed
<1>2. NoLostUpdate <=> \A p \in Peer : LogContinues(wire[p])
  BY DEF NoLostUpdate, LogContinues
<1>3. WireWellFormed' <=> \A p \in Peer : LogWellFormed(wire'[p])
  BY DEF WireWellFormed, LogWellFormed, CreatedAt
<1>4. NoLostUpdate' <=> \A p \in Peer : LogContinues(wire'[p])
  BY DEF NoLostUpdate, LogContinues
<1>5. QED
  BY <1>1, <1>2, <1>3, <1>4, LogSteps DEF WireInv

LEMMA ToldIsVisibleStep ==
  ASSUME TypeOK, IInv, WireInv, [Next]_vars
  PROVE  ToldIsVisible'
<1>1. SUFFICES ASSUME NEW n \in NodeId, NEW p \in Peer, is_connected(p)'
               PROVE  CreatedAt(wire'[p], n, Len(wire'[p])) <=> p \in queue_visible'[n]
  BY DEF ToldIsVisible, CreatedAt
<1>2. CASE CallKind
  <2>1. CASE is_connected(p)
    BY <1>1, <1>2, <2>1 DEF CallKind, WireInv, ToldIsVisible
  <2>2. CASE ~is_connected(p)
    <3>1. peer_entity[p] = "none"
      BY <1>1, <1>2, <2>2 DEF CallKind, PeersStep
    <3>2. wire'[p] = <<>> /\ p \notin queue_visible'[n]
      BY <1>1, <1>2, <3>1 DEF CallKind, WireInv, PeerUnheard, IInv, PeerUnborn
    <3>3. QED
      BY <3>2 DEF CreatedAt
  <2>3. QED
    BY <2>1, <2>2
<1>3. CASE FlushKind
  <2> DEFINE a == Head(action_queue)
             packet == PacketOf(a)
  <2>1. is_connected(p) /\ a \in QueuedAction
    BY <1>1, <1>3, NextActionType DEF FlushKind, is_connected, TypeOK
  <2>2. p \in queue_visible'[n] <=>
          Shows(a, n, p) \/ (p \in queue_visible[n] /\ ~Hides(a, n, p))
    BY <1>3, <2>1 DEF FlushKind
  <2>3. CreatedAt(wire[p], n, Len(wire[p])) <=> p \in queue_visible[n]
    BY <2>1 DEF WireInv, ToldIsVisible
  <2>4. CASE Addressed(a, p)
    <3>1. packet \in Packet /\ wire[p] \in Seq(Packet) /\ wire'[p] = Append(wire[p], packet)
      BY <1>3, <2>1, <2>4, PacketActs DEF FlushKind, TypeOK
    <3>2. /\ Shows(a, n, p) <=> packet.op = "CreateNode" /\ packet.node = n
          /\ Hides(a, n, p) <=> packet.op = "DeleteNode" /\ packet.node = n
      BY <2>1, <2>4, PacketActs
    <3> HIDE DEF packet
    <3>3. QED
      BY <2>2, <2>3, <3>1, <3>2, CreatedAppend
  <2>5. CASE ~Addressed(a, p)
    <3>1. wire'[p] = wire[p]
      BY <1>3, <2>5 DEF FlushKind
    <3>2. ~Shows(a, n, p) /\ (Hides(a, n, p) => p \notin queue_visible[n])
      BY <2>1, <2>5, PacketActs
    <3>3. QED
      BY <2>2, <2>3, <3>1, <3>2
  <2>6. QED
    BY <2>4, <2>5
<1>4. QED
  BY <1>2, <1>3, StepKinds

LEMMA ToldIsCurrentStep ==
  ASSUME TypeOK, IInv, WireInv, [Next]_vars
  PROVE  ToldIsCurrent'
<1>1. SUFFICES ASSUME NEW n \in NodeId, NEW p \in Peer, is_connected(p)', p \in queue_visible'[n]
               PROVE  \E i \in DOMAIN wire'[p] : \E v :
                        LastAbout(wire'[p], i, n) /\ v = wire'[p][i].val /\ StateAt(n, 1, v)'
  BY DEF ToldIsCurrent, LastAbout, StateAt, Updates
<1>2. CASE CallKind
  <2>1. is_connected(p)
    BY <1>1, <1>2 DEF CallKind, PeersStep, IInv, PeerUnborn
  <2>2. PICK i \in DOMAIN wire[p] : LastAbout(wire[p], i, n) /\ StateAt(n, 1, wire[p][i].val)
    BY <1>1, <1>2, <2>1 DEF CallKind, WireInv, ToldIsCurrent
  <2>3. \A v : StateAt(n, 1, v) => StateAt(n, 1, v)'
    <3>1. 1 \in 1..(Len(action_queue) + 1)
      BY DEF TypeOK
    <3>2. QED
      BY <1>2, <3>1, StateAtCall
  <2>4. QED
    BY <1>2, <2>2, <2>3 DEF CallKind
<1>3. CASE FlushKind
  <2> DEFINE a == Head(action_queue)
             packet == PacketOf(a)
  <2>1. is_connected(p) /\ a \in QueuedAction /\ UNCHANGED value
    BY <1>1, <1>3, NextActionType DEF FlushKind, is_connected, TypeOK
  <2>2. /\ action_queue # <<>> /\ action_queue' = Tail(action_queue)
        /\ a = action_queue[1] /\ 1 \in DOMAIN action_queue
        /\ 1 \in 1..(Len(action_queue') + 1)
    BY <1>3, TailLen DEF FlushKind
  <2>3. \A v : StateAt(n, 2, v) => StateAt(n, 1, v)'
    <3>1. \A v : StateAt(n, 1 + 1, v) => StateAt(n, 1, v)'
      BY <2>1, <2>2, StateAtTail
    <3>2. QED
      BY <3>1
  <2>4. Shows(a, n, p) \/ (p \in queue_visible[n] /\ ~Hides(a, n, p))
    BY <1>1, <1>3, <2>1 DEF FlushKind
  <2>5. CASE Addressed(a, p) /\ a.queue = n
    <3>1. packet \in Packet /\ packet.node = n /\ wire[p] \in Seq(Packet)
          /\ wire'[p] = Append(wire[p], packet)
      BY <1>3, <2>1, <2>5, PacketActs DEF FlushKind, TypeOK
    <3>2. a.op \in {"ReplicateTo", "Broadcast"} /\ packet.val = a.val
      BY <2>1, <2>4, <2>5
      DEF QueuedAction, PacketOf, CreateNode, SendMessage, Shows, Hides, Addressed
    <3>3. StateAt(n, 2, a.val)
      <4>1. StateAt(a.queue, 1 + 1, a.val)
        BY <2>2, <3>2 DEF WireInv, QueueContinues
      <4>2. QED
        BY <2>5, <4>1
    <3> HIDE DEF packet
    <3>4. LastAbout(wire'[p], Len(wire'[p]), n) /\ wire'[p][Len(wire'[p])] = packet
      BY <3>1, LastAppend
    <3>5. QED
      BY <2>3, <3>2, <3>3, <3>4 DEF LastAbout
  <2>6. CASE ~(Addressed(a, p) /\ a.queue = n)
    <3>1. p \in queue_visible[n] /\ ~Updates(1, n)
      BY <2>2, <2>4, <2>6 DEF Shows, Hides, Addressed, Updates
    <3>2. PICK i \in DOMAIN wire[p] :
                 LastAbout(wire[p], i, n) /\ StateAt(n, 1, wire[p][i].val)
      BY <2>1, <3>1 DEF WireInv, ToldIsCurrent
    <3>3. \A v : StateAt(n, 1, v) => StateAt(n, 1, v)'
      BY <2>2, <2>3, <3>1, StateAtHead
    <3>4. CASE Addressed(a, p)
      <4>1. packet \in Packet /\ packet.node # n /\ wire[p] \in Seq(Packet)
            /\ wire'[p] = Append(wire[p], packet)
        BY <1>3, <2>1, <2>6, <3>4, PacketActs DEF FlushKind, TypeOK
      <4> HIDE DEF packet
      <4>2. LastAbout(wire'[p], i, n) /\ wire'[p][i] = wire[p][i]
        BY <3>2, <4>1, LastAppend
      <4>3. QED
        BY <3>2, <3>3, <4>2 DEF LastAbout
    <3>5. CASE ~Addressed(a, p)
      BY <1>3, <3>2, <3>3, <3>5 DEF FlushKind
    <3>6. QED
      BY <3>4, <3>5
  <2>7. QED
    BY <2>5, <2>6
<1>4. QED
  BY <1>2, <1>3, StepKinds

----------------------------------------------------------------------------
(* The theorem *)

LEMMA WireInvariance == Spec => [](TypeOK /\ IInv /\ WireInv)
<1>1. TypeOK /\ IInv /\ WireInv /\ [Next]_vars => WireInv'
  BY PeerUnheardStep, QueueAlternatesStep, QueueContinuesStep, ToldIsVisibleStep,
     ToldIsCurrentStep, LogsStep DEF WireInv
<1>2. QED
  BY Invariance, InitWireInv, <1>1, PTL DEF Spec

\* With nothing left in the queue, what was told is what was asked for, and current.
LEMMA CaughtUpHolds ==
  ASSUME TypeOK, IInv, WireInv
  PROVE  CaughtUp
<1> SUFFICES ASSUME action_queue = <<>>, NEW n \in NodeId, NEW p \in Peer, is_connected(p)
             PROVE  /\ CreatedAt(wire[p], n, Len(wire[p])) <=> p \in visible_to[n]
                    /\ p \in visible_to[n] =>
                         \E i \in DOMAIN wire[p] :
                           /\ wire[p][i].node = n /\ wire[p][i].val = value[n]
                           /\ \A j \in DOMAIN wire[p] : j > i => wire[p][j].node # n
  BY DEF CaughtUp
<1>1. p \in queue_visible[n] <=> p \in visible_to[n]
  BY DEF IInv, QueueAgrees, WillSee
<1>2. CreatedAt(wire[p], n, Len(wire[p])) <=> p \in queue_visible[n]
  BY DEF WireInv, ToldIsVisible
<1>3. \A v : StateAt(n, 1, v) => v = value[n]
  BY DEF StateAt
<1>4. QED
  BY <1>1, <1>2, <1>3 DEF WireInv, ToldIsCurrent, LastAbout

\* No peer misses an update or hears of it twice, for any number of nodes, peers and calls
\* and however calls, disconnections, destructions and flushes interleave: what each peer
\* is sent is well formed, every message continues the state it was last told, and after a
\* flush a connected peer holds exactly what was replicated to it, in its current state.
THEOREM ToldCorrectly == Spec => []PeersUpToDate
<1>1. TypeOK /\ IInv /\ WireInv => PeersUpToDate
  BY CaughtUpHolds DEF WireInv, PeersUpToDate
<1>2. QED
  BY WireInvariance, <1>1, PTL

----------------------------------------------------------------------------
(* The indices of a set, from the smallest *)

\* How many of the indices are not above i.
Upto(indices, i) == {j \in indices : j <= i}
Rank(indices, i) == Cardinality(Upto(indices, i))

LEMMA RankType ==
  ASSUME NEW m \in Nat, NEW R \in SUBSET (1..m)
  PROVE  /\ IsFiniteSet(R) /\ Cardinality(R) \in Nat
         /\ \A i : IsFiniteSet(Upto(R, i)) /\ Rank(R, i) \in 0..Cardinality(R)
         /\ \A i \in R : Rank(R, i) \in 1..Cardinality(R)
<1>1. IsFiniteSet(R) /\ Cardinality(R) \in Nat
  <2>1. IsFiniteSet(1..m)
    BY FS_Interval
  <2>2. IsFiniteSet(R)
    BY <2>1, FS_Subset
  <2>3. QED
    BY <2>2, FS_CardinalityType
<1>2. ASSUME NEW i
      PROVE  IsFiniteSet(Upto(R, i)) /\ Rank(R, i) \in 0..Cardinality(R)
  <2>1. Upto(R, i) \in SUBSET R
    BY DEF Upto
  <2>2. IsFiniteSet(Upto(R, i)) /\ Cardinality(Upto(R, i)) <= Cardinality(R)
    BY <1>1, <2>1, FS_Subset
  <2>3. Cardinality(Upto(R, i)) \in Nat
    BY <2>2, FS_CardinalityType
  <2>4. QED
    BY <1>1, <2>2, <2>3 DEF Rank
<1>3. ASSUME NEW i \in R
      PROVE  Rank(R, i) # 0
  <2>1. i \in Upto(R, i)
    BY DEF Upto
  <2>2. QED
    BY <1>2, <2>1, FS_EmptySet DEF Rank
<1>4. QED
  BY <1>1, <1>2, <1>3

LEMMA RankInjective ==
  ASSUME NEW m \in Nat, NEW R \in SUBSET (1..m), NEW i \in R, NEW j \in R,
         Rank(R, i) = Rank(R, j)
  PROVE  i = j
<1>1. ASSUME NEW a \in R, NEW b \in R, a <= b, Rank(R, a) = Rank(R, b)
      PROVE  a = b
  <2>1. a \in Nat /\ b \in Nat
    OBVIOUS
  <2>2. Upto(R, a) \in SUBSET Upto(R, b)
    <3>1. \A x \in R : x \in Nat /\ (x <= a => x <= b)
      BY <1>1, <2>1
    <3>2. QED
      BY <3>1 DEF Upto
  <2>3. IsFiniteSet(Upto(R, b))
    BY RankType
  <2>4. Upto(R, b) = Upto(R, a)
    BY <1>1, <2>2, <2>3, FS_Subset DEF Rank
  <2>5. b <= a
    BY <2>1, <2>4 DEF Upto
  <2>6. QED
    BY <1>1, <2>1, <2>5
<1>2. i \in Nat /\ j \in Nat
  OBVIOUS
<1>3. i <= j \/ j <= i
  BY <1>2
<1>4. QED
  BY <1>1, <1>3

\* Every place up to the number of the indices is that of one of them.
LEMMA NthExists ==
  ASSUME NEW m \in Nat, NEW R \in SUBSET (1..m), NEW k \in 1..Cardinality(R)
  PROVE  Nth(R, k) \in R /\ Rank(R, Nth(R, k)) = k
<1> DEFINE f == [i \in R |-> Rank(R, i)]
<1>1. IsFiniteSet(R) /\ Cardinality(R) \in Nat
  BY RankType
<1>2. IsFiniteSet(1..Cardinality(R)) /\ Cardinality(1..Cardinality(R)) = Cardinality(R)
  BY <1>1, FS_Interval
<1>3. f \in [R -> 1..Cardinality(R)]
  BY RankType
<1>4. \A i, j \in R : f[i] = f[j] => i = j
  BY RankInjective
<1>5. f \in Injection(R, 1..Cardinality(R))
  BY <1>3, <1>4 DEF Injection, IsInjective
<1>6. f \in Surjection(R, 1..Cardinality(R))
  <2> HIDE DEF f
  <2>1. QED
    BY <1>1, <1>2, <1>5, FS_Injection
<1>7. \E i \in R : Rank(R, i) = k
  BY <1>6 DEF Surjection
<1>8. QED
  BY <1>7 DEF Nth, Rank, Upto

LEMMA NthIs ==
  ASSUME NEW m \in Nat, NEW R \in SUBSET (1..m), NEW i \in R
  PROVE  Nth(R, Rank(R, i)) = i
<1>1. Rank(R, i) \in 1..Cardinality(R)
  BY RankType
<1>2. Nth(R, Rank(R, i)) \in R /\ Rank(R, Nth(R, Rank(R, i))) = Rank(R, i)
  BY <1>1, NthExists
<1>3. QED
  BY <1>2, RankInjective

\* One more index behind the others is the last.
LEMMA NthPushed ==
  ASSUME NEW m \in Nat, NEW R \in SUBSET (1..m)
  PROVE  LET more == R \cup {m + 1}
         IN /\ Cardinality(more) = Cardinality(R) + 1
            /\ \A k \in 1..Cardinality(R) : Nth(more, k) = Nth(R, k)
            /\ Nth(more, Cardinality(R) + 1) = m + 1
<1> DEFINE more == R \cup {m + 1}
<1>1. more \in SUBSET (1..(m + 1)) /\ m + 1 \in Nat /\ m + 1 \notin R /\ m + 1 \in more
  OBVIOUS
<1>2. Cardinality(more) = Cardinality(R) + 1
  BY <1>1, RankType, FS_AddElement
<1>3. \A i \in R : Rank(more, i) = Rank(R, i) /\ i \in more
  <2>1. \A i \in R : Upto(more, i) = Upto(R, i)
    BY DEF Upto
  <2>2. QED
    BY <2>1 DEF Rank
<1>4. Rank(more, m + 1) = Cardinality(R) + 1
  <2>1. \A j \in more : j <= m + 1
    BY <1>1
  <2> HIDE DEF more
  <2>2. Upto(more, m + 1) = more
    BY <2>1 DEF Upto
  <2>3. QED
    BY <1>2, <2>2 DEF Rank
<1> HIDE DEF more
<1>5. ASSUME NEW k \in 1..Cardinality(R)
      PROVE  Nth(more, k) = Nth(R, k)
  <2>1. Nth(R, k) \in R /\ Rank(R, Nth(R, k)) = k
    BY NthExists
  <2>2. Nth(R, k) \in more /\ Rank(more, Nth(R, k)) = k
    BY <1>3, <2>1
  <2>3. Nth(more, Rank(more, Nth(R, k))) = Nth(R, k)
    BY <1>1, <2>2, NthIs
  <2>4. QED
    BY <2>2, <2>3
<1>6. Nth(more, Cardinality(R) + 1) = m + 1
  <2>1. Nth(more, Rank(more, m + 1)) = m + 1
    BY <1>1, NthIs
  <2>2. QED
    BY <1>4, <2>1
<1>7. QED
  BY <1>2, <1>5, <1>6 DEF more
\* The indices without the first place, and one less each.
Shifted(indices, m) == {i \in 1..m : i + 1 \in indices}

LEMMA RankShifted ==
  ASSUME NEW m \in Nat, NEW R \in SUBSET (1..(m + 1))
  PROVE  LET less == Shifted(R, m)
             first == IF 1 \in R THEN 1 ELSE 0
         IN /\ less \in SUBSET (1..m)
            /\ Cardinality(R) = Cardinality(less) + first
            /\ \A i \in less : i + 1 \in R /\ Rank(R, i + 1) = Rank(less, i) + first
<1> DEFINE less == Shifted(R, m)
           first == IF 1 \in R THEN 1 ELSE 0
<1>1. less \in SUBSET (1..m) /\ IsFiniteSet(R) /\ m + 1 \in Nat
  <2>1. less \in SUBSET (1..m) /\ m + 1 \in Nat
    BY DEF Shifted
  <2>2. QED
    BY <2>1, RankType
\* How many there are is the same for both, but for the first.
<1>2. ASSUME NEW T \in SUBSET less, NEW U \in SUBSET R,
             \A i \in Nat : i \in T <=> i + 1 \in U /\ i # 0,
             1 \in U <=> 1 \in R
      PROVE  Cardinality(U) = Cardinality(T) + first
  <2> DEFINE rest == U \ {1}
             f == [i \in T |-> i + 1]
  <2>1. IsFiniteSet(T) /\ IsFiniteSet(U) /\ T \subseteq 1..m /\ U \subseteq 1..(m + 1)
    BY <1>1, RankType, FS_Subset
  <2>2. \A i \in T : i \in Nat /\ i + 1 \in rest
    BY <1>2, <2>1
  <2>3. \A j \in rest : j - 1 \in Nat /\ j - 1 \in T /\ (j - 1) + 1 = j
    BY <1>2, <2>1
  <2>4. f \in Bijection(T, rest)
    <3>1. f \in [T -> rest] /\ \A i, j \in T : f[i] = f[j] => i = j
      BY <2>2
    <3>2. \A j \in rest : j - 1 \in T /\ f[j - 1] = j
      BY <2>3
    <3> HIDE DEF f, rest
    <3>3. \A j \in rest : \E i \in T : f[i] = j
      BY <3>2
    <3>4. QED
      BY <3>1, <3>3 DEF Bijection, Injection, Surjection, IsInjective
  <2>5. Cardinality(rest) = Cardinality(T)
    <3> HIDE DEF f, rest
    <3>1. QED
      BY <2>1, <2>4, FS_Bijection DEF ExistsBijection
  <2>6. Cardinality(rest) = IF 1 \in U THEN Cardinality(U) - 1 ELSE Cardinality(U)
    BY <2>1, FS_RemoveElement
  <2>7. Cardinality(U) \in Nat
    BY <2>1, FS_CardinalityType
  <2>8. QED
    BY <1>2, <2>5, <2>6, <2>7
<1>3. Cardinality(R) = Cardinality(less) + first
  <2>1. \A i \in Nat : i \in less <=> i + 1 \in R /\ i # 0
    BY <1>1 DEF Shifted
  <2> HIDE DEF less, first
  <2>2. QED
    BY <1>2, <2>1
<1>4. ASSUME NEW i \in less
      PROVE  i + 1 \in R /\ Rank(R, i + 1) = Rank(less, i) + first
  <2>1. i \in 1..m /\ i + 1 \in R
    BY DEF Shifted
  <2>2. \A j \in Nat : j \in Upto(less, i) <=> j + 1 \in Upto(R, i + 1) /\ j # 0
    BY <2>1 DEF Upto, Shifted
  <2>3. 1 \in Upto(R, i + 1) <=> 1 \in R
    BY <2>1 DEF Upto
  <2>4. Upto(less, i) \in SUBSET less /\ Upto(R, i + 1) \in SUBSET R
    BY DEF Upto
  <2> HIDE DEF less, first
  <2>5. QED
    BY <1>2, <2>1, <2>2, <2>3, <2>4 DEF Rank
<1>5. QED
  BY <1>1, <1>3, <1>4

LEMMA NthShifted ==
  ASSUME NEW m \in Nat, NEW R \in SUBSET (1..(m + 1))
  PROVE  LET less == Shifted(R, m)
             first == IF 1 \in R THEN 1 ELSE 0
         IN /\ Cardinality(less) \in Nat
            /\ Cardinality(R) = Cardinality(less) + first
            /\ \A k \in 1..Cardinality(less) :
                 Nth(less, k) \in 1..m /\ Nth(R, k + first) = Nth(less, k) + 1
            /\ 1 \in R => Nth(R, 1) = 1
<1> DEFINE less == Shifted(R, m)
           first == IF 1 \in R THEN 1 ELSE 0
<1>1. /\ less \in SUBSET (1..m) /\ m + 1 \in Nat
      /\ Cardinality(R) = Cardinality(less) + first
      /\ \A i \in less : i + 1 \in R /\ Rank(R, i + 1) = Rank(less, i) + first
  BY RankShifted
<1>2. ASSUME 1 \in R
      PROVE  Nth(R, 1) = 1
  <2>0. \A j \in R : j \in Nat /\ (j <= 1 => j = 1)
    OBVIOUS
  <2>1. Upto(R, 1) = {1}
    <3>1. 1 \in Upto(R, 1) /\ \A j \in Upto(R, 1) : j = 1
      BY <1>2, <2>0 DEF Upto
    <3>2. QED
      BY <3>1
  <2>2. Rank(R, 1) = 1
    BY <2>1, FS_Singleton DEF Rank
  <2>3. QED
    BY <1>1, <1>2, <2>2, NthIs
<1> HIDE DEF less, first
<1>3. ASSUME NEW k \in 1..Cardinality(less)
      PROVE  Nth(less, k) \in 1..m /\ Nth(R, k + first) = Nth(less, k) + 1
  <2>1. Nth(less, k) \in less /\ Rank(less, Nth(less, k)) = k
    BY <1>1, NthExists
  <2>2. Nth(less, k) + 1 \in R /\ Rank(R, Nth(less, k) + 1) = k + first
    BY <1>1, <2>1
  <2>3. Nth(R, Rank(R, Nth(less, k) + 1)) = Nth(less, k) + 1
    BY <1>1, <2>2, NthIs
  <2>4. QED
    BY <1>1, <2>1, <2>2, <2>3
<1>4. Cardinality(less) \in Nat
  BY <1>1, RankType
<1>5. QED
  BY <1>1, <1>2, <1>3, <1>4 DEF less, first
----------------------------------------------------------------------------
(* What is owed to a peer *)

LEMMA PacketType ==
  ASSUME NEW a \in QueuedAction
  PROVE  PacketOf(a) \in Packet /\ a.queue \in NodeId
<1>1. a.queue \in NodeId
  BY DEF QueuedAction
<1>2. a.op \in {"ReplicateTo", "Broadcast"} => a.val \in Value
  BY DEF QueuedAction
<1>3. 0 \in Value
  BY RpcServerAssumption DEF Value
<1>4. QED
  BY <1>1, <1>2, <1>3 DEF PacketOf, Packet, CreateNode, SendMessage, DeleteNode

LEMMA PendingType ==
  ASSUME TypeOK, NEW p
  PROVE  /\ Len(action_queue) \in Nat /\ DOMAIN action_queue = 1..Len(action_queue)
         /\ Reaching(p) \in SUBSET (1..Len(action_queue))
         /\ Cardinality(Reaching(p)) \in Nat
         /\ Pending(p) \in Seq(Packet) /\ Len(Pending(p)) = Cardinality(Reaching(p))
<1>1. /\ action_queue \in Seq(QueuedAction)
      /\ Len(action_queue) \in Nat /\ DOMAIN action_queue = 1..Len(action_queue)
  BY DEF TypeOK
<1>2. Reaching(p) \in SUBSET (1..Len(action_queue))
  BY <1>1 DEF Reaching
<1>3. Cardinality(Reaching(p)) \in Nat
  BY <1>1, <1>2, RankType
<1>4. \A k \in 1..Cardinality(Reaching(p)) :
        PacketOf(action_queue[Nth(Reaching(p), k)]) \in Packet
  <2>1. \A k \in 1..Cardinality(Reaching(p)) : Nth(Reaching(p), k) \in 1..Len(action_queue)
    BY <1>1, <1>2, NthExists
  <2>2. \A i \in 1..Len(action_queue) : action_queue[i] \in QueuedAction
    BY <1>1
  <2>3. QED
    BY <2>1, <2>2, PacketType
<1>5. Pending(p) \in Seq(Packet) /\ Len(Pending(p)) = Cardinality(Reaching(p))
  BY <1>3, <1>4 DEF Pending
<1>6. QED
  BY <1>1, <1>2, <1>3, <1>5

\* Whether an action that is pushed now will be sent to p.
WillReach(a, p) ==
  IF a.op \in {"ReplicateTo", "DestroyRemotely"} THEN a.peer = p ELSE WillSee(a.queue, p)

LEMMA PendingPush ==
  ASSUME TypeOK, NEW a \in QueuedAction, Push(a), NEW p,
         \A n \in NodeId : p \in queue_visible'[n] <=> p \in queue_visible[n]
  PROVE  Pending(p)' = IF WillReach(a, p) THEN Append(Pending(p), PacketOf(a)) ELSE Pending(p)
<1> PICK m \in Nat : m = Len(action_queue)
  BY PushIndex
<1> DEFINE Q == action_queue'
<1>1. /\ m \in Nat /\ DOMAIN action_queue = 1..m /\ DOMAIN Q = 1..(m + 1)
      /\ \A i \in 1..m : Q[i] = action_queue[i]
      /\ Q[m + 1] = a
  BY PushIndex
<1>2. \A i \in 1..m : action_queue[i] \in QueuedAction /\ action_queue[i].queue \in NodeId
  BY PacketType DEF TypeOK
<1>3. \A i \in 1..m : Reaches(i, p)' <=> Reaches(i, p)
  <2> SUFFICES ASSUME NEW i \in 1..m
               PROVE  Reaches(i, p)' <=> Reaches(i, p)
    OBVIOUS
  <2> DEFINE n == action_queue[i].queue
  <2>1. i - 1 \in 0..Len(action_queue)
    BY <1>1
  <2>2. \A l \in NodeId : SeesAt(l, p, i - 1)' <=> SeesAt(l, p, i - 1)
    BY <2>1, SeesAtPush
  <2>3. Q[i] = action_queue[i] /\ n \in NodeId
    BY <1>1, <1>2
  <2>4. QED
    BY <2>2, <2>3 DEF Reaches
<1>4. Reaches(m + 1, p)' <=> WillReach(a, p)
  <2>1. a.queue \in NodeId
    BY PacketType
  <2>2. SeesAt(a.queue, p, m)' <=> SeesAt(a.queue, p, m)
    <3>1. m \in 0..Len(action_queue)
      BY <1>1
    <3>2. QED
      BY <2>1, <3>1, SeesAtPush
  <2>3. SeesAt(a.queue, p, m) <=> WillSee(a.queue, p)
    BY SeesAtEnds
  <2>4. (m + 1) - 1 = m
    BY <1>1
  <2>5. QED
    BY <1>1, <2>2, <2>3, <2>4 DEF Reaches, WillReach
<1> DEFINE R == Reaching(p)
           c == Cardinality(R)
<1>5. /\ R \in SUBSET (1..m) /\ c \in Nat /\ Pending(p) \in Seq(Packet) /\ Len(Pending(p)) = c
      /\ Pending(p) = [k \in 1..c |-> PacketOf(action_queue[Nth(R, k)])]
  BY PendingType DEF Pending
<1>6. \A k \in 1..c : Nth(R, k) \in 1..m
  BY <1>5, NthExists
<1>7. CASE WillReach(a, p)
  <2>1. Reaching(p)' = R \cup {m + 1}
    <3>1. \A i \in 1..(m + 1) : i = m + 1 \/ i \in 1..m
      OBVIOUS
    <3>2. QED
      BY <1>1, <1>3, <1>4, <1>7, <3>1 DEF Reaching
  <2>2. /\ Cardinality(R \cup {m + 1}) = c + 1
        /\ \A k \in 1..c : Nth(R \cup {m + 1}, k) = Nth(R, k)
        /\ Nth(R \cup {m + 1}, c + 1) = m + 1
    BY <1>5, NthPushed
  <2>3. Pending(p)' = [k \in 1..(c + 1) |-> PacketOf(Q[Nth(R \cup {m + 1}, k)])]
    BY <2>1, <2>2 DEF Pending, PacketOf, CreateNode, SendMessage, DeleteNode
  <2>4. \A k \in 1..c : PacketOf(Q[Nth(R \cup {m + 1}, k)]) = Pending(p)[k]
    BY <1>1, <1>5, <1>6, <2>2
  <2>5. PacketOf(Q[Nth(R \cup {m + 1}, c + 1)]) = PacketOf(a)
    BY <1>1, <2>2
  <2> HIDE DEF Q, R, c
  <2>6. [k \in 1..(c + 1) |-> PacketOf(Q[Nth(R \cup {m + 1}, k)])] =
          [k \in 1..(c + 1) |-> IF k <= c THEN Pending(p)[k] ELSE PacketOf(a)]
    <3>1. \A k \in 1..(c + 1) : k <= c => k \in 1..c
      BY <1>5
    <3>2. \A k \in 1..(c + 1) : ~(k <= c) => k = c + 1
      BY <1>5
    <3>3. QED
      BY <2>4, <2>5, <3>1, <3>2
  <2>7. Append(Pending(p), PacketOf(a)) =
          [k \in 1..(c + 1) |-> IF k <= c THEN Pending(p)[k] ELSE PacketOf(a)]
    <3> DEFINE s == Pending(p)
               x == PacketOf(a)
    <3>1. s \in Seq(Packet) /\ Len(s) = c /\ c \in Nat /\ x \in Packet
      BY <1>5, PacketType
    <3> HIDE DEF s, x
    <3>2. Append(s, x) = [k \in 1..(c + 1) |-> IF k <= c THEN s[k] ELSE x]
      <4> DEFINE t == [k \in 1..(c + 1) |-> IF k <= c THEN s[k] ELSE x]
      <4>1. /\ Append(s, x) \in Seq(Packet) /\ Len(Append(s, x)) = c + 1
            /\ \A k \in 1..(c + 1) : Append(s, x)[k] = IF k <= c THEN s[k] ELSE x
        BY <3>1
      <4>2. \A k \in 1..(c + 1) : t[k] \in Packet
        BY <3>1
      <4>3. t \in Seq(Packet) /\ Len(t) = c + 1
        BY <3>1, <4>2
      <4>4. QED
        BY <4>1, <4>3, SeqEqual
    <3>3. QED
      BY <3>2 DEF s, x
  <2>8. QED
    BY <1>7, <2>3, <2>6, <2>7
<1>8. CASE ~WillReach(a, p)
  <2>1. Reaching(p)' = R
    <3>1. \A i \in 1..(m + 1) : i = m + 1 \/ i \in 1..m
      OBVIOUS
    <3>2. QED
      BY <1>1, <1>3, <1>4, <1>8, <3>1 DEF Reaching
  <2>2. Pending(p)' = [k \in 1..c |-> PacketOf(Q[Nth(R, k)])]
    BY <2>1 DEF Pending, PacketOf, CreateNode, SendMessage, DeleteNode
  <2>3. \A k \in 1..c : Q[Nth(R, k)] = action_queue[Nth(R, k)]
    BY <1>1, <1>6
  <2>4. QED
    BY <1>5, <1>8, <2>2, <2>3
<1>9. QED
  BY <1>7, <1>8
LEMMA ConsIs ==
  ASSUME NEW S, NEW x \in S, NEW s \in Seq(S), NEW t \in Seq(S), Len(s) = Len(t) + 1,
         s[1] = x, \A k \in 1..Len(t) : s[k + 1] = t[k]
  PROVE  s = <<x>> \o t
<1> DEFINE one == <<x>>
           c == Len(t)
<1>1. one \in Seq(S) /\ Len(one) = 1 /\ one[1] = x /\ c \in Nat
  OBVIOUS
<1> HIDE DEF one
<1>2. /\ one \o t \in Seq(S) /\ Len(one \o t) = Len(one) + Len(t)
      /\ \A k \in 1..(Len(one) + Len(t)) :
           (one \o t)[k] = IF k <= Len(one) THEN one[k] ELSE t[k - Len(one)]
  BY <1>1, ConcatProperties
<1>3. Len(one) + Len(t) = c + 1 /\ Len(s) = c + 1 /\ Len(one \o t) = c + 1
  BY <1>1, <1>2
<1>4. ASSUME NEW k \in 1..(c + 1)
      PROVE  s[k] = (one \o t)[k]
  <2>1. (one \o t)[k] = IF k <= Len(one) THEN one[k] ELSE t[k - Len(one)]
    BY <1>2, <1>3
  <2>2. CASE k = 1
    BY <1>1, <2>1, <2>2
  <2>3. CASE k # 1
    <3>1. k - 1 \in 1..c /\ (k - 1) + 1 = k /\ ~(k <= 1)
      BY <1>1, <2>3
    <3>2. s[(k - 1) + 1] = t[k - 1]
      BY <3>1
    <3>3. (one \o t)[k] = t[k - 1]
      BY <1>1, <2>1, <3>1
    <3>4. QED
      BY <3>1, <3>2, <3>3
  <2>4. QED
    BY <2>2, <2>3
<1>5. s = one \o t
  <2> HIDE DEF c
  <2>1. QED
    BY <1>2, <1>3, <1>4, SeqEqual
<1>6. QED
  BY <1>5 DEF one

LEMMA PendingTail ==
  ASSUME TypeOK, TypeOK', action_queue # <<>>, action_queue' = Tail(action_queue), NEW p,
         LET a == Head(action_queue)
         IN \A n \in NodeId : p \in queue_visible'[n] <=>
              Shows(a, n, p) \/ (p \in queue_visible[n] /\ ~Hides(a, n, p))
  PROVE  LET a == Head(action_queue)
         IN /\ Pending(p)' \in Seq(Packet)
            /\ Pending(p) = IF Addressed(a, p) THEN <<PacketOf(a)>> \o Pending(p)'
                                               ELSE Pending(p)'
<1> PICK m \in Nat : m = Len(action_queue')
  BY TailLen
<1> PICK a \in QueuedAction : a = Head(action_queue)
  BY DEF TypeOK
<1> DEFINE Q == action_queue'
           R == Reaching(p)
           less == Shifted(R, m)
           first == IF 1 \in R THEN 1 ELSE 0
<1>1. /\ Len(action_queue) = m + 1 /\ DOMAIN action_queue = 1..(m + 1) /\ DOMAIN Q = 1..m
      /\ \A i \in 1..m : Q[i] = action_queue[i + 1] /\ i + 1 \in 1..(m + 1)
      /\ a = action_queue[1]
  BY TailLen
<1>2. \A i \in 1..m : Q[i] \in QueuedAction /\ Q[i].queue \in NodeId
  BY <1>1, PacketType DEF TypeOK
<1>3. \A i \in 1..m : Reaches(i, p)' <=> Reaches(i + 1, p)
  <2> SUFFICES ASSUME NEW i \in 1..m
               PROVE  Reaches(i, p)' <=> Reaches(i + 1, p)
    OBVIOUS
  <2>1. /\ i - 1 \in 0..Len(action_queue') /\ (i - 1) + 1 = i /\ (i + 1) - 1 = i
    OBVIOUS
  <2>2. \A n \in NodeId : SeesAt(n, p, i - 1)' <=> SeesAt(n, p, (i - 1) + 1)
    BY <2>1, SeesAtTail
  <2>3. \A n \in NodeId : SeesAt(n, p, i - 1)' <=> SeesAt(n, p, i)
    BY <2>1, <2>2
  <2>4. Q[i] = action_queue[i + 1] /\ Q[i].queue \in NodeId
    BY <1>1, <1>2
  <2>5. QED
    BY <2>1, <2>3, <2>4 DEF Reaches
<1>4. Reaches(1, p) <=> Addressed(a, p)
  <2>1. SeesAt(a.queue, p, 0) <=> p \in queue_visible[a.queue]
    BY SeesAtEnds
  <2>2. 1 - 1 = 0
    OBVIOUS
  <2>3. QED
    BY <1>1, <2>1, <2>2 DEF Reaches, Addressed
<1>5. R \in SUBSET (1..(m + 1)) /\ (1 \in R <=> Addressed(a, p))
  BY <1>1, <1>4 DEF Reaching
<1>6. Reaching(p)' = less
  BY <1>1, <1>3 DEF Reaching, Shifted
<1>7. /\ Cardinality(less) \in Nat /\ Cardinality(R) = Cardinality(less) + first
      /\ \A k \in 1..Cardinality(less) :
           Nth(less, k) \in 1..m /\ Nth(R, k + first) = Nth(less, k) + 1
      /\ 1 \in R => Nth(R, 1) = 1
  BY <1>5, NthShifted
<1>8. /\ Pending(p) \in Seq(Packet) /\ Len(Pending(p)) = Cardinality(R)
      /\ Pending(p) = [k \in 1..Cardinality(R) |-> PacketOf(action_queue[Nth(R, k)])]
  BY PendingType DEF Pending
<1>9. /\ Pending(p)' \in Seq(Packet) /\ Len(Pending(p)') = Cardinality(less)
      /\ Pending(p)' = [k \in 1..Cardinality(less) |-> PacketOf(Q[Nth(less, k)])]
  <2>1. Pending(p)' = [k \in 1..Cardinality(less) |-> PacketOf(Q[Nth(less, k)])]
    BY <1>6 DEF Pending, PacketOf, CreateNode, SendMessage, DeleteNode
  <2>2. \A k \in 1..Cardinality(less) : PacketOf(Q[Nth(less, k)]) \in Packet
    BY <1>2, <1>7, PacketType
  <2> HIDE DEF Q, less
  <2>3. QED
    BY <1>7, <2>1, <2>2
<1> HIDE DEF Q, R, less
<1>10. CASE Addressed(a, p)
  <2>1. first = 1
    BY <1>5, <1>10
  <2> DEFINE one == <<PacketOf(a)>>
             s == Pending(p)
             t == Pending(p)'
             c == Cardinality(less)
  <2>2. PacketOf(a) \in Packet /\ one \in Seq(Packet) /\ Len(one) = 1
    BY PacketType
  <2>3. s \in Seq(Packet) /\ t \in Seq(Packet) /\ Len(t) = c /\ Len(s) = c + 1 /\ c \in Nat
    BY <1>7, <1>8, <1>9, <2>1
  <2>4. s[1] = PacketOf(a)
    BY <1>1, <1>5, <1>7, <1>8, <1>10, <2>1
  <2>5. \A k \in 1..c : s[k + 1] = t[k]
    <3> SUFFICES ASSUME NEW k \in 1..c
                 PROVE  s[k + 1] = t[k]
      OBVIOUS
    <3>1. k + 1 \in 1..Cardinality(R)
      BY <1>7, <2>1
    <3>2. s[k + 1] = PacketOf(action_queue[Nth(R, k + 1)])
      BY <1>8, <3>1
    <3>3. Nth(less, k) \in 1..m /\ Nth(R, k + 1) = Nth(less, k) + 1
      BY <1>7, <2>1
    <3>4. t[k] = PacketOf(Q[Nth(less, k)])
      BY <1>9
    <3>5. QED
      BY <1>1, <3>2, <3>3, <3>4
  <2> HIDE DEF s, t, c
  <2>6. s = one \o t
    BY <2>2, <2>3, <2>4, <2>5, ConsIs
  <2>7. QED
    BY <1>9, <1>10, <2>6 DEF one, s, t
<1>11. CASE ~Addressed(a, p)
  <2>1. first = 0
    BY <1>5, <1>11
  <2>2. \A k \in 1..Cardinality(less) : Pending(p)[k] = Pending(p)'[k]
    <3> SUFFICES ASSUME NEW k \in 1..Cardinality(less)
                 PROVE  Pending(p)[k] = Pending(p)'[k]
      OBVIOUS
    <3>1. k \in 1..Cardinality(R) /\ k + 0 = k
      BY <1>7, <2>1
    <3>2. Nth(less, k) \in 1..m /\ Nth(R, k) = Nth(less, k) + 1
      BY <1>7, <2>1, <3>1
    <3>3. Pending(p)[k] = PacketOf(action_queue[Nth(R, k)])
      BY <1>8, <3>1
    <3>4. Pending(p)'[k] = PacketOf(Q[Nth(less, k)])
      BY <1>9
    <3>5. QED
      BY <1>1, <3>2, <3>3, <3>4
  <2>3. Cardinality(R) = Cardinality(less)
    BY <1>7, <2>1
  <2>4. Pending(p) = Pending(p)'
    BY <1>8, <1>9, <2>2, <2>3, SeqEqual
  <2>5. QED
    BY <1>9, <1>11, <2>4
<1>12. QED
  BY <1>9, <1>10, <1>11
----------------------------------------------------------------------------
(* What a peer is told, now or later *)

Owed(p) == IF is_connected(p) THEN wire[p] \o Pending(p) ELSE wire[p]

LEMMA OwedType ==
  ASSUME TypeOK, NEW p \in Peer
  PROVE  Owed(p) \in Seq(Packet) /\ wire[p] \in Seq(Packet) /\ Pending(p) \in Seq(Packet)
<1>1. wire[p] \in Seq(Packet) /\ Pending(p) \in Seq(Packet)
  BY PendingType DEF TypeOK
<1>2. wire[p] \o Pending(p) \in Seq(Packet)
  BY <1>1, ConcatProperties
<1>3. QED
  BY <1>1, <1>2 DEF Owed

\* A call speaks to the peers it reaches at once.
LEMMA OwedPush ==
  ASSUME TypeOK, NEW a \in QueuedAction, Push(a),
         UNCHANGED <<wire, queue_visible, peer_entity, connected>>, NEW p \in Peer
  PROVE  Owed(p)' = IF is_connected(p) /\ WillReach(a, p)
                    THEN Append(Owed(p), PacketOf(a)) ELSE Owed(p)
<1>1. wire' = wire /\ (is_connected(p)' <=> is_connected(p))
  BY DEF is_connected
<1>2. Pending(p)' = IF WillReach(a, p) THEN Append(Pending(p), PacketOf(a)) ELSE Pending(p)
  BY PendingPush
<1>3. Append(wire[p] \o Pending(p), PacketOf(a)) = wire[p] \o Append(Pending(p), PacketOf(a))
  <2> DEFINE w == wire[p]
             s == Pending(p)
             x == PacketOf(a)
  <2>1. /\ w \in Seq(Packet) /\ s \in Seq(Packet) /\ x \in Packet /\ <<x>> \in Seq(Packet)
        /\ w \o s \in Seq(Packet)
    BY OwedType, PacketType, ConcatProperties
  <2> HIDE DEF w, s, x
  <2>2. Append(w \o s, x) = (w \o s) \o <<x>> /\ Append(s, x) = s \o <<x>>
    BY <2>1, AppendIsConcat
  <2>3. (w \o s) \o <<x>> = w \o (s \o <<x>>)
    BY <2>1, ConcatAssociative
  <2>4. QED
    BY <2>2, <2>3 DEF w, s, x
<1>4. QED
  BY <1>1, <1>2, <1>3 DEF Owed

\* Flush sends what is owed first.
LEMMA OwedFlush ==
  ASSUME TypeOK, TypeOK', FlushKind, NEW p \in Peer
  PROVE  Owed(p)' = Owed(p) /\ (is_connected(p)' <=> is_connected(p))
<1> PICK a \in QueuedAction : a = Head(action_queue)
  BY DEF TypeOK, FlushKind
<1>1. /\ is_connected(p)' <=> is_connected(p)
      /\ action_queue # <<>> /\ action_queue' = Tail(action_queue)
      /\ is_connected(p) => \A n \in NodeId : p \in queue_visible'[n] <=>
           Shows(a, n, p) \/ (p \in queue_visible[n] /\ ~Hides(a, n, p))
      /\ wire'[p] = IF is_connected(p) /\ Addressed(a, p)
                    THEN Append(wire[p], PacketOf(a)) ELSE wire[p]
  BY DEF FlushKind, is_connected
<1>2. CASE ~is_connected(p)
  BY <1>1, <1>2 DEF Owed
<1>3. CASE is_connected(p)
  <2>1. Pending(p) = IF Addressed(a, p) THEN <<PacketOf(a)>> \o Pending(p)' ELSE Pending(p)'
    BY <1>1, <1>3, PendingTail
  <2>2. CASE ~Addressed(a, p)
    BY <1>1, <1>3, <2>1, <2>2 DEF Owed
  <2>3. CASE Addressed(a, p)
    <3> DEFINE w == wire[p]
               t == Pending(p)'
               x == PacketOf(a)
    <3>1. t \in Seq(Packet)
      BY <1>1, <1>3, PendingTail
    <3>2. w \in Seq(Packet) /\ x \in Packet /\ <<x>> \in Seq(Packet)
      BY OwedType, PacketType
    <3>3. Owed(p)' = Append(w, x) \o t /\ Owed(p) = w \o (<<x>> \o t)
      BY <1>1, <1>3, <2>1, <2>3 DEF Owed
    <3> HIDE DEF w, t, x
    <3>4. Append(w, x) = w \o <<x>> /\ (w \o <<x>>) \o t = w \o (<<x>> \o t)
      BY <3>1, <3>2, AppendIsConcat, ConcatAssociative
    <3>5. QED
      BY <1>1, <3>3, <3>4
  <2>4. QED
    BY <2>2, <2>3
<1>4. QED
  BY <1>2, <1>3

\* Nothing that a call leaves alone changes what is owed.
LEMMA PendingQuiet ==
  ASSUME TypeOK, UNCHANGED action_queue, NEW p,
         \A n \in NodeId : p \in queue_visible'[n] <=> p \in queue_visible[n]
  PROVE  Pending(p)' = Pending(p)
<1>1. action_queue' = action_queue
  OBVIOUS
<1>2. \A i \in DOMAIN action_queue : action_queue[i].queue \in NodeId
  BY PacketType DEF TypeOK
<1>3. \A n \in NodeId : \A k : SeesAt(n, p, k)' <=> SeesAt(n, p, k)
  BY <1>1 DEF SeesAt, Shows, Hides
<1>4. \A i \in DOMAIN action_queue : Reaches(i, p)' <=> Reaches(i, p)
  BY <1>1, <1>2, <1>3 DEF Reaches
<1>5. Reaching(p)' = Reaching(p)
  BY <1>1, <1>4 DEF Reaching
<1>6. QED
  BY <1>1, <1>5 DEF Pending, PacketOf, CreateNode, SendMessage, DeleteNode

\* A peer that was not registered is owed nothing.
LEMMA OwedUnborn ==
  ASSUME TypeOK, IInv, WireInv, NEW p \in Peer, peer_entity[p] = "none"
  PROVE  Pending(p) = <<>>
<1>1. /\ \A n \in NodeId : p \notin queue_visible[n]
      /\ \A i \in DOMAIN action_queue :
           /\ action_queue[i].op \in {"ReplicateTo", "DestroyRemotely"} =>
                action_queue[i].peer # p
           /\ \A n : ~Shows(action_queue[i], n, p)
  BY DEF IInv, PeerUnborn, WireInv, PeerUnheard, Shows
<1>2. /\ Len(action_queue) \in Nat /\ DOMAIN action_queue = 1..Len(action_queue)
      /\ \A i \in DOMAIN action_queue : action_queue[i].queue \in NodeId
  BY PacketType DEF TypeOK
<1>3. \A i \in DOMAIN action_queue : ~Reaches(i, p)
  <2> SUFFICES ASSUME NEW i \in DOMAIN action_queue
               PROVE  ~Reaches(i, p)
    OBVIOUS
  <2>1. \A j \in 1..(i - 1) : j \in DOMAIN action_queue
    BY <1>2
  <2>2. ~SeesAt(action_queue[i].queue, p, i - 1)
    BY <1>1, <1>2, <2>1 DEF SeesAt
  <2>3. QED
    BY <1>1, <2>2 DEF Reaches
<1>4. Reaching(p) = {}
  BY <1>3 DEF Reaching
<1>5. Cardinality(Reaching(p)) = 0
  BY <1>4, FS_EmptySet
<1>6. QED
  BY <1>5, PendingType
----------------------------------------------------------------------------
(* Every step of the server is a step of Replication, or none *)

Joined == {p \in Peer : is_connected(p)}
OwedLog == [p \in Peer |-> Owed(p)]

\* Replication's log, as RpcServerRefines maps it.
LEMMA MappedLog ==
  /\ [p \in Peer |-> IF is_connected(p) THEN wire[p] \o Pending(p) ELSE wire[p]] = OwedLog
  /\ [p \in Peer |-> IF is_connected(p) THEN wire[p] \o Pending(p) ELSE wire[p]]' = OwedLog'
BY DEF OwedLog, Owed

\* A call that queues an action tells its packet to the peers it is to reach.
LEMMA TellStep ==
  ASSUME TypeOK, NEW a \in QueuedAction, Push(a),
         UNCHANGED <<wire, queue_visible, peer_entity, connected>>,
         NEW peers, \A p \in Peer : is_connected(p) /\ WillReach(a, p) <=> p \in peers
  PROVE  Abs!Tell(peers, PacketOf(a)) /\ Joined' = Joined
<1>1. \A p \in Peer : Owed(p)' = IF p \in peers THEN Append(Owed(p), PacketOf(a)) ELSE Owed(p)
  BY OwedPush
<1>2. OwedLog' = [p \in Peer |-> IF p \in peers THEN Append(OwedLog[p], PacketOf(a))
                                                ELSE OwedLog[p]]
  BY <1>1 DEF OwedLog
<1>3. Abs!Tell(peers, PacketOf(a))
  BY <1>2, MappedLog DEF Abs!Tell
<1>4. Joined' = Joined
  BY DEF Joined, is_connected
<1>5. QED
  BY <1>3, <1>4

LEMMA InitRefines == Init => Abs!Init
<1> SUFFICES ASSUME Init PROVE Abs!Init
  OBVIOUS
<1>1. \A p \in Peer : ~is_connected(p)
  BY DEF Init, is_connected
<1>2. [p \in Peer |-> IF is_connected(p) THEN wire[p] \o Pending(p) ELSE wire[p]]
        = [p \in Peer |-> <<>>]
  BY <1>1 DEF Init
<1>3. {p \in Peer : is_connected(p)} = {}
  BY <1>1
<1>4. QED
  BY <1>2, <1>3 DEF Init, Abs!Init

LEMMA ReplicateRefines ==
  ASSUME TypeOK, IInv, NEW n \in NodeId, NEW p \in Peer, Replicate(n, p)
  PROVE  Abs!Show(n, p)
<1> PICK v \in Value : v = value[n]
  BY DEF TypeOK
<1> DEFINE a == ReplicateTo(n, p, v)
<1>1. a \in QueuedAction /\ a.op = "ReplicateTo" /\ a.peer = p
  BY DEF ReplicateTo, QueuedAction
<1>2. PacketOf(a) = Abs!Create(n, v)
  BY DEF PacketOf, ReplicateTo, CreateNode, Abs!Create
<1>3. Push(a) /\ UNCHANGED <<wire, queue_visible, peer_entity, connected>>
  BY DEF Replicate
<1>4. \A q \in Peer : is_connected(q) /\ WillReach(a, q) <=> q \in {p}
  BY <1>1 DEF WillReach, Replicate
<1> HIDE DEF a
<1>5. Abs!Tell({p}, Abs!Create(n, v)) /\ Joined' = Joined
  BY <1>1, <1>2, <1>3, <1>4, TellStep
<1>6. n \in id_to_node /\ p \in Joined \ visible_to[n]
  BY DEF Replicate, IInv, NodeLife, Joined
<1>7. QED
  BY <1>5, <1>6 DEF Abs!Show, Abs!Tell, Replicate, Joined

LEMMA DeReplicateRefines ==
  ASSUME TypeOK, IInv, NEW n \in NodeId, NEW p \in Peer, DeReplicate(n, p)
  PROVE  Abs!Hide(n, p)
<1> DEFINE a == DestroyRemotely(n, p)
<1>1. a \in QueuedAction /\ a.op = "DestroyRemotely" /\ a.peer = p
  BY DEF DestroyRemotely, QueuedAction
<1>2. PacketOf(a) = Abs!Delete(n)
  BY DEF PacketOf, DestroyRemotely, DeleteNode, Abs!Delete
<1>3. Push(a) /\ UNCHANGED <<wire, queue_visible, peer_entity, connected>>
  BY DEF DeReplicate
<1>4. \A q \in Peer : is_connected(q) /\ WillReach(a, q) <=> q \in {p}
  BY <1>1 DEF WillReach, DeReplicate
<1> HIDE DEF a
<1>5. Abs!Tell({p}, Abs!Delete(n)) /\ Joined' = Joined
  BY <1>1, <1>2, <1>3, <1>4, TellStep
<1>6. QED
  BY <1>5 DEF Abs!Hide, DeReplicate, Joined

\* Whom the queue's action on a node will reach is whom the node is visible to now.
LEMMA ReachedIsVisible ==
  ASSUME TypeOK, IInv, NEW a, a.op \in {"Broadcast", "DestroyNode"}, NEW n \in NodeId,
         a.queue = n
  PROVE  \A q \in Peer : is_connected(q) /\ WillReach(a, q) <=> q \in visible_to[n]
BY DEF IInv, QueueAgrees, VisibilitySymmetric, WillReach

LEMMA BroadcastRefines ==
  ASSUME TypeOK, IInv, NEW n \in NodeId, BroadcastUpdate(n)
  PROVE  Abs!Update(n)
<1> PICK v \in Value : v = value[n] + 1
  BY RpcServerAssumption DEF BroadcastUpdate, TypeOK, Value
<1> DEFINE a == Broadcast(n, v)
<1>1. a \in QueuedAction /\ a.op = "Broadcast" /\ a.queue = n
  BY DEF Broadcast, QueuedAction
<1>2. PacketOf(a) = Abs!Message(n, v)
  BY DEF PacketOf, Broadcast, SendMessage, Abs!Message
<1>3. Push(a) /\ UNCHANGED <<wire, queue_visible, peer_entity, connected>>
  BY DEF BroadcastUpdate
<1> HIDE DEF a
<1>4. \A q \in Peer : is_connected(q) /\ WillReach(a, q) <=> q \in visible_to[n]
  BY <1>1, ReachedIsVisible
<1>5. Abs!Tell(visible_to[n], Abs!Message(n, v)) /\ Joined' = Joined
  BY <1>1, <1>2, <1>3, <1>4, TellStep
<1>6. n \in id_to_node
  BY DEF BroadcastUpdate, IInv, NodeLife
<1>7. QED
  BY <1>5, <1>6 DEF Abs!Update, Abs!Tell, BroadcastUpdate, Joined

LEMMA UnregisterRefines ==
  ASSUME TypeOK, IInv, NEW n \in NodeId, Unregister(n)
  PROVE  Abs!Despawn(n)
<1> DEFINE a == DestroyNode(n)
<1>1. a \in QueuedAction /\ a.op = "DestroyNode" /\ a.queue = n
  BY DEF DestroyNode, QueuedAction
<1>2. PacketOf(a) = Abs!Delete(n)
  BY DEF PacketOf, DestroyNode, DeleteNode, Abs!Delete
<1>3. Push(a) /\ UNCHANGED <<wire, queue_visible, peer_entity, connected>>
  BY DEF Unregister
<1> HIDE DEF a
<1>4. \A q \in Peer : is_connected(q) /\ WillReach(a, q) <=> q \in visible_to[n]
  BY <1>1, ReachedIsVisible
<1>5. Abs!Tell(visible_to[n], Abs!Delete(n)) /\ Joined' = Joined
  BY <1>1, <1>2, <1>3, <1>4, TellStep
<1>6. n \in id_to_node
  BY DEF Unregister, IInv, NodeLife
<1>7. QED
  BY <1>5, <1>6 DEF Abs!Despawn, Unregister, Joined

\* What a peer is owed is not touched by a step that keeps its queue and its connection.
LEMMA OwedQuiet ==
  ASSUME TypeOK, UNCHANGED <<wire, action_queue>>, NEW p \in Peer,
         is_connected(p)' <=> is_connected(p),
         is_connected(p) => \A n \in NodeId : p \in queue_visible'[n] <=> p \in queue_visible[n]
  PROVE  Owed(p)' = Owed(p)
<1>1. CASE is_connected(p)
  BY <1>1, PendingQuiet DEF Owed
<1>2. CASE ~is_connected(p)
  BY <1>2 DEF Owed
<1>3. QED
  BY <1>1, <1>2

LEMMA RegisterNodeRefines ==
  ASSUME TypeOK, IInv, RegisterNode
  PROVE  \E n \in NodeId : Abs!Spawn(n)
<1>1. id_gen \in NodeId /\ id_gen \notin id_to_node /\ id_to_node' = id_to_node \cup {id_gen}
  BY DEF RegisterNode, IInv, NodeLife, TypeOK, NodeId
<1>2. /\ UNCHANGED <<wire, action_queue, value, visible_to>> /\ Joined' = Joined
      /\ \A p \in Peer : is_connected(p)' <=> is_connected(p)
  BY DEF RegisterNode, Joined, is_connected
<1>3. \A p \in Peer : Owed(p)' = Owed(p)
  BY <1>2, OwedQuiet DEF RegisterNode
<1>4. OwedLog' = OwedLog
  BY <1>3 DEF OwedLog
<1>5. \A n \in NodeId : id_gen = n => Abs!Spawn(n)
  BY <1>1, <1>2, <1>4, MappedLog DEF Abs!Spawn, Joined
<1>6. QED
  BY <1>1, <1>5

LEMMA RegisterPeerRefines ==
  ASSUME TypeOK, IInv, WireInv, NEW p \in Peer, RegisterPeer(p)
  PROVE  Abs!Join(p)
<1>1. /\ UNCHANGED <<wire, action_queue, queue_visible, value, visible_to, id_to_node>>
      /\ peer_entity[p] = "none" /\ ~is_connected(p) /\ is_connected(p)'
      /\ \A q \in Peer \ {p} : is_connected(q)' <=> is_connected(q)
  BY DEF RegisterPeer, is_connected, Alive, TypeOK
<1>2. Joined' = Joined \cup {p} /\ p \notin Joined
  BY <1>1 DEF Joined
<1>3. wire[p] = <<>> /\ Pending(p) = <<>>
  BY <1>1, OwedUnborn DEF WireInv, PeerUnheard
<1>4. Pending(p)' = Pending(p)
  BY <1>1, PendingQuiet
<1>5. wire'[p] \o <<>> = wire[p]
  BY <1>1, <1>3
<1>6. Owed(p)' = Owed(p)
  BY <1>1, <1>3, <1>4, <1>5 DEF Owed
<1>7. \A q \in Peer : Owed(q)' = Owed(q)
  BY <1>1, <1>6, OwedQuiet
<1>8. OwedLog' = OwedLog
  BY <1>7 DEF OwedLog
<1>9. QED
  BY <1>1, <1>2, <1>8, MappedLog DEF Abs!Join, Joined

LEMMA SentIsPrefix ==
  ASSUME NEW S, NEW w \in Seq(S), NEW s \in Seq(S)
  PROVE  Len(w) \in 0..Len(w \o s) /\ SubSeq(w \o s, 1, Len(w)) = w
<1>1. /\ w \o s \in Seq(S) /\ Len(w \o s) = Len(w) + Len(s) /\ Len(w) \in Nat /\ Len(s) \in Nat
      /\ \A i \in 1..Len(w) : (w \o s)[i] = w[i]
  BY ConcatProperties
<1> DEFINE u == w \o s
           t == SubSeq(u, 1, Len(w))
<1>2. t \in Seq(S) /\ Len(t) = Len(w) /\ \A i \in 1..Len(w) : t[i] = u[i]
  <2>1. u \in Seq(S) /\ Len(w) <= Len(u)
    BY <1>1
  <2> HIDE DEF u
  <2>2. QED
    BY <1>1, <2>1
<1>3. t = w
  BY <1>1, <1>2, SeqEqual
<1>4. QED
  BY <1>1, <1>3

\* Peers that lose their connection are taken out of the nodes' sets, and what the queue
\* still owed them is never sent.
LEMMA LeaveRefines ==
  ASSUME TypeOK, IInv, NEW removed \in SUBSET Peer,
         UNCHANGED <<wire, action_queue, queue_visible, id_to_node, value>>,
         visible_to' = DropPeers(removed),
         \A p \in Peer : is_connected(p)' <=> is_connected(p) /\ p \notin removed
  PROVE  \/ \E peers \in SUBSET Peer : Abs!Leave(peers)
         \/ UNCHANGED Abs!vars
<1> PICK gone \in SUBSET Peer : gone = removed \cap Joined
  OBVIOUS
<1>1. Joined' = Joined \ gone /\ gone \subseteq Joined
  BY DEF Joined
<1>2. visible_to' = [n \in NodeId |-> visible_to[n] \ gone]
  BY DEF DropPeers, IInv, VisibilitySymmetric, Joined, TypeOK
<1>3. \A p \in Peer \ gone : Owed(p)' = Owed(p)
  BY OwedQuiet DEF Joined
<1>4. \A p \in gone : /\ Owed(p) = wire[p] \o Pending(p)
                      /\ Owed(p)' = wire[p]
                      /\ wire[p] \in Seq(Packet) /\ Pending(p) \in Seq(Packet)
  BY <1>1, OwedType DEF Owed, Joined
<1>5. CASE gone = {}
  <2>1. OwedLog' = OwedLog
    BY <1>3, <1>5 DEF OwedLog
  <2>2. visible_to' = visible_to /\ Joined' = Joined
    BY <1>1, <1>2, <1>5 DEF TypeOK
  <2>3. QED
    BY <2>1, <2>2, MappedLog DEF Abs!vars, Joined
<1>6. CASE gone # {}
  <2> DEFINE kept == [p \in gone |-> Len(wire[p])]
  <2>1. \A p \in gone : /\ Len(wire[p]) \in 0..Len(OwedLog[p])
                        /\ OwedLog'[p] = SubSeq(OwedLog[p], 1, Len(wire[p]))
    BY <1>1, <1>4, SentIsPrefix DEF OwedLog
  <2>2. OwedLog' = [p \in Peer |-> IF p \in gone THEN SubSeq(OwedLog[p], 1, kept[p])
                                                 ELSE OwedLog[p]]
    BY <1>3, <2>1 DEF OwedLog
  <2>3. /\ kept \in [gone -> UNION {0..Len(OwedLog[p]) : p \in gone}]
        /\ \A p \in gone : kept[p] <= Len(OwedLog[p])
    BY <2>1
  <2> HIDE DEF kept
  <2>4. \E k \in [gone -> UNION {0..Len(OwedLog[p]) : p \in gone}] :
          /\ \A p \in gone : k[p] <= Len(OwedLog[p])
          /\ OwedLog' = [p \in Peer |-> IF p \in gone THEN SubSeq(OwedLog[p], 1, k[p])
                                                      ELSE OwedLog[p]]
    BY <2>2, <2>3
  <2>5. Abs!Leave(gone)
    BY <1>1, <1>2, <1>6, <2>4 DEF Abs!Leave, Joined, OwedLog, Owed
  <2>6. QED
    BY <2>5
<1>7. QED
  BY <1>5, <1>6

\* Neither a step of flush nor one that changes no connection and queues nothing is seen.
LEMMA HiddenStep ==
  ASSUME TypeOK, UNCHANGED <<id_to_node, value, visible_to>>,
         \A p \in Peer : Owed(p)' = Owed(p) /\ (is_connected(p)' <=> is_connected(p))
  PROVE  UNCHANGED Abs!vars
<1>1. OwedLog' = OwedLog /\ Joined' = Joined
  BY DEF OwedLog, Joined
<1>2. QED
  BY <1>1, MappedLog DEF Abs!vars, Joined

LEMMA FlushRefines ==
  ASSUME TypeOK, TypeOK', IInv,
         FlushReplicateTo \/ FlushDestroyRemotely \/ FlushBroadcast \/ FlushDestroyNode
  PROVE  UNCHANGED Abs!vars
<1>1. FlushKind
  BY FlushKinds
<1>2. UNCHANGED <<id_to_node, value, visible_to>>
  BY DEF FlushReplicateTo, FlushDestroyRemotely, FlushBroadcast, FlushDestroyNode, NextAction
<1>3. QED
  BY <1>1, <1>2, OwedFlush, HiddenStep

LEMMA QuietRefines ==
  ASSUME TypeOK, UNCHANGED <<wire, action_queue, id_to_node, value, visible_to>>,
         \A p \in Peer : is_connected(p)' <=> is_connected(p),
         \A n \in NodeId, p \in Peer : is_connected(p) =>
           (p \in queue_visible'[n] <=> p \in queue_visible[n])
  PROVE  UNCHANGED Abs!vars
BY OwedQuiet, HiddenStep

LEMMA DisconnectRefines ==
  ASSUME TypeOK, IInv, NEW p \in Peer, Disconnect(p)
  PROVE  \/ \E peers \in SUBSET Peer : Abs!Leave(peers)
         \/ UNCHANGED Abs!vars
<1>1. \A q \in Peer : is_connected(q)' <=> is_connected(q) /\ q \notin {p}
  BY DEF Disconnect, is_connected, TypeOK
<1>2. {p} \in SUBSET Peer
  OBVIOUS
<1>3. QED
  BY <1>1, <1>2, LeaveRefines DEF Disconnect

LEMMA WorldFlushEndRefines ==
  ASSUME TypeOK, IInv, WorldFlushEnd
  PROVE  \/ \E peers \in SUBSET Peer : Abs!Leave(peers)
         \/ UNCHANGED Abs!vars
<1> DEFINE removed == {p \in Peer : peer_entity[p] = "condemned"}
<1>1. \A q \in Peer : is_connected(q)' <=> is_connected(q) /\ q \notin removed
  BY DEF WorldFlushEnd, is_connected, TypeOK, Alive
<1>2. removed \in SUBSET Peer
  OBVIOUS
<1>3. /\ UNCHANGED <<wire, action_queue, queue_visible, id_to_node, value>>
      /\ visible_to' = DropPeers(removed)
  BY DEF WorldFlushEnd
<1> PICK gone \in SUBSET Peer : gone = removed
  BY <1>2
<1> HIDE DEF removed
<1>4. QED
  BY <1>1, <1>2, <1>3, LeaveRefines

LEMMA StepRefines ==
  ASSUME TypeOK, TypeOK', IInv, WireInv, [Next]_vars
  PROVE  [Abs!Next]_(Abs!vars)
<1> DEFINE Step == [Abs!Next]_(Abs!vars)
<1>1. RegisterNode => Step
  BY RegisterNodeRefines DEF Abs!Next
<1>2. \A p \in Peer : RegisterPeer(p) => Step
  BY RegisterPeerRefines DEF Abs!Next
<1>3. \A p \in Peer : Disconnect(p) => Step
  BY DisconnectRefines DEF Abs!Next
<1>4. \A p \in Peer : CondemnPeer(p) => Step
  <2> SUFFICES ASSUME NEW p \in Peer, CondemnPeer(p) PROVE UNCHANGED Abs!vars
    OBVIOUS
  <2>1. \A q \in Peer : is_connected(q)' <=> is_connected(q)
    BY DEF CondemnPeer, is_connected, Alive, TypeOK
  <2>2. QED
    BY <2>1, QuietRefines DEF CondemnPeer
<1>5. \A n \in NodeId : BroadcastUpdate(n) => Step
  BY BroadcastRefines DEF Abs!Next
<1>6. \A n \in NodeId : CondemnNode(n) => Step
  BY QuietRefines DEF CondemnNode, is_connected
<1>7. \A n \in NodeId, p \in Peer : Replicate(n, p) => Step
  BY ReplicateRefines DEF Abs!Next
<1>8. \A n \in NodeId, p \in Peer : DeReplicate(n, p) => Step
  BY DeReplicateRefines DEF Abs!Next
<1>9. FlushBegin => Step
  <2> SUFFICES ASSUME FlushBegin PROVE UNCHANGED Abs!vars
    OBVIOUS
  <2>1. \A n \in NodeId, p \in Peer : is_connected(p) =>
          (p \in queue_visible'[n] <=> p \in queue_visible[n])
    BY DEF FlushBegin, RetainConnected
  <2>2. QED
    BY <2>1, QuietRefines DEF FlushBegin, is_connected
<1>10. FlushReplicateTo => Step
  BY FlushRefines
<1>11. FlushDestroyRemotely => Step
  BY FlushRefines
<1>12. FlushBroadcast => Step
  BY FlushRefines
<1>13. FlushDestroyNode => Step
  BY FlushRefines
<1>14. FlushEnd => Step
  BY QuietRefines DEF FlushEnd, is_connected
<1>15. WorldFlushBegin => Step
  BY QuietRefines DEF WorldFlushBegin, is_connected
<1>16. \A n \in NodeId : Unregister(n) => Step
  BY UnregisterRefines DEF Abs!Next
<1>17. WorldFlushEnd => Step
  BY WorldFlushEndRefines DEF Abs!Next
<1>18. UNCHANGED vars => Step
  BY QuietRefines DEF vars, is_connected
<1> HIDE DEF Step
<1>19. Step
  BY <1>1, <1>2, <1>3, <1>4, <1>5, <1>6, <1>7, <1>8, <1>9, <1>10, <1>11, <1>12, <1>13,
     <1>14, <1>15, <1>16, <1>17, <1>18, NextCases
<1>20. QED
  BY <1>19 DEF Step

\* The queue, the early snapshots, the lagging visibility sets and the flushes cannot be
\* seen by the peers, for any number of nodes, peers and calls: what a peer is told, now or
\* later, is what the calls said in the order of the calls, and a peer that leaves misses
\* only a suffix of it.
THEOREM ServerImplements == Spec => ImplementsReplication
<1>1. TypeOK /\ IInv /\ WireInv /\ (TypeOK /\ IInv /\ WireInv)' /\ [Next]_vars
        => [Abs!Next]_(Abs!vars)
  BY StepRefines
<1>2. QED
  BY InitRefines, WireInvariance, <1>1, PTL DEF Spec, ImplementsReplication, Abs!Spec
=============================================================================
