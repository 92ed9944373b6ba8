------------------------------ MODULE RpcClient ------------------------------
(***************************************************************************)
(* The client half of the RPC layer (rpc/client.rs) inside the loop of     *)
(* MpClient::process (mp/client.rs): packets are sorted into three queues  *)
(* per kind while the client is not frozen; the game reads the queues      *)
(* while it is.  A component: RpcLink connects it to a server.           *)
(***************************************************************************)
EXTENDS Naturals, Sequences

CONSTANTS
  Node, \* the node ids that the server may use
  Known \* those of the kinds the client has defined

VARIABLES
  node_id_map,     \* ids of the known nodes; nothing is ever removed
  catchups,        \* KindState::catchups of all kinds: creations of this tick
  messages,        \* KindState::messages
  deletions,       \* KindState::deletions
  protocol_errors, \* whether any was reported since the last reset
  frozen,          \* whether the queues may be read, and not written
  left             \* whether MpClient has asked the transport to disconnect

clientVars == <<node_id_map, catchups, messages, deletions,
                protocol_errors, frozen, left>>

Init ==
  /\ node_id_map = {}
  /\ catchups = <<>> /\ messages = <<>> /\ deletions = <<>>
  /\ protocol_errors = FALSE
  /\ frozen = TRUE
  /\ left = FALSE

\* Whether MpClient asks the transport to disconnect.  Mutation: the result is ignored.
LeavingNever == left
Leaving == left \/ protocol_errors

\* What it knows outlives the tick.  Mutation: every tick starts afresh.
ForgetAll == {}
KeepAll == node_id_map

\* RpcClient::reset, at the start of MpClient::process: an error that was reported since
\* the last tick ends the connection.  (What the client sends is left out: RpcServer's
\* RecvPacket takes any packet at any time.)
Reset ==
  /\ frozen
  /\ frozen' = FALSE
  /\ catchups' = <<>> /\ messages' = <<>> /\ deletions' = <<>>
  /\ left' = Leaving
  /\ protocol_errors' = FALSE
  /\ node_id_map' = KeepAll

\* KindState's push_*.  Mutation: the newest packet is put first.
PushFirst(queue, packet) == <<packet>> \o queue
Push(queue, packet) == Append(queue, packet)

(* RpcClient::recv_packet *)

ReportError ==
  /\ protocol_errors' = TRUE
  /\ UNCHANGED <<node_id_map, catchups, messages, deletions>>

RecvCreate(packet) ==
  \/ /\ packet.node \in Known \ node_id_map
     /\ node_id_map' = node_id_map \cup {packet.node}
     /\ catchups' = Push(catchups, packet)
     /\ UNCHANGED <<messages, deletions, protocol_errors>>
  \/ /\ packet.node \notin Known \ node_id_map
     /\ ReportError

RecvDelete(packet) ==
  \/ /\ packet.node \in node_id_map
     /\ deletions' = Push(deletions, packet)
     /\ UNCHANGED <<node_id_map, catchups, messages, protocol_errors>>
  \/ /\ packet.node \notin node_id_map
     /\ ReportError

RecvMessage(packet) ==
  \/ /\ packet.node \in node_id_map
     /\ messages' = Push(messages, packet)
     /\ UNCHANGED <<node_id_map, catchups, deletions, protocol_errors>>
  \/ /\ packet.node \notin node_id_map
     /\ ReportError

Recv(packet) ==
  /\ ~frozen
  /\ \/ packet.op = "CreateNode" /\ RecvCreate(packet)
     \/ packet.op = "DeleteNode" /\ RecvDelete(packet)
     \/ packet.op = "SendMessage" /\ RecvMessage(packet)
  /\ UNCHANGED <<frozen, left>>

\* RpcClient::freeze, when the transport has no more events.
Freeze ==
  /\ ~frozen
  /\ frozen' = TRUE
  /\ UNCHANGED <<node_id_map, catchups, messages, deletions,
                 protocol_errors, left>>
=============================================================================
