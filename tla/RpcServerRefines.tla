------------------------- MODULE RpcServerRefines --------------------------
(***************************************************************************)
(* RpcServer implements Replication: queueing the actions, encoding the    *)
(* snapshots early and sending everything at the next flush cannot be told *)
(* from speaking to the peers at once.                                     *)
(***************************************************************************)
EXTENDS RpcServer, FiniteSets

\* Whether p, if it stays connected, sees n once the first k actions of the queue are
\* performed.
SeesAt(n, p, k) ==
  \/ \E i \in 1..k : /\ Shows(action_queue[i], n, p)
                     /\ \A j \in (i + 1)..k : ~Hides(action_queue[j], n, p)
  \/ /\ p \in queue_visible[n]
     /\ \A i \in 1..k : ~Hides(action_queue[i], n, p)

\* Whether the i-th action will be sent to p.
Reaches(i, p) ==
  IF action_queue[i].op \in {"ReplicateTo", "DestroyRemotely"}
  THEN action_queue[i].peer = p
  ELSE SeesAt(action_queue[i].queue, p, i - 1)

PacketOf(a) ==
  CASE a.op = "ReplicateTo" -> CreateNode(a.queue, a.val)
    [] a.op = "Broadcast" -> SendMessage(a.queue, a.val)
    [] OTHER -> DeleteNode(a.queue)

\* The k-th of the indices, from the smallest.
Nth(indices, k) == CHOOSE i \in indices : Cardinality({j \in indices : j <= i}) = k

\* The packets that the queue still owes to p.
Reaching(p) == {i \in DOMAIN action_queue : Reaches(i, p)}
Pending(p) ==
  [k \in 1..Cardinality(Reaching(p)) |-> PacketOf(action_queue[Nth(Reaching(p), k)])]

Abs == INSTANCE Replication WITH
  Node <- NodeId,
  present <- id_to_node,
  joined <- {p \in Peer : is_connected(p)},
  shown <- visible_to,
  log <- [p \in Peer |-> IF is_connected(p) THEN wire[p] \o Pending(p) ELSE wire[p]]

\* What the peers are told, now or later, is what the calls said in the order of the
\* calls; a peer that disconnects loses the part that was still queued.
ImplementsReplication == Abs!Spec

\* Under the main loop's fairness whatever is replicated is announced, and whatever is
\* destroyed is taken back.
EventuallySettled == EventuallyTold /\ EventuallyTakenBack
=============================================================================
