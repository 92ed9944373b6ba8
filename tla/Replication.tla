---------------------------- MODULE Replication ----------------------------
(***************************************************************************)
(* What the RPC server promises to the game code, without queues, flushes  *)
(* or a second visibility set: every call speaks to the peers at once, in  *)
(* the order of the calls, and a peer that leaves misses a suffix of what  *)
(* it was owed.                                                            *)
(***************************************************************************)
EXTENDS Naturals, Sequences

CONSTANTS Node, Peer

VARIABLES
  present, \* the nodes that exist and are not destroyed
  value,   \* the state of each node
  joined,  \* the peers that are connected
  shown,   \* shown[n]: the peers that n is replicated to
  log      \* log[p]: everything p is told, now or later

vars == <<present, value, joined, shown, log>>

Create(n, v) == [op |-> "CreateNode", node |-> n, val |-> v]
Message(n, v) == [op |-> "SendMessage", node |-> n, val |-> v]
Delete(n) == [op |-> "DeleteNode", node |-> n, val |-> 0]

Tell(peers, packet) ==
  log' = [p \in Peer |-> IF p \in peers THEN Append(log[p], packet) ELSE log[p]]

Init ==
  /\ present = {}
  /\ value = [n \in Node |-> 0]
  /\ joined = {}
  /\ shown = [n \in Node |-> {}]
  /\ log = [p \in Peer |-> <<>>]

Spawn(n) ==
  /\ n \notin present
  /\ present' = present \cup {n}
  /\ UNCHANGED <<value, joined, shown, log>>

Join(p) ==
  /\ p \notin joined
  /\ joined' = joined \cup {p}
  /\ UNCHANGED <<present, value, shown, log>>

Show(n, p) ==
  /\ n \in present /\ p \in joined \ shown[n]
  /\ shown' = [shown EXCEPT ![n] = @ \cup {p}]
  /\ Tell({p}, Create(n, value[n]))
  /\ UNCHANGED <<present, value, joined>>

Hide(n, p) ==
  /\ p \in shown[n]
  /\ shown' = [shown EXCEPT ![n] = @ \ {p}]
  /\ Tell({p}, Delete(n))
  /\ UNCHANGED <<present, value, joined>>

Update(n) ==
  /\ n \in present
  /\ value' = [value EXCEPT ![n] = @ + 1]
  /\ Tell(shown[n], Message(n, value[n] + 1))
  /\ UNCHANGED <<present, joined, shown>>

Despawn(n) ==
  /\ n \in present
  /\ present' = present \ {n}
  /\ shown' = [shown EXCEPT ![n] = {}]
  /\ Tell(shown[n], Delete(n))
  /\ UNCHANGED <<value, joined>>

\* Some peers leave; what each was really told is a prefix of its log.
Leave(peers) ==
  /\ peers # {} /\ peers \subseteq joined
  /\ joined' = joined \ peers
  /\ shown' = [n \in Node |-> shown[n] \ peers]
  /\ \E kept \in [peers -> UNION {0..Len(log[p]) : p \in peers}] :
       /\ \A p \in peers : kept[p] <= Len(log[p])
       /\ log' = [p \in Peer |-> IF p \in peers THEN SubSeq(log[p], 1, kept[p]) ELSE log[p]]
  /\ UNCHANGED <<present, value>>

Next ==
  \/ \E n \in Node : Spawn(n) \/ Update(n) \/ Despawn(n)
  \/ \E p \in Peer : Join(p)
  \/ \E n \in Node, p \in Peer : Show(n, p) \/ Hide(n, p)
  \/ \E peers \in SUBSET Peer : Leave(peers)

Spec == Init /\ [][Next]_vars
=============================================================================
