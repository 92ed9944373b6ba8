------------------------------- MODULE RpcLink -------------------------------
(***************************************************************************)
(* The RPC layer from end to end: a server that keeps the promises of      *)
(* Replication, the ordered stream to one peer, and the RpcClient there    *)
(* with the game's players.  A player is two nodes: its own, created with  *)
(* its position, and a follower (its puppet), which names the player and   *)
(* brings the moves.  The two programs and the stream run at their own     *)
(* pace.                                                                   *)
(***************************************************************************)
EXTENDS Replication

CONSTANTS
  Me,       \* the peer whose client is modelled
  Known,    \* the nodes of the kinds which that client has defined
  Target,   \* the player that a follower names; a player's own node names itself
  Again,    \* whether the game shows a node again to a peer it was hidden from
  MaxValue, \* bound: moves of one player
  MaxLog    \* bound: packets to one peer

ASSUME RpcLinkAssumption ==
  /\ Me \in Peer
  /\ Known \subseteq Node
  /\ Target \in [Node -> Node]
  /\ \A n \in Node : Target[Target[n]] = Target[n]
  /\ \A n \in Node : n \in Known <=> Target[n] \in Known
  /\ Again \in BOOLEAN
  /\ MaxValue \in Nat /\ MaxLog \in Nat

Players == {n \in Node : Target[n] = n}
Followers == Node \ Players

\* Every player has one follower that Me may be shown: the owner's node for its owner, and
\* for the others the puppet, which the players here are.
ASSUME OneFollower == \A f, g \in Followers : Target[f] = Target[g] => f = g

VARIABLES
  node_id_map, catchups, messages, deletions, protocol_errors, frozen, left,
  read,    \* how many packets of log[Me] the client has taken from its transport
  updated, \* whether the game has run since the client was frozen
  app,     \* where the game has each player, or Absent
  bound,   \* the followers with userdata: the PlayerReplicator of their player
  crashed, \* whether the game has panicked, which ends the program
  torn     \* history: the followers that the game ran with before it had read their player

Client == INSTANCE RpcClient

clientVars == <<node_id_map, catchups, messages, deletions,
                protocol_errors, frozen, left>>
gameVars == <<updated, app, bound, crashed, torn>>
linkVars == <<vars, clientVars, read, gameVars>>

\* What the game holds of a player that is not there.
Absent == MaxValue + 1

LinkInit ==
  /\ Init
  /\ Client!Init
  /\ read = 0
  /\ updated = TRUE
  /\ app = [n \in Node |-> Absent]
  /\ bound = {} /\ torn = {}
  /\ crashed = FALSE

(* The server *)

\* PlayerReplicator::process of the server's game: the owner's SetPos moves the player, and
\* its puppet tells.  Both nodes are the group's by then, or neither: spawn_player,
\* add_peer and remove_peer are one call each.
Move(f) ==
  LET p == Target[f] IN
  /\ {f, p} \subseteq present
  /\ Me \in shown[f] <=> Me \in shown[p]
  /\ value[p] < MaxValue
  /\ value' = [value EXCEPT ![p] = @ + 1]
  /\ Tell(shown[f], Message(f, value[p] + 1))
  /\ UNCHANGED <<present, joined, shown>>

\* RpcServer's promises, in the order the game asks for them.  A peer is one session, which
\* joins once; what was read was sent.  Without Again, a node is shown to Me once, and a
\* follower not after its player went.  Which of the two nodes of a player is shown first
\* is open: RpcGroup::add_peer goes through a hash set.
ShownBefore(n) == \E i \in DOMAIN log[Me] : log[Me][i].node = n
Showable(n) ==
  \/ Again
  \/ /\ ~ShownBefore(n)
     /\ ShownBefore(Target[n]) => Me \in shown[Target[n]]
ServerStep ==
  /\ \/ \E n \in Node : Spawn(n) \/ Despawn(n)
     \/ \E f \in Followers : Move(f)
     \/ \E p \in Peer : Join(p) /\ (p = Me => log[Me] = <<>>)
     \/ \E n \in Node, p \in Peer : Show(n, p) /\ (p = Me => Showable(n))
     \/ \E n \in Node, p \in Peer : Hide(n, p)
     \/ \E peers \in SUBSET Peer : Leave(peers)
  /\ Len(log'[Me]) \in read..MaxLog
  /\ UNCHANGED <<clientVars, read, gameVars>>

(* MpClient::process *)

\* A disconnect is only requested there: until the transport's worker has acted on it,
\* packets arrive as before.
ClientReset ==
  /\ updated
  /\ Client!Reset
  /\ updated' = FALSE
  /\ UNCHANGED <<vars, read, app, bound, crashed, torn>>

ClientRecv ==
  /\ read < Len(log[Me])
  /\ Client!Recv(log[Me][read + 1])
  /\ read' = read + 1
  /\ UNCHANGED <<vars, gameVars>>

ClientFreeze ==
  /\ Client!Freeze
  /\ UNCHANGED <<vars, read, gameVars>>

(* sys_update_players of the client's game: added(), then msgs(), then removed() *)

\* Whether a packet says where player p is, or that it is gone.
About(packet, p) ==
  \/ packet.node = p
  \/ packet.op = "SendMessage" /\ Target[packet.node] = p
Among(queue, p) == {i \in DOMAIN queue : About(queue[i], p)}
LastOf(queue, p) == queue[CHOOSE i \in Among(queue, p) : \A j \in Among(queue, p) : j <= i]

\* PlayerRpcKind's added(), the first of the loops.
Spawned(p) == IF Among(catchups, p) # {} THEN LastOf(catchups, p).val ELSE app[p]

\* Then the followers': packet_target finds the player among the nodes and the players'
\* PlayerReplicator in it, which must not have a follower yet.  If there is no such node it
\* reports an error, and has not bound the follower; a PlayerReplicator that is gone panics.
\* Mutation: the followers' loops come before the players'.
Added == {n \in Followers : Among(catchups, n) # {}}
HasKind(p) == \E f \in bound : Target[f] = p
RefusedEarly(f) == app[Target[f]] = Absent \/ HasKind(Target[f])
Refused(f) == Target[f] \notin node_id_map \/ HasKind(Target[f])
BoundNow == bound \cup {f \in Added : ~Refused(f)}

\* A message goes to the userdata of its follower: one that is not bound, or whose player
\* is gone, panics.
Gone(p) == Spawned(p) = Absent
Panics ==
  \/ \E f \in Added : Target[f] \in node_id_map /\ Gone(Target[f])
  \/ \E i \in DOMAIN messages : \/ messages[i].node \notin BoundNow
                                \/ Gone(Target[messages[i].node])

\* Mutation: it looks at the removed nodes first.
AppliedRemovedFirst(p) ==
  CASE Among(messages, p) # {} -> LastOf(messages, p).val
    [] Among(messages, p) = {} /\ Among(catchups, p) # {} -> LastOf(catchups, p).val
    [] OTHER -> IF Among(deletions, p) # {} THEN Absent ELSE app[p]
Applied(p) ==
  CASE Among(deletions, p) # {} -> Absent
    [] Among(deletions, p) = {} /\ Among(messages, p) # {} -> LastOf(messages, p).val
    [] OTHER -> Spawned(p)

ClientUpdate ==
  /\ frozen /\ ~updated /\ ~crashed
  /\ ~Panics
  /\ updated' = TRUE
  /\ app' = [n \in Node |-> IF n \in Players THEN Applied(n) ELSE Absent]
  /\ bound' = BoundNow
  /\ torn' = torn \cup {f \in Added : Target[f] \notin node_id_map}
  /\ protocol_errors' = (protocol_errors \/ \E f \in Added : Refused(f))
  /\ UNCHANGED <<vars, read, node_id_map, catchups, messages, deletions,
                 frozen, left, crashed>>

ClientPanics ==
  /\ frozen /\ ~updated /\ ~crashed
  /\ Panics
  /\ crashed' = TRUE
  /\ torn' = torn \cup {f \in Added : Target[f] \notin node_id_map}
  /\ UNCHANGED <<vars, clientVars, read, updated, app, bound>>

LinkNext ==
  \/ ServerStep
  \/ ~crashed /\ (ClientReset \/ ClientRecv \/ ClientFreeze)
  \/ ClientUpdate
  \/ ClientPanics

LinkSpec == LinkInit /\ [][LinkNext]_linkVars

\* The client's main loop runs MpClient::process and the game in turn, every frame.
LinkFairSpec ==
  /\ LinkSpec
  /\ WF_linkVars(~crashed /\ ClientReset) /\ WF_linkVars(~crashed /\ ClientFreeze)
  /\ WF_linkVars(ClientUpdate) /\ WF_linkVars(ClientPanics)

----------------------------------------------------------------------------
\* A server that follows the protocol makes the client report an error, which ends the
\* connection, only with nodes of a kind the client has not defined, or when a tick ended
\* between a follower and its player, which was sent after it.
NoProtocolErrors ==
  protocol_errors => torn # {} \/ \E i \in 1..read : log[Me][i].node \notin Known

\* And nothing but that makes the game panic.
OnlyTornPanics == crashed => torn # {}

\* An error is not lost in the tick that reports it: the next one asks for a disconnect,
\* unless the game panics before.
ErrorEndsLink == protocol_errors ~> left \/ crashed

\* What userdata().unwrap() says of every message, that its node is bound by the time it is
\* read, and of every player that it is there.
NeverPanics == ~crashed

\* Where a client that read the packets one at a time would have player p after k of them.
Replayed(p, k) ==
  LET about == {i \in 1..k : About(log[Me][i], p)}
      last == CHOOSE i \in about : \A j \in about : j <= i
  IN IF about = {} \/ log[Me][last].op = "DeleteNode" THEN Absent ELSE log[Me][last].val

\* Sorting a tick's packets by what they do, and by their kinds, loses their order and, as
\* long as the game runs, no move of any player: the game ends up where the packets in
\* their order lead, however they fall into ticks.  Nodes of a kind it has not defined stay
\* out of it, and do not disturb the others.
OrderImmaterial ==
  updated => \A p \in Players : app[p] = IF p \in Known THEN Replayed(p, read) ELSE Absent

\* From end to end: a client that has read all it was sent has the players whose nodes are
\* shown to it, where the server has them, and no others.
ClientMirrors ==
  updated /\ read = Len(log[Me]) /\ Me \in joined =>
    \A p \in Players \cap Known : app[p] = IF Me \in shown[p] THEN value[p] ELSE Absent

\* The server's promise, the stream and the client make one replica: no errors and no
\* panics but for a player torn apart by the end of a tick, no move lost by the sorting of
\* a tick, and in the end what the server holds.
ReplicaFaithful == NoProtocolErrors /\ OnlyTornPanics /\ OrderImmaterial /\ ClientMirrors
=============================================================================
