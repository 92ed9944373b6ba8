---------------------------- MODULE RpcLinkProofs ----------------------------
(***************************************************************************)
(* Proofs about RpcLink, for any number of players, peers and packets, in  *)
(* however many ticks they are read: ReplicaFaithful, as long as the game  *)
(* shows a node to a peer only once.                                       *)
(***************************************************************************)
EXTENDS RpcLink, WellFoundedInduction, TLAPS

----------------------------------------------------------------------------
(* The inductive invariant *)

Packet == [op : {"CreateNode", "SendMessage", "DeleteNode"}, node : Node, val : 0..MaxValue]

TypesOK ==
  /\ value \in [Node -> 0..MaxValue]
  /\ shown \in [Node -> SUBSET joined]
  /\ log[Me] \in Seq(Packet)
  /\ read \in Nat /\ read <= Len(log[Me])
  /\ node_id_map \subseteq Known
  /\ catchups \in Seq(Packet) /\ messages \in Seq(Packet) /\ deletions \in Seq(Packet)

Deleted(n) == \E i \in DOMAIN log[Me] : log[Me][i].node = n /\ log[Me][i].op = "DeleteNode"

\* Me is told of a node by its creation first, which comes once, and not at all after its
\* deletion.
ToldOnce ==
  \A i \in DOMAIN log[Me] :
    /\ log[Me][i].op = "CreateNode" <=> \A j \in 1..(i - 1) : log[Me][j].node # log[Me][i].node
    /\ \A j \in 1..(i - 1) : log[Me][j].op = "DeleteNode" => log[Me][j].node # log[Me][i].node

\* It is told of a follower only before its player's deletion, and of a move only after the
\* player's creation.
ToldTogether ==
  \A i \in DOMAIN log[Me] :
    /\ log[Me][i].op # "DeleteNode" =>
         \A j \in 1..(i - 1) :
           log[Me][j].op = "DeleteNode" => log[Me][j].node # Target[log[Me][i].node]
    /\ log[Me][i].op = "SendMessage" =>
         /\ log[Me][i].node \in Followers
         /\ \E j \in 1..(i - 1) : log[Me][j].node = Target[log[Me][i].node]

\* While Me is there, it is shown what it was told of, and what it was told leads to where
\* the players are.
ShownExactly ==
  Me \in joined => \A n \in Node : Me \in shown[n] <=> ShownBefore(n) /\ ~Deleted(n)
LogMirrors ==
  Me \in joined => \A p \in Players :
    Replayed(p, Len(log[Me])) = IF Me \in shown[p] THEN value[p] ELSE Absent

\* The client knows the nodes it has read of, but for those of a kind it has not defined.
ReadOf(n) == \E i \in 1..read : log[Me][i].node = n
DeletedRead(n) == \E i \in 1..read : log[Me][i].node = n /\ log[Me][i].op = "DeleteNode"
KnowsWhatItRead == \A n \in Node : n \in node_id_map <=> n \in Known /\ ReadOf(n)

\* Nothing is queued for, or held of, a player that the client does not know, a deletion
\* in the queue has been read, and messages are of known followers.
QueuesKnown ==
  /\ \A p \in Players :
       /\ p \notin node_id_map => /\ Among(catchups, p) = {} /\ Among(messages, p) = {}
                                  /\ Among(deletions, p) = {} /\ app[p] = Absent
       /\ Among(deletions, p) # {} => DeletedRead(p)
  /\ \A i \in DOMAIN messages : messages[i].node \in Followers /\ messages[i].node \in node_id_map
  /\ \A f \in bound : f \in Followers /\ f \in node_id_map
  /\ \A f \in Added : f \in node_id_map

\* What the game holds once it has looked at the queues of the tick, and before: the
\* order of the packets, as far as they were read, leads there.
Expected(p) == IF p \in Known THEN Replayed(p, read) ELSE Absent
GameFollows ==
  /\ updated => frozen
  /\ \A p \in Players : (IF updated THEN app[p] ELSE Applied(p)) = Expected(p)

\* A follower is bound in the tick that brings it, or was torn from its player.
FollowersBound ==
  /\ ~updated => \A f \in Added : f \notin bound
  /\ \A f \in Followers :
       f \in node_id_map => f \in bound \/ torn # {} \/ (~updated /\ f \in Added)

\* The player of a follower or a move that is queued is there when they are looked at.
PlayersAlive ==
  ~updated =>
    /\ \A p \in Players : p \in node_id_map /\ Spawned(p) = Absent => DeletedRead(p)
    /\ \A f \in Added : Target[f] \in node_id_map => Spawned(Target[f]) # Absent
    /\ \A p \in Players, i \in DOMAIN messages :
         Target[messages[i].node] = p => Spawned(p) # Absent

ClientOK ==
  /\ KnowsWhatItRead /\ QueuesKnown /\ GameFollows
  /\ FollowersBound /\ PlayersAlive
  /\ NoProtocolErrors /\ OnlyTornPanics

LinkInv ==
  /\ TypesOK
  /\ ToldOnce /\ ToldTogether /\ ShownExactly /\ LogMirrors
  /\ ClientOK

----------------------------------------------------------------------------
(* The last of some indices *)

LEMMA LastExists ==
  ASSUME NEW k \in Nat, NEW S \in SUBSET (1..k), S # {}
  PROVE  \E i \in S : \A j \in S : j <= i
<1> DEFINE R == OpToRel(<, Nat)
           T == {x \in Nat : k - x \in S}
<1>1. \A x, y \in Nat : <<x, y>> \in R <=> x < y
  BY DEF OpToRel
<1>2. T \subseteq Nat /\ T # {}
  <2>1. PICK i \in S : TRUE
    OBVIOUS
  <2>2. i \in 1..k /\ k - i \in Nat /\ k - (k - i) = i
    OBVIOUS
  <2>3. k - i \in T
    BY <2>1, <2>2
  <2>4. QED
    BY <2>3
<1>3. IsWellFoundedOn(R, Nat)
  BY NatLessThanWellFounded
<1>4. PICK x \in T : \A y \in T : ~(<<y, x>> \in R)
  <2> HIDE DEF R, T
  <2>1. QED
    BY <1>2, <1>3, WFMin
<1>5. k - x \in S /\ x \in Nat
  BY <1>4
<1>6. ASSUME NEW j \in S
      PROVE  j <= k - x
  <2>1. j \in 1..k /\ k - j \in Nat /\ k - (k - j) = j
    OBVIOUS
  <2>2. k - j \in T
    BY <2>1
  <2>3. ~(k - j < x)
    BY <1>1, <1>4, <1>5, <2>1, <2>2
  <2>4. QED
    BY <1>5, <2>1, <2>3
<1>7. QED
  BY <1>5, <1>6

\* Replayed, for a log that is given.
ReplayedIn(told, n, k) ==
  LET about == {i \in 1..k : About(told[i], n)}
      last == CHOOSE i \in about : \A j \in about : j <= i
  IN IF about = {} \/ told[last].op = "DeleteNode" THEN Absent ELSE told[last].val

LEMMA ReplayedLog == \A n, k : Replayed(n, k) = ReplayedIn(log[Me], n, k)
BY DEF Replayed, ReplayedIn

\* A packet alone, and what it leaves of the player.
Left(packet) == IF packet.op = "DeleteNode" THEN Absent ELSE packet.val

\* The last packet about a player decides.
LEMMA ReplayedAt ==
  ASSUME NEW told, NEW n, NEW k \in Nat, NEW i \in 1..k, About(told[i], n),
         \A j \in 1..k : About(told[j], n) => j <= i
  PROVE  ReplayedIn(told, n, k) = Left(told[i])
<1> DEFINE about == {j \in 1..k : About(told[j], n)}
           last == CHOOSE l \in about : \A j \in about : j <= l
<1>1. i \in about /\ \A j \in about : j <= i
  OBVIOUS
<1>2. last \in about /\ \A j \in about : j <= last
  BY <1>1
<1>3. about \subseteq Nat
  OBVIOUS
<1>4. last = i
  <2> HIDE DEF last, about
  <2>1. last <= i /\ i <= last /\ last \in Nat /\ i \in Nat
    BY <1>1, <1>2, <1>3
  <2>2. QED
    BY <2>1
<1>5. about # {}
  BY <1>1
<1>6. ReplayedIn(told, n, k) = Left(told[last])
  BY <1>5 DEF ReplayedIn, Left
<1>7. QED
  BY <1>4, <1>6

LEMMA ReplayedNone ==
  ASSUME NEW told, NEW n, NEW k \in Nat, \A j \in 1..k : ~About(told[j], n)
  PROVE  ReplayedIn(told, n, k) = Absent
<1>1. {j \in 1..k : About(told[j], n)} = {}
  OBVIOUS
<1>2. QED
  BY <1>1 DEF ReplayedIn

LEMMA ReplayedCases ==
  ASSUME NEW told, NEW n, NEW k \in Nat
  PROVE  \/ \A j \in 1..k : ~About(told[j], n)
         \/ \E i \in 1..k : About(told[i], n) /\ \A j \in 1..k : About(told[j], n) => j <= i
<1> DEFINE about == {j \in 1..k : About(told[j], n)}
<1>1. CASE about = {}
  BY <1>1
<1>2. CASE about # {}
  <2>1. about \in SUBSET (1..k)
    OBVIOUS
  <2>2. \E i \in about : \A j \in about : j <= i
    <3> HIDE DEF about
    <3>1. QED
      BY <1>2, <2>1, LastExists
  <2>3. QED
    BY <2>2
<1>3. QED
  BY <1>1, <1>2

LEMMA ReplayedSame ==
  ASSUME NEW told, NEW other, NEW n, NEW k \in Nat, \A j \in 1..k : told[j] = other[j]
  PROVE  ReplayedIn(told, n, k) = ReplayedIn(other, n, k)
<1>1. CASE \A j \in 1..k : ~About(told[j], n)
  <2>1. \A j \in 1..k : ~About(other[j], n)
    BY <1>1
  <2>2. QED
    BY <1>1, <2>1, ReplayedNone
<1>2. CASE \E i \in 1..k : About(told[i], n) /\ \A j \in 1..k : About(told[j], n) => j <= i
  <2>1. PICK i \in 1..k : About(told[i], n) /\ \A j \in 1..k : About(told[j], n) => j <= i
    BY <1>2
  <2>2. About(other[i], n) /\ \A j \in 1..k : About(other[j], n) => j <= i
    BY <2>1
  <2>3. ReplayedIn(told, n, k) = Left(told[i])
    BY <2>1, ReplayedAt
  <2>4. ReplayedIn(other, n, k) = Left(other[i])
    BY <2>2, ReplayedAt
  <2>5. QED
    BY <2>3, <2>4
<1>3. QED
  BY <1>1, <1>2, ReplayedCases

LEMMA ReplayedNext ==
  ASSUME NEW told, NEW n, NEW k \in Nat
  PROVE  ReplayedIn(told, n, k + 1) =
           IF About(told[k + 1], n) THEN Left(told[k + 1]) ELSE ReplayedIn(told, n, k)
<1>0. k + 1 \in Nat /\ k + 1 \in 1..(k + 1) /\ \A j \in 1..(k + 1) : j <= k + 1
  OBVIOUS
<1>1. CASE About(told[k + 1], n)
  <2>1. ReplayedIn(told, n, k + 1) = Left(told[k + 1])
    BY <1>0, <1>1, ReplayedAt
  <2>2. QED
    BY <1>1, <2>1
<1>2. CASE ~About(told[k + 1], n)
  <2>0. \A j \in 1..(k + 1) : j = k + 1 \/ j \in 1..k
    OBVIOUS
  <2>1. CASE \A j \in 1..k : ~About(told[j], n)
    <3>1. \A j \in 1..(k + 1) : ~About(told[j], n)
      BY <1>2, <2>0, <2>1
    <3>2. QED
      BY <1>0, <1>2, <2>1, <3>1, ReplayedNone
  <2>2. CASE \E i \in 1..k : About(told[i], n) /\ \A j \in 1..k : About(told[j], n) => j <= i
    <3>1. PICK i \in 1..k : About(told[i], n) /\ \A j \in 1..k : About(told[j], n) => j <= i
      BY <2>2
    <3>2. i \in 1..(k + 1) /\ \A j \in 1..(k + 1) : About(told[j], n) => j <= i
      BY <1>2, <2>0, <3>1
    <3>3. ReplayedIn(told, n, k) = Left(told[i])
      BY <3>1, ReplayedAt
    <3>4. ReplayedIn(told, n, k + 1) = Left(told[i])
      BY <1>0, <3>1, <3>2, ReplayedAt
    <3>5. QED
      BY <1>2, <3>3, <3>4
  <2>3. \/ \A j \in 1..k : ~About(told[j], n)
        \/ \E i \in 1..k : About(told[i], n) /\ \A j \in 1..k : About(told[j], n) => j <= i
    BY ReplayedCases
  <2>4. QED
    BY <2>1, <2>2, <2>3
<1>3. QED
  BY <1>1, <1>2
----------------------------------------------------------------------------
(* The queues of a tick *)

LEMMA AmongLast ==
  ASSUME NEW q \in Seq(Packet), NEW n, NEW i \in Among(q, n), \A j \in Among(q, n) : j <= i
  PROVE  LastOf(q, n) = q[i]
<1> DEFINE last == CHOOSE l \in Among(q, n) : \A j \in Among(q, n) : j <= l
<1>1. last \in Among(q, n) /\ \A j \in Among(q, n) : j <= last
  OBVIOUS
<1>2. Among(q, n) \subseteq Nat
  BY DEF Among
<1>3. last = i
  <2> HIDE DEF last
  <2>1. last <= i /\ i <= last /\ last \in Nat /\ i \in Nat
    BY <1>1, <1>2
  <2>2. QED
    BY <2>1
<1>4. QED
  BY <1>3 DEF LastOf

LEMMA AmongPushed ==
  ASSUME NEW q \in Seq(Packet), NEW packet \in Packet, NEW n
  PROVE  /\ About(packet, n) => /\ Among(Append(q, packet), n) # {}
                                /\ LastOf(Append(q, packet), n) = packet
         /\ ~About(packet, n) => /\ Among(Append(q, packet), n) = Among(q, n)
                                 /\ Among(q, n) # {} =>
                                      LastOf(Append(q, packet), n) = LastOf(q, n)
<1> DEFINE t == Append(q, packet)
<1>1. /\ t \in Seq(Packet) /\ Len(q) \in Nat /\ DOMAIN q = 1..Len(q)
      /\ DOMAIN t = 1..(Len(q) + 1) /\ t[Len(q) + 1] = packet
      /\ \A i \in DOMAIN q : i \in DOMAIN t /\ t[i] = q[i]
      /\ \A i \in DOMAIN t : i = Len(q) + 1 \/ i \in DOMAIN q
  OBVIOUS
<1> HIDE DEF t
<1>2. CASE About(packet, n)
  <2>1. Len(q) + 1 \in Among(t, n)
    BY <1>1, <1>2 DEF Among
  <2>2. \A j \in Among(t, n) : j <= Len(q) + 1
    BY <1>1 DEF Among
  <2>3. LastOf(t, n) = t[Len(q) + 1]
    BY <1>1, <2>1, <2>2, AmongLast
  <2>4. QED
    BY <1>1, <1>2, <2>1, <2>3 DEF t
<1>3. CASE ~About(packet, n)
  <2>1. Among(t, n) = Among(q, n)
    BY <1>1, <1>3 DEF Among
  <2>2. ASSUME Among(q, n) # {}
        PROVE  LastOf(t, n) = LastOf(q, n)
    <3>1. Among(q, n) \in SUBSET (1..Len(q))
      BY <1>1 DEF Among
    <3>2. PICK i \in Among(q, n) : \A j \in Among(q, n) : j <= i
      BY <1>1, <2>2, <3>1, LastExists
    <3>3. LastOf(q, n) = q[i]
      BY <3>2, AmongLast
    <3>4. LastOf(t, n) = t[i]
      BY <1>1, <2>1, <3>2, AmongLast
    <3>5. i \in DOMAIN q
      BY <3>1, <1>1
    <3>6. QED
      BY <1>1, <3>3, <3>4, <3>5
  <2>3. QED
    BY <1>3, <2>1, <2>2 DEF t
<1>4. QED
  BY <1>2, <1>3

LEMMA AmongNone ==
  ASSUME NEW n
  PROVE  Among(<<>>, n) = {}
BY DEF Among

----------------------------------------------------------------------------
(* The initial states *)

LEMMA Targets ==
  /\ \A n \in Node : Target[n] \in Node /\ Target[n] \in Players
  /\ \A n \in Players : n \in Node /\ Target[n] = n
  /\ \A n \in Followers : n \in Node /\ n \notin Players /\ Target[n] # n
  /\ \A n \in Node : n \in Known <=> Target[n] \in Known
BY RpcLinkAssumption DEF Players, Followers

LEMMA AbsentIsNone == Absent \notin 0..MaxValue /\ Absent \in Nat
BY RpcLinkAssumption DEF Absent

LEMMA InitInv == LinkInit => LinkInv
<1> SUFFICES ASSUME LinkInit
             PROVE  LinkInv
  OBVIOUS
<1> USE RpcLinkAssumption
<1>1. /\ log[Me] = <<>> /\ read = 0 /\ Len(log[Me]) = 0 /\ joined = {}
      /\ value = [n \in Node |-> 0] /\ shown = [n \in Node |-> {}]
      /\ node_id_map = {} /\ catchups = <<>> /\ messages = <<>> /\ deletions = <<>>
      /\ protocol_errors = FALSE /\ frozen = TRUE /\ updated = TRUE
      /\ app = [n \in Node |-> Absent] /\ bound = {} /\ crashed = FALSE
  BY DEF LinkInit, Init, Client!Init
<1>2. TypesOK
  <2>1. <<>> \in Seq(Packet)
    OBVIOUS
  <2>2. value \in [Node -> 0..MaxValue] /\ shown \in [Node -> SUBSET joined]
    BY <1>1
  <2>3. QED
    BY <1>1, <2>1, <2>2 DEF TypesOK
<1>3. /\ ToldOnce /\ ToldTogether /\ ShownExactly /\ LogMirrors
      /\ NoProtocolErrors /\ OnlyTornPanics
  BY <1>1 DEF ToldOnce, ToldTogether, ShownExactly, LogMirrors, NoProtocolErrors, OnlyTornPanics
<1>0. 1..read = {} /\ read \in Nat
  BY <1>1
<1>4. KnowsWhatItRead
  <2>1. \A n \in Node : ~ReadOf(n)
    BY <1>0 DEF ReadOf
  <2>2. QED
    BY <1>1, <2>1 DEF KnowsWhatItRead
<1>5. QueuesKnown
  <2>1. DOMAIN messages = {}
    BY <1>1
  <2>2. \A n : Among(catchups, n) = {} /\ Among(messages, n) = {} /\ Among(deletions, n) = {}
    BY <1>1, AmongNone
  <2>3. Added = {}
    BY <2>2 DEF Added
  <2>4. QED
    BY <1>1, <2>1, <2>2, <2>3, Targets DEF QueuesKnown
<1>6. GameFollows
  <2>1. \A n \in Node : Replayed(n, read) = Absent
    BY <1>0, ReplayedNone, ReplayedLog
  <2>2. QED
    BY <1>1, <2>1, Targets DEF GameFollows, Expected
<1>7. FollowersBound /\ PlayersAlive
  BY <1>1 DEF FollowersBound, PlayersAlive
<1>8. QED
  BY <1>2, <1>3, <1>4, <1>5, <1>6, <1>7 DEF LinkInv, ClientOK

----------------------------------------------------------------------------
(* The server's steps *)

LEMMA ReplayedNow ==
  /\ \A n : Replayed(n, read) = ReplayedIn(log[Me], n, read)
  /\ \A n : Replayed(n, Len(log[Me])) = ReplayedIn(log[Me], n, Len(log[Me]))
  /\ \A n : Replayed(n, read)' = ReplayedIn(log[Me]', n, read')
  /\ \A n : Replayed(n, Len(log[Me]))' = ReplayedIn(log[Me]', n, Len(log[Me]'))
BY DEF Replayed, ReplayedIn, About

\* The client has its view as long as what it read stays as it is.
LEMMA ClientKeeps ==
  ASSUME ClientOK, read \in Nat, UNCHANGED <<clientVars, read, gameVars>>,
         \A i \in 1..read : log'[Me][i] = log[Me][i]
  PROVE  ClientOK'
<1>0. /\ read' = read /\ updated' = updated /\ app' = app /\ bound' = bound
      /\ crashed' = crashed /\ torn' = torn
      /\ node_id_map' = node_id_map /\ catchups' = catchups /\ messages' = messages
      /\ deletions' = deletions /\ protocol_errors' = protocol_errors /\ frozen' = frozen
  BY DEF clientVars, gameVars
<1>1. \A n : (ReadOf(n)' <=> ReadOf(n)) /\ (DeletedRead(n)' <=> DeletedRead(n))
  BY <1>0 DEF ReadOf, DeletedRead
<1>2. /\ \A p : /\ Among(catchups, p)' = Among(catchups, p)
                /\ Among(messages, p)' = Among(messages, p)
                /\ Among(deletions, p)' = Among(deletions, p)
      /\ \A p : Spawned(p)' = Spawned(p) /\ Applied(p)' = Applied(p)
      /\ Added' = Added
  BY <1>0 DEF Among, LastOf, Spawned, Applied, Added, About
<1>3. KnowsWhatItRead'
  BY <1>0, <1>1 DEF KnowsWhatItRead, ClientOK
<1>4. QueuesKnown'
  BY <1>0, <1>1, <1>2 DEF QueuesKnown, ClientOK, Absent
<1>5. GameFollows'
  <2>1. \A n : Replayed(n, read)' = Replayed(n, read)
    <3>1. \A n : ReplayedIn(log[Me]', n, read) = ReplayedIn(log[Me], n, read)
      BY <1>0, ReplayedSame
    <3>2. QED
      BY <1>0, <3>1, ReplayedNow
  <2>2. \A p : Expected(p)' = Expected(p)
    BY <1>0, <2>1 DEF Expected, Absent
  <2>3. QED
    BY <1>0, <1>2, <2>2 DEF GameFollows, ClientOK
<1>6. FollowersBound' /\ PlayersAlive'
  BY <1>0, <1>1, <1>2 DEF FollowersBound, PlayersAlive, ClientOK, Absent
<1>7. NoProtocolErrors' /\ OnlyTornPanics'
  BY <1>0 DEF NoProtocolErrors, OnlyTornPanics, ClientOK
<1>8. QED
  BY <1>3, <1>4, <1>5, <1>6, <1>7 DEF ClientOK

\* What a server's step does to Me: it is told a packet, or nothing; or it leaves.
Kept == log[Me]' = log[Me]
Told(packet) == log[Me]' = Append(log[Me], packet)
Extended == \A i \in DOMAIN log[Me] : log'[Me][i] = log[Me][i]

\* The server's part of the invariant.
ServerOK ==
  /\ value \in [Node -> 0..MaxValue]
  /\ shown \in [Node -> SUBSET joined]
  /\ log[Me] \in Seq(Packet)
  /\ ToldOnce /\ ToldTogether /\ ShownExactly /\ LogMirrors

\* What Me may be told next.
Sayable(packet) ==
  /\ packet \in Packet
  /\ packet.op = "CreateNode" <=> ~ShownBefore(packet.node)
  /\ ~Deleted(packet.node)
  /\ packet.op # "DeleteNode" => ~Deleted(Target[packet.node])
  /\ packet.op = "SendMessage" =>
       packet.node \in Followers /\ ShownBefore(Target[packet.node])

LEMMA ToldMore ==
  ASSUME ServerOK, NEW packet, Sayable(packet), Told(packet)
  PROVE  /\ log[Me]' \in Seq(Packet) /\ ToldOnce' /\ ToldTogether'
         /\ Extended
         /\ \A n : ShownBefore(n)' <=> ShownBefore(n) \/ n = packet.node
         /\ \A n : Deleted(n)' <=> Deleted(n) \/ (n = packet.node /\ packet.op = "DeleteNode")
         /\ \A n : Replayed(n, Len(log[Me]))' = IF About(packet, n)
                                                THEN Left(packet)
                                                ELSE Replayed(n, Len(log[Me]))
<1> DEFINE told == log[Me]
           more == Append(told, packet)
<1>0. packet \in Packet
  BY DEF Sayable
<1>1. /\ told \in Seq(Packet) /\ DOMAIN told = 1..Len(told) /\ Len(told) \in Nat
      /\ more \in Seq(Packet) /\ DOMAIN more = 1..(Len(told) + 1) /\ Len(more) = Len(told) + 1
      /\ more[Len(told) + 1] = packet
      /\ \A i \in 1..Len(told) : more[i] = told[i]
  BY <1>0 DEF ServerOK
<1>2. log[Me]' = more
  BY DEF Told
<1> HIDE DEF more
<1>3. /\ \A n : ShownBefore(n) <=> \E i \in 1..Len(told) : told[i].node = n
      /\ \A n : Deleted(n) <=> \E i \in 1..Len(told) :
                                 told[i].node = n /\ told[i].op = "DeleteNode"
      /\ \A n : ShownBefore(n)' <=> \E i \in 1..(Len(told) + 1) : more[i].node = n
      /\ \A n : Deleted(n)' <=> \E i \in 1..(Len(told) + 1) :
                                  more[i].node = n /\ more[i].op = "DeleteNode"
  BY <1>1, <1>2 DEF ShownBefore, Deleted
<1> HIDE DEF told
<1>4. /\ \A i \in 1..(Len(told) + 1) : i = Len(told) + 1 \/ i \in 1..Len(told)
      /\ 1..Len(told) \subseteq 1..(Len(told) + 1) /\ Len(told) + 1 \in 1..(Len(told) + 1)
  BY <1>1
<1>5. /\ \A n : ShownBefore(n)' <=> ShownBefore(n) \/ n = packet.node
      /\ \A n : Deleted(n)' <=> Deleted(n) \/ (n = packet.node /\ packet.op = "DeleteNode")
  BY <1>1, <1>3, <1>4
<1>6. ASSUME NEW i \in 1..(Len(told) + 1)
      PROVE  /\ more[i].op = "CreateNode"
                  <=> \A j \in 1..(i - 1) : more[j].node # more[i].node
             /\ \A j \in 1..(i - 1) :
                  more[j].op = "DeleteNode" => more[j].node # more[i].node
             /\ more[i].op # "DeleteNode" =>
                  \A j \in 1..(i - 1) :
                    more[j].op = "DeleteNode" => more[j].node # Target[more[i].node]
             /\ more[i].op = "SendMessage" =>
                  /\ more[i].node \in Followers
                  /\ \E j \in 1..(i - 1) : more[j].node = Target[more[i].node]
  <2>1. CASE i = Len(told) + 1
    <3>1. 1..(i - 1) = 1..Len(told) /\ more[i] = packet
      BY <1>1, <2>1
    <3>2. QED
      BY <1>1, <1>3, <3>1 DEF Sayable
  <2>2. CASE i # Len(told) + 1
    <3>1. i \in 1..Len(told) /\ \A j \in 1..(i - 1) : j \in 1..Len(told)
      BY <1>1, <2>2
    <3>2. more[i] = told[i] /\ \A j \in 1..(i - 1) : more[j] = told[j]
      BY <1>1, <3>1
    <3>3. i \in DOMAIN told
      BY <1>1, <3>1
    <3>4. /\ told[i].op = "CreateNode" <=> \A j \in 1..(i - 1) : told[j].node # told[i].node
          /\ \A j \in 1..(i - 1) : told[j].op = "DeleteNode" => told[j].node # told[i].node
      BY <3>3 DEF ServerOK, ToldOnce, told
    <3>5. /\ told[i].op # "DeleteNode" =>
               \A j \in 1..(i - 1) :
                 told[j].op = "DeleteNode" => told[j].node # Target[told[i].node]
          /\ told[i].op = "SendMessage" =>
               /\ told[i].node \in Followers
               /\ \E j \in 1..(i - 1) : told[j].node = Target[told[i].node]
      BY <3>3 DEF ServerOK, ToldTogether, told
    <3>6. QED
      BY <3>2, <3>4, <3>5
  <2>3. QED
    BY <2>1, <2>2
<1>7. ToldOnce' /\ ToldTogether'
  BY <1>1, <1>2, <1>6 DEF ToldOnce, ToldTogether
<1>8. ASSUME NEW n
      PROVE  ReplayedIn(more, n, Len(told) + 1) = IF About(packet, n)
                                                  THEN Left(packet)
                                                  ELSE ReplayedIn(told, n, Len(told))
  <2>1. ReplayedIn(more, n, Len(told)) = ReplayedIn(told, n, Len(told))
    BY <1>1, ReplayedSame
  <2>2. QED
    BY <1>1, <2>1, ReplayedNext
<1>9. \A n : Replayed(n, Len(log[Me]))' = IF About(packet, n)
                                          THEN Left(packet)
                                          ELSE Replayed(n, Len(log[Me]))
  BY <1>1, <1>2, <1>8, ReplayedNow DEF told
<1>10. Extended
  BY <1>1, <1>2 DEF told, Extended
<1>11. QED
  BY <1>1, <1>2, <1>5, <1>7, <1>9, <1>10

LEMMA ToldNothing ==
  ASSUME ServerOK, Kept
  PROVE  /\ log[Me]' \in Seq(Packet) /\ ToldOnce' /\ ToldTogether' /\ Extended
         /\ \A n : (ShownBefore(n)' <=> ShownBefore(n)) /\ (Deleted(n)' <=> Deleted(n))
         /\ \A n : Replayed(n, Len(log[Me]))' = Replayed(n, Len(log[Me]))
<1>1. log[Me]' = log[Me]
  BY DEF Kept
<1>2. QED
  BY <1>1, ReplayedNow DEF ServerOK, ToldOnce, ToldTogether, Extended, ShownBefore, Deleted

\* A step that does not concern Me.
LEMMA KeepStep ==
  ASSUME ServerOK, Kept,
         value' \in [Node -> 0..MaxValue], shown' \in [Node -> SUBSET joined'],
         Me \in joined' <=> Me \in joined,
         \A n \in Node : Me \in shown'[n] <=> Me \in shown[n],
         \A n \in Node : Me \in shown[n] => value'[n] = value[n]
  PROVE  ServerOK' /\ Extended
<1>1. ShownExactly'
  BY ToldNothing DEF ServerOK, ShownExactly
<1>2. LogMirrors'
  BY ToldNothing, Targets DEF ServerOK, LogMirrors, Absent
<1>3. QED
  BY <1>1, <1>2, ToldNothing DEF ServerOK

\* A step that does.
Shows(packet) ==
  /\ \A m \in Node : m # packet.node => (Me \in shown'[m] <=> Me \in shown[m])
  /\ Me \in shown'[packet.node] <=> packet.op # "DeleteNode"
  /\ \A m \in Node : value'[m] = IF packet.op = "SendMessage" /\ m = Target[packet.node]
                                 THEN packet.val
                                 ELSE value[m]
  /\ packet.op = "CreateNode" => packet.val = value[packet.node]
LEMMA TellStep ==
  ASSUME ServerOK, NEW packet, Sayable(packet), Told(packet), Shows(packet),
         value' \in [Node -> 0..MaxValue], shown' \in [Node -> SUBSET joined'],
         Me \in joined
  PROVE  ServerOK' /\ Extended
<1>0. packet \in Packet /\ packet.node \in Node
      /\ packet.op \in {"CreateNode", "SendMessage", "DeleteNode"}
  BY DEF Sayable, Packet
<1>1. ShownExactly'
  <2>1. ASSUME NEW n \in Node
        PROVE  Me \in shown'[n] <=> ShownBefore(n)' /\ ~Deleted(n)'
    <3>1. Me \in shown[n] <=> ShownBefore(n) /\ ~Deleted(n)
      BY DEF ServerOK, ShownExactly
    <3>2. CASE n = packet.node
      BY <3>2, ToldMore DEF Shows, Sayable
    <3>3. CASE n # packet.node
      BY <3>1, <3>3, ToldMore DEF Shows
    <3>4. QED
      BY <3>2, <3>3
  <2>2. QED
    BY <2>1 DEF ShownExactly
<1>2. LogMirrors'
  <2>1. ASSUME NEW p \in Players
        PROVE  Replayed(p, Len(log[Me]))' = IF Me \in shown'[p] THEN value'[p] ELSE Absent
    <3>0. p \in Node /\ Target[p] = p /\ p \notin Followers
      BY Targets
    <3>1. Replayed(p, Len(log[Me])) = IF Me \in shown[p] THEN value[p] ELSE Absent
      BY DEF ServerOK, LogMirrors
    <3>2. Replayed(p, Len(log[Me]))' = IF About(packet, p) THEN Left(packet)
                                       ELSE Replayed(p, Len(log[Me]))
      BY ToldMore
    <3>3. CASE packet.node = p
      <4>1. packet.op # "SendMessage" /\ About(packet, p)
        BY <3>0, <3>3 DEF Sayable, About
      <4>2. QED
        BY <1>0, <3>0, <3>2, <3>3, <4>1 DEF Shows, Left
    <3>4. CASE packet.node # p /\ packet.op = "SendMessage" /\ Target[packet.node] = p
      <4>1. About(packet, p) /\ Left(packet) = packet.val /\ value'[p] = packet.val
        BY <3>0, <3>4 DEF About, Left, Shows
      <4>2. Me \in shown[p]
        BY <3>0, <3>4 DEF Sayable, ServerOK, ShownExactly
      <4>3. QED
        BY <3>0, <3>2, <3>4, <4>1, <4>2 DEF Shows
    <3>5. CASE packet.node # p /\ ~(packet.op = "SendMessage" /\ Target[packet.node] = p)
      BY <3>0, <3>1, <3>2, <3>5 DEF Shows, About
    <3>6. QED
      BY <3>3, <3>4, <3>5
  <2>2. QED
    BY <2>1 DEF LogMirrors, Absent
<1>3. QED
  BY <1>1, <1>2, ToldMore DEF ServerOK

LEMMA ShowStep ==
  ASSUME Again = FALSE, ServerOK, NEW n \in Node, NEW p \in Peer, Show(n, p),
         p = Me => Showable(n)
  PROVE  ServerOK' /\ Extended
<1> USE RpcLinkAssumption
<1>1. /\ p \in joined /\ p \notin shown[n] /\ value' = value /\ joined' = joined
      /\ shown' = [shown EXCEPT ![n] = @ \cup {p}]
      /\ log[Me]' = IF Me = p THEN Append(log[Me], Create(n, value[n])) ELSE log[Me]
  BY DEF Show, Tell
<1>2. /\ value' \in [Node -> 0..MaxValue] /\ shown' \in [Node -> SUBSET joined']
      /\ \A m \in Node : Me \in shown'[m] <=> Me \in shown[m] \/ (m = n /\ p = Me)
  BY <1>1 DEF ServerOK
<1>3. CASE p # Me
  <2>1. Kept
    BY <1>1, <1>3 DEF Kept
  <2>2. QED
    BY <1>1, <1>2, <1>3, <2>1, KeepStep
<1>4. CASE p = Me
  <2> DEFINE packet == Create(n, value[n])
  <2>1. packet \in Packet /\ packet.op = "CreateNode" /\ packet.node = n
        /\ packet.val = value[n]
    BY DEF Create, Packet, ServerOK
  <2>2. Told(packet)
    BY <1>1, <1>4 DEF Told
  <2> HIDE DEF packet
  <2>3. ~ShownBefore(n) /\ (ShownBefore(Target[n]) => Me \in shown[Target[n]])
    BY <1>4 DEF Showable
  <2>4. \A m : ~ShownBefore(m) => ~Deleted(m)
    BY DEF ShownBefore, Deleted
  <2>5. ShownBefore(Target[n]) => ~Deleted(Target[n])
    BY <1>1, <1>4, <2>3, Targets DEF ServerOK, ShownExactly
  <2>6. Sayable(packet)
    BY <2>1, <2>3, <2>4, <2>5 DEF Sayable
  <2>7. Shows(packet)
    BY <1>1, <1>2, <1>4, <2>1 DEF Shows
  <2>8. QED
    BY <1>1, <1>2, <1>4, <2>2, <2>6, <2>7, TellStep
<1>5. QED
  BY <1>3, <1>4

\* Me is told that a node which it was shown has gone.
LEMMA TakeBackStep ==
  ASSUME ServerOK, NEW n \in Node, Me \in shown[n], Told(Delete(n)), value' = value,
         joined' = joined, shown' \in [Node -> SUBSET joined'],
         \A m \in Node : Me \in shown'[m] <=> Me \in shown[m] /\ m # n
  PROVE  ServerOK' /\ Extended
<1> DEFINE packet == Delete(n)
<1>1. packet \in Packet /\ packet.op = "DeleteNode" /\ packet.node = n
  BY RpcLinkAssumption DEF Delete, Packet
<1>2. Told(packet)
  OBVIOUS
<1> HIDE DEF packet
<1>3. Me \in joined
  BY DEF ServerOK
<1>4. Sayable(packet)
  BY <1>1, <1>3 DEF Sayable, ServerOK, ShownExactly
<1>5. Shows(packet)
  BY <1>1 DEF Shows
<1>6. value' \in [Node -> 0..MaxValue]
  BY DEF ServerOK
<1>7. QED
  BY <1>2, <1>3, <1>4, <1>5, <1>6, TellStep

LEMMA HideStep ==
  ASSUME ServerOK, NEW n \in Node, NEW p \in Peer, Hide(n, p)
  PROVE  ServerOK' /\ Extended
<1> USE RpcLinkAssumption
<1>1. /\ p \in shown[n] /\ value' = value /\ joined' = joined
      /\ shown' = [shown EXCEPT ![n] = @ \ {p}]
      /\ log[Me]' = IF Me = p THEN Append(log[Me], Delete(n)) ELSE log[Me]
  BY DEF Hide, Tell
<1>2. /\ value' \in [Node -> 0..MaxValue] /\ shown' \in [Node -> SUBSET joined']
      /\ \A m \in Node : Me \in shown'[m] <=> Me \in shown[m] /\ ~(m = n /\ p = Me)
  BY <1>1 DEF ServerOK
<1>3. CASE p # Me
  <2>1. Kept
    BY <1>1, <1>3 DEF Kept
  <2>2. QED
    BY <1>1, <1>2, <1>3, <2>1, KeepStep
<1>4. CASE p = Me
  <2>1. Told(Delete(n)) /\ Me \in shown[n]
    BY <1>1, <1>4 DEF Told
  <2>2. QED
    BY <1>1, <1>2, <1>4, <2>1, TakeBackStep
<1>5. QED
  BY <1>3, <1>4

LEMMA DespawnStep ==
  ASSUME ServerOK, NEW n \in Node, Despawn(n)
  PROVE  ServerOK' /\ Extended
<1> USE RpcLinkAssumption
<1>1. /\ value' = value /\ joined' = joined /\ shown' = [shown EXCEPT ![n] = {}]
      /\ log[Me]' = IF Me \in shown[n] THEN Append(log[Me], Delete(n)) ELSE log[Me]
  BY DEF Despawn, Tell
<1>2. /\ value' \in [Node -> 0..MaxValue] /\ shown' \in [Node -> SUBSET joined']
      /\ \A m \in Node : Me \in shown'[m] <=> Me \in shown[m] /\ m # n
  BY <1>1 DEF ServerOK
<1>3. CASE Me \notin shown[n]
  <2>1. Kept
    BY <1>1, <1>3 DEF Kept
  <2>2. QED
    BY <1>1, <1>2, <1>3, <2>1, KeepStep
<1>4. CASE Me \in shown[n]
  <2>1. Told(Delete(n))
    BY <1>1, <1>4 DEF Told
  <2>2. QED
    BY <1>1, <1>2, <1>4, <2>1, TakeBackStep
<1>5. QED
  BY <1>3, <1>4

LEMMA MoveStep ==
  ASSUME ServerOK, NEW f \in Followers, Move(f)
  PROVE  ServerOK' /\ Extended
<1> USE RpcLinkAssumption
<1> DEFINE p == Target[f]
<1>1. /\ Me \in shown[f] <=> Me \in shown[p]
      /\ value[p] < MaxValue
      /\ value' = [value EXCEPT ![p] = @ + 1] /\ joined' = joined /\ shown' = shown
      /\ log[Me]' = IF Me \in shown[f] THEN Append(log[Me], Message(f, value[p] + 1))
                                       ELSE log[Me]
  BY DEF Move, Tell
<1>2. f \in Node /\ p \in Node
  BY Targets
<1> HIDE DEF p
<1>3. /\ value[p] \in Nat /\ value'[p] = value[p] + 1 /\ value'[p] \in 0..MaxValue
      /\ \A m \in Node : m # p => value'[m] = value[m]
  BY <1>1, <1>2 DEF ServerOK
<1>4. value' \in [Node -> 0..MaxValue] /\ shown' \in [Node -> SUBSET joined']
  BY <1>1, <1>3 DEF ServerOK
<1>5. CASE Me \notin shown[f]
  <2>1. Kept
    BY <1>1, <1>5 DEF Kept
  <2>2. \A n \in Node : Me \in shown[n] => value'[n] = value[n]
    BY <1>1, <1>3, <1>5
  <2>3. QED
    BY <1>1, <1>4, <2>1, <2>2, KeepStep
<1>6. CASE Me \in shown[f]
  <2> DEFINE packet == Message(f, value[p] + 1)
  <2>1. packet \in Packet /\ packet.op = "SendMessage" /\ packet.node = f
        /\ packet.val = value'[p]
    BY <1>2, <1>3 DEF Message, Packet
  <2>2. Told(packet)
    BY <1>1, <1>6 DEF Told
  <2> HIDE DEF packet
  <2>3. Me \in joined /\ Me \in shown[p]
    BY <1>1, <1>2, <1>6 DEF ServerOK
  <2>4. ShownBefore(f) /\ ~Deleted(f) /\ ShownBefore(p) /\ ~Deleted(p)
    BY <1>2, <1>6, <2>3 DEF ServerOK, ShownExactly
  <2>5. Sayable(packet)
    BY <2>1, <2>4 DEF Sayable, p
  <2>6. Shows(packet)
    BY <1>1, <1>3, <1>6, <2>1 DEF Shows, p
  <2>7. QED
    BY <1>4, <2>2, <2>3, <2>5, <2>6, TellStep
<1>7. QED
  BY <1>5, <1>6

\* A session begins with nothing said.
LEMMA JoinStep ==
  ASSUME ServerOK, NEW p \in Peer, Join(p), p = Me => log[Me] = <<>>
  PROVE  ServerOK' /\ Extended
<1>1. /\ joined' = joined \cup {p} /\ p \notin joined
      /\ value' = value /\ shown' = shown /\ log' = log
  BY DEF Join
<1>2. Kept /\ value' \in [Node -> 0..MaxValue] /\ shown' \in [Node -> SUBSET joined']
  BY <1>1 DEF Kept, ServerOK
<1>3. CASE p # Me
  BY <1>1, <1>2, <1>3, KeepStep
<1>4. CASE p = Me
  <2>1. log[Me] = <<>> /\ \A n \in Node : Me \notin shown[n]
    BY <1>1, <1>4 DEF ServerOK
  <2>2. DOMAIN log[Me] = {} /\ Len(log[Me]) = 0 /\ 1..0 = {}
    BY <2>1
  <2>3. \A n : ~ShownBefore(n)
    BY <2>2 DEF ShownBefore
  <2>4. ShownExactly'
    BY <1>1, <1>2, <2>1, <2>3, ToldNothing DEF ShownExactly
  <2>5. \A n : Replayed(n, Len(log[Me])) = Absent
    BY <2>2, ReplayedNone, ReplayedNow
  <2>6. LogMirrors'
    BY <1>1, <1>2, <2>1, <2>5, ToldNothing, Targets DEF LogMirrors, Absent
  <2>7. QED
    BY <1>2, <2>4, <2>6, ToldNothing DEF ServerOK
<1>5. QED
  BY <1>3, <1>4

LEMMA SpawnStep ==
  ASSUME ServerOK, NEW n \in Node, Spawn(n)
  PROVE  ServerOK' /\ Extended
<1>1. value' = value /\ joined' = joined /\ shown' = shown /\ log' = log
  BY DEF Spawn
<1>2. Kept /\ value' \in [Node -> 0..MaxValue] /\ shown' \in [Node -> SUBSET joined']
  BY <1>1 DEF Kept, ServerOK
<1>3. QED
  BY <1>1, <1>2, KeepStep

\* A peer that leaves loses the end of what it was owed.
LEMMA LeaveStep ==
  ASSUME ServerOK, NEW peers \in SUBSET Peer, Leave(peers)
  PROVE  /\ ServerOK'
         /\ \A i \in DOMAIN log[Me] : i <= Len(log'[Me]) => log'[Me][i] = log[Me][i]
<1> USE RpcLinkAssumption
<1>1. /\ joined' = joined \ peers /\ shown' = [n \in Node |-> shown[n] \ peers]
      /\ value' = value
  BY DEF Leave
<1>2. value' \in [Node -> 0..MaxValue] /\ shown' \in [Node -> SUBSET joined']
  BY <1>1 DEF ServerOK
<1>3. CASE Me \notin peers
  <2>1. Kept
    BY <1>3 DEF Kept, Leave
  <2>2. ServerOK' /\ Extended
    BY <1>1, <1>2, <1>3, <2>1, KeepStep
  <2>3. QED
    BY <2>2 DEF Extended
<1>4. CASE Me \in peers
  <2>1. PICK kept \in [peers -> UNION {0..Len(log[p]) : p \in peers}] :
          /\ \A p \in peers : kept[p] <= Len(log[p])
          /\ log' = [p \in Peer |-> IF p \in peers THEN SubSeq(log[p], 1, kept[p]) ELSE log[p]]
    BY DEF Leave
  <2> DEFINE told == log[Me]
             k == kept[Me]
  <2>2. /\ k \in UNION {0..Len(log[p]) : p \in peers}
        /\ k <= Len(told) /\ log[Me]' = SubSeq(told, 1, k)
    BY <1>4, <2>1
  <2>3. told \in Seq(Packet) /\ Len(told) \in Nat /\ DOMAIN told = 1..Len(told)
    BY DEF ServerOK
  <2> HIDE DEF told, k
  <2>4. k \in Nat
    BY <2>2
  <2> DEFINE less == SubSeq(told, 1, k)
  <2>5. /\ less \in Seq(Packet) /\ Len(less) = k /\ DOMAIN less = 1..k
        /\ \A i \in 1..k : i \in DOMAIN told /\ less[i] = told[i]
    BY <2>2, <2>3, <2>4
  <2>6. log[Me]' = less
    BY <2>2
  <2> HIDE DEF less
  <2>7. ASSUME NEW i \in 1..k
        PROVE  /\ less[i].op = "CreateNode"
                    <=> \A j \in 1..(i - 1) : less[j].node # less[i].node
               /\ \A j \in 1..(i - 1) :
                    less[j].op = "DeleteNode" => less[j].node # less[i].node
               /\ less[i].op # "DeleteNode" =>
                    \A j \in 1..(i - 1) :
                      less[j].op = "DeleteNode" => less[j].node # Target[less[i].node]
               /\ less[i].op = "SendMessage" =>
                    /\ less[i].node \in Followers
                    /\ \E j \in 1..(i - 1) : less[j].node = Target[less[i].node]
    <3>1. i \in DOMAIN told /\ less[i] = told[i]
          /\ \A j \in 1..(i - 1) : less[j] = told[j]
      BY <2>4, <2>5
    <3>2. /\ told[i].op = "CreateNode" <=> \A j \in 1..(i - 1) : told[j].node # told[i].node
          /\ \A j \in 1..(i - 1) : told[j].op = "DeleteNode" => told[j].node # told[i].node
      BY <3>1 DEF ServerOK, ToldOnce, told
    <3>3. /\ told[i].op # "DeleteNode" =>
               \A j \in 1..(i - 1) :
                 told[j].op = "DeleteNode" => told[j].node # Target[told[i].node]
          /\ told[i].op = "SendMessage" =>
               /\ told[i].node \in Followers
               /\ \E j \in 1..(i - 1) : told[j].node = Target[told[i].node]
      BY <3>1 DEF ServerOK, ToldTogether, told
    <3>4. QED
      BY <3>1, <3>2, <3>3
  <2>8. ToldOnce'
    BY <2>5, <2>6, <2>7 DEF ToldOnce
  <2>9. ToldTogether'
    BY <2>5, <2>6, <2>7 DEF ToldTogether
  <2>10. ShownExactly' /\ LogMirrors'
    BY <1>1, <1>4 DEF ShownExactly, LogMirrors
  <2>11. QED
    BY <1>2, <2>4, <2>5, <2>6, <2>8, <2>9, <2>10 DEF ServerOK, told
<1>5. QED
  BY <1>3, <1>4

LEMMA ServerInv ==
  ASSUME Again = FALSE, LinkInv, ServerStep
  PROVE  LinkInv'
<1> USE RpcLinkAssumption
<1>1. /\ Len(log'[Me]) \in read..MaxLog
      /\ UNCHANGED <<clientVars, read, gameVars>>
  BY DEF ServerStep
<1>2. ServerOK /\ ClientOK
  BY DEF ServerOK, LinkInv, TypesOK
<1>3. /\ ServerOK'
      /\ \A i \in DOMAIN log[Me] : i <= Len(log'[Me]) => log'[Me][i] = log[Me][i]
  <2>0. Extended =>
          \A i \in DOMAIN log[Me] : i <= Len(log'[Me]) => log'[Me][i] = log[Me][i]
    BY DEF Extended
  <2>1. ASSUME NEW n \in Node, Spawn(n) \/ Despawn(n)
        PROVE  ServerOK' /\ Extended
    BY <1>2, <2>1, SpawnStep, DespawnStep
  <2>2. ASSUME NEW f \in Followers, Move(f)
        PROVE  ServerOK' /\ Extended
    BY <1>2, <2>2, MoveStep
  <2>3. ASSUME NEW p \in Peer, Join(p), p = Me => log[Me] = <<>>
        PROVE  ServerOK' /\ Extended
    BY <1>2, <2>3, JoinStep
  <2>4. ASSUME NEW n \in Node, NEW p \in Peer, Show(n, p), p = Me => Showable(n)
        PROVE  ServerOK' /\ Extended
    BY <1>2, <2>4, ShowStep
  <2>5. ASSUME NEW n \in Node, NEW p \in Peer, Hide(n, p)
        PROVE  ServerOK' /\ Extended
    BY <1>2, <2>5, HideStep
  <2>6. ASSUME NEW peers \in SUBSET Peer, Leave(peers)
        PROVE  /\ ServerOK'
               /\ \A i \in DOMAIN log[Me] : i <= Len(log'[Me]) => log'[Me][i] = log[Me][i]
    BY <1>2, <2>6, LeaveStep
  <2>7. QED
    BY <2>0, <2>1, <2>2, <2>3, <2>4, <2>5, <2>6 DEF ServerStep
<1>4. /\ read \in Nat /\ read <= Len(log[Me]) /\ Len(log[Me]) \in Nat
      /\ DOMAIN log[Me] = 1..Len(log[Me])
  BY DEF LinkInv, TypesOK
<1>5. read <= Len(log'[Me]) /\ Len(log'[Me]) \in Nat
  BY <1>1, <1>3 DEF ServerOK
<1>6. \A i \in 1..read : log'[Me][i] = log[Me][i]
  BY <1>3, <1>4, <1>5
<1>7. ClientOK'
  BY <1>1, <1>2, <1>4, <1>6, ClientKeeps
<1>8. TypesOK'
  BY <1>1, <1>3, <1>5 DEF TypesOK, ServerOK, LinkInv, clientVars
<1>9. QED
  BY <1>3, <1>7, <1>8 DEF LinkInv, ServerOK

----------------------------------------------------------------------------
(* The client's steps *)

\* What the server did is not the client's to change.
LEMMA ServerKeeps ==
  ASSUME LinkInv, UNCHANGED vars
  PROVE  /\ ServerOK' /\ log' = log
         /\ read' = read => \A n : /\ ReadOf(n)' <=> ReadOf(n)
                                   /\ DeletedRead(n)' <=> DeletedRead(n)
                                   /\ Expected(n)' = Expected(n)
<1>1. ServerOK
  BY DEF ServerOK, LinkInv, TypesOK
<1>2. value' = value /\ joined' = joined /\ shown' = shown /\ log' = log
  BY DEF vars
<1>3. Kept /\ value' \in [Node -> 0..MaxValue] /\ shown' \in [Node -> SUBSET joined']
  BY <1>1, <1>2 DEF Kept, ServerOK
<1>4. ServerOK'
  BY <1>1, <1>2, <1>3, KeepStep
<1>5. ASSUME read' = read
      PROVE  \A n : Expected(n)' = Expected(n)
  BY <1>2, <1>5 DEF Expected, Replayed, Absent, About
<1>6. QED
  BY <1>2, <1>4, <1>5 DEF ReadOf, DeletedRead

LEMMA ResetInv == LinkInv /\ ClientReset => LinkInv'
<1> SUFFICES ASSUME LinkInv, ClientReset
             PROVE  LinkInv'
  OBVIOUS
<1>1. /\ updated
      /\ catchups' = <<>> /\ messages' = <<>> /\ deletions' = <<>>
      /\ node_id_map' = node_id_map /\ protocol_errors' = FALSE /\ frozen' = FALSE
      /\ updated' = FALSE /\ read' = read /\ app' = app /\ bound' = bound
      /\ crashed' = crashed /\ torn' = torn /\ UNCHANGED vars
  BY DEF ClientReset, Client!Reset, Client!KeepAll
<1>2. /\ ServerOK' /\ log' = log
      /\ \A n : (ReadOf(n)' <=> ReadOf(n)) /\ (DeletedRead(n)' <=> DeletedRead(n))
      /\ \A n : Expected(n)' = Expected(n)
  BY <1>1, ServerKeeps
<1>3. TypesOK'
  BY <1>1, <1>2 DEF TypesOK, ServerOK, LinkInv
<1>4. KnowsWhatItRead' /\ NoProtocolErrors' /\ OnlyTornPanics'
  BY <1>1, <1>2
  DEF KnowsWhatItRead, NoProtocolErrors, OnlyTornPanics, LinkInv, ClientOK
<1>5. /\ \A n : Among(catchups, n)' = {} /\ Among(messages, n)' = {} /\ Among(deletions, n)' = {}
      /\ \A n : Spawned(n)' = app[n] /\ Applied(n)' = app[n]
      /\ Added' = {} /\ DOMAIN messages' = {}
  <2>1. \A n : Among(catchups, n)' = {} /\ Among(messages, n)' = {} /\ Among(deletions, n)' = {}
    BY <1>1, AmongNone DEF Among, About
  <2>2. \A n : Spawned(n)' = app[n]
    BY <1>1, <2>1 DEF Spawned
  <2>3. \A n : Applied(n)' = app[n]
    BY <2>1, <2>2 DEF Applied
  <2>4. Added' = {}
    BY <2>1 DEF Added
  <2>5. QED
    BY <1>1, <2>1, <2>2, <2>3, <2>4
<1>6. QueuesKnown'
  BY <1>1, <1>2, <1>5 DEF QueuesKnown, LinkInv, ClientOK, Absent
<1>7. GameFollows'
  BY <1>1, <1>2, <1>5 DEF GameFollows, LinkInv, ClientOK
<1>8. FollowersBound'
  BY <1>1, <1>5 DEF FollowersBound, LinkInv, ClientOK
<1>9. PlayersAlive'
  <2>1. ASSUME NEW p \in Players, p \in node_id_map, app[p] = Absent
        PROVE  DeletedRead(p)
    <3>1. p \in Node /\ p \in Known /\ ReadOf(p) /\ app[p] = Replayed(p, read)
      BY <1>1, <2>1, Targets DEF GameFollows, KnowsWhatItRead, Expected, LinkInv, ClientOK
    <3>2. /\ read \in Nat /\ log[Me] \in Seq(Packet)
          /\ \A i \in 1..read : log[Me][i] \in Packet
      BY DEF LinkInv, TypesOK
    <3>3. \E i \in 1..read : About(log[Me][i], p)
      BY <3>1 DEF ReadOf, About
    <3>4. PICK i \in 1..read : About(log[Me][i], p)
                 /\ \A j \in 1..read : About(log[Me][j], p) => j <= i
      BY <3>2, <3>3, ReplayedCases
    <3>5. app[p] = Left(log[Me][i])
      BY <3>1, <3>2, <3>4, ReplayedAt, ReplayedNow
    <3>6. log[Me][i].val \in 0..MaxValue
      BY <3>2 DEF Packet
    <3>7. log[Me][i].op = "DeleteNode"
      BY <2>1, <3>5, <3>6, AbsentIsNone DEF Left
    <3>8. log[Me][i].node = p
      BY <3>4, <3>7 DEF About
    <3>9. QED
      BY <3>7, <3>8 DEF DeletedRead
  <2>2. QED
    BY <1>1, <1>2, <1>5, <2>1 DEF PlayersAlive, Absent
<1>10. QED
  BY <1>2, <1>3, <1>4, <1>6, <1>7, <1>8, <1>9 DEF LinkInv, ClientOK, ServerOK

LEMMA FreezeInv == LinkInv /\ ClientFreeze => LinkInv'
<1> SUFFICES ASSUME LinkInv, ClientFreeze
             PROVE  LinkInv'
  OBVIOUS
<1>1. /\ frozen' = TRUE /\ node_id_map' = node_id_map /\ catchups' = catchups
      /\ messages' = messages /\ deletions' = deletions
      /\ protocol_errors' = protocol_errors
      /\ updated' = updated /\ read' = read /\ app' = app /\ bound' = bound
      /\ crashed' = crashed /\ torn' = torn /\ UNCHANGED vars
  BY DEF ClientFreeze, Client!Freeze, gameVars
<1>2. /\ ServerOK' /\ log' = log
      /\ \A n : (ReadOf(n)' <=> ReadOf(n)) /\ (DeletedRead(n)' <=> DeletedRead(n))
      /\ \A n : Expected(n)' = Expected(n)
  BY <1>1, ServerKeeps
<1>3. TypesOK'
  BY <1>1, <1>2 DEF TypesOK, ServerOK, LinkInv
<1>4. KnowsWhatItRead' /\ NoProtocolErrors' /\ OnlyTornPanics'
  BY <1>1, <1>2
  DEF KnowsWhatItRead, NoProtocolErrors, OnlyTornPanics, LinkInv, ClientOK
<1>5. /\ \A n : /\ Among(catchups, n)' = Among(catchups, n)
                /\ Among(messages, n)' = Among(messages, n)
                /\ Among(deletions, n)' = Among(deletions, n)
      /\ \A n : Spawned(n)' = Spawned(n) /\ Applied(n)' = Applied(n)
      /\ Added' = Added
  BY <1>1 DEF Among, LastOf, Spawned, Applied, Added, About
<1>6. QueuesKnown'
  BY <1>1, <1>2, <1>5 DEF QueuesKnown, LinkInv, ClientOK, Absent
<1>7. GameFollows'
  BY <1>1, <1>2, <1>5 DEF GameFollows, LinkInv, ClientOK
<1>8. FollowersBound' /\ PlayersAlive'
  BY <1>1, <1>2, <1>5 DEF FollowersBound, PlayersAlive, LinkInv, ClientOK, Absent
<1>9. QED
  BY <1>2, <1>3, <1>4, <1>6, <1>7, <1>8 DEF LinkInv, ClientOK, ServerOK

\* A follower that is refused was torn from its player: its player's only follower is new.
LEMMA OnlyTornRefused ==
  ASSUME LinkInv, ~updated, NEW f \in Added, Refused(f)
  PROVE  Target[f] \notin node_id_map
<1>1. f \in Followers /\ f \notin bound
  BY DEF Added, LinkInv, ClientOK, FollowersBound
<1>2. ASSUME NEW g \in bound, Target[g] = Target[f]
      PROVE  FALSE
  <2>1. g \in Followers
    BY DEF LinkInv, ClientOK, QueuesKnown
  <2>2. g = f
    BY <1>1, <1>2, <2>1, OneFollower
  <2>3. QED
    BY <1>1, <2>2
<1>3. QED
  BY <1>2 DEF Refused, HasKind

LEMMA UpdateInv == LinkInv /\ ClientUpdate => LinkInv'
<1> SUFFICES ASSUME LinkInv, ClientUpdate
             PROVE  LinkInv'
  OBVIOUS
<1>1. /\ frozen /\ ~updated /\ updated' = TRUE
      /\ app' = [n \in Node |-> IF n \in Players THEN Applied(n) ELSE Absent]
      /\ bound' = BoundNow /\ torn' = torn \cup {f \in Added : Target[f] \notin node_id_map}
      /\ protocol_errors' = (protocol_errors \/ \E f \in Added : Refused(f))
      /\ node_id_map' = node_id_map /\ catchups' = catchups /\ messages' = messages
      /\ deletions' = deletions /\ frozen' = frozen /\ crashed' = FALSE
      /\ read' = read /\ UNCHANGED vars
  BY DEF ClientUpdate
<1>2. /\ ServerOK' /\ log' = log
      /\ \A n : (ReadOf(n)' <=> ReadOf(n)) /\ (DeletedRead(n)' <=> DeletedRead(n))
      /\ \A n : Expected(n)' = Expected(n)
  BY <1>1, ServerKeeps
<1>3. TypesOK'
  BY <1>1, <1>2 DEF TypesOK, ServerOK, LinkInv
<1>4. KnowsWhatItRead'
  BY <1>1, <1>2 DEF KnowsWhatItRead, LinkInv, ClientOK
<1>5. /\ \A n : /\ Among(catchups, n)' = Among(catchups, n)
                /\ Among(messages, n)' = Among(messages, n)
                /\ Among(deletions, n)' = Among(deletions, n)
      /\ Added' = Added
  BY <1>1 DEF Among, Added, About
<1>6. \A p \in Players : app'[p] = Applied(p)
  BY <1>1, Targets
<1>7. \A f \in Added : Refused(f) => f \in torn'
  BY <1>1, OnlyTornRefused
<1>8. QueuesKnown'
  <2>1. \A p \in Players : p \notin node_id_map => Applied(p) = Absent
    BY DEF QueuesKnown, LinkInv, ClientOK, Applied, Spawned
  <2>2. \A f \in bound' : f \in Followers /\ f \in node_id_map
    BY <1>1 DEF BoundNow, Added, QueuesKnown, LinkInv, ClientOK
  <2>3. QED
    BY <1>1, <1>2, <1>5, <1>6, <2>1, <2>2 DEF QueuesKnown, LinkInv, ClientOK, Absent
<1>9. GameFollows'
  BY <1>1, <1>2, <1>6 DEF GameFollows, LinkInv, ClientOK
<1>10. FollowersBound' /\ PlayersAlive'
  <2>1. ASSUME NEW f \in Followers, f \in node_id_map
        PROVE  f \in bound' \/ torn' # {}
    <3>1. f \in bound \/ torn # {} \/ f \in Added
      BY <2>1 DEF LinkInv, ClientOK, FollowersBound
    <3>2. CASE f \in Added
      BY <1>1, <1>7, <3>2 DEF BoundNow
    <3>3. QED
      BY <1>1, <3>1, <3>2 DEF BoundNow
  <2>2. QED
    BY <1>1, <2>1 DEF FollowersBound, PlayersAlive
<1>11. NoProtocolErrors' /\ OnlyTornPanics'
  BY <1>1, <1>2, <1>7 DEF NoProtocolErrors, OnlyTornPanics, LinkInv, ClientOK
<1>12. QED
  BY <1>2, <1>3, <1>4, <1>8, <1>9, <1>10, <1>11 DEF LinkInv, ClientOK, ServerOK

LEMMA PanicInv == LinkInv /\ ClientPanics => LinkInv'
<1> SUFFICES ASSUME LinkInv, ClientPanics
             PROVE  LinkInv'
  OBVIOUS
<1>1. /\ ~updated /\ Panics
      /\ torn' = torn \cup {f \in Added : Target[f] \notin node_id_map}
      /\ UNCHANGED <<vars, clientVars, read, updated, app, bound>>
      /\ node_id_map' = node_id_map /\ catchups' = catchups /\ messages' = messages
      /\ deletions' = deletions /\ protocol_errors' = protocol_errors /\ frozen' = frozen
      /\ updated' = updated /\ app' = app /\ bound' = bound /\ read' = read
  BY DEF ClientPanics, clientVars
<1>2. /\ ServerOK' /\ log' = log
      /\ \A n : (ReadOf(n)' <=> ReadOf(n)) /\ (DeletedRead(n)' <=> DeletedRead(n))
      /\ \A n : Expected(n)' = Expected(n)
  BY <1>1, ServerKeeps
<1>3. \A f \in Added : Refused(f) => f \in torn'
  BY <1>1, OnlyTornRefused
<1>4. torn' # {}
  <2>1. ~\E f \in Added : Target[f] \in node_id_map /\ Gone(Target[f])
    BY <1>1 DEF LinkInv, ClientOK, PlayersAlive, Gone
  <2>2. PICK i \in DOMAIN messages : \/ messages[i].node \notin BoundNow
                                     \/ Gone(Target[messages[i].node])
    BY <1>1, <2>1 DEF Panics
  <2>3. messages[i].node \in Followers /\ messages[i].node \in node_id_map
    BY <2>2 DEF LinkInv, ClientOK, QueuesKnown
  <2>4. messages[i].node \notin BoundNow
    BY <1>1, <2>2, <2>3, Targets DEF LinkInv, ClientOK, PlayersAlive, Gone
  <2>5. messages[i].node \in bound \/ torn # {} \/ messages[i].node \in Added
    BY <1>1, <2>3 DEF LinkInv, ClientOK, FollowersBound
  <2>6. QED
    BY <1>1, <1>3, <2>4, <2>5 DEF BoundNow
<1>5. /\ \A n : /\ Among(catchups, n)' = Among(catchups, n)
                /\ Among(messages, n)' = Among(messages, n)
                /\ Among(deletions, n)' = Among(deletions, n)
      /\ \A n : Spawned(n)' = Spawned(n) /\ Applied(n)' = Applied(n)
      /\ Added' = Added
  BY <1>1 DEF Among, LastOf, Spawned, Applied, Added, About
<1>6. TypesOK'
  BY <1>1, <1>2 DEF TypesOK, ServerOK, LinkInv
<1>7. KnowsWhatItRead' /\ NoProtocolErrors' /\ OnlyTornPanics'
  BY <1>1, <1>2, <1>4
  DEF KnowsWhatItRead, NoProtocolErrors, OnlyTornPanics, LinkInv, ClientOK
<1>8. QueuesKnown'
  BY <1>1, <1>2, <1>5 DEF QueuesKnown, LinkInv, ClientOK, Absent
<1>9. GameFollows'
  BY <1>1, <1>2, <1>5 DEF GameFollows, LinkInv, ClientOK
<1>10. FollowersBound' /\ PlayersAlive'
  BY <1>1, <1>2, <1>4, <1>5 DEF FollowersBound, PlayersAlive, LinkInv, ClientOK, Absent
<1>11. QED
  BY <1>2, <1>6, <1>7, <1>8, <1>9, <1>10 DEF LinkInv, ClientOK, ServerOK

\* A packet that is read: the order of the packets says whether the client knows its node.
LEMMA RecvInv == LinkInv /\ ClientRecv => LinkInv'
<1> SUFFICES ASSUME LinkInv, ClientRecv
             PROVE  LinkInv'
  OBVIOUS
<1> USE RpcLinkAssumption
<1>1. /\ read' = read + 1 /\ read < Len(log[Me]) /\ updated' = updated /\ app' = app
      /\ bound' = bound /\ crashed' = crashed /\ torn' = torn
      /\ UNCHANGED vars /\ ~frozen /\ frozen' = frozen /\ Client!Recv(log[Me][read + 1])
  BY DEF ClientRecv, Client!Recv, gameVars
<1>2. ServerOK' /\ log' = log
  BY <1>1, ServerKeeps
<1>3. /\ log[Me] \in Seq(Packet) /\ read \in Nat /\ Len(log[Me]) \in Nat
      /\ DOMAIN log[Me] = 1..Len(log[Me])
      /\ node_id_map \subseteq Known
      /\ catchups \in Seq(Packet) /\ messages \in Seq(Packet) /\ deletions \in Seq(Packet)
      /\ ~updated
  BY <1>1 DEF LinkInv, TypesOK, ClientOK, GameFollows
<1> PICK k \in Nat : k = read + 1
  BY <1>3
<1>4. /\ k = read + 1 /\ k \in DOMAIN log[Me] /\ k <= Len(log[Me]) /\ k - 1 = read
      /\ 1..read \subseteq 1..k /\ k \in 1..k
      /\ \A i \in 1..k : i = k \/ i \in 1..read
  BY <1>1, <1>3
<1>0. PICK packet \in Packet : packet = log[Me][k]
  BY <1>3, <1>4
<1> DEFINE n == packet.node
<1>5. /\ n \in Node /\ packet.op \in {"CreateNode", "SendMessage", "DeleteNode"}
      /\ packet.val \in 0..MaxValue
  BY DEF Packet
<1>6. /\ packet.op = "CreateNode" <=> ~ReadOf(n)
      /\ ~DeletedRead(n)
      /\ packet.op # "DeleteNode" => ~DeletedRead(Target[n])
      /\ packet.op = "SendMessage" => n \in Followers /\ ReadOf(Target[n])
  <2>1. ToldOnce /\ ToldTogether
    BY DEF LinkInv
  <2>2. /\ log[Me][k].op = "CreateNode"
              <=> \A j \in 1..(k - 1) : log[Me][j].node # log[Me][k].node
        /\ \A j \in 1..(k - 1) : log[Me][j].op = "DeleteNode" => log[Me][j].node # log[Me][k].node
    BY <1>4, <2>1 DEF ToldOnce
  <2>3. /\ log[Me][k].op # "DeleteNode" =>
             \A j \in 1..(k - 1) :
               log[Me][j].op = "DeleteNode" => log[Me][j].node # Target[log[Me][k].node]
        /\ log[Me][k].op = "SendMessage" =>
             /\ log[Me][k].node \in Followers
             /\ \E j \in 1..(k - 1) : log[Me][j].node = Target[log[Me][k].node]
    BY <1>4, <2>1 DEF ToldTogether
  <2>4. QED
    BY <1>0, <1>4, <2>2, <2>3 DEF ReadOf, DeletedRead
<1>7. \A m \in Node : m \in node_id_map <=> m \in Known /\ ReadOf(m)
  BY DEF LinkInv, ClientOK, KnowsWhatItRead
<1>8. \A m : Replayed(m, read)' = IF About(packet, m) THEN Left(packet) ELSE Replayed(m, read)
  <2>1. \A m : ReplayedIn(log[Me], m, k) = IF About(packet, m) THEN Left(packet)
                                           ELSE ReplayedIn(log[Me], m, read)
    <3>1. \A m : ReplayedIn(log[Me], m, read + 1) = IF About(log[Me][read + 1], m)
                                                    THEN Left(log[Me][read + 1])
                                                    ELSE ReplayedIn(log[Me], m, read)
      BY <1>3, ReplayedNext
    <3>2. QED
      BY <1>0, <1>4, <3>1
  <2>2. QED
    BY <1>1, <1>2, <1>4, <2>1, ReplayedNow
<1>9. /\ \A m : ReadOf(m)' <=> ReadOf(m) \/ m = n
      /\ \A m : DeletedRead(m)' <=> DeletedRead(m) \/ (m = n /\ packet.op = "DeleteNode")
  BY <1>0, <1>1, <1>2, <1>4 DEF ReadOf, DeletedRead
<1> HIDE DEF n
\* What the client does with it.
<1>10. \/ /\ packet.op = "CreateNode" /\ n \in Known /\ n \notin node_id_map
          /\ node_id_map' = node_id_map \cup {n} /\ catchups' = Append(catchups, packet)
          /\ UNCHANGED <<messages, deletions, protocol_errors>>
       \/ /\ packet.op = "SendMessage" /\ n \in node_id_map
          /\ messages' = Append(messages, packet)
          /\ UNCHANGED <<node_id_map, catchups, deletions, protocol_errors>>
       \/ /\ packet.op = "DeleteNode" /\ n \in node_id_map
          /\ deletions' = Append(deletions, packet)
          /\ UNCHANGED <<node_id_map, catchups, messages, protocol_errors>>
       \/ /\ n \notin Known /\ protocol_errors' = TRUE
          /\ UNCHANGED <<node_id_map, catchups, messages, deletions>>
  BY <1>0, <1>1, <1>4, <1>5, <1>6, <1>7 DEF n, Client!Recv, Client!RecvCreate, Client!RecvMessage,
       Client!RecvDelete, Client!ReportError, Client!Push
<1>11. NoProtocolErrors' /\ OnlyTornPanics'
  <2>1. CASE n \notin Known
    BY <1>0, <1>1, <1>2, <1>4, <2>1
    DEF NoProtocolErrors, OnlyTornPanics, LinkInv, ClientOK, n
  <2>2. CASE n \in Known
    <3>1. protocol_errors' = protocol_errors
      BY <1>3, <1>10, <2>2
    <3>2. protocol_errors => torn # {} \/ \E i \in 1..k : log[Me][i].node \notin Known
      BY <1>4 DEF LinkInv, ClientOK, NoProtocolErrors
    <3>3. QED
      BY <1>1, <1>2, <1>4, <3>1, <3>2
      DEF NoProtocolErrors, OnlyTornPanics, LinkInv, ClientOK
  <2>3. QED
    BY <2>1, <2>2
<1>12. node_id_map' \subseteq Known /\ KnowsWhatItRead' /\ node_id_map \subseteq node_id_map'
  <2>1. node_id_map' = IF n \in Known THEN node_id_map \cup {n} ELSE node_id_map
    BY <1>3, <1>10
  <2>2. QED
    BY <1>3, <1>7, <1>9, <2>1 DEF KnowsWhatItRead
<1>13. /\ catchups' \in Seq(Packet) /\ messages' \in Seq(Packet) /\ deletions' \in Seq(Packet)
       /\ \/ catchups' = catchups
          \/ packet.op = "CreateNode" /\ catchups' = Append(catchups, packet)
       /\ \/ messages' = messages
          \/ packet.op = "SendMessage" /\ messages' = Append(messages, packet)
       /\ \/ deletions' = deletions
          \/ packet.op = "DeleteNode" /\ deletions' = Append(deletions, packet)
  <2>1. /\ Append(catchups, packet) \in Seq(Packet) /\ Append(messages, packet) \in Seq(Packet)
        /\ Append(deletions, packet) \in Seq(Packet)
    BY <1>3, <1>5
  <2>2. QED
    BY <1>3, <1>10, <2>1
<1>14. TypesOK'
  BY <1>1, <1>2, <1>3, <1>4, <1>12, <1>13 DEF TypesOK, ServerOK
\* The queues of the others stay as they are.
<1>15. ASSUME NEW m, ~About(packet, m)
       PROVE  /\ Among(catchups, m)' = Among(catchups, m)
              /\ Among(messages, m)' = Among(messages, m)
              /\ Among(deletions, m)' = Among(deletions, m)
              /\ Spawned(m)' = Spawned(m) /\ Applied(m)' = Applied(m)
  <2>1. \A q \in Seq(Packet) :
          /\ Among(Append(q, packet), m) = Among(q, m)
          /\ Among(q, m) # {} => LastOf(Append(q, packet), m) = LastOf(q, m)
    <3>1. ASSUME NEW q \in Seq(Packet)
          PROVE  /\ Among(Append(q, packet), m) = Among(q, m)
                 /\ Among(q, m) # {} => LastOf(Append(q, packet), m) = LastOf(q, m)
      BY <1>15, AmongPushed
    <3>2. QED
      BY <3>1
  <2>2. /\ Among(catchups', m) = Among(catchups, m)
        /\ Among(messages', m) = Among(messages, m)
        /\ Among(deletions', m) = Among(deletions, m)
        /\ Among(catchups, m) # {} => LastOf(catchups', m) = LastOf(catchups, m)
        /\ Among(messages, m) # {} => LastOf(messages', m) = LastOf(messages, m)
    BY <1>3, <1>13, <2>1
  <2>3. /\ Among(catchups, m)' = Among(catchups', m)
        /\ Among(messages, m)' = Among(messages', m)
        /\ Among(deletions, m)' = Among(deletions', m)
        /\ LastOf(catchups, m)' = LastOf(catchups', m)
        /\ LastOf(messages, m)' = LastOf(messages', m)
    BY DEF Among, LastOf, About
  <2>4. Spawned(m)' = Spawned(m)
    BY <1>1, <2>2, <2>3 DEF Spawned
  <2>5. Applied(m)' = Applied(m)
    BY <2>2, <2>3, <2>4 DEF Applied, Absent
  <2>6. QED
    BY <2>2, <2>3, <2>4, <2>5
\* And those of a player that it is about: it is not deleted, or this packet would not follow.
<1>16. ASSUME NEW p \in Players, About(packet, p)
       PROVE  /\ ~DeletedRead(p) /\ Among(deletions, p) = {}
              /\ \/ p = n /\ packet.op \in {"CreateNode", "DeleteNode"}
                 \/ n \in Followers /\ Target[n] = p /\ packet.op = "SendMessage" /\ ReadOf(p)
              /\ p \in Known <=> n \in Known
  <2>1. p \notin Followers /\ p \in Node /\ Target[p] = p
    BY Targets
  <2>2. \/ p = n /\ packet.op \in {"CreateNode", "DeleteNode"}
        \/ n \in Followers /\ Target[n] = p /\ packet.op = "SendMessage" /\ ReadOf(p)
    BY <1>5, <1>6, <1>16, <2>1 DEF About, n
  <2>3. ~DeletedRead(p)
    BY <1>6, <2>2
  <2>4. Among(deletions, p) = {}
    BY <2>3 DEF LinkInv, ClientOK, QueuesKnown
  <2>5. p \in Known <=> n \in Known
    BY <1>5, <2>2, Targets
  <2>6. QED
    BY <2>2, <2>3, <2>4, <2>5
<1>17. \A q \in Seq(Packet) : \A m : About(packet, m) =>
         Among(Append(q, packet), m) # {} /\ LastOf(Append(q, packet), m) = packet
  BY AmongPushed
<1>18. /\ \A m : /\ Among(catchups, m)' = Among(catchups', m)
                 /\ Among(messages, m)' = Among(messages', m)
                 /\ Among(deletions, m)' = Among(deletions', m)
       /\ \A m : /\ LastOf(catchups, m)' = LastOf(catchups', m)
                 /\ LastOf(messages, m)' = LastOf(messages', m)
  BY DEF Among, LastOf, About
<1>19. ASSUME NEW p \in Players, p \notin node_id_map
       PROVE  /\ Among(catchups, p) = {} /\ Among(messages, p) = {}
              /\ Among(deletions, p) = {} /\ app[p] = Absent
  BY <1>19 DEF LinkInv, ClientOK, QueuesKnown
<1>20. ASSUME NEW p \in Players, About(packet, p), p \in Known
       PROVE  /\ Applied(p)' = Left(packet) /\ p \in node_id_map'
              /\ Among(deletions, p)' # {} => packet.op = "DeleteNode" /\ p = n
              /\ packet.op # "CreateNode" => Spawned(p)' = Spawned(p)
              /\ packet.op = "CreateNode" => Spawned(p)' # Absent
  <2>0. n \in Known
    BY <1>16, <1>20
  <2>1. CASE packet.op = "CreateNode"
    <3>1. p = n /\ n \notin node_id_map /\ catchups' = Append(catchups, packet)
          /\ messages' = messages /\ deletions' = deletions
          /\ node_id_map' = node_id_map \cup {n}
      BY <1>6, <1>7, <1>10, <1>16, <1>20, <2>0, <2>1
    <3>2. /\ Among(deletions, p)' = {} /\ Among(messages, p)' = {}
          /\ Among(catchups, p)' # {} /\ LastOf(catchups, p)' = packet
      BY <1>3, <1>16, <1>17, <1>18, <1>19, <1>20, <3>1
    <3>3. Spawned(p)' = packet.val
      BY <3>2 DEF Spawned
    <3>4. Applied(p)' = packet.val
      BY <3>2, <3>3 DEF Applied
    <3>5. packet.val # Absent
      BY <1>5, AbsentIsNone
    <3>6. QED
      BY <2>1, <3>1, <3>2, <3>3, <3>4, <3>5 DEF Left, Absent
  <2>2. CASE packet.op = "SendMessage"
    <3>1. messages' = Append(messages, packet) /\ deletions' = deletions
          /\ catchups' = catchups /\ node_id_map' = node_id_map
      BY <1>10, <2>0, <2>2
    <3>2. /\ Among(deletions, p)' = {} /\ Among(catchups, p)' = Among(catchups, p)
          /\ LastOf(catchups, p)' = LastOf(catchups, p)
          /\ Among(messages, p)' # {} /\ LastOf(messages, p)' = packet
      BY <1>3, <1>16, <1>17, <1>18, <1>20, <3>1
    <3>3. Spawned(p)' = Spawned(p)
      BY <1>1, <3>2 DEF Spawned
    <3>4. Applied(p)' = packet.val
      BY <3>2 DEF Applied
    <3>5. p \in node_id_map
      BY <1>7, <1>16, <1>20, <2>2, Targets
    <3>6. QED
      BY <2>2, <3>1, <3>2, <3>3, <3>4, <3>5 DEF Left
  <2>3. CASE packet.op = "DeleteNode"
    <3>1. deletions' = Append(deletions, packet) /\ p = n /\ n \in node_id_map
          /\ catchups' = catchups /\ node_id_map' = node_id_map
      BY <1>10, <1>16, <1>20, <2>0, <2>3
    <3>2. /\ Among(deletions, p)' # {} /\ Among(catchups, p)' = Among(catchups, p)
          /\ LastOf(catchups, p)' = LastOf(catchups, p)
      BY <1>3, <1>17, <1>18, <1>20, <3>1
    <3>3. Spawned(p)' = Spawned(p)
      BY <1>1, <3>2 DEF Spawned
    <3>4. Applied(p)' = Absent
      BY <3>2 DEF Applied, Absent
    <3>5. QED
      BY <2>3, <3>1, <3>3, <3>4 DEF Left
  <2>4. QED
    BY <1>5, <2>1, <2>2, <2>3
<1>21. ASSUME NEW p \in Players, About(packet, p), p \notin Known
       PROVE  /\ Among(catchups, p)' = {} /\ Among(messages, p)' = {}
              /\ Among(deletions, p)' = {} /\ app'[p] = Absent /\ Applied(p)' = Absent
              /\ p \notin node_id_map'
  <2>1. n \notin Known /\ p \notin node_id_map
    BY <1>3, <1>16, <1>21
  <2>2. UNCHANGED <<node_id_map, catchups, messages, deletions>>
    BY <1>3, <1>10, <2>1
  <2>3. /\ Among(catchups, p)' = {} /\ Among(messages, p)' = {} /\ Among(deletions, p)' = {}
        /\ app'[p] = Absent
    BY <1>1, <1>18, <1>19, <2>1, <2>2
  <2>4. Applied(p)' = Absent
    BY <2>3 DEF Applied, Spawned, Absent
  <2>5. QED
    BY <2>1, <2>2, <2>3, <2>4
\* The followers: only a creation brings one.
<1>22. ASSUME NEW f \in Followers
       PROVE  f \in Added' <=> f \in Added \/ (f = n /\ packet.op = "CreateNode" /\ n \in Known)
  <2>0. f \in Node /\ f \notin Players /\ Target[n] # f
    BY <1>5, Targets
  <2>1. About(packet, f) <=> f = n
    BY <2>0 DEF About, n
  <2>2. f \in Added <=> Among(catchups, f) # {}
    BY DEF Added
  <2>3. f \in Added' <=> Among(catchups, f)' # {}
    BY DEF Added
  <2>4. CASE f # n
    BY <1>15, <2>1, <2>2, <2>3, <2>4
  <2>5. CASE f = n /\ packet.op = "CreateNode" /\ n \in Known
    <3>1. catchups' = Append(catchups, packet)
      BY <1>10, <2>5
    <3>2. Among(catchups, f)' # {}
      BY <1>3, <1>17, <1>18, <2>1, <2>5, <3>1
    <3>3. QED
      BY <2>3, <2>5, <3>2
  <2>6. CASE f = n /\ ~(packet.op = "CreateNode" /\ n \in Known)
    <3>1. catchups' = catchups
      BY <1>3, <1>10, <2>6
    <3>2. QED
      BY <1>18, <2>2, <2>3, <2>6, <3>1
  <2>7. QED
    BY <2>4, <2>5, <2>6
<1>23. QueuesKnown'
  <2>0. QueuesKnown
    BY DEF LinkInv, ClientOK
  <2>1. ASSUME NEW p \in Players
        PROVE  /\ p \notin node_id_map' =>
                    /\ Among(catchups, p)' = {} /\ Among(messages, p)' = {}
                    /\ Among(deletions, p)' = {} /\ app'[p] = Absent
               /\ Among(deletions, p)' # {} => DeletedRead(p)'
    <3>1. CASE About(packet, p)
      BY <1>9, <1>20, <1>21, <3>1
    <3>2. CASE ~About(packet, p)
      BY <1>1, <1>9, <1>12, <1>15, <2>0, <3>2 DEF QueuesKnown
    <3>3. QED
      BY <3>1, <3>2
  <2>2. ASSUME NEW i \in DOMAIN messages'
        PROVE  messages'[i].node \in Followers /\ messages'[i].node \in node_id_map'
    <3>1. CASE messages' = messages
      BY <1>12, <2>0, <2>2, <3>1 DEF QueuesKnown
    <3>2. CASE packet.op = "SendMessage" /\ messages' = Append(messages, packet)
      <4>1. \/ i \in DOMAIN messages /\ messages'[i] = messages[i]
            \/ messages'[i] = packet
        BY <1>3, <2>2, <3>2
      <4>2. (n \in Followers /\ n \in node_id_map) \/ messages' = messages
        BY <1>6, <1>10, <3>2
      <4>3. QED
        BY <1>12, <2>0, <3>1, <4>1, <4>2 DEF QueuesKnown, n
    <3>3. QED
      BY <1>13, <3>1, <3>2
  <2>3. \A f \in Added' : f \in node_id_map'
    <3>1. ASSUME NEW f \in Added'
          PROVE  f \in node_id_map'
      <4>1. f \in Followers
        BY <3>1 DEF Added
      <4>2. CASE f \in Added
        BY <1>12, <2>0, <4>2 DEF QueuesKnown
      <4>3. CASE f = n /\ packet.op = "CreateNode" /\ n \in Known
        BY <1>5, <1>9, <1>12, <4>3 DEF KnowsWhatItRead
      <4>4. QED
        BY <1>22, <3>1, <4>1, <4>2, <4>3
    <3>2. QED
      BY <3>1
  <2>4. QED
    BY <1>1, <1>12, <2>0, <2>1, <2>2, <2>3 DEF QueuesKnown, Absent
<1>24. GameFollows'
  <2>1. \A m \in Players : Applied(m) = Expected(m)
    BY <1>3 DEF LinkInv, ClientOK, GameFollows
  <2>2. ASSUME NEW p \in Players
        PROVE  Applied(p)' = Expected(p)'
    <3>1. Expected(p)' = IF p \in Known THEN Replayed(p, read)' ELSE Absent
      BY DEF Expected, Absent
    <3>2. CASE About(packet, p)
      BY <1>8, <1>20, <1>21, <3>1, <3>2
    <3>3. CASE ~About(packet, p)
      BY <1>8, <1>15, <2>1, <3>1, <3>3 DEF Expected
    <3>4. QED
      BY <3>2, <3>3
  <2>3. QED
    BY <1>1, <1>3, <2>2 DEF GameFollows
<1>25. FollowersBound'
  <2>0. FollowersBound /\ QueuesKnown
    BY DEF LinkInv, ClientOK
  <2>1. ASSUME NEW f \in Added'
        PROVE  f \notin bound'
    <3>1. f \in Followers
      BY <2>1 DEF Added
    <3>2. CASE f \in Added
      BY <1>1, <1>3, <2>0, <3>2 DEF FollowersBound
    <3>3. CASE f = n /\ packet.op = "CreateNode" /\ n \in Known
      <4>1. f \notin node_id_map
        BY <1>10, <3>3
      <4>2. QED
        BY <1>1, <2>0, <4>1 DEF QueuesKnown
    <3>4. QED
      BY <1>22, <2>1, <3>1, <3>2, <3>3
  <2>2. ASSUME NEW f \in Followers, f \in node_id_map'
        PROVE  f \in bound' \/ torn' # {} \/ f \in Added'
    <3>1. CASE f \in node_id_map
      BY <1>1, <1>22, <2>0, <3>1 DEF FollowersBound
    <3>2. CASE f \notin node_id_map
      <4>1. f = n /\ packet.op = "CreateNode" /\ n \in Known
        BY <1>10, <2>2, <3>2
      <4>2. QED
        BY <1>22, <4>1
    <3>3. QED
      BY <3>1, <3>2
  <2>3. QED
    BY <1>1, <1>3, <2>1, <2>2 DEF FollowersBound
\* A player that is gone was read of as deleted, and then nothing comes of its follower.
<1>26. PlayersAlive'
  <2>0. /\ \A p \in Players : p \in node_id_map /\ Spawned(p) = Absent => DeletedRead(p)
        /\ \A f \in Added : Target[f] \in node_id_map => Spawned(Target[f]) # Absent
        /\ \A p \in Players, i \in DOMAIN messages :
             Target[messages[i].node] = p => Spawned(p) # Absent
    BY <1>3 DEF LinkInv, ClientOK, PlayersAlive
  <2>1. ASSUME NEW p \in Players
        PROVE  \/ Spawned(p)' = Spawned(p)
               \/ Spawned(p)' # Absent /\ p \notin node_id_map
               \/ p \notin Known
    <3>1. CASE ~About(packet, p)
      BY <1>15, <3>1
    <3>2. CASE About(packet, p) /\ p \in Known
      <4>1. CASE packet.op = "CreateNode"
        BY <1>10, <1>16, <1>20, <3>2, <4>1
      <4>2. QED
        BY <1>20, <3>2, <4>1
    <3>3. CASE About(packet, p) /\ p \notin Known
      BY <1>21, <3>3
    <3>4. QED
      BY <3>1, <3>2, <3>3
  <2>2. ASSUME NEW p \in Players, p \in node_id_map', p \notin node_id_map
        PROVE  Spawned(p)' # Absent
    <3>1. p = n /\ packet.op = "CreateNode" /\ n \in Known
      BY <1>10, <2>2
    <3>2. About(packet, p)
      BY <3>1 DEF About, n
    <3>3. QED
      BY <1>20, <3>1, <3>2
  <2>3. ASSUME NEW p \in Players, p \in node_id_map', Spawned(p)' = Absent
        PROVE  DeletedRead(p)' /\ DeletedRead(p)
    <3>1. p \in node_id_map
      BY <2>2, <2>3
    <3>2. Spawned(p) = Absent
      BY <1>12, <2>1, <2>3, <3>1
    <3>3. QED
      BY <1>9, <2>0, <3>1, <3>2
  <2>4. ASSUME NEW f \in Added', Target[f] \in node_id_map'
        PROVE  Spawned(Target[f])' # Absent
    <3>0. f \in Followers /\ Target[f] \in Players
      BY <2>4, Targets DEF Added
    <3>1. CASE Target[f] \notin node_id_map
      BY <2>2, <2>4, <3>0, <3>1
    <3>2. CASE f \in Added /\ Target[f] \in node_id_map
      BY <1>12, <2>0, <2>1, <2>4, <3>0, <3>2
    <3>3. CASE f = n /\ packet.op = "CreateNode"
      <4>1. ~DeletedRead(Target[f])
        BY <1>6, <3>3
      <4>2. QED
        BY <2>3, <2>4, <3>0, <4>1
    <3>4. QED
      BY <1>22, <2>4, <3>0, <3>1, <3>2, <3>3
  <2>5. ASSUME NEW p \in Players, NEW i \in DOMAIN messages', Target[messages'[i].node] = p
        PROVE  Spawned(p)' # Absent
    <3>0. messages'[i].node \in Followers /\ messages'[i].node \in node_id_map'
      BY <1>23, <2>5 DEF QueuesKnown
    <3>1. CASE i \in DOMAIN messages /\ messages'[i] = messages[i]
      <4>1. Spawned(p) # Absent
        BY <2>0, <2>5, <3>1
      <4>2. QED
        BY <1>12, <2>1, <2>5, <3>0, <4>1, Targets
    <3>2. CASE messages'[i] = packet /\ packet.op = "SendMessage"
      <4>1. Target[n] = p /\ ~DeletedRead(p) /\ ReadOf(p)
        BY <1>6, <2>5, <3>2 DEF n
      <4>2. n \in Known
        BY <1>12, <3>0, <3>2 DEF n
      <4>3. p \in Known /\ p \in Node
        BY <1>5, <4>1, <4>2, Targets
      <4>4. p \in node_id_map'
        BY <1>7, <1>12, <4>1, <4>3
      <4>5. QED
        BY <2>3, <4>1, <4>4
    <3>3. \/ i \in DOMAIN messages /\ messages'[i] = messages[i]
          \/ messages'[i] = packet /\ packet.op = "SendMessage"
      <4>1. CASE messages' = messages
        BY <2>5, <4>1
      <4>2. CASE packet.op = "SendMessage" /\ messages' = Append(messages, packet)
        BY <1>3, <2>5, <4>2
      <4>3. QED
        BY <1>13, <4>1, <4>2
    <3>4. QED
      BY <3>1, <3>2, <3>3
  <2>6. QED
    BY <1>1, <1>3, <2>3, <2>4, <2>5 DEF PlayersAlive, Absent
<1>27. QED
  BY <1>2, <1>11, <1>12, <1>14, <1>23, <1>24, <1>25, <1>26 DEF LinkInv, ClientOK, ServerOK

----------------------------------------------------------------------------
(* The theorem *)

LEMMA Invariance ==
  ASSUME Again = FALSE
  PROVE  LinkSpec => []LinkInv
<1>1. LinkInv /\ UNCHANGED linkVars => LinkInv'
  <2> SUFFICES ASSUME LinkInv, UNCHANGED linkVars
               PROVE  LinkInv'
    OBVIOUS
  <2>1. UNCHANGED vars /\ UNCHANGED <<clientVars, read, gameVars>>
    BY DEF linkVars
  <2>2. ServerOK' /\ log' = log
    BY <2>1, ServerKeeps
  <2>3. ClientOK'
    BY <2>1, <2>2, ClientKeeps DEF LinkInv, TypesOK
  <2>4. TypesOK'
    BY <2>1, <2>2 DEF TypesOK, ServerOK, LinkInv, clientVars
  <2>5. QED
    BY <2>2, <2>3, <2>4 DEF LinkInv, ServerOK
<1>2. LinkInv /\ [LinkNext]_linkVars => LinkInv'
  BY <1>1, ServerInv, ResetInv, RecvInv, FreezeInv, UpdateInv, PanicInv DEF LinkNext
<1>3. QED
  BY <1>2, InitInv, PTL DEF LinkSpec

\* Whatever the players, however the packets of the server fall into the client's ticks, and
\* whether it defines their kinds or not, as long as a node is shown to it only once: the
\* client reports an error, and its game panics, for nothing but a node of an unknown kind
\* or a follower that the end of a tick has torn from the player sent after it.  While the
\* game runs it has every player where the packets it has read lead to in the order in
\* which they were sent and, with nothing left to read, where the server has it.
THEOREM ClientFaithful == Again = FALSE => (LinkSpec => []ReplicaFaithful)
<1> SUFFICES ASSUME Again = FALSE
             PROVE  LinkSpec => []ReplicaFaithful
  OBVIOUS
<1>1. LinkInv => ReplicaFaithful
  <2> SUFFICES ASSUME LinkInv
               PROVE  ReplicaFaithful
    OBVIOUS
  <2>1. OrderImmaterial
    BY DEF LinkInv, ClientOK, GameFollows, OrderImmaterial, Expected
  <2>2. ClientMirrors
    <3> SUFFICES ASSUME updated, read = Len(log[Me]), Me \in joined,
                        NEW p \in Players \cap Known
                 PROVE  app[p] = IF Me \in shown[p] THEN value[p] ELSE Absent
      BY DEF ClientMirrors
    <3>1. app[p] = Replayed(p, Len(log[Me]))
      BY <2>1 DEF OrderImmaterial
    <3>2. QED
      BY <3>1 DEF LinkInv, LogMirrors
  <2>3. QED
    BY <2>1, <2>2 DEF ReplicaFaithful, LinkInv, ClientOK
<1>2. LinkSpec => []LinkInv
  BY Invariance
<1>3. QED
  BY <1>1, <1>2, PTL
=============================================================================
