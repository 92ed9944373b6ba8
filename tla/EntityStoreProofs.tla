-------------------------- MODULE EntityStoreProofs --------------------------
(***************************************************************************)
(* Proofs about EntityStore, for any number of entities and any finite set *)
(* of components.  CoreInv is about the tree, the archetypes, who owns     *)
(* what and what a flush has announced, and holds whatever the game does;  *)
(* ListsInv is about the member lists, and needs a game that is not        *)
(* reckless (see Careful).                                                 *)
(***************************************************************************)
EXTENDS EntityStore, SequenceTheorems, FiniteSetTheorems, WellFoundedInduction, TLAPS

----------------------------------------------------------------------------
(* The inductive invariant *)

\* TypeOK without the member lists and what refers to positions in them.
CoreTypes ==
  /\ unused \subseteq Entity /\ alive \subseteq Entity
  /\ parent \in [Entity -> Entity \cup {None}]
  /\ children \in [Entity -> Seq(Entity)]
  /\ index_in_parent \in [Entity -> Nat]
  /\ archetype \in [Entity -> DOMAIN archetypes.comps]
  /\ condemned \subseteq Entity
  /\ storage \in [Comp -> SUBSET Entity] /\ removed \in [Comp -> SUBSET Entity]
  /\ reshaped \subseteq Entity \X DOMAIN archetypes.comps
  /\ queue \in Seq(Entity) /\ killing \in Seq(Entity)
  /\ late \subseteq Entity \X Comp
  /\ phase \in {"run", "handler", "kill", "take", "reap", "reshape"}

\* The archetypes are different sets, and a shortcut leads where it says.
StoreSound(s) ==
  /\ s = [comps |-> s.comps, pos |-> s.pos, with |-> s.with]
  /\ s.comps \in Seq(SUBSET Comp) /\ s.pos \in Seq([Comp -> Nat])
  /\ s.with \in [Comp -> Seq(Nat)]
  /\ Len(s.pos) = Len(s.comps) /\ Len(s.comps) >= 1
  /\ s.comps[EMPTY] = {}
  /\ \A a, b \in 1..Len(s.comps) : s.comps[a] = s.comps[b] => a = b
  /\ \A a \in 1..Len(s.comps), c \in Comp : s.pos[a][c] # Unknown =>
       s.pos[a][c] \in 1..Len(s.comps) /\ s.comps[s.pos[a][c]] = s.comps[a] \cup {c}

\* The dead, and the slots that no entity has used yet, are in no relation to the others.
DeadAlone ==
  /\ unused \cap (alive \cup ToSet(queue) \cup ToSet(killing)) = {}
  /\ \A c \in Comp : unused \cap removed[c] = {}
  /\ condemned \subseteq alive
  /\ \A e \in Entity \ alive : /\ parent[e] = None /\ children[e] = <<>>
                               /\ archetype[e] = EMPTY /\ Reshaped(e) = {}

\* Components are owned by archetype in every phase.
OwnedAlways == \A e \in Entity : CompsOf(e) = {c \in Comp : e \in storage[c]}

\* An entity is filed as reshaped once, and has components from then on.
ReshapedOnce ==
  /\ \A q, r \in reshaped : q[1] = r[1] => q = r
  /\ \A r \in reshaped : archetype[r[1]] # EMPTY

\* The condemned are in one of the two queues, and who is there is condemned or dead.
CondemnedQueued ==
  /\ condemned = (ToSet(queue) \cup ToSet(killing)) \cap alive
  /\ phase \notin {"handler", "kill"} => killing = <<>>
  /\ phase \in {"reap", "reshape"} => queue = <<>>

\* What flush is about to kill was announced, or added by the handler meanwhile, and what
\* was announced is dead or about to be killed.
AnnouncedFirst ==
  phase \in {"handler", "kill"} =>
    \A c \in Comp :
      /\ \A e \in Below(ToSet(killing)) :
           c \in CompsOf(e) => e \in removed[c] \/ <<e, c>> \in late
      /\ removed[c] \cap alive \subseteq Below(ToSet(killing))

CoreInv ==
  /\ CoreTypes
  /\ StoreSound(archetypes)
  /\ TreeConsistent
  /\ DeadAlone
  /\ OwnedAlways
  /\ ReshapedOnce
  /\ CondemnedQueued
  /\ AnnouncedFirst

\* Archetypes that do not exist yet have no lists, and no list has an unused slot.
ListTypes ==
  /\ index_in_archetype \in [Entity -> Nat]
  /\ index_members \in [NonEmpty -> Seq(Entity)]
  /\ comp_members \in [NonEmpty -> [Comp -> Seq(Entity)]]
  /\ dead \subseteq (DOMAIN archetypes.comps \ {EMPTY}) \X (Nat \ {0})
  /\ \A a \in NonEmpty \ DOMAIN archetypes.comps :
       index_members[a] = <<>> /\ \A c \in Comp : comp_members[a][c] = <<>>
  /\ \A a \in NonEmpty : \A i \in DOMAIN index_members[a] : index_members[a][i] \notin unused

\* dead_entities has no position of a living entity, and is empty but during a flush.
DeadSlotsFree ==
  /\ \A d \in dead : d[2] \in DOMAIN index_members[d[1]] => index_members[d[1]][d[2]] \notin alive
  /\ phase \in {"run", "reshape"} => dead = {}

ListsInv ==
  /\ ListTypes
  /\ PositionsKnown
  /\ ColumnsParallel
  /\ DeadSlotsFree
  /\ Careful

----------------------------------------------------------------------------
(* Lists with holes *)

LEMMA SwapRemoved ==
  ASSUME NEW S, NEW s \in Seq(S), NEW i \in 1..Len(s)
  PROVE  LET r == SwapRemove(s, i)
         IN /\ r \in Seq(S) /\ Len(r) = Len(s) - 1 /\ DOMAIN r = 1..(Len(s) - 1)
            /\ \A j \in 1..(Len(s) - 1) : r[j] = IF j = i THEN s[Len(s)] ELSE s[j]
<1>1. Len(s) \in Nat /\ Len(s) >= 1 /\ s[Len(s)] \in S
  OBVIOUS
<1> DEFINE t == [s EXCEPT ![i] = s[Len(s)]]
<1>2. t \in Seq(S) /\ Len(t) = Len(s)
      /\ \A j \in 1..Len(s) : t[j] = IF j = i THEN s[Len(s)] ELSE s[j]
  BY <1>1, ExceptSeq
<1>3. SwapRemove(s, i) = SubSeq(t, 1, Len(t) - 1)
  BY DEF SwapRemove, Front, Last
<1> HIDE DEF t
<1> DEFINE r == SubSeq(t, 1, Len(t) - 1)
<1>4. \A j \in 1..(Len(t) - 1) : t[j] \in S
  BY <1>1, <1>2
<1>5. r \in Seq(S) /\ Len(r) = Len(t) - 1 /\ \A j \in 1..(Len(t) - 1) : r[j] = t[j]
  <2> PICK n \in Nat : n = Len(t) - 1
    BY <1>1, <1>2
  <2>1. n - 1 + 1 = n /\ \A j \in 1..n : 1 + j - 1 = j
    OBVIOUS
  <2>2. /\ SubSeq(t, 1, n) \in Seq(S)
        /\ Len(SubSeq(t, 1, n)) = (IF 1 <= n THEN n - 1 + 1 ELSE 0)
        /\ \A j \in 1..(n - 1 + 1) : SubSeq(t, 1, n)[j] = t[1 + j - 1]
    BY <1>4, SubSeqProperties
  <2>3. QED
    BY <2>1, <2>2
<1> HIDE DEF r
<1>6. DOMAIN r = 1..Len(r)
  BY <1>5
<1>7. QED
  BY <1>1, <1>2, <1>3, <1>5, <1>6 DEF r

\* Patching the cached positions goes along with it: only the last entry moves.
LEMMA PatchedIs ==
  ASSUME NEW S, NEW pos \in [S -> Nat], NEW s \in Seq(S), NEW i \in 1..Len(s)
  PROVE  /\ Patched(pos, s, i) \in [S -> Nat]
         /\ \A x \in S : Patched(pos, s, i)[x] = IF i < Len(s) /\ x = s[Len(s)] THEN i ELSE pos[x]
<1>1. Len(s) \in Nat /\ s[Len(s)] \in S /\ i \in Nat
  OBVIOUS
<1>2. QED
  BY <1>1 DEF Patched, Last

\* Trim finds the last living entity.
LEMMA TrimIs ==
  ASSUME NEW s \in Seq(Entity)
  PROVE  /\ Trim(s) \in 0..Len(s)
         /\ Trim(s) = 0 \/ s[Trim(s)] \in alive
         /\ \A i \in (Trim(s) + 1)..Len(s) : s[i] \notin alive
<1> DEFINE Rest == {d \in Nat : d <= Len(s) /\ (Len(s) - d = 0 \/ s[Len(s) - d] \in alive)}
<1>1. Len(s) \in Nat
  OBVIOUS
<1>2. Rest \subseteq Nat /\ Len(s) \in Rest
  BY <1>1
<1> DEFINE R == OpToRel(<, Nat)
<1>3. PICK d \in Rest : \A e \in Rest : ~(<<e, d>> \in R)
  <2>1. IsWellFoundedOn(R, Nat)
    BY NatLessThanWellFounded
  <2> HIDE DEF R, Rest
  <2>2. QED
    BY <1>2, <2>1, WFMin
<1>4. \A e \in Rest : d <= e
  <2>1. \A x, y \in Nat : x < y => <<x, y>> \in R
    BY DEF OpToRel
  <2> HIDE DEF R
  <2>2. d \in Nat /\ \A e \in Rest : e \in Nat /\ ~(e < d)
    BY <1>2, <1>3, <2>1
  <2>3. QED
    BY <2>2
<1> DEFINE k == Len(s) - d
<1>5. k \in 0..Len(s) /\ (k = 0 \/ s[k] \in alive)
  BY <1>1
<1>6. ASSUME NEW i \in (k + 1)..Len(s), s[i] \in alive PROVE FALSE
  <2>1. Len(s) - i \in Nat /\ Len(s) - i <= Len(s) /\ Len(s) - (Len(s) - i) = i
    BY <1>1, <1>5
  <2>2. Len(s) - i \in Rest
    BY <1>6, <2>1
  <2>3. d <= Len(s) - i
    BY <1>4, <2>2
  <2>4. QED
    BY <1>1, <1>5, <2>3
<1>7. QED
  BY <1>5, <1>6 DEF Trim

----------------------------------------------------------------------------
(* The descendants of a set *)

ChildrenAlive == \A e \in alive : ToSet(children[e]) \subseteq alive

\* Below is the least set of living entities with those of the set and all their children.
LEMMA BelowIs ==
  ASSUME ChildrenAlive, NEW set
  PROVE  Below(set) \subseteq alive /\ set \cap alive \subseteq Below(set) /\ Closed(Below(set))
<1>1. Below(set) \subseteq alive /\ set \cap alive \subseteq Below(set)
  BY DEF Below
<1>2. ASSUME NEW e \in Below(set), NEW x \in ToSet(children[e])
      PROVE  x \in Below(set)
  <2>1. x \in alive
    BY <1>1 DEF ChildrenAlive
  <2>2. ASSUME NEW s \in SUBSET alive, set \cap alive \subseteq s, Closed(s) PROVE x \in s
    BY <2>2 DEF Below, Closed
  <2>3. QED
    BY <2>1, <2>2 DEF Below
<1>3. QED
  BY <1>1, <1>2 DEF Closed

LEMMA BelowLeast ==
  ASSUME NEW set, NEW s \in SUBSET alive, set \cap alive \subseteq s, Closed(s)
  PROVE  Below(set) \subseteq s
BY DEF Below

LEMMA BelowEmpty ==
  ASSUME NEW set, set \cap alive = {}
  PROVE  Below(set) = {}
BY BelowLeast DEF Closed

LEMMA BelowMonotone ==
  ASSUME ChildrenAlive, NEW set, NEW more, set \cap alive \subseteq Below(more)
  PROVE  Below(set) \subseteq Below(more)
BY BelowIs, BelowLeast

\* The same in the next state.
LEMMA BelowIsLater ==
  ASSUME ChildrenAlive', NEW set
  PROVE  /\ Below(set)' \subseteq alive' /\ set \cap alive' \subseteq Below(set)'
         /\ \A e \in Below(set)' : ToSet(children'[e]) \subseteq Below(set)'
<1>1. Below(set)' \subseteq alive' /\ set \cap alive' \subseteq Below(set)'
  BY DEF Below
<1>2. ASSUME NEW e \in Below(set)', NEW x \in ToSet(children'[e])
      PROVE  x \in Below(set)'
  <2>1. x \in alive'
    BY <1>1 DEF ChildrenAlive
  <2>2. ASSUME NEW s \in SUBSET alive', set \cap alive' \subseteq s, Closed(s)' PROVE x \in s
    BY <2>2 DEF Below, Closed
  <2>3. QED
    BY <2>1, <2>2 DEF Below
<1>3. QED
  BY <1>1, <1>2

\* In the next state: nothing else is below than what the children lead to, and whatever
\* keeps its children there stays below.
LEMMA BelowLater ==
  ASSUME NEW set, NEW s \in SUBSET alive', set \cap alive' \subseteq s,
         \A e \in s : ToSet(children'[e]) \subseteq s
  PROVE  Below(set)' \subseteq s
BY DEF Below, Closed

LEMMA BelowStays ==
  ASSUME ChildrenAlive, ChildrenAlive', NEW set, NEW gone \in SUBSET alive,
         alive \ gone \subseteq alive', Closed(gone),
         \A e \in Below(set) \ gone : ToSet(children[e]) \subseteq ToSet(children'[e]) \cup gone
  PROVE  Below(set) \subseteq Below(set)' \cup gone
<1> DEFINE s == (Below(set)' \cup gone) \cap Below(set)
<1>1. /\ Below(set)' \subseteq alive' /\ set \cap alive' \subseteq Below(set)'
      /\ \A e \in Below(set)' : ToSet(children'[e]) \subseteq Below(set)'
  BY BelowIsLater
<1>2. Below(set) \subseteq alive /\ set \cap alive \subseteq Below(set) /\ Closed(Below(set))
  BY BelowIs
<1>3. s \in SUBSET alive /\ set \cap alive \subseteq s
  BY <1>1, <1>2
<1>4. ASSUME NEW e \in s PROVE ToSet(children[e]) \subseteq s
  <2>1. ToSet(children[e]) \subseteq Below(set)
    BY <1>2 DEF Closed
  <2>2. CASE e \in gone
    BY <2>1, <2>2 DEF Closed
  <2>3. CASE e \notin gone
    BY <1>1, <2>1, <2>3
  <2>4. QED
    BY <2>2, <2>3
<1>5. Below(set) \subseteq s
  BY <1>3, <1>4, BelowLeast DEF Closed
<1>6. QED
  BY <1>5

----------------------------------------------------------------------------
(* The tree *)

LEMMA ChildrenLive ==
  ASSUME CoreTypes, TreeConsistent, DeadAlone
  PROVE  ChildrenAlive
<1> SUFFICES ASSUME NEW e \in alive, NEW x \in ToSet(children[e])
             PROVE  x \in alive
  BY DEF ChildrenAlive
<1>1. e \in Entity /\ x \in Entity /\ parent[x] = e
  BY DEF CoreTypes, TreeConsistent, ToSet
<1>2. QED
  BY <1>1, EntityStoreAssumption DEF DeadAlone

\* What set_parent and destroy_now leave when e is taken out of its parent's list.
LEMMA UnlinkedIs ==
  ASSUME CoreTypes, TreeConsistent, DeadAlone, NEW e \in Entity
  PROVE  LET C == Unlinked(e)
             X == UnlinkedIndex(e)
         IN /\ C \in [Entity -> Seq(Entity)] /\ X \in [Entity -> Nat]
            /\ \A x \in alive \ {e} : parent[x] # None =>
                 X[x] \in DOMAIN C[parent[x]] /\ C[parent[x]][X[x]] = x
            /\ \A d \in Entity : \A i \in DOMAIN C[d] :
                 C[d][i] # e /\ parent[C[d][i]] = d /\ X[C[d][i]] = i
            /\ \A d \in Entity : ToSet(C[d]) = ToSet(children[d]) \ {e}
            /\ \A d \in Entity \ alive : C[d] = <<>>
<1>1. CASE parent[e] = None
  <2>1. Unlinked(e) = children /\ UnlinkedIndex(e) = index_in_parent
    BY <1>1 DEF Unlinked, UnlinkedIndex
  <2>2. \A d \in Entity : \A i \in DOMAIN children[d] : children[d][i] # e
    BY <1>1, EntityStoreAssumption DEF TreeConsistent
  <2>3. \A d \in Entity : ToSet(children[d]) = ToSet(children[d]) \ {e}
    BY <2>2 DEF ToSet
  <2>4. QED
    BY <2>1, <2>2, <2>3 DEF CoreTypes, TreeConsistent, DeadAlone
<1>2. CASE parent[e] # None
  <2> DEFINE p == parent[e]
             i == index_in_parent[e]
             L == children[p]
             r == SwapRemove(L, i)
             C == Unlinked(e)
             X == UnlinkedIndex(e)
  <2>1. e \in alive /\ p \in Entity /\ p \in alive
    BY <1>2 DEF CoreTypes, DeadAlone, TreeConsistent
  <2> PICK n \in Nat : n = Len(L)
    BY <2>1 DEF CoreTypes
  <2>2. L \in Seq(Entity) /\ DOMAIN L = 1..n /\ i \in 1..n /\ L[i] = e
    BY <1>2, <2>1 DEF CoreTypes, TreeConsistent
  <2>3. \A j \in 1..n : L[j] \in Entity /\ parent[L[j]] = p /\ index_in_parent[L[j]] = j
    BY <2>1, <2>2 DEF TreeConsistent
  <2>4. C = [children EXCEPT ![p] = r] /\ X = Patched(index_in_parent, L, i)
    BY <1>2 DEF Unlinked, UnlinkedIndex
  <2>5. /\ r \in Seq(Entity) /\ DOMAIN r = 1..(n - 1)
        /\ \A j \in 1..(n - 1) : r[j] = IF j = i THEN L[n] ELSE L[j]
    <3> HIDE DEF L, i
    <3>1. QED
      BY <2>2, SwapRemoved
  <2>6. /\ X \in [Entity -> Nat]
        /\ \A x \in Entity : X[x] = IF i < n /\ x = L[n] THEN i ELSE index_in_parent[x]
    <3>1. index_in_parent \in [Entity -> Nat]
      BY DEF CoreTypes
    <3> HIDE DEF L, i, X
    <3>2. /\ Patched(index_in_parent, L, i) \in [Entity -> Nat]
          /\ \A x \in Entity : Patched(index_in_parent, L, i)[x] =
               IF i < Len(L) /\ x = L[Len(L)] THEN i ELSE index_in_parent[x]
      <4> PICK pos : pos = index_in_parent
        OBVIOUS
      <4> PICK l : l = L
        OBVIOUS
      <4> PICK m : m = i
        OBVIOUS
      <4>1. pos \in [Entity -> Nat] /\ l \in Seq(Entity) /\ m \in 1..Len(l)
        BY <2>2, <3>1
      <4>2. /\ Patched(pos, l, m) \in [Entity -> Nat]
            /\ \A x \in Entity : Patched(pos, l, m)[x] =
                 IF m < Len(l) /\ x = l[Len(l)] THEN m ELSE pos[x]
        BY ONLY <4>1, PatchedIs
      <4>3. QED
        BY <4>2
    <3>3. QED
      BY <2>4, <3>2
  <2>7. C \in [Entity -> Seq(Entity)] /\ \A d \in Entity : C[d] = IF d = p THEN r ELSE children[d]
    BY <2>1, <2>4, <2>5 DEF CoreTypes
  <2> HIDE DEF r, C, X, i, L, p
  <2>8. ASSUME NEW x \in alive \ {e}, parent[x] # None
        PROVE  X[x] \in DOMAIN C[parent[x]] /\ C[parent[x]][X[x]] = x
    <3>1. /\ x \in Entity /\ parent[x] \in Entity
          /\ index_in_parent[x] \in DOMAIN children[parent[x]]
          /\ children[parent[x]][index_in_parent[x]] = x
      BY <2>8 DEF CoreTypes, TreeConsistent
    <3>2. CASE parent[x] # p
      <4>1. C[parent[x]] = children[parent[x]]
        BY <2>7, <3>1, <3>2
      <4>2. n \in 1..n /\ x # L[n]
        BY <2>2, <2>3, <3>2
      <4>3. QED
        BY <2>6, <3>1, <4>1, <4>2
    <3>3. CASE parent[x] = p
      <4> PICK j \in Nat : j = index_in_parent[x]
        BY <3>1 DEF CoreTypes
      <4>1. j \in 1..n /\ L[j] = x /\ j # i
        BY <2>2, <2>8, <3>1, <3>3 DEF L
      <4>2. CASE j = n
        <5>1. i < n /\ x = L[n] /\ i \in 1..(n - 1)
          BY <2>2, <4>1, <4>2
        <5>2. X[x] = i /\ C[p] = r
          BY <2>1, <2>6, <2>7, <3>1, <5>1
        <5>3. QED
          BY <2>5, <3>3, <5>1, <5>2
      <4>3. CASE j # n
        <5>1. j \in 1..(n - 1) /\ n \in 1..n /\ x # L[n]
          BY <2>3, <4>1, <4>3
        <5>2. X[x] = j
          BY <2>6, <3>1, <5>1
        <5>3. QED
          BY <2>5, <2>7, <3>1, <3>3, <4>1, <5>1, <5>2
      <4>4. QED
        BY <4>2, <4>3
    <3>4. QED
      BY <3>2, <3>3
  <2>9. ASSUME NEW d \in Entity, NEW j \in DOMAIN C[d]
        PROVE  C[d][j] # e /\ parent[C[d][j]] = d /\ X[C[d][j]] = j
    <3>1. CASE d # p
      <4>1. /\ C[d] = children[d] /\ C[d][j] \in Entity
            /\ parent[C[d][j]] = d /\ index_in_parent[C[d][j]] = j
        BY <2>7, <2>9, <3>1 DEF CoreTypes, TreeConsistent
      <4>2. n \in 1..n /\ C[d][j] # L[n] /\ C[d][j] # e
        BY <2>2, <2>3, <3>1, <4>1
      <4>3. QED
        BY <2>6, <4>1, <4>2
    <3>2. CASE d = p
      <4>1. j \in 1..(n - 1) /\ n \in 1..n /\ C[d][j] = IF j = i THEN L[n] ELSE L[j]
        BY <2>5, <2>7, <2>9, <3>2
      <4>2. CASE j = i
        <5>1. C[d][j] = L[n] /\ i < n
          BY <4>1, <4>2
        <5>2. L[n] # e
          BY <2>2, <2>3, <4>1, <5>1
        <5>3. QED
          BY <2>3, <2>6, <3>2, <4>1, <4>2, <5>1, <5>2
      <4>3. CASE j # i
        <5>1. C[d][j] = L[j] /\ j \in 1..n /\ j # n
          BY <4>1, <4>3
        <5>2. L[j] # e /\ L[j] # L[n] /\ L[j] \in Entity
          BY <2>2, <2>3, <4>1, <4>3, <5>1
        <5>3. QED
          BY <2>3, <2>6, <3>2, <5>1, <5>2
      <4>4. QED
        BY <4>2, <4>3
    <3>3. QED
      BY <3>1, <3>2
  <2>10. ToSet(r) = ToSet(L) \ {e}
    <3>1. ASSUME NEW x \in ToSet(r) PROVE x \in ToSet(L) \ {e}
      <4>1. PICK j \in DOMAIN r : x = r[j]
        BY <3>1 DEF ToSet
      <4>2. x # e
        BY <2>1, <2>7, <2>9, <4>1 DEF CoreTypes
      <4>3. j \in 1..n /\ n \in 1..n /\ (x = L[n] \/ x = L[j])
        BY <2>5, <4>1
      <4>4. QED
        BY <2>2, <4>2, <4>3 DEF ToSet
    <3>2. ASSUME NEW x \in ToSet(L) \ {e} PROVE x \in ToSet(r)
      <4>1. PICK j \in 1..n : x = L[j]
        BY <2>2, <3>2 DEF ToSet
      <4>2. j # i
        BY <2>2, <3>2, <4>1
      <4>3. CASE j = n
        <5>1. i \in 1..(n - 1) /\ r[i] = x
          BY <2>2, <2>5, <4>1, <4>2, <4>3
        <5>2. QED
          BY <2>5, <5>1 DEF ToSet
      <4>4. CASE j # n
        <5>1. j \in 1..(n - 1) /\ r[j] = x
          BY <2>5, <4>1, <4>2, <4>4
        <5>2. QED
          BY <2>5, <5>1 DEF ToSet
      <4>5. QED
        BY <4>3, <4>4
    <3>3. QED
      BY <3>1, <3>2
  <2>11. \A d \in Entity \ {p} : e \notin ToSet(children[d])
    <3>1. parent[e] = p
      BY DEF p
    <3>2. QED
      BY <3>1 DEF TreeConsistent, ToSet
  <2>12. \A d \in Entity : ToSet(C[d]) = ToSet(children[d]) \ {e}
    BY <2>7, <2>10, <2>11 DEF L
  <2>13. \A d \in Entity \ alive : C[d] = <<>>
    BY <2>1, <2>7 DEF DeadAlone
  <2>14. QED
    BY <2>6, <2>7, <2>8, <2>9, <2>12, <2>13 DEF C, X
<1>3. QED
  BY <1>1, <1>2

\* set_parent, of an entity that is alive or comes alive with it.
LEMMA SetParentToKeeps ==
  ASSUME CoreTypes, TreeConsistent, DeadAlone, NEW e \in Entity, NEW p \in alive \cup {None},
         SetParentTo(e, p), alive' = alive \cup {e}
  PROVE  /\ parent' \in [Entity -> Entity \cup {None}]
         /\ children' \in [Entity -> Seq(Entity)]
         /\ index_in_parent' \in [Entity -> Nat]
         /\ TreeConsistent'
         /\ \A d \in Entity \ alive' : parent'[d] = None /\ children'[d] = <<>>
         /\ \A d \in Entity : ToSet(children'[d]) =
              (ToSet(children[d]) \ {e}) \cup (IF d = p THEN {e} ELSE {})
<1> DEFINE C == Unlinked(e)
           X == UnlinkedIndex(e)
<1>1. /\ C \in [Entity -> Seq(Entity)] /\ X \in [Entity -> Nat]
      /\ \A x \in alive \ {e} : parent[x] # None =>
           X[x] \in DOMAIN C[parent[x]] /\ C[parent[x]][X[x]] = x
      /\ \A d \in Entity : \A i \in DOMAIN C[d] :
           C[d][i] # e /\ parent[C[d][i]] = d /\ X[C[d][i]] = i
      /\ \A d \in Entity : ToSet(C[d]) = ToSet(children[d]) \ {e}
      /\ \A d \in Entity \ alive : C[d] = <<>>
  BY UnlinkedIs
<1>2. /\ parent' = [parent EXCEPT ![e] = p]
      /\ p = None => children' = C /\ index_in_parent' = X
      /\ p # None => /\ children' = [C EXCEPT ![p] = Append(@, e)]
                     /\ index_in_parent' = [X EXCEPT ![e] = Len(C[p]) + 1]
  BY DEF SetParentTo
<1> PICK Ch \in [Entity -> Seq(Entity)] : Ch = C
  BY <1>1
<1> PICK Ix \in [Entity -> Nat] : Ix = X
  BY <1>1
<1> HIDE DEF C, X
<1>3. \A d \in Entity : \A i \in DOMAIN Ch[d] : Ch[d][i] \in Entity
  OBVIOUS
<1>4. p \in Entity \cup {None} /\ parent' \in [Entity -> Entity \cup {None}] /\ parent'[e] = p
      /\ \A x \in Entity \ {e} : parent'[x] = parent[x]
  BY <1>2 DEF CoreTypes
<1>5. CASE p = None
  <2>1. children' = Ch /\ index_in_parent' = Ix
    BY <1>2, <1>5
  <2>2. \A x \in alive' : parent'[x] # None => x \in alive \ {e} /\ parent'[x] = parent[x]
    BY <1>4, <1>5 DEF CoreTypes
  <2>3. \A x \in alive \ {e} : parent[x] # None => parent[x] \in alive'
    BY DEF TreeConsistent
  <2>4. TreeConsistent'
    <3>1. \A x \in alive' : parent'[x] # None =>
            /\ parent'[x] \in alive'
            /\ index_in_parent'[x] \in DOMAIN children'[parent'[x]]
            /\ children'[parent'[x]][index_in_parent'[x]] = x
      BY <1>1, <2>1, <2>2, <2>3
    <3>2. \A d \in Entity : \A i \in DOMAIN children'[d] :
            parent'[children'[d][i]] = d /\ index_in_parent'[children'[d][i]] = i
      <4> SUFFICES ASSUME NEW d \in Entity, NEW i \in DOMAIN Ch[d]
                   PROVE  parent'[Ch[d][i]] = d /\ Ix[Ch[d][i]] = i
        BY <2>1
      <4>1. /\ Ch[d][i] \in Entity /\ Ch[d][i] # e
            /\ parent[Ch[d][i]] = d /\ Ix[Ch[d][i]] = i
        BY <1>1, <1>3
      <4>2. QED
        BY <1>4, <4>1
    <3>3. QED
      BY <3>1, <3>2 DEF TreeConsistent
  <2>5. \A d \in Entity \ alive' : parent'[d] = None /\ children'[d] = <<>>
    BY <1>1, <1>4, <2>1 DEF DeadAlone
  <2>6. QED
    BY <1>1, <1>4, <1>5, <2>1, <2>4, <2>5, EntityStoreAssumption
<1>6. CASE p # None
  <2> PICK n \in Nat : n = Len(Ch[p])
    BY <1>4, <1>6
  <2> DEFINE longer == Append(Ch[p], e)
  <2>1. /\ longer \in Seq(Entity) /\ DOMAIN longer = 1..(n + 1)
        /\ longer[n + 1] = e /\ DOMAIN Ch[p] = 1..n
        /\ \A j \in 1..n : longer[j] = Ch[p][j]
        /\ n + 1 \in 1..(n + 1) /\ \A j \in 1..(n + 1) : j = n + 1 \/ j \in 1..n
        /\ \A j \in 1..n : j \in 1..(n + 1)
    <3>1. Ch[p] \in Seq(Entity) /\ DOMAIN Ch[p] = 1..n
      BY <1>4, <1>6
    <3>2. /\ longer \in Seq(Entity) /\ Len(longer) = n + 1 /\ longer[n + 1] = e
          /\ \A j \in 1..n : longer[j] = Ch[p][j]
      BY <3>1, AppendProperties
    <3> HIDE DEF longer
    <3>3. DOMAIN longer = 1..(n + 1)
      BY <3>2
    <3>4. n + 1 \in 1..(n + 1) /\ \A j \in 1..n : j \in 1..(n + 1)
      OBVIOUS
    <3>5. ASSUME NEW j \in 1..(n + 1), j # n + 1 PROVE j \in 1..n
      BY <3>5
    <3>6. QED
      BY <3>1, <3>2, <3>3, <3>4, <3>5
  <2> HIDE DEF longer
  <2>2. /\ children' \in [Entity -> Seq(Entity)] /\ index_in_parent' \in [Entity -> Nat]
        /\ \A d \in Entity : children'[d] = IF d = p THEN longer ELSE Ch[d]
        /\ \A x \in Entity : index_in_parent'[x] = IF x = e THEN n + 1 ELSE Ix[x]
    <3>1. p \in Entity
      BY <1>4, <1>6
    <3>2. /\ children' = [Ch EXCEPT ![p] = longer]
          /\ index_in_parent' = [Ix EXCEPT ![e] = n + 1]
      BY <1>2, <1>6 DEF longer
    <3>3. QED
      BY <2>1, <3>1, <3>2
  <2>3. ASSUME NEW x \in alive', parent'[x] # None
        PROVE  /\ parent'[x] \in alive'
               /\ index_in_parent'[x] \in DOMAIN children'[parent'[x]]
               /\ children'[parent'[x]][index_in_parent'[x]] = x
    <3>1. CASE x = e
      BY <1>4, <1>6, <2>1, <2>2, <3>1
    <3>2. CASE x # e
      <4>1. x \in alive \ {e} /\ x \in Entity /\ parent'[x] = parent[x] /\ parent[x] \in Entity
        BY <1>4, <2>3, <3>2 DEF CoreTypes
      <4>2. parent[x] \in alive' /\ Ix[x] \in DOMAIN Ch[parent[x]] /\ Ch[parent[x]][Ix[x]] = x
        BY <1>1, <2>3, <4>1 DEF TreeConsistent
      <4>3. index_in_parent'[x] = Ix[x]
        BY <2>2, <3>2, <4>1
      <4>4. CASE parent[x] = p
        BY <2>1, <2>2, <4>1, <4>2, <4>3, <4>4
      <4>5. CASE parent[x] # p
        BY <2>2, <4>1, <4>2, <4>3, <4>5
      <4>6. QED
        BY <4>4, <4>5
    <3>3. QED
      BY <3>1, <3>2
  <2>4. ASSUME NEW d \in Entity, NEW i \in DOMAIN children'[d]
        PROVE  /\ parent'[children'[d][i]] = d
               /\ index_in_parent'[children'[d][i]] = i
    <3>1. CASE i \in DOMAIN Ch[d]
      <4>1. /\ Ch[d][i] \in Entity /\ Ch[d][i] # e
            /\ parent[Ch[d][i]] = d /\ Ix[Ch[d][i]] = i
        BY <1>1, <1>3, <3>1
      <4> PICK y : y = Ch[d][i]
        OBVIOUS
      <4>2. children'[d][i] = y
        BY <2>1, <2>2, <3>1
      <4>3. parent'[y] = d /\ index_in_parent'[y] = i
        BY <1>4, <2>2, <4>1
      <4>4. QED
        BY <4>2, <4>3
    <3>2. CASE i \notin DOMAIN Ch[d]
      <4>1. d = p /\ i = n + 1 /\ children'[d][i] = e
        BY <2>1, <2>2, <2>4, <3>2
      <4>2. QED
        BY <1>4, <2>2, <4>1
    <3>3. QED
      BY <3>1, <3>2
  <2>5. TreeConsistent'
    BY <2>3, <2>4 DEF TreeConsistent
  <2>6. ToSet(longer) = ToSet(Ch[p]) \cup {e}
    <3>1. \A x \in ToSet(longer) : x = e \/ x \in ToSet(Ch[p])
      BY <2>1 DEF ToSet
    <3>2. \A x \in ToSet(Ch[p]) : x \in ToSet(longer)
      BY <2>1 DEF ToSet
    <3>3. e \in ToSet(longer)
      BY <2>1 DEF ToSet
    <3>4. QED
      BY <3>1, <3>2, <3>3
  <2>7. ASSUME NEW d \in Entity \ alive' PROVE parent'[d] = None /\ children'[d] = <<>>
    <3>1. d \in Entity \ alive /\ d # e /\ d # p
      BY <1>6
    <3>2. parent[d] = None /\ Ch[d] = <<>>
      BY <1>1, <3>1 DEF DeadAlone
    <3>3. QED
      BY <1>4, <2>2, <3>1, <3>2
  <2>8. \A d \in Entity : ToSet(children'[d]) =
          (ToSet(children[d]) \ {e}) \cup (IF d = p THEN {e} ELSE {})
    BY <1>1, <2>2, <2>6
  <2>9. QED
    BY <1>4, <2>2, <2>5, <2>7, <2>8
<1>7. QED
  BY <1>5, <1>6

----------------------------------------------------------------------------
(* The archetypes *)

\* lookup_extend returns the archetype with one component more, and only adds to the store.
LEMMA ExtendedIs ==
  ASSUME NEW s, StoreSound(s), NEW base \in 1..Len(s.comps), NEW c \in Comp
  PROVE  LET t == Target(s, base, c)
             u == Extended(s, base, c)
         IN /\ StoreSound(u)
            /\ t \in 1..Len(u.comps) /\ u.comps[t] = s.comps[base] \cup {c}
            /\ \A a \in 1..Len(s.comps) : a \in 1..Len(u.comps) /\ u.comps[a] = s.comps[a]
<1> PICK n \in Nat : n = Len(s.comps)
  BY DEF StoreSound
<1> DEFINE t == Target(s, base, c)
           u == Extended(s, base, c)
           set == s.comps[base] \cup {c}
           linked == [s.pos EXCEPT ![base][c] = t]
<1>1. /\ s.comps \in Seq(SUBSET Comp) /\ s.pos \in Seq([Comp -> Nat])
      /\ s.with \in [Comp -> Seq(Nat)]
      /\ DOMAIN s.comps = 1..n /\ DOMAIN s.pos = 1..n /\ Len(s.pos) = n /\ n >= 1
      /\ s.comps[EMPTY] = {} /\ base \in 1..n
      /\ \A a \in 1..n : s.pos[a] \in [Comp -> Nat] /\ s.comps[a] \in SUBSET Comp
  BY DEF StoreSound
<1>2. /\ \A a, b \in 1..n : s.comps[a] = s.comps[b] => a = b
      /\ \A a \in 1..n, d \in Comp : s.pos[a][d] # Unknown =>
           s.pos[a][d] \in 1..n /\ s.comps[s.pos[a][d]] = s.comps[a] \cup {d}
  BY DEF StoreSound
<1>3. set \in SUBSET Comp
  BY <1>1
<1>4. \/ t \in 1..n /\ s.comps[t] = set
      \/ t = n + 1 /\ \A a \in 1..n : s.comps[a] # set
  <2>1. CASE s.pos[base][c] # Unknown
    BY <1>1, <1>2, <2>1 DEF Target
  <2>2. CASE s.pos[base][c] = Unknown /\ Existing(s, set) # {}
    <3>1. t \in Existing(s, set)
      BY <2>2 DEF Target
    <3>2. QED
      BY <1>1, <3>1 DEF Existing
  <2>3. CASE s.pos[base][c] = Unknown /\ Existing(s, set) = {}
    BY <1>1, <2>3 DEF Target, Existing
  <2>4. QED
    BY <2>1, <2>2, <2>3
<1>5. t \in Nat
  BY <1>4
<1> HIDE DEF t, set
<1>6. /\ linked \in Seq([Comp -> Nat]) /\ Len(linked) = n /\ DOMAIN linked = 1..n
      /\ \A a \in 1..n, d \in Comp : linked[a][d] = IF a = base /\ d = c THEN t ELSE s.pos[a][d]
  <2>1. [s.pos[base] EXCEPT ![c] = t] \in [Comp -> Nat]
    BY <1>1, <1>5
  <2>2. linked = [s.pos EXCEPT ![base] = [s.pos[base] EXCEPT ![c] = t]]
    OBVIOUS
  <2>3. /\ linked \in Seq([Comp -> Nat]) /\ Len(linked) = n
        /\ \A a \in 1..n : linked[a] = IF a = base THEN [s.pos[base] EXCEPT ![c] = t] ELSE s.pos[a]
    BY <1>1, <2>1, <2>2, ExceptSeq
  <2> HIDE DEF linked
  <2>4. DOMAIN linked = 1..n
    BY <2>3
  <2>5. QED
    BY <1>1, <1>5, <2>3, <2>4
<1> HIDE DEF linked
<1>7. CASE t \in 1..n
  <2>1. u = [s EXCEPT !.pos = linked]
    BY <1>1, <1>7 DEF Extended, t, linked
  <2>2. u = [comps |-> s.comps, pos |-> linked, with |-> s.with]
    BY <2>1 DEF StoreSound
  <2> HIDE DEF u
  <2>3. u.comps = s.comps /\ u.pos = linked /\ u.with = s.with
    BY <2>2
  <2>4. s.comps[t] = set
    BY <1>4, <1>7
  <2>5. \A a \in 1..n, d \in Comp : linked[a][d] # Unknown =>
          linked[a][d] \in 1..n /\ s.comps[linked[a][d]] = s.comps[a] \cup {d}
    <3> SUFFICES ASSUME NEW a \in 1..n, NEW d \in Comp, linked[a][d] # Unknown
                 PROVE  linked[a][d] \in 1..n /\ s.comps[linked[a][d]] = s.comps[a] \cup {d}
      OBVIOUS
    <3>1. CASE a = base /\ d = c
      BY <1>6, <1>7, <2>4, <3>1 DEF set
    <3>2. CASE ~(a = base /\ d = c)
      <4>1. linked[a][d] = s.pos[a][d]
        BY <1>6, <3>2
      <4>2. QED
        BY <1>2, <4>1
    <3>3. QED
      BY <3>1, <3>2
  <2>6. StoreSound(u)
    <3>1. u = [comps |-> u.comps, pos |-> u.pos, with |-> u.with]
      BY <2>2, <2>3
    <3>2. /\ Len(u.comps) = n /\ Len(u.pos) = n /\ n >= 1 /\ u.comps[EMPTY] = {}
          /\ u.comps \in Seq(SUBSET Comp) /\ u.pos \in Seq([Comp -> Nat])
          /\ u.with \in [Comp -> Seq(Nat)]
      BY <1>1, <1>6, <2>3
    <3>3. /\ \A a, b \in 1..n : u.comps[a] = u.comps[b] => a = b
          /\ \A a \in 1..n, d \in Comp : u.pos[a][d] # Unknown =>
               u.pos[a][d] \in 1..n /\ u.comps[u.pos[a][d]] = u.comps[a] \cup {d}
      BY <1>2, <2>3, <2>5
    <3>4. QED
      BY <3>1, <3>2, <3>3 DEF StoreSound
  <2>7. QED
    BY <1>7, <2>3, <2>4, <2>6 DEF t, u, set
<1>8. CASE t \notin 1..n
  <2>1. t = n + 1 /\ \A a \in 1..n : s.comps[a] # set
    BY <1>4, <1>8
  <2> DEFINE comps == Append(s.comps, set)
             blank == [d \in Comp |-> Unknown]
             pos == Append(linked, blank)
             with == [d \in Comp |-> IF d \in Joined(set, c) THEN Append(s.with[d], t)
                                                             ELSE s.with[d]]
  <2>2. u = [comps |-> comps, pos |-> pos, with |-> with]
    BY <1>1, <1>8 DEF Extended, t, linked, set
  <2>3. /\ comps \in Seq(SUBSET Comp) /\ Len(comps) = n + 1 /\ comps[n + 1] = set
        /\ \A a \in 1..n : comps[a] = s.comps[a]
    BY <1>1, <1>3, AppendProperties
  <2>4. blank \in [Comp -> Nat] /\ \A d \in Comp : blank[d] = Unknown
    BY DEF Unknown
  <2> HIDE DEF blank
  <2>5. /\ pos \in Seq([Comp -> Nat]) /\ Len(pos) = n + 1 /\ pos[n + 1] = blank
        /\ \A a \in 1..n : pos[a] = linked[a]
    BY <1>6, <2>4, AppendProperties
  <2>6. with \in [Comp -> Seq(Nat)]
    BY <1>1, <1>5
  <2> HIDE DEF comps, pos, with, u
  <2>7. u.comps = comps /\ u.pos = pos /\ u.with = with
    BY <2>2
  <2>8. ASSUME NEW a \in 1..(n + 1) PROVE a = n + 1 \/ a \in 1..n
    BY <2>8
  <2>9. \A a \in 1..n : a \in 1..(n + 1) /\ a # n + 1
    OBVIOUS
  <2>10. n + 1 \in 1..(n + 1)
    OBVIOUS
  <2>11. ASSUME NEW a \in 1..(n + 1), NEW b \in 1..(n + 1), comps[a] = comps[b] PROVE a = b
    <3>1. CASE a = n + 1
      BY <2>1, <2>3, <2>8, <2>11, <3>1
    <3>2. CASE b = n + 1
      BY <2>1, <2>3, <2>8, <2>11, <3>2
    <3>3. CASE a # n + 1 /\ b # n + 1
      BY <1>2, <2>3, <2>8, <2>11, <3>3
    <3>4. QED
      BY <3>1, <3>2, <3>3
  <2>12. \A a \in 1..(n + 1), d \in Comp : pos[a][d] # Unknown =>
           pos[a][d] \in 1..(n + 1) /\ comps[pos[a][d]] = comps[a] \cup {d}
    <3> SUFFICES ASSUME NEW a \in 1..(n + 1), NEW d \in Comp, pos[a][d] # Unknown
                 PROVE  pos[a][d] \in 1..(n + 1) /\ comps[pos[a][d]] = comps[a] \cup {d}
      OBVIOUS
    <3>1. a \in 1..n /\ pos[a] = linked[a] /\ comps[a] = s.comps[a]
      BY <2>3, <2>4, <2>5, <2>8
    <3>2. CASE a = base /\ d = c
      <4>1. pos[a][d] = n + 1
        BY <1>6, <2>1, <3>1, <3>2
      <4>2. QED
        BY <2>3, <2>10, <3>1, <3>2, <4>1 DEF set
    <3>3. CASE ~(a = base /\ d = c)
      <4>1. pos[a][d] = s.pos[a][d]
        BY <1>6, <3>1, <3>3
      <4>2. s.pos[a][d] \in 1..n /\ s.comps[s.pos[a][d]] = s.comps[a] \cup {d}
        BY <1>2, <3>1, <4>1
      <4>3. QED
        BY <2>3, <2>9, <3>1, <4>1, <4>2
    <3>4. QED
      BY <3>2, <3>3
  <2>13. comps[EMPTY] = {} /\ n + 1 >= 1
    <3>1. EMPTY \in 1..n
      BY <1>1 DEF EMPTY
    <3>2. comps[EMPTY] = s.comps[EMPTY]
      BY <2>3, <3>1
    <3>3. n + 1 >= 1
      OBVIOUS
    <3>4. QED
      BY <1>1, <3>2, <3>3
  <2>14. StoreSound(u)
    <3>1. u = [comps |-> u.comps, pos |-> u.pos, with |-> u.with]
      BY <2>2, <2>7
    <3>2. /\ Len(u.comps) = n + 1 /\ Len(u.pos) = n + 1
          /\ u.comps \in Seq(SUBSET Comp) /\ u.pos \in Seq([Comp -> Nat])
          /\ u.with \in [Comp -> Seq(Nat)]
      BY <2>3, <2>5, <2>6, <2>7
    <3>3. /\ 1..Len(u.comps) = 1..(n + 1)
          /\ \A a, b \in 1..(n + 1) : u.comps[a] = u.comps[b] => a = b
          /\ \A a \in 1..(n + 1), d \in Comp : u.pos[a][d] # Unknown =>
               u.pos[a][d] \in 1..(n + 1) /\ u.comps[u.pos[a][d]] = u.comps[a] \cup {d}
      <4>1. u.comps = comps /\ u.pos = pos /\ Len(u.comps) = n + 1
        BY <2>7, <3>2
      <4>2. QED
        BY <2>11, <2>12, <4>1
    <3>4. /\ \A a, b \in 1..Len(u.comps) : u.comps[a] = u.comps[b] => a = b
          /\ \A a \in 1..Len(u.comps), d \in Comp : u.pos[a][d] # Unknown =>
               /\ u.pos[a][d] \in 1..Len(u.comps)
               /\ u.comps[u.pos[a][d]] = u.comps[a] \cup {d}
      BY <3>3
    <3>5. u.comps[EMPTY] = {} /\ Len(u.comps) >= 1 /\ Len(u.pos) = Len(u.comps)
      BY <2>7, <2>13, <3>2
    <3>6. QED
      BY <3>1, <3>2, <3>5, <3>4 DEF StoreSound
  <2>15. QED
    BY <2>1, <2>3, <2>7, <2>9, <2>10, <2>14 DEF t, u, set
<1>9. QED
  BY <1>7, <1>8

\* There are no more archetypes than sets of components.
LEMMA ArchetypesFit ==
  ASSUME NEW s, StoreSound(s)
  PROVE  Len(s.comps) <= 2 ^ Cardinality(Comp) /\ 1..Len(s.comps) \subseteq ArchetypeId
<1> PICK n \in Nat : n = Len(s.comps)
  BY DEF StoreSound
<1>1. s.comps \in [1..n -> SUBSET Comp] /\ \A a, b \in 1..n : s.comps[a] = s.comps[b] => a = b
  <2>1. s.comps \in Seq(SUBSET Comp)
    BY DEF StoreSound
  <2>2. \A a, b \in 1..Len(s.comps) : s.comps[a] = s.comps[b] => a = b
    BY DEF StoreSound
  <2>3. QED
    BY <2>1, <2>2
<1>2. s.comps \in Injection(1..n, SUBSET Comp)
  BY <1>1 DEF Injection, IsInjective
<1>3. IsFiniteSet(SUBSET Comp) /\ Cardinality(SUBSET Comp) = 2 ^ Cardinality(Comp)
  BY CompAssumption, FS_SUBSET
<1>4. Cardinality(1..n) <= Cardinality(SUBSET Comp)
  BY <1>2, <1>3, FS_Injection
<1>5. Cardinality(1..n) = n
  BY FS_Interval
<1>6. Cardinality(SUBSET Comp) \in Nat
  BY <1>3, FS_CardinalityType
<1>7. n <= 2 ^ Cardinality(Comp) /\ 2 ^ Cardinality(Comp) \in Nat
  BY <1>3, <1>4, <1>5, <1>6
<1>8. QED
  BY <1>7 DEF ArchetypeId

----------------------------------------------------------------------------
(* CoreInv: the calls of the game *)

LEMMA InitCore == Init => CoreInv
<1> SUFFICES ASSUME Init PROVE CoreInv
  OBVIOUS
<1> DEFINE blank == [c \in Comp |-> Unknown]
           none == [c \in Comp |-> <<>>]
<1>1. archetypes = [comps |-> <<{}>>, pos |-> <<blank>>, with |-> none]
  BY DEF Init, NewStore
<1>2. blank \in [Comp -> Nat] /\ none \in [Comp -> Seq(Nat)] /\ \A c \in Comp : blank[c] = Unknown
  BY DEF Unknown
<1> HIDE DEF blank, none
<1>3. StoreSound(archetypes)
  BY <1>1, <1>2 DEF StoreSound, EMPTY
<1>4. CoreTypes /\ archetypes.comps = <<{}>> /\ DOMAIN archetypes.comps = 1..1
  BY <1>1, EntityStoreAssumption DEF Init, CoreTypes, EMPTY
<1>5. TreeConsistent
  <2>1. \A e \in Entity : parent[e] = None /\ children[e] = <<>> /\ DOMAIN children[e] = {}
    BY DEF Init
  <2>2. alive \subseteq Entity
    BY EntityStoreAssumption DEF Init
  <2>3. QED
    BY <2>1, <2>2 DEF TreeConsistent
<1>6. DeadAlone
  BY DEF Init, DeadAlone, Reshaped, ToSet
<1>7. OwnedAlways
  BY <1>4 DEF Init, OwnedAlways, CompsOf, Components, EMPTY
<1>8. ReshapedOnce /\ CondemnedQueued /\ AnnouncedFirst
  BY DEF Init, ReshapedOnce, CondemnedQueued, AnnouncedFirst, ToSet
<1>9. QED
  BY <1>3, <1>4, <1>5, <1>6, <1>7, <1>8 DEF CoreInv

LEMMA BelowSame ==
  ASSUME UNCHANGED <<alive, children>>
  PROVE  \A set : Below(set)' = Below(set)
BY DEF Below, Closed

LEMMA NewCore ==
  ASSUME CoreInv, phase \in {"run", "handler"}, UNCHANGED <<flushing, phase>>,
         NEW e \in Entity, NEW p \in Entity, New(e, p)
  PROVE  CoreInv'
<1> USE DEF CoreInv
<1>1. /\ e \in unused /\ e \notin alive /\ p \in alive
      /\ unused' = unused \ {e} /\ alive' = alive \cup {e} /\ SetParentTo(e, p)
      /\ UNCHANGED <<archetype, archetypes, storage, reshaped, killing, removed, condemned,
                     queue, late, phase>>
  BY DEF New, shape, flushing, DeadAlone
<1>2. /\ parent' \in [Entity -> Entity \cup {None}]
      /\ children' \in [Entity -> Seq(Entity)]
      /\ index_in_parent' \in [Entity -> Nat]
      /\ TreeConsistent'
      /\ \A d \in Entity \ alive' : parent'[d] = None /\ children'[d] = <<>>
      /\ \A d \in Entity : ToSet(children'[d]) =
           (ToSet(children[d]) \ {e}) \cup (IF d = p THEN {e} ELSE {})
  BY <1>1, SetParentToKeeps
<1>3. CoreTypes'
  BY <1>1, <1>2 DEF CoreTypes
<1>4. DeadAlone'
  BY <1>1, <1>2 DEF DeadAlone, Reshaped
<1>5. OwnedAlways' /\ ReshapedOnce' /\ StoreSound(archetypes)'
  BY <1>1 DEF OwnedAlways, CompsOf, Components, ReshapedOnce, StoreSound
<1>6. CondemnedQueued'
  BY <1>1 DEF CondemnedQueued, DeadAlone
<1>7. ChildrenAlive /\ ChildrenAlive'
  <2>1. \A d \in alive : d \in Entity
    BY DEF CoreTypes
  <2>2. \A d \in alive' : d \in Entity
    BY <1>1, <2>1
  <2>3. ChildrenAlive
    BY ChildrenLive
  <2>4. ToSet(children[e]) = {}
    BY <1>1 DEF DeadAlone, ToSet
  <2>5. QED
    BY <1>1, <1>2, <2>2, <2>3, <2>4 DEF ChildrenAlive
<1>8. AnnouncedFirst'
  <2> PICK K : K = ToSet(killing)
    OBVIOUS
  <2>1. ToSet(killing)' = K
    BY <1>1
  <2>2. K \cap alive' \subseteq K \cap alive
    BY <1>1 DEF DeadAlone
  <2>3. Below(K) \subseteq alive /\ K \cap alive \subseteq Below(K) /\ Closed(Below(K))
    BY <1>7, BelowIs
  <2>4. Below(K)' \subseteq Below(K) \cup {e}
    <3> DEFINE s == Below(K) \cup {e}
    <3>1. s \in SUBSET alive' /\ K \cap alive' \subseteq s
      BY <1>1, <2>2, <2>3
    <3>2. ToSet(children[e]) = {}
      BY <1>1 DEF DeadAlone, ToSet
    <3>3. \A d \in s : d \in Entity /\ ToSet(children[d]) \subseteq s
      BY <1>1, <2>3, <3>2 DEF Closed, CoreTypes
    <3>4. \A d \in s : ToSet(children'[d]) \subseteq s
      BY <1>2, <3>3
    <3> PICK t : t = s
      OBVIOUS
    <3> HIDE DEF s
    <3>5. QED
      BY <3>1, <3>4, BelowLater DEF s
  <2>5. Below(K) \subseteq Below(K)'
    <3>1. \A d \in Below(K) : d \in Entity /\ ToSet(children[d]) \subseteq ToSet(children'[d])
      <4>1. \A d \in Below(K) : d \in Entity /\ e \notin ToSet(children[d])
        BY <1>1, <1>7, <2>3 DEF CoreTypes, ChildrenAlive
      <4>2. QED
        BY <1>2, <4>1
    <3>2. {} \in SUBSET alive /\ Closed({}) /\ alive \ {} \subseteq alive'
      BY <1>1 DEF Closed
    <3>3. Below(K) \subseteq Below(K)' \cup {}
      BY <1>7, <3>1, <3>2, BelowStays
    <3>4. QED
      BY <3>3
  <2>6. \A d \in Entity : CompsOf(d)' = CompsOf(d)
    BY <1>1 DEF CompsOf, Components
  <2>7. CompsOf(e) = {}
    BY <1>1 DEF CompsOf, Components, DeadAlone, StoreSound
  <2>8. \A c \in Comp : removed[c] \cap alive' \subseteq removed[c] \cap alive
    BY <1>1 DEF DeadAlone
  <2>9. Below(K) \subseteq Entity
    BY <2>3 DEF CoreTypes
  <2>10. QED
    BY <1>1, <2>1, <2>4, <2>5, <2>6, <2>7, <2>8, <2>9 DEF AnnouncedFirst
<1>9. QED
  BY <1>2, <1>3, <1>4, <1>5, <1>6, <1>8

LEMMA SetParentCore ==
  ASSUME CoreInv, phase \in {"run", "handler"}, UNCHANGED <<flushing, phase>>,
         NEW e \in Entity, NEW p \in Entity \cup {None}, SetParent(e, p)
  PROVE  CoreInv'
<1> USE DEF CoreInv
<1>1. /\ e \in alive /\ p \in alive \cup {None} /\ alive' = alive \cup {e} /\ alive' = alive
      /\ SetParentTo(e, p) /\ {e, p} \cap Below(ToSet(killing)) = {}
      /\ UNCHANGED <<unused, archetype, archetypes, storage, reshaped, killing, removed,
                     condemned, queue, late, phase>>
  BY DEF SetParent, shape, flushing
<1>2. /\ parent' \in [Entity -> Entity \cup {None}]
      /\ children' \in [Entity -> Seq(Entity)]
      /\ index_in_parent' \in [Entity -> Nat]
      /\ TreeConsistent'
      /\ \A d \in Entity \ alive' : parent'[d] = None /\ children'[d] = <<>>
      /\ \A d \in Entity : ToSet(children'[d]) =
           (ToSet(children[d]) \ {e}) \cup (IF d = p THEN {e} ELSE {})
  BY <1>1, SetParentToKeeps
<1>3. CoreTypes'
  BY <1>1, <1>2 DEF CoreTypes
<1>4. DeadAlone'
  BY <1>1, <1>2 DEF DeadAlone, Reshaped
<1>5. OwnedAlways' /\ ReshapedOnce' /\ StoreSound(archetypes)'
  BY <1>1 DEF OwnedAlways, CompsOf, Components, ReshapedOnce, StoreSound
<1>6. CondemnedQueued'
  BY <1>1 DEF CondemnedQueued
<1>7. ChildrenAlive /\ ChildrenAlive'
  <2>1. \A d \in alive : d \in Entity
    BY DEF CoreTypes
  <2>2. ChildrenAlive
    BY ChildrenLive
  <2>3. QED
    BY <1>1, <1>2, <2>1, <2>2 DEF ChildrenAlive
<1>8. AnnouncedFirst'
  <2> PICK K : K = ToSet(killing)
    OBVIOUS
  <2>1. ToSet(killing)' = K /\ e \notin Below(K) /\ p \notin Below(K)
    BY <1>1
  <2>2. Below(K) \subseteq alive /\ K \cap alive \subseteq Below(K) /\ Closed(Below(K))
    BY <1>7, BelowIs
  <2>3. \A d \in Below(K) : d \in Entity /\ ToSet(children'[d]) = ToSet(children[d])
    <3>1. \A d \in Below(K) : d \in Entity /\ e \notin ToSet(children[d])
      BY <2>1, <2>2 DEF Closed, CoreTypes
    <3> SUFFICES ASSUME NEW d \in Below(K)
                 PROVE  d \in Entity /\ ToSet(children'[d]) = ToSet(children[d])
      OBVIOUS
    <3>2. d \in Entity /\ d # p /\ e \notin ToSet(children[d])
      BY <2>1, <3>1
    <3>3. ToSet(children'[d]) = (ToSet(children[d]) \ {e}) \cup {}
      BY <1>2, <3>2
    <3>4. QED
      BY <3>2, <3>3
  <2>4. Below(K)' \subseteq Below(K)
    BY <1>1, <2>2, <2>3, BelowLater DEF Closed
  <2>5. Below(K) \subseteq Below(K)'
    <3>1. {} \in SUBSET alive /\ Closed({}) /\ alive \ {} \subseteq alive'
      BY <1>1 DEF Closed
    <3>2. Below(K) \subseteq Below(K)' \cup {}
      BY <1>7, <2>3, <3>1, BelowStays
    <3>3. QED
      BY <3>2
  <2>6. \A d \in Entity : CompsOf(d)' = CompsOf(d)
    BY <1>1 DEF CompsOf, Components
  <2>7. Below(K) \subseteq Entity
    BY <2>2 DEF CoreTypes
  <2>8. QED
    BY <1>1, <2>1, <2>4, <2>5, <2>6, <2>7 DEF AnnouncedFirst
<1>9. QED
  BY <1>2, <1>3, <1>4, <1>5, <1>6, <1>8

LEMMA AddCore ==
  ASSUME CoreInv, phase \in {"run", "handler"}, UNCHANGED <<flushing, phase>>,
         NEW e \in Entity, NEW c \in Comp, Add(e, c)
  PROVE  CoreInv'
<1> USE DEF CoreInv
<1> DEFINE old == archetype[e]
           new == Target(archetypes, old, c)
<1>1. /\ e \in alive /\ e \notin storage[c] /\ storage' = [storage EXCEPT ![c] = @ \cup {e}]
      /\ reshaped' = IF Reshaped(e) = {} THEN reshaped \cup {<<e, old>>} ELSE reshaped
      /\ archetype' = [archetype EXCEPT ![e] = new]
      /\ archetypes' = Extended(archetypes, old, c)
      /\ late' = IF phase = "handler" THEN late \cup {<<e, c>>} ELSE late
      /\ UNCHANGED <<unused, alive, parent, children, index_in_parent, condemned, queue, killing,
                     removed, phase>>
  BY DEF Add, tree, flushing
<1>2. /\ DOMAIN archetypes.comps = 1..Len(archetypes.comps)
      /\ \A d \in Entity : archetype[d] \in 1..Len(archetypes.comps)
  <2>1. archetypes.comps \in Seq(SUBSET Comp)
    BY DEF StoreSound
  <2>2. DOMAIN archetypes.comps = 1..Len(archetypes.comps)
    BY <2>1
  <2>3. \A d \in Entity : archetype[d] \in DOMAIN archetypes.comps
    BY DEF CoreTypes
  <2>4. QED
    BY <2>2, <2>3
<1>3. /\ StoreSound(archetypes')
      /\ new \in 1..Len(archetypes'.comps)
      /\ archetypes'.comps[new] = archetypes.comps[old] \cup {c}
      /\ \A a \in 1..Len(archetypes.comps) : /\ a \in 1..Len(archetypes'.comps)
                                             /\ archetypes'.comps[a] = archetypes.comps[a]
  <2> PICK s : s = archetypes
    OBVIOUS
  <2> PICK b \in 1..Len(s.comps) : b = old
    BY <1>2
  <2>1. StoreSound(s)
    OBVIOUS
  <2> HIDE DEF CoreInv
  <2>2. /\ StoreSound(Extended(s, b, c))
        /\ Target(s, b, c) \in 1..Len(Extended(s, b, c).comps)
        /\ Extended(s, b, c).comps[Target(s, b, c)] = s.comps[b] \cup {c}
        /\ \A a \in 1..Len(s.comps) : /\ a \in 1..Len(Extended(s, b, c).comps)
                                      /\ Extended(s, b, c).comps[a] = s.comps[a]
    <3>1. StoreSound(Extended(s, b, c))
      BY <2>1, ExtendedIs
    <3>2. Target(s, b, c) \in 1..Len(Extended(s, b, c).comps)
      BY <2>1, ExtendedIs
    <3>3. Extended(s, b, c).comps[Target(s, b, c)] = s.comps[b] \cup {c}
      BY <2>1, ExtendedIs
    <3>4. \A a \in 1..Len(s.comps) : /\ a \in 1..Len(Extended(s, b, c).comps)
                                     /\ Extended(s, b, c).comps[a] = s.comps[a]
      <4> PICK u : u = Extended(s, b, c)
        OBVIOUS
      <4>1. \A a \in 1..Len(s.comps) : a \in 1..Len(u.comps) /\ u.comps[a] = s.comps[a]
        BY ONLY <2>1, b \in 1..Len(s.comps), c \in Comp, u = Extended(s, b, c), ExtendedIs
      <4>2. QED
        BY <4>1
    <3>5. QED
      BY <3>1, <3>2, <3>3, <3>4
  <2>3. archetypes' = Extended(s, b, c) /\ new = Target(s, b, c)
    BY <1>1
  <2>4. QED
    BY <2>2, <2>3
<1>4. DOMAIN archetypes'.comps = 1..Len(archetypes'.comps) /\ archetypes'.comps[EMPTY] = {}
  BY <1>3 DEF StoreSound
<1> HIDE DEF new
<1>5. /\ \A d \in Entity : archetype'[d] = IF d = e THEN new ELSE archetype[d]
      /\ archetype' \in [Entity -> 1..Len(archetypes'.comps)]
  <2>1. \A d \in Entity : archetype[d] \in 1..Len(archetypes'.comps)
    BY <1>2, <1>3
  <2>2. QED
    BY <1>1, <1>3, <2>1 DEF CoreTypes
<1>6. \A d \in Entity : CompsOf(d)' = IF d = e THEN CompsOf(d) \cup {c} ELSE CompsOf(d)
  BY <1>2, <1>3, <1>5 DEF CompsOf, Components
<1>7. new # EMPTY
  BY <1>3, <1>4
<1>8. CoreTypes'
  <2>1. <<e, old>> \in Entity \X DOMAIN archetypes'.comps
    BY <1>2, <1>3, <1>4
  <2>2. reshaped \subseteq Entity \X DOMAIN archetypes'.comps
    BY <1>2, <1>3, <1>4 DEF CoreTypes
  <2>3. reshaped' \subseteq Entity \X DOMAIN archetypes'.comps
    BY <1>1, <2>1, <2>2
  <2>4. late' \subseteq Entity \X Comp /\ storage' \in [Comp -> SUBSET Entity]
    BY <1>1 DEF CoreTypes
  <2>5. QED
    BY <1>1, <1>4, <1>5, <2>3, <2>4 DEF CoreTypes
<1>9. DeadAlone'
  <2>1. \A d \in Entity \ alive : d # e /\ Reshaped(d)' = Reshaped(d)
    BY <1>1 DEF Reshaped
  <2>2. QED
    BY <1>1, <1>5, <2>1 DEF DeadAlone
<1>10. OwnedAlways'
  <2>1. \A d \in Entity, x \in Comp : d \in storage'[x] <=> d \in storage[x] \/ (d = e /\ x = c)
    BY <1>1 DEF CoreTypes
  <2>2. QED
    BY <1>6, <2>1 DEF OwnedAlways
<1>11. ReshapedOnce'
  <2>1. \A r \in reshaped : r[1] \in Entity /\ archetype[r[1]] # EMPTY
    BY DEF ReshapedOnce, CoreTypes
  <2>2. \A r \in reshaped' : archetype'[r[1]] # EMPTY
    BY <1>1, <1>5, <1>7, <2>1
  <2>3. \A q, r \in reshaped' : q[1] = r[1] => q = r
    BY <1>1 DEF ReshapedOnce, Reshaped
  <2>4. QED
    BY <2>2, <2>3 DEF ReshapedOnce
<1>12. TreeConsistent' /\ CondemnedQueued'
  BY <1>1 DEF TreeConsistent, CondemnedQueued
<1>13. AnnouncedFirst'
  <2> PICK K : K = ToSet(killing)
    OBVIOUS
  <2>1. ToSet(killing)' = K /\ Below(K)' = Below(K)
    BY <1>1, BelowSame
  <2>2. Below(K) \subseteq Entity
    BY DEF Below, CoreTypes
  <2>3. QED
    BY <1>1, <1>6, <2>1, <2>2 DEF AnnouncedFirst
<1>14. QED
  BY <1>3, <1>8, <1>9, <1>10, <1>11, <1>12, <1>13

\* Queues as sets.
LEMMA QueueSets ==
  ASSUME NEW S, NEW s \in Seq(S)
  PROVE  /\ \A x \in S : ToSet(Append(s, x)) = ToSet(s) \cup {x}
         /\ s # <<>> => ToSet(s) = {Head(s)} \cup ToSet(Tail(s))
         /\ ToSet(s) \subseteq S
         /\ ToSet(<<>>) = {}
<1>1. ASSUME NEW x \in S PROVE ToSet(Append(s, x)) = ToSet(s) \cup {x}
  <2> PICK n \in Nat : n = Len(s)
    OBVIOUS
  <2> DEFINE l == Append(s, x)
  <2>1. /\ l \in Seq(S) /\ Len(l) = n + 1 /\ l[n + 1] = x /\ \A j \in 1..n : l[j] = s[j]
    BY AppendProperties
  <2>2. DOMAIN s = 1..n /\ DOMAIN l = 1..(n + 1)
    BY <2>1
  <2> HIDE DEF l
  <2>3. ASSUME NEW j \in 1..(n + 1), j # n + 1 PROVE j \in 1..n
    BY <2>3
  <2>4. n + 1 \in 1..(n + 1) /\ \A j \in 1..n : j \in 1..(n + 1)
    OBVIOUS
  <2>5. \A y \in ToSet(l) : y = x \/ y \in ToSet(s)
    BY <2>1, <2>2, <2>3 DEF ToSet
  <2>6. \A y \in ToSet(s) : y \in ToSet(l)
    BY <2>1, <2>2, <2>4 DEF ToSet
  <2>7. x \in ToSet(l)
    BY <2>1, <2>2, <2>4 DEF ToSet
  <2>8. QED
    BY <2>5, <2>6, <2>7 DEF l
<1>2. ASSUME s # <<>> PROVE ToSet(s) = {Head(s)} \cup ToSet(Tail(s))
  <2> PICK n \in Nat : Len(s) = n + 1
    <3>1. Len(s) \in Nat /\ Len(s) # 0
      BY <1>2
    <3>2. Len(s) - 1 \in Nat /\ Len(s) = (Len(s) - 1) + 1
      BY <3>1
    <3>3. QED
      BY <3>2
  <2>1. /\ DOMAIN s = 1..(n + 1) /\ Tail(s) \in Seq(S) /\ DOMAIN Tail(s) = 1..n
        /\ \A i \in 1..n : Tail(s)[i] = s[i + 1]
    BY <1>2, HeadTailProperties
  <2>2. Head(s) = s[1]
    BY <1>2
  <2>3. \A i \in 1..n : i + 1 \in 1..(n + 1)
    OBVIOUS
  <2>4. ASSUME NEW j \in 1..(n + 1), j # 1 PROVE j - 1 \in 1..n /\ (j - 1) + 1 = j
    BY <2>4
  <2>5. 1 \in 1..(n + 1)
    OBVIOUS
  <2>6. ASSUME NEW y \in ToSet(s), y # Head(s) PROVE y \in ToSet(Tail(s))
    <3>1. PICK j \in 1..(n + 1) : y = s[j]
      BY <2>1 DEF ToSet
    <3>2. j # 1
      BY <2>2, <2>6, <3>1
    <3>3. j - 1 \in 1..n /\ Tail(s)[j - 1] = y
      BY <2>1, <2>4, <3>1, <3>2
    <3>4. QED
      BY <2>1, <3>3 DEF ToSet
  <2>7. \A y \in ToSet(Tail(s)) : y \in ToSet(s)
    BY <2>1, <2>3 DEF ToSet
  <2>8. Head(s) \in ToSet(s)
    BY <2>1, <2>2, <2>5 DEF ToSet
  <2>9. QED
    BY <2>6, <2>7, <2>8
<1>3. ToSet(s) \subseteq S /\ ToSet(<<>>) = {}
  BY DEF ToSet
<1>4. QED
  BY <1>1, <1>2, <1>3

LEMMA DestroyCore ==
  ASSUME CoreInv, phase \in {"run", "handler"}, UNCHANGED <<flushing, phase>>,
         NEW e \in Entity, Destroy(e)
  PROVE  CoreInv'
<1> USE DEF CoreInv
<1>1. /\ e \in alive /\ condemned' = condemned \cup {e} /\ queue' = Append(queue, e)
      /\ UNCHANGED <<unused, alive, parent, children, index_in_parent, archetype, archetypes,
                     storage, reshaped, killing, removed, late, phase>>
  BY DEF Destroy, tree, shape, flushing
<1>2. queue' \in Seq(Entity) /\ ToSet(queue') = ToSet(queue) \cup {e}
  BY <1>1, QueueSets DEF CoreTypes
<1>3. CoreTypes'
  BY <1>1, <1>2 DEF CoreTypes
<1>4. DeadAlone'
  BY <1>1, <1>2 DEF DeadAlone, Reshaped
<1>5. OwnedAlways' /\ ReshapedOnce' /\ StoreSound(archetypes)' /\ TreeConsistent'
  BY <1>1 DEF OwnedAlways, CompsOf, Components, ReshapedOnce, StoreSound, TreeConsistent
<1>6. CondemnedQueued'
  BY <1>1, <1>2 DEF CondemnedQueued
<1>7. AnnouncedFirst'
  <2>1. \A set : Below(set)' = Below(set)
    BY <1>1, BelowSame
  <2>2. QED
    BY <1>1, <2>1 DEF AnnouncedFirst, CompsOf, Components
<1>8. QED
  BY <1>3, <1>4, <1>5, <1>6, <1>7

----------------------------------------------------------------------------
(* CoreInv: the flush *)

\* Most of its steps leave the tree, the archetypes and the queues alone.
LEMMA CoreSame ==
  ASSUME CoreInv, CondemnedQueued', reshaped' \subseteq reshaped,
         UNCHANGED <<unused, alive, tree, archetype, archetypes, storage, condemned, queue,
                     killing, removed, late>>,
         phase' \in {"run", "handler", "kill", "take", "reap", "reshape"},
         phase' \in {"handler", "kill"} => phase \in {"handler", "kill"}
  PROVE  CoreInv'
<1> USE DEF CoreInv
<1>1. UNCHANGED <<unused, alive, parent, children, index_in_parent, archetype, archetypes,
                  storage, condemned, queue, killing, removed, late>>
  BY DEF tree
<1>2. CoreTypes'
  BY <1>1 DEF CoreTypes
<1>3. DeadAlone'
  BY <1>1 DEF DeadAlone, Reshaped
<1>4. OwnedAlways' /\ ReshapedOnce' /\ StoreSound(archetypes)' /\ TreeConsistent'
  BY <1>1 DEF OwnedAlways, CompsOf, Components, ReshapedOnce, StoreSound, TreeConsistent
<1>5. AnnouncedFirst'
  <2>1. \A set : Below(set)' = Below(set)
    BY <1>1, BelowSame
  <2>2. QED
    BY <1>1, <2>1 DEF AnnouncedFirst, CompsOf, Components
<1>6. QED
  BY <1>2, <1>3, <1>4, <1>5

LEMMA FlushTakeCore ==
  ASSUME CoreInv, FlushTake
  PROVE  CoreInv'
<1> USE DEF CoreInv
<1>1. /\ phase \in {"run", "take"} /\ phase' = "handler" /\ killing = <<>>
      /\ killing' = queue /\ queue' = <<>>
      /\ removed' = [c \in Comp |-> {e \in Below(ToSet(queue)) : c \in CompsOf(e)}]
      /\ UNCHANGED <<unused, alive, parent, children, index_in_parent, archetype, archetypes,
                     storage, reshaped, condemned, late>>
  BY DEF FlushTake, Doomed, CondemnedQueued, tree, shape
<1>2. ToSet(<<>>) = {} /\ <<>> \in Seq(Entity)
  BY DEF ToSet
<1> PICK Q : Q = ToSet(queue)
  OBVIOUS
<1> PICK B : B = Below(Q)
  OBVIOUS
<1>3. B \subseteq alive /\ alive \subseteq Entity
  BY DEF Below, CoreTypes
<1>4. \A c \in Comp : removed'[c] = {e \in B : c \in CompsOf(e)}
  BY <1>1
<1>5. CoreTypes'
  <2>1. removed' \in [Comp -> SUBSET Entity]
    BY <1>1, <1>3
  <2>2. QED
    BY <1>1, <1>2, <2>1 DEF CoreTypes
<1>6. DeadAlone'
  <2>1. \A c \in Comp : unused \cap removed'[c] = {}
    BY <1>3, <1>4 DEF DeadAlone
  <2>2. QED
    BY <1>1, <1>2, <2>1 DEF DeadAlone, Reshaped
<1>7. OwnedAlways' /\ ReshapedOnce' /\ StoreSound(archetypes)' /\ TreeConsistent'
  BY <1>1 DEF OwnedAlways, CompsOf, Components, ReshapedOnce, StoreSound, TreeConsistent
<1>8. CondemnedQueued'
  BY <1>1, <1>2 DEF CondemnedQueued
<1>9. AnnouncedFirst'
  <2>1. ToSet(killing)' = Q /\ Below(Q)' = B
    BY <1>1, BelowSame
  <2>2. \A e \in B : CompsOf(e)' = CompsOf(e)
    BY <1>1 DEF CompsOf, Components
  <2>3. QED
    BY <1>4, <2>1, <2>2 DEF AnnouncedFirst
<1>10. QED
  BY <1>5, <1>6, <1>7, <1>8, <1>9

\* destroy_now takes an entity with all that is below it, and nothing else hangs on them.
LEMMA DyingIs ==
  ASSUME CoreInv, NEW e \in alive
  PROVE  LET dying == Below({e})
         IN /\ e \in dying /\ dying \subseteq alive /\ Closed(dying)
            /\ \A x \in dying \ {e} : parent[x] \in dying
            /\ \A x \in alive \ dying : parent[x] \notin dying
<1> USE DEF CoreInv
<1> PICK D : D = Below({e})
  OBVIOUS
<1>1. e \in D /\ D \subseteq alive /\ Closed(D)
  BY ChildrenLive, BelowIs
<1>2. D \subseteq Entity
  BY <1>1 DEF CoreTypes
<1>3. ASSUME NEW x \in D \ {e}, parent[x] \notin D PROVE FALSE
  <2>1. ASSUME NEW d \in D \ {x}
        PROVE  ToSet(children[d]) \subseteq D /\ x \notin ToSet(children[d])
    <3>1. d \in Entity /\ d # parent[x] /\ ToSet(children[d]) \subseteq D
      BY <1>1, <1>2, <1>3 DEF Closed
    <3>2. \A i \in DOMAIN children[d] : parent[children[d][i]] = d
      BY <3>1 DEF TreeConsistent
    <3>3. QED
      BY <3>1, <3>2 DEF ToSet
  <2>2. Closed(D \ {x}) /\ D \ {x} \in SUBSET alive /\ {e} \cap alive \subseteq D \ {x}
    BY <1>1, <1>3, <2>1 DEF Closed
  <2>3. D \subseteq D \ {x}
    BY <2>2, BelowLeast
  <2>4. QED
    BY <2>3
<1>4. ASSUME NEW x \in alive \ D, parent[x] \in D PROVE FALSE
  <2>1. parent[x] # None
    BY <1>2, <1>4, EntityStoreAssumption
  <2>2. x \in ToSet(children[parent[x]])
    BY <2>1 DEF TreeConsistent, ToSet
  <2>3. QED
    BY <1>1, <1>4, <2>2 DEF Closed
<1>5. QED
  BY <1>1, <1>3, <1>4

LEMMA KillCore ==
  ASSUME CoreInv, Kill
  PROVE  CoreInv'
<1> USE DEF CoreInv
<1> PICK e : e = Head(killing)
  OBVIOUS
<1> PICK T : T = ToSet(Tail(killing))
  OBVIOUS
<1> PICK K : K = ToSet(killing)
  OBVIOUS
<1>1. /\ phase = "kill" /\ killing # <<>> /\ killing' = Tail(killing)
      /\ UNCHANGED <<unused, removed, queue, late, phase, archetypes>>
  BY DEF Kill
<1>2. K = {e} \cup T /\ e \in Entity /\ Tail(killing) \in Seq(Entity)
  <2>1. killing \in Seq(Entity)
    BY DEF CoreTypes
  <2>2. e \in Entity /\ Tail(killing) \in Seq(Entity)
    BY <1>1, <2>1, HeadTailProperties
  <2>3. QED
    BY <1>1, <2>1, <2>2, QueueSets
<1>3. ToSet(killing)' = T
  BY <1>1
<1>4. StoreSound(archetypes)'
  BY <1>1 DEF StoreSound
<1>5. CASE e \notin alive
  <2>1. UNCHANGED <<alive, parent, children, index_in_parent, archetype, storage, reshaped,
                    condemned>>
    BY <1>5 DEF Kill, tree
  <2>2. CoreTypes'
    BY <1>1, <1>2, <2>1 DEF CoreTypes
  <2>3. DeadAlone'
    BY <1>1, <1>2, <1>3, <2>1 DEF DeadAlone, Reshaped
  <2>4. OwnedAlways' /\ ReshapedOnce' /\ TreeConsistent'
    BY <1>1, <2>1 DEF OwnedAlways, CompsOf, Components, ReshapedOnce, TreeConsistent
  <2>5. CondemnedQueued'
    BY <1>1, <1>2, <1>3, <1>5, <2>1 DEF CondemnedQueued
  <2>6. AnnouncedFirst'
    <3>1. K \cap alive = T \cap alive /\ ChildrenAlive
      BY <1>2, <1>5, ChildrenLive
    <3>2. Below(K) = Below(T)
      BY <3>1, BelowIs, BelowMonotone
    <3>3. Below(T)' = Below(T)
      BY <2>1, BelowSame
    <3>4. QED
      BY <1>1, <1>3, <2>1, <3>2, <3>3 DEF AnnouncedFirst, CompsOf, Components
  <2>7. QED
    BY <1>4, <2>2, <2>3, <2>4, <2>5, <2>6
<1>6. CASE e \in alive
  <2> PICK D : D = Below({e})
    OBVIOUS
  <2>1. /\ e \in D /\ D \subseteq alive /\ \A x \in D : ToSet(children[x]) \subseteq D
        /\ \A x \in D \ {e} : parent[x] \in D
        /\ \A x \in alive \ D : parent[x] \notin D
    BY <1>6, DyingIs DEF Closed
  <2> DEFINE C == Unlinked(e)
             X == UnlinkedIndex(e)
  <2>2. /\ C \in [Entity -> Seq(Entity)] /\ X \in [Entity -> Nat]
        /\ \A x \in alive \ {e} : parent[x] # None =>
             X[x] \in DOMAIN C[parent[x]] /\ C[parent[x]][X[x]] = x
        /\ \A d \in Entity : \A i \in DOMAIN C[d] :
             C[d][i] # e /\ parent[C[d][i]] = d /\ X[C[d][i]] = i
        /\ \A d \in Entity : ToSet(C[d]) = ToSet(children[d]) \ {e}
        /\ \A d \in Entity \ alive : C[d] = <<>>
    BY <1>2, UnlinkedIs
  <2>3. /\ alive' = alive \ D
        /\ parent' = [d \in Entity |-> IF d \in D THEN None ELSE parent[d]]
        /\ children' = [d \in Entity |-> IF d \in D THEN <<>> ELSE C[d]]
        /\ index_in_parent' = [d \in Entity |-> IF d \in D THEN 1 ELSE X[d]]
        /\ condemned' = condemned \ D
        /\ reshaped' = {r \in reshaped : r[1] \notin D}
        /\ storage' = [c \in Comp |-> storage[c] \ {d \in D : c \in CompsOf(d)}]
        /\ archetype' = [d \in Entity |-> IF d \in D THEN EMPTY ELSE archetype[d]]
    BY <1>6 DEF Kill, Kept
  <2> PICK Ch \in [Entity -> Seq(Entity)] : Ch = C
    BY <2>2
  <2> PICK Ix \in [Entity -> Nat] : Ix = X
    BY <2>2
  <2> HIDE DEF C, X
  <2>4. /\ \A d \in Entity : children'[d] = IF d \in D THEN <<>> ELSE Ch[d]
        /\ \A d \in Entity : index_in_parent'[d] = IF d \in D THEN 1 ELSE Ix[d]
        /\ \A d \in Entity : parent'[d] = IF d \in D THEN None ELSE parent[d]
        /\ \A d \in Entity : archetype'[d] = IF d \in D THEN EMPTY ELSE archetype[d]
        /\ alive \subseteq Entity /\ D \subseteq Entity
    BY <2>1, <2>3 DEF CoreTypes
  <2>5. TreeConsistent'
    <3>1. ASSUME NEW x \in alive', parent'[x] # None
          PROVE  /\ parent'[x] \in alive'
                 /\ index_in_parent'[x] \in DOMAIN children'[parent'[x]]
                 /\ children'[parent'[x]][index_in_parent'[x]] = x
      <4>1. x \in alive \ D /\ x \in Entity /\ x # e /\ parent'[x] = parent[x]
            /\ index_in_parent'[x] = Ix[x]
        BY <2>1, <2>3, <2>4
      <4>2. parent[x] \in alive \ D
        BY <2>1, <3>1, <4>1 DEF TreeConsistent
      <4>3. children'[parent[x]] = Ch[parent[x]]
        BY <2>4, <4>2
      <4>4. QED
        BY <2>2, <2>3, <3>1, <4>1, <4>2, <4>3
    <3>2. ASSUME NEW d \in Entity, NEW i \in DOMAIN children'[d]
          PROVE  parent'[children'[d][i]] = d /\ index_in_parent'[children'[d][i]] = i
      <4>1. d \notin D /\ children'[d] = Ch[d]
        <5>1. ASSUME d \in D PROVE FALSE
          <6>1. children'[d] = <<>>
            BY <2>4, <5>1
          <6>2. DOMAIN children'[d] = {}
            BY <6>1
          <6>3. QED
            BY <6>2
        <5>2. QED
          BY <2>4, <5>1
      <4> PICK y : y = Ch[d][i]
        OBVIOUS
      <4>2. y # e /\ parent[y] = d /\ Ix[y] = i /\ y \in Entity
        BY <2>2, <3>2, <4>1
      <4>3. y \notin D
        BY <2>1, <4>1, <4>2
      <4>4. children'[d][i] = y
        BY <4>1
      <4>5. parent'[y] = d /\ index_in_parent'[y] = i
        BY <2>4, <4>2, <4>3
      <4>6. QED
        BY <4>4, <4>5
    <3>3. QED
      BY <3>1, <3>2 DEF TreeConsistent
  <2>6. CoreTypes'
    <3>1. EMPTY \in DOMAIN archetypes.comps
      BY DEF StoreSound, EMPTY
    <3>2. children' \in [Entity -> Seq(Entity)] /\ index_in_parent' \in [Entity -> Nat]
      BY <2>3
    <3>3. /\ parent' \in [Entity -> Entity \cup {None}]
          /\ archetype' \in [Entity -> DOMAIN archetypes.comps]
      BY <2>3, <3>1 DEF CoreTypes
    <3>4. alive' \subseteq Entity /\ condemned' \subseteq Entity /\ reshaped' \subseteq reshaped
      BY <2>3 DEF CoreTypes
    <3>5. storage' \in [Comp -> SUBSET Entity]
      BY <2>3 DEF CoreTypes
    <3>6. QED
      BY <1>1, <1>2, <3>2, <3>3, <3>4, <3>5 DEF CoreTypes
  <2>7. DeadAlone'
    <3>1. \A d \in Entity \ alive' : /\ parent'[d] = None /\ children'[d] = <<>>
                                     /\ archetype'[d] = EMPTY
      BY <2>2, <2>3, <2>4 DEF DeadAlone
    <3>2. \A d \in Entity \ alive' : Reshaped(d)' = {}
      BY <2>3 DEF DeadAlone, Reshaped
    <3>3. condemned' \subseteq alive'
      BY <2>3 DEF DeadAlone
    <3>4. unused' \cap (alive' \cup ToSet(queue)' \cup ToSet(killing)') = {}
      BY <1>1, <1>2, <1>3, <2>3 DEF DeadAlone
    <3>5. \A c \in Comp : unused' \cap removed'[c] = {}
      BY <1>1 DEF DeadAlone
    <3>6. QED
      BY <3>1, <3>2, <3>3, <3>4, <3>5 DEF DeadAlone
  <2>8. \A d \in Entity : CompsOf(d)' = IF d \in D THEN {} ELSE CompsOf(d)
    BY <1>1, <2>4 DEF CompsOf, Components, StoreSound
  <2>9. OwnedAlways'
    <3>1. \A c \in Comp : storage'[c] = storage[c] \ {d \in D : c \in CompsOf(d)}
      BY <2>3
    <3>2. ASSUME NEW d \in Entity PROVE CompsOf(d)' = {c \in Comp : d \in storage'[c]}
      <4>1. CompsOf(d) = {c \in Comp : d \in storage[c]}
        BY DEF OwnedAlways
      <4>2. CASE d \in D
        BY <2>8, <3>1, <4>1, <4>2
      <4>3. CASE d \notin D
        BY <2>8, <3>1, <4>1, <4>3
      <4>4. QED
        BY <4>2, <4>3
    <3>3. QED
      BY <3>2 DEF OwnedAlways
  <2>10. ReshapedOnce'
    <3>1. \A r \in reshaped' : r \in reshaped /\ r[1] \notin D /\ r[1] \in Entity
      BY <2>3 DEF CoreTypes
    <3>2. QED
      BY <2>4, <3>1 DEF ReshapedOnce
  <2>11. CondemnedQueued'
    BY <1>1, <1>2, <1>3, <2>1, <2>3 DEF CondemnedQueued
  <2>12. \A d \in alive' : d \in Entity /\ ToSet(children'[d]) = ToSet(children[d]) \ {e}
    BY <2>2, <2>3, <2>4
  <2> PICK BK : BK = Below(K)
    OBVIOUS
  <2> PICK BT : BT = Below(T)'
    OBVIOUS
  <2>13. ChildrenAlive /\ ChildrenAlive'
    <3>1. ASSUME NEW d \in alive', NEW x \in ToSet(children[d]), x # e PROVE x \notin D
      <4>1. parent[x] = d /\ d \notin D
        BY <2>3, <2>4 DEF TreeConsistent, ToSet
      <4>2. QED
        BY <2>1, <3>1, <4>1
    <3>2. ChildrenAlive
      BY ChildrenLive
    <3>3. ASSUME NEW d \in alive' PROVE ToSet(children'[d]) \subseteq alive'
      <4>1. ToSet(children[d]) \subseteq alive
        BY <2>3, <3>2 DEF ChildrenAlive
      <4>2. ASSUME NEW x \in ToSet(children'[d]) PROVE x \in alive'
        <5>1. x \in ToSet(children[d]) /\ x # e
          BY <2>12
        <5>2. x \notin D
          BY <3>1, <5>1
        <5>3. QED
          BY <2>3, <4>1, <5>1, <5>2
      <4>3. QED
        BY <4>2
    <3>4. QED
      BY <3>2, <3>3 DEF ChildrenAlive
  <2>14. BK \subseteq alive /\ K \cap alive \subseteq BK
         /\ \A d \in BK : ToSet(children[d]) \subseteq BK
    BY <2>13, BelowIs DEF Closed
  <2>15. BT \subseteq alive' /\ T \cap alive' \subseteq BT
         /\ \A d \in BT : ToSet(children'[d]) \subseteq BT
    BY <2>13, BelowIsLater
  <2>16. BT \subseteq BK \ D
    <3>1. BK \ D \in SUBSET alive' /\ T \cap alive' \subseteq BK \ D
      BY <1>2, <2>3, <2>14
    <3>2. ASSUME NEW d \in BK \ D PROVE ToSet(children'[d]) \subseteq BK \ D
      <4>1. d \in alive' /\ ToSet(children[d]) \subseteq BK
        BY <2>14, <3>1
      <4>2. ToSet(children'[d]) \subseteq alive'
        BY <2>13, <4>1 DEF ChildrenAlive
      <4>3. ToSet(children'[d]) \subseteq BK
        BY <2>12, <4>1
      <4>4. QED
        BY <2>3, <4>2, <4>3
    <3> PICK s : s = BK \ D
      OBVIOUS
    <3>3. s \in SUBSET alive' /\ T \cap alive' \subseteq s
          /\ \A d \in s : ToSet(children'[d]) \subseteq s
      BY <3>1, <3>2
    <3>4. QED
      BY <3>3, BelowLater
  <2>17. BK \subseteq BT \cup D
    <3> PICK s : s = BT \cup D
      OBVIOUS
    <3>1. s \in SUBSET alive /\ K \cap alive \subseteq s
      BY <1>2, <2>1, <2>3, <2>15
    <3>2. ASSUME NEW d \in s PROVE ToSet(children[d]) \subseteq s
      <4>1. CASE d \in D
        BY <2>1, <4>1
      <4>2. CASE d \in BT
        <5>1. d \in alive' /\ ToSet(children'[d]) \subseteq BT
          BY <2>15, <4>2
        <5>2. ToSet(children[d]) \subseteq BT \cup {e}
          BY <2>12, <5>1
        <5>3. QED
          BY <2>1, <5>2
      <4>3. QED
        BY <4>1, <4>2
    <3>3. QED
      BY <3>1, <3>2, BelowLeast DEF Closed
  <2>18. AnnouncedFirst'
    <3> SUFFICES ASSUME NEW c \in Comp
                 PROVE  /\ \A x \in BT : c \in CompsOf(x)' => x \in removed[c] \/ <<x, c>> \in late
                        /\ removed[c] \cap alive' \subseteq BT
      BY <1>1, <1>3 DEF AnnouncedFirst
    <3>1. /\ \A x \in BK : c \in CompsOf(x) => x \in removed[c] \/ <<x, c>> \in late
          /\ removed[c] \cap alive \subseteq BK
      BY <1>1 DEF AnnouncedFirst
    <3>2. \A x \in BT : x \in BK /\ CompsOf(x)' = CompsOf(x)
      BY <2>4, <2>8, <2>14, <2>16
    <3>3. removed[c] \cap alive' \subseteq BT
      BY <2>3, <2>17, <3>1
    <3>4. QED
      BY <3>1, <3>2, <3>3
  <2>19. QED
    BY <1>4, <2>5, <2>6, <2>7, <2>9, <2>10, <2>11, <2>18
<1>7. QED
  BY <1>5, <1>6

LEMMA RemoveComponentsCore ==
  ASSUME CoreInv, RemoveComponents
  PROVE  CoreInv' /\ storage' = storage
<1> USE DEF CoreInv
<1>1. /\ phase = "kill" /\ killing = <<>> /\ phase' = "take"
      /\ storage' = [c \in Comp |-> storage[c] \ removed[c]]
      /\ removed' = [c \in Comp |-> {}] /\ late' = {}
      /\ UNCHANGED <<unused, alive, parent, children, index_in_parent, archetype, archetypes,
                     reshaped, killing, condemned, queue>>
  BY DEF RemoveComponents, tree
<1>2. \A c \in Comp : removed[c] \cap alive = {}
  <2>1. Below(ToSet(killing)) = {}
    <3>1. ToSet(killing) \cap alive = {}
      BY <1>1 DEF ToSet
    <3>2. QED
      BY <3>1, BelowEmpty
  <2>2. QED
    BY <1>1, <2>1 DEF AnnouncedFirst
<1>3. \A d \in Entity \ alive : CompsOf(d) = {}
  BY DEF DeadAlone, CompsOf, Components, StoreSound
<1>4. \A c \in Comp : removed[c] \cap storage[c] = {}
  BY <1>2, <1>3 DEF OwnedAlways, CoreTypes
<1>5. storage' = storage
  BY <1>1, <1>4 DEF CoreTypes
<1>6. CoreTypes'
  BY <1>1, <1>5 DEF CoreTypes
<1>7. DeadAlone'
  BY <1>1 DEF DeadAlone, Reshaped
<1>8. OwnedAlways' /\ ReshapedOnce' /\ StoreSound(archetypes)' /\ TreeConsistent'
  BY <1>1, <1>5 DEF OwnedAlways, CompsOf, Components, ReshapedOnce, StoreSound, TreeConsistent
<1>9. CondemnedQueued' /\ AnnouncedFirst'
  BY <1>1 DEF CondemnedQueued, AnnouncedFirst
<1>10. QED
  BY <1>5, <1>6, <1>7, <1>8, <1>9

LEMMA StepCore ==
  ASSUME CoreInv, [Next]_vars
  PROVE  CoreInv'
<1>1. CASE GameStep
  <2>1. phase \in {"run", "handler"} /\ UNCHANGED <<flushing, phase>>
    BY <1>1 DEF GameStep
  <2>2. ASSUME NEW e \in Entity, NEW p \in Entity, New(e, p) PROVE CoreInv'
    BY <2>1, <2>2, NewCore
  <2>3. ASSUME NEW e \in Entity, NEW p \in Entity \cup {None}, SetParent(e, p) PROVE CoreInv'
    BY <2>1, <2>3, SetParentCore
  <2>4. ASSUME NEW e \in Entity, NEW c \in Comp, Add(e, c) PROVE CoreInv'
    BY <2>1, <2>4, AddCore
  <2>5. ASSUME NEW e \in Entity, Destroy(e) PROVE CoreInv'
    BY <2>1, <2>5, DestroyCore
  <2>6. QED
    BY <1>1, <2>2, <2>3, <2>4, <2>5 DEF GameStep
<1>2. CASE FlushTake
  BY <1>2, FlushTakeCore
<1>3. CASE HandlerEnd
  BY <1>3, CoreSame DEF HandlerEnd, shape, flushing, CoreInv, CondemnedQueued
<1>4. CASE Kill
  BY <1>4, KillCore
<1>5. CASE RemoveComponents
  BY <1>5, RemoveComponentsCore
<1>6. CASE QueueEmpty
  BY <1>6, CoreSame DEF QueueEmpty, Drained, shape, flushing, CoreInv, CondemnedQueued
<1>7. ASSUME NEW d \in dead, Reap(d[1], d[2]) PROVE CoreInv'
  BY <1>7, CoreSame DEF Reap, shape, CoreInv, CondemnedQueued
<1>8. CASE ReapEnd
  BY <1>8, CoreSame DEF ReapEnd, shape, flushing, CoreInv, CondemnedQueued
<1>9. ASSUME NEW r \in reshaped, Reshape(r[1], r[2]) PROVE CoreInv'
  BY <1>9, CoreSame DEF Reshape, flushing, CoreInv, CondemnedQueued
<1>10. CASE FlushEnd
  BY <1>10, CoreSame DEF FlushEnd, shape, flushing, CoreInv, CondemnedQueued
<1>11. CASE UNCHANGED vars
  BY <1>11, CoreSame DEF vars, shape, flushing, CoreInv, CoreTypes, CondemnedQueued
<1>12. QED
  BY <1>1, <1>2, <1>3, <1>4, <1>5, <1>6, <1>7, <1>8, <1>9, <1>10, <1>11 DEF Next, FlushStep

THEOREM CoreInvariant == Spec => []CoreInv
<1>1. Init => CoreInv
  BY InitCore
<1>2. CoreInv /\ [Next]_vars => CoreInv'
  BY StepCore
<1>3. QED
  BY <1>1, <1>2, PTL DEF Spec

\* Components leave the maps only when their entity dies in a flush, all of them, and a
\* flush that has drained its queue has left nobody condemned (destroy_now, Entity::flush).
THEOREM DeadOwned == Spec => []DeadOwnNothing
<1>1. CoreInv => DeadOwnNothing
  BY DEF CoreInv, OwnedAlways, CondemnedQueued, DeadOwnNothing, ArchetypeOwned, CondemnedGone, ToSet
<1>2. QED
  BY <1>1, CoreInvariant, PTL

\* The flush announces (query_removed) every component that it then removes, unless the
\* handler itself added it, and removes every component that it announced.
THEOREM RemovalsAnnounced == Spec => Announced
<1> DEFINE A == \A c \in Comp :
             /\ \A e \in storage[c] \ storage'[c] : e \in removed[c] \/ <<e, c>> \in late
             /\ phase = "kill" /\ phase' # "kill" => removed[c] \cap alive = {}
<1>1. CoreInv /\ [Next]_vars => [A]_vars
  <2> SUFFICES ASSUME CoreInv, Next PROVE A
    OBVIOUS
  <2>1. CASE Kill
    <3> SUFFICES ASSUME NEW c \in Comp, NEW e \in storage[c] \ storage'[c]
                 PROVE  e \in removed[c] \/ <<e, c>> \in late
      BY <2>1 DEF Kill
    <3>1. phase = "kill" /\ killing # <<>> /\ killing \in Seq(Entity) /\ ChildrenAlive
      BY <2>1, ChildrenLive DEF Kill, CoreInv, CoreTypes
    <3> PICK h : h = Head(killing)
      OBVIOUS
    <3>2. h \in alive
      BY <2>1 DEF Kill
    <3>3. e \in Below({h}) /\ c \in CompsOf(e)
      <4>1. storage' = [x \in Comp |-> Kept(x, Below({h}))]
        BY <2>1, <3>2 DEF Kill
      <4>2. storage'[c] = storage[c] \ {d \in Below({h}) : c \in CompsOf(d)}
        BY <4>1 DEF Kept
      <4>3. QED
        BY <4>2
    <3>4. h \in ToSet(killing)
      BY <3>1, QueueSets
    <3> PICK K : K = ToSet(killing)
      OBVIOUS
    <3>5. Below({h}) \subseteq Below(K)
      BY <3>1, <3>4, BelowIs, BelowMonotone
    <3>6. QED
      BY <3>1, <3>3, <3>5 DEF CoreInv, AnnouncedFirst
  <2>2. CASE RemoveComponents
    <3>1. storage' = storage
      BY <2>2, RemoveComponentsCore
    <3>2. killing = <<>> /\ phase = "kill"
      BY <2>2 DEF RemoveComponents
    <3>3. Below(ToSet(killing)) = {}
      <4>1. ToSet(killing) \cap alive = {}
        BY <3>2 DEF ToSet
      <4>2. QED
        BY <4>1, BelowEmpty
    <3>4. QED
      BY <3>1, <3>2, <3>3 DEF CoreInv, AnnouncedFirst
  <2>3. CASE GameStep
    <3>1. phase' = phase /\ phase # "kill"
      BY <2>3 DEF GameStep
    <3>2. \A c \in Comp : storage[c] \subseteq storage'[c]
      <4>1. ASSUME NEW e \in Entity, NEW x \in Comp, Add(e, x)
            PROVE  \A c \in Comp : storage[c] \subseteq storage'[c]
        BY <4>1 DEF Add, CoreInv, CoreTypes
      <4>2. storage' = storage \/ \E e \in Entity : \E x \in Comp : Add(e, x)
        BY <2>3 DEF GameStep, New, SetParent, Destroy, shape
      <4>3. QED
        BY <4>1, <4>2
    <3>3. QED
      BY <3>1, <3>2
  <2>4. CASE FlushTake \/ HandlerEnd \/ QueueEmpty \/ ReapEnd \/ FlushEnd
    BY <2>4 DEF FlushTake, HandlerEnd, QueueEmpty, ReapEnd, FlushEnd, shape
  <2>5. CASE (\E d \in dead : Reap(d[1], d[2])) \/ (\E r \in reshaped : Reshape(r[1], r[2]))
    BY <2>5 DEF Reap, Reshape, shape
  <2>6. QED
    BY <2>1, <2>2, <2>3, <2>4, <2>5 DEF Next, FlushStep
<1>2. QED
  BY <1>1, CoreInvariant, PTL DEF Spec, Announced

----------------------------------------------------------------------------
(* ListsInv: the calls of the game *)

LEMMA ArchetypeIds ==
  ASSUME CoreInv
  PROVE  /\ DOMAIN archetypes.comps \subseteq ArchetypeId /\ EMPTY \in DOMAIN archetypes.comps
         /\ DOMAIN archetypes.comps \ {EMPTY} \subseteq NonEmpty
<1>1. StoreSound(archetypes)
  BY DEF CoreInv
<1>2. DOMAIN archetypes.comps \subseteq ArchetypeId
  BY <1>1, ArchetypesFit
<1>3. EMPTY \in DOMAIN archetypes.comps
  BY <1>1 DEF StoreSound, EMPTY
<1>4. QED
  BY <1>2, <1>3 DEF NonEmpty

\* The archetype at the last flush is the one on record, if there is one.
LEMMA OriginalIs ==
  ASSUME CoreInv, NEW e \in Entity
  PROVE  /\ Original(e) \in DOMAIN archetypes.comps
         /\ Reshaped(e) = {} => Original(e) = archetype[e]
         /\ \A r \in reshaped : r[1] = e => Original(e) = r[2]
         /\ e \notin alive => Original(e) = EMPTY
         /\ Original(e) # EMPTY => Original(e) \in NonEmpty
<1>1. Reshaped(e) = {} => Original(e) = archetype[e]
  BY DEF Original
<1>2. ASSUME NEW r \in reshaped, r[1] = e PROVE Original(e) = r[2]
  <2>1. r \in Reshaped(e) /\ Reshaped(e) # {}
    BY <1>2 DEF Reshaped
  <2> PICK q : q = CHOOSE x \in Reshaped(e) : TRUE
    OBVIOUS
  <2>2. q \in Reshaped(e)
    BY <2>1
  <2>3. q = r
    BY <1>2, <2>2 DEF Reshaped, CoreInv, ReshapedOnce
  <2>4. QED
    BY <2>1, <2>3 DEF Original
<1>3. Original(e) \in DOMAIN archetypes.comps
  <2>1. CASE Reshaped(e) = {}
    BY <1>1, <2>1 DEF CoreInv, CoreTypes
  <2>2. CASE Reshaped(e) # {}
    <3>1. PICK r \in reshaped : r[1] = e
      BY <2>2 DEF Reshaped
    <3>2. QED
      BY <1>2, <3>1 DEF CoreInv, CoreTypes
  <2>3. QED
    BY <2>1, <2>2
<1>4. e \notin alive => Original(e) = EMPTY
  BY <1>1 DEF CoreInv, DeadAlone
<1>5. Original(e) # EMPTY => Original(e) \in NonEmpty
  BY <1>3, ArchetypeIds
<1>6. QED
  BY <1>1, <1>2, <1>3, <1>4, <1>5

LEMMA PositionsLater ==
  ASSUME \A x \in alive' : Original(x)' # EMPTY =>
           /\ index_in_archetype'[x] \in DOMAIN index_members'[Original(x)']
           /\ index_members'[Original(x)'][index_in_archetype'[x]] = x,
         \A y \in NonEmpty : \A j \in DOMAIN index_members'[y] : \A x :
           x = index_members'[y][j] =>
             IF x \in alive' THEN Original(x)' = y /\ index_in_archetype'[x] = j
                             ELSE <<y, j>> \in dead'
  PROVE  PositionsKnown'
BY DEF PositionsKnown, Original, Reshaped

LEMMA CarefulSame ==
  ASSUME Careful, UNCHANGED <<alive, children, condemned, archetype, reshaped>>
  PROVE  Careful'
BY BelowSame DEF Careful, Original, Reshaped

\* Steps that leave the lists, the archetypes and the living alone.
LEMMA ListsSame ==
  ASSUME CoreInv, ListsInv, Careful', phase' \in {"run", "reshape"} => dead = {},
         UNCHANGED <<unused, alive, members, archetype, archetypes, reshaped, dead>>
  PROVE  ListsInv'
<1> USE DEF ListsInv
<1>1. UNCHANGED <<unused, alive, index_in_archetype, index_members, comp_members, archetype,
                  archetypes, reshaped, dead>>
  BY DEF members
<1>2. \A e : Original(e)' = Original(e)
  BY <1>1 DEF Original, Reshaped
<1>3. ListTypes'
  BY <1>1 DEF ListTypes
<1>4. PositionsKnown'
  BY <1>1, <1>2 DEF PositionsKnown
<1>5. ColumnsParallel'
  BY <1>1 DEF ColumnsParallel, Components
<1>6. DeadSlotsFree'
  BY <1>1 DEF DeadSlotsFree
<1>7. QED
  BY <1>3, <1>4, <1>5, <1>6

LEMMA InitLists == Init => ListsInv
<1> SUFFICES ASSUME Init PROVE ListsInv
  OBVIOUS
<1>1. /\ index_in_archetype = [e \in Entity |-> 1] /\ dead = {} /\ reshaped = {} /\ condemned = {}
      /\ index_members = [a \in NonEmpty |-> <<>>]
      /\ comp_members = [a \in NonEmpty |-> [c \in Comp |-> <<>>]]
      /\ alive = {Root} /\ archetype = [e \in Entity |-> EMPTY]
  BY DEF Init
<1>2. ListTypes
  <2>1. \A a \in NonEmpty : index_members[a] = <<>> /\ DOMAIN index_members[a] = {}
    BY <1>1
  <2>2. comp_members \in [NonEmpty -> [Comp -> Seq(Entity)]]
    BY <1>1
  <2>3. \A a \in NonEmpty : \A c \in Comp : comp_members[a][c] = <<>>
    BY <1>1
  <2>4. QED
    BY <1>1, <2>1, <2>2, <2>3 DEF ListTypes
<1>3. PositionsKnown
  <2>1. \A e \in alive : Original(e) = EMPTY
    BY <1>1, EntityStoreAssumption DEF Original, Reshaped
  <2>2. \A a \in NonEmpty : DOMAIN index_members[a] = {}
    BY <1>1
  <2>3. QED
    BY <2>1, <2>2 DEF PositionsKnown
<1>4. ColumnsParallel
  <2>1. DOMAIN archetypes.comps \ {EMPTY} = {}
    BY DEF Init, NewStore, EMPTY
  <2>2. QED
    BY <2>1 DEF ColumnsParallel
<1>5. Careful /\ DeadSlotsFree
  BY <1>1 DEF Careful, DeadSlotsFree, Reshaped
<1>6. QED
  BY <1>2, <1>3, <1>4, <1>5 DEF ListsInv

LEMMA NewLists ==
  ASSUME CoreInv, ListsInv, Careful', UNCHANGED <<flushing, phase>>,
         NEW e \in Entity, NEW p \in Entity, New(e, p)
  PROVE  ListsInv'
<1> USE DEF ListsInv
<1>1. /\ e \in unused /\ e \notin alive /\ unused' = unused \ {e} /\ alive' = alive \cup {e}
      /\ UNCHANGED <<index_in_archetype, index_members, comp_members, archetype, archetypes,
                     reshaped, dead, phase>>
  BY DEF New, CoreInv, DeadAlone, members, shape, flushing
<1>2. \A d : Original(d)' = Original(d)
  BY <1>1 DEF Original, Reshaped
<1>3. Original(e) = EMPTY
  BY <1>1, OriginalIs
<1>4. \A a \in NonEmpty : \A i \in DOMAIN index_members[a] : index_members[a][i] # e
  BY <1>1 DEF ListTypes
<1>5. ListTypes'
  BY <1>1 DEF ListTypes
<1>6. PositionsKnown'
  <2>1. \A d \in alive' : Original(d) # EMPTY => d \in alive
    BY <1>1, <1>3
  <2>2. ASSUME NEW a \in NonEmpty, NEW i \in DOMAIN index_members[a]
        PROVE  index_members[a][i] \in alive' <=> index_members[a][i] \in alive
    BY <1>1, <1>4
  <2>3. QED
    BY <1>1, <1>2, <2>1, <2>2 DEF PositionsKnown
<1>7. ColumnsParallel'
  BY <1>1 DEF ColumnsParallel, Components
<1>8. DeadSlotsFree'
  <2>1. \A d \in dead : d[1] \in NonEmpty
    BY ArchetypeIds DEF ListTypes
  <2>2. QED
    BY <1>1, <1>4, <2>1 DEF DeadSlotsFree
<1>9. QED
  BY <1>5, <1>6, <1>7, <1>8

LEMMA AddLists ==
  ASSUME CoreInv, CoreInv', ListsInv, Careful', UNCHANGED <<flushing, phase>>,
         NEW e \in Entity, NEW c \in Comp, Add(e, c)
  PROVE  ListsInv'
<1> USE DEF ListsInv
<1>1. /\ archetypes' = Extended(archetypes, archetype[e], c)
      /\ reshaped' = IF Reshaped(e) = {} THEN reshaped \cup {<<e, archetype[e]>>} ELSE reshaped
      /\ archetype' = [archetype EXCEPT ![e] = Target(archetypes, @, c)]
      /\ UNCHANGED <<unused, alive, index_in_archetype, index_members, comp_members, dead, phase>>
  BY DEF Add, members, flushing
<1>2. /\ DOMAIN archetypes.comps \subseteq DOMAIN archetypes'.comps
      /\ \A a \in DOMAIN archetypes.comps : archetypes'.comps[a] = archetypes.comps[a]
      /\ \A a \in DOMAIN archetypes'.comps \ {EMPTY} : a \in NonEmpty
  <2>1. StoreSound(archetypes) /\ archetype[e] \in DOMAIN archetypes.comps
    BY DEF CoreInv, CoreTypes
  <2>2. StoreSound(archetypes)'
    BY DEF CoreInv
  <2> PICK s : s = archetypes
    OBVIOUS
  <2> PICK u : u = archetypes'
    OBVIOUS
  <2>3. StoreSound(s) /\ StoreSound(u) /\ u = Extended(s, archetype[e], c)
    <3>1. StoreSound(archetypes')
      BY <2>2 DEF StoreSound
    <3>2. QED
      BY <1>1, <2>1, <3>1
  <2>4. DOMAIN s.comps = 1..Len(s.comps) /\ DOMAIN u.comps = 1..Len(u.comps)
    <3>1. s.comps \in Seq(SUBSET Comp) /\ u.comps \in Seq(SUBSET Comp)
      BY <2>3 DEF StoreSound
    <3>2. QED
      BY <3>1
  <2> PICK b \in 1..Len(s.comps) : b = archetype[e]
    BY <2>1, <2>4
  <2>5. \A a \in 1..Len(s.comps) : /\ a \in 1..Len(Extended(s, b, c).comps)
                                   /\ Extended(s, b, c).comps[a] = s.comps[a]
    BY ONLY <2>3, b \in 1..Len(s.comps), c \in Comp, ExtendedIs
  <2>6. DOMAIN u.comps \subseteq ArchetypeId
    BY ONLY <2>3, ArchetypesFit
  <2>7. QED
    BY <2>3, <2>4, <2>5, <2>6 DEF NonEmpty
<1>3. \A d \in Entity : Original(d)' = Original(d)
  <2>1. ASSUME NEW d \in Entity, d # e PROVE Original(d)' = Original(d)
    <3>1. Reshaped(d)' = Reshaped(d) /\ archetype'[d] = archetype[d]
      BY <1>1, <2>1 DEF Reshaped, CoreInv, CoreTypes
    <3>2. QED
      BY <3>1 DEF Original
  <2>2. Original(e)' = Original(e)
    <3>1. CASE Reshaped(e) = {}
      <4>1. Reshaped(e)' = {<<e, archetype[e]>>}
        BY <1>1, <3>1 DEF Reshaped
      <4>2. Original(e)' = archetype[e]
        <5> PICK q : q = CHOOSE r \in {<<e, archetype[e]>>} : TRUE
          OBVIOUS
        <5>1. q = <<e, archetype[e]>>
          OBVIOUS
        <5>2. Original(e)' = q[2]
          BY <4>1 DEF Original
        <5>3. QED
          BY <5>1, <5>2
      <4>3. QED
        BY <3>1, <4>2 DEF Original
    <3>2. CASE Reshaped(e) # {}
      <4>1. Reshaped(e)' = Reshaped(e)
        BY <1>1, <3>2 DEF Reshaped
      <4>2. QED
        BY <3>2, <4>1 DEF Original
    <3>3. QED
      BY <3>1, <3>2
  <2>3. QED
    BY <2>1, <2>2
<1>4. ListTypes'
  BY <1>1, <1>2 DEF ListTypes
<1>5. PositionsKnown'
  <2>1. \A d \in alive : d \in Entity
    BY DEF CoreInv, CoreTypes
  <2>2. \A a \in NonEmpty : \A i \in DOMAIN index_members[a] : index_members[a][i] \in Entity
    BY DEF ListTypes
  <2>3. QED
    BY <1>1, <1>3, <2>1, <2>2 DEF PositionsKnown
<1>6. ColumnsParallel'
  <2> SUFFICES ASSUME NEW a \in DOMAIN archetypes'.comps \ {EMPTY},
                      NEW x \in archetypes'.comps[a]
               PROVE  comp_members[a][x] = index_members[a]
    BY <1>1 DEF ColumnsParallel, Components
  <2>1. CASE a \in DOMAIN archetypes.comps
    BY <1>2, <2>1 DEF ColumnsParallel, Components
  <2>2. CASE a \notin DOMAIN archetypes.comps
    <3>1. a \in NonEmpty \ DOMAIN archetypes.comps
      BY <1>2, <2>2
    <3>2. x \in Comp
      <4>1. archetypes'.comps \in Seq(SUBSET Comp)
        BY DEF CoreInv, StoreSound
      <4>2. QED
        BY <4>1
    <3>3. QED
      BY <3>1, <3>2 DEF ListTypes
  <2>3. QED
    BY <2>1, <2>2
<1>7. DeadSlotsFree'
  BY <1>1 DEF DeadSlotsFree
<1>8. QED
  BY <1>4, <1>5, <1>6, <1>7

----------------------------------------------------------------------------
(* ListsInv: the flush *)

\* Nothing comes below a set by the death of others.
LEMMA KillBelow ==
  ASSUME CoreInv, CoreInv', Kill, Head(killing) \in alive, NEW set
  PROVE  Below(set)' \subseteq Below(set) \ Below({Head(killing)})
<1> PICK e : e = Head(killing)
  OBVIOUS
<1> PICK D : D = Below({e})
  OBVIOUS
<1> PICK B : B = Below(set)
  OBVIOUS
<1>1. e \in Entity /\ D \subseteq alive /\ D \subseteq Entity
  BY DEF Below, CoreInv, CoreTypes
<1>2. /\ alive' = alive \ D
      /\ children' = [d \in Entity |-> IF d \in D THEN <<>> ELSE Unlinked(e)[d]]
  BY DEF Kill
<1>3. \A d \in Entity : ToSet(Unlinked(e)[d]) = ToSet(children[d]) \ {e}
  BY <1>1, UnlinkedIs DEF CoreInv
<1>4. B \subseteq alive /\ set \cap alive \subseteq B /\ Closed(B)
  BY ChildrenLive, BelowIs DEF CoreInv
<1>5. ASSUME NEW d \in alive' PROVE ToSet(children'[d]) \subseteq alive'
  <2>1. d \in Entity /\ \A x \in ToSet(children'[d]) : x \in Entity /\ parent'[x] = d
    BY DEF CoreInv, CoreTypes, TreeConsistent, ToSet
  <2>2. QED
    BY <2>1, EntityStoreAssumption DEF CoreInv, DeadAlone
<1> PICK s : s = B \ D
  OBVIOUS
<1>6. s \in SUBSET alive' /\ set \cap alive' \subseteq s
  BY <1>2, <1>4
<1>7. ASSUME NEW d \in s PROVE ToSet(children'[d]) \subseteq s
  <2>1. d \in alive' /\ d \in Entity /\ d \notin D /\ ToSet(children[d]) \subseteq B
    BY <1>4, <1>6 DEF Closed, CoreInv, CoreTypes
  <2>2. ToSet(children'[d]) = ToSet(children[d]) \ {e}
    BY <1>2, <1>3, <2>1
  <2>3. ToSet(children'[d]) \subseteq alive'
    BY <1>5, <2>1
  <2>4. QED
    BY <1>2, <2>1, <2>2, <2>3
<1>8. QED
  BY <1>6, <1>7, BelowLater

LEMMA KillLists ==
  ASSUME CoreInv, CoreInv', ListsInv, Kill
  PROVE  ListsInv'
<1> USE DEF ListsInv
<1> PICK e : e = Head(killing)
  OBVIOUS
<1>1. /\ phase = "kill" /\ killing # <<>>
      /\ UNCHANGED <<unused, index_members, comp_members, phase, archetypes>>
  BY DEF Kill
<1>2. CASE e \notin alive
  <2>1. UNCHANGED <<unused, alive, children, condemned, members, archetype, archetypes, reshaped,
                    dead, phase>>
    BY <1>1, <1>2 DEF Kill, tree, members
  <2>2. Careful'
    BY <2>1, BelowSame DEF Careful, Original, Reshaped
  <2>3. QED
    BY <1>1, <2>1, <2>2, ListsSame
<1>3. CASE e \in alive
  <2> PICK D : D = Below({e})
    OBVIOUS
  <2>1. /\ alive' = alive \ D /\ condemned' = condemned \ D
        /\ dead' = dead \cup DeadSlots(D)
        /\ reshaped' = {r \in reshaped : r[1] \notin D}
        /\ archetype' = [d \in Entity |-> IF d \in D THEN EMPTY ELSE archetype[d]]
        /\ index_in_archetype' = [d \in Entity |-> IF d \in D THEN 1 ELSE index_in_archetype[d]]
    BY <1>3 DEF Kill
  <2>2. e \in condemned /\ ChildrenAlive
    <3>1. killing \in Seq(Entity)
      BY DEF CoreInv, CoreTypes
    <3>2. e \in ToSet(killing)
      BY <1>1, <3>1, QueueSets
    <3>3. QED
      BY <1>3, <3>2, ChildrenLive DEF CoreInv, CondemnedQueued
  <2>3. D \subseteq alive /\ alive \subseteq Entity /\ D \subseteq Below(condemned)
    <3>1. {e} \cap alive \subseteq Below(condemned)
      BY <2>2, BelowIs DEF CoreInv, DeadAlone
    <3>2. QED
      BY <2>2, <3>1, BelowIs, BelowMonotone DEF CoreInv, CoreTypes
  <2>4. ASSUME NEW d \in D, Original(d) # EMPTY
        PROVE  /\ archetype[d] = Original(d) /\ archetype[d] \in DOMAIN archetypes.comps \ {EMPTY}
               /\ archetype[d] \in NonEmpty
               /\ index_in_archetype[d] \in DOMAIN index_members[archetype[d]]
               /\ index_members[archetype[d]][index_in_archetype[d]] = d
    <3>1. Reshaped(d) = {}
      BY <2>3, <2>4 DEF Careful
    <3>2. archetype[d] = Original(d) /\ Original(d) \in DOMAIN archetypes.comps
          /\ Original(d) \in NonEmpty
      BY <2>3, <2>4, <3>1, OriginalIs
    <3>3. QED
      BY <2>3, <2>4, <3>2 DEF PositionsKnown
  <2>5. \A d \in Entity \ D : /\ Original(d)' = Original(d)
                              /\ index_in_archetype'[d] = index_in_archetype[d]
    <3> SUFFICES ASSUME NEW d \in Entity \ D
                 PROVE  /\ Original(d)' = Original(d)
                        /\ index_in_archetype'[d] = index_in_archetype[d]
      OBVIOUS
    <3>1. Reshaped(d)' = Reshaped(d) /\ archetype'[d] = archetype[d]
      BY <2>1 DEF Reshaped
    <3>2. Original(d)' = Original(d)
      BY <3>1 DEF Original
    <3>3. QED
      BY <2>1, <3>2
  <2>6. \A q : q \in dead' <=>
          \/ q \in dead
          \/ \E d \in D : Original(d) # EMPTY /\ q = <<archetype[d], index_in_archetype[d]>>
    BY <2>1 DEF DeadSlots
  <2>7. ListTypes'
    <3>1. index_in_archetype' \in [Entity -> Nat]
      BY <2>1 DEF ListTypes
    <3>2. ASSUME NEW d \in D, Original(d) # EMPTY
          PROVE  <<archetype[d], index_in_archetype[d]>>
                   \in (DOMAIN archetypes.comps \ {EMPTY}) \X (Nat \ {0})
      <4> PICK l \in Seq(Entity) : l = index_members[archetype[d]]
        BY <2>4, <3>2 DEF ListTypes
      <4>1. index_in_archetype[d] \in DOMAIN l
        BY <2>4, <3>2
      <4>2. index_in_archetype[d] \in Nat \ {0}
        BY <4>1
      <4>3. QED
        BY <2>4, <3>2, <4>2
    <3>3. dead' \subseteq (DOMAIN archetypes.comps \ {EMPTY}) \X (Nat \ {0})
      <4> SUFFICES ASSUME NEW q \in dead'
                   PROVE  q \in (DOMAIN archetypes.comps \ {EMPTY}) \X (Nat \ {0})
        OBVIOUS
      <4>1. CASE q \in dead
        BY <4>1 DEF ListTypes
      <4>2. CASE \E d \in D : Original(d) # EMPTY /\ q = <<archetype[d], index_in_archetype[d]>>
        BY <3>2, <4>2
      <4>3. QED
        BY <2>6, <4>1, <4>2
    <3>4. QED
      BY <1>1, <3>1, <3>3 DEF ListTypes
  <2>8. PositionsKnown'
    <3>1. ASSUME NEW d \in alive', Original(d)' # EMPTY
          PROVE  /\ index_in_archetype'[d] \in DOMAIN index_members'[Original(d)']
                 /\ index_members'[Original(d)'][index_in_archetype'[d]] = d
      <4>1. d \in Entity \ D /\ d \in alive
        BY <2>1, <2>3
      <4>2. QED
        BY <1>1, <2>5, <3>1, <4>1 DEF PositionsKnown
    <3>2. ASSUME NEW a \in NonEmpty, NEW i \in DOMAIN index_members[a]
          PROVE  LET d == index_members[a][i]
                 IN IF d \in alive' THEN Original(d)' = a /\ index_in_archetype'[d] = i
                                    ELSE <<a, i>> \in dead'
      <4> PICK d : d = index_members[a][i]
        OBVIOUS
      <4>1. IF d \in alive THEN Original(d) = a /\ index_in_archetype[d] = i ELSE <<a, i>> \in dead
        BY DEF PositionsKnown
      <4>2. CASE d \in alive'
        <5>1. d \in Entity \ D /\ d \in alive
          BY <2>1, <2>3, <4>2
        <5>2. Original(d)' = a /\ index_in_archetype'[d] = i
          BY <2>5, <4>1, <5>1
        <5>3. QED
          BY <1>1, <4>2, <5>2
      <4>3. CASE d \in D
        <5>1. d \notin alive' /\ Original(d) = a /\ index_in_archetype[d] = i /\ a # EMPTY
          BY <2>1, <2>3, <4>1, <4>3 DEF NonEmpty
        <5>2. archetype[d] = a
          BY <2>4, <4>3, <5>1
        <5>3. <<a, i>> \in dead'
          BY <2>6, <4>3, <5>1, <5>2
        <5>4. QED
          BY <5>1, <5>3
      <4>4. CASE d \notin alive
        BY <2>1, <2>6, <4>1, <4>4
      <4>5. QED
        BY <2>1, <4>2, <4>3, <4>4
    <3>3. QED
      BY <1>1, <3>1, <3>2 DEF PositionsKnown
  <2>9. ColumnsParallel'
    BY <1>1 DEF ColumnsParallel, Components
  <2>10. DeadSlotsFree'
    <3> SUFFICES ASSUME NEW q \in dead', q[2] \in DOMAIN index_members[q[1]]
                 PROVE  index_members[q[1]][q[2]] \notin alive'
      BY <1>1 DEF DeadSlotsFree
    <3>1. CASE q \in dead
      BY <2>1, <3>1 DEF DeadSlotsFree
    <3>2. ASSUME NEW d \in D, Original(d) # EMPTY, q = <<archetype[d], index_in_archetype[d]>>
          PROVE  index_members[q[1]][q[2]] \notin alive'
      BY <2>1, <2>4, <3>2
    <3>3. QED
      BY <2>6, <3>1, <3>2
  <2>11. Careful'
    <3> PICK c : c = condemned'
      OBVIOUS
    <3>1. Below(c)' \subseteq Below(c) \ D
      BY <1>3, KillBelow
    <3>2. Below(c) \subseteq Below(condemned)
      <4>1. c \cap alive \subseteq Below(condemned)
        BY <2>1, <2>2, BelowIs DEF CoreInv, DeadAlone
      <4>2. QED
        BY <2>2, <4>1, BelowMonotone
    <3>3. Below(c)' \subseteq Entity
      BY <2>1, <2>3, <3>1 DEF Below
    <3>4. ASSUME NEW d \in Below(c)', Reshaped(d)' # {} PROVE Original(d)' = EMPTY
      <4>1. d \in Entity \ D /\ d \in Below(condemned)
        BY <3>1, <3>2, <3>3
      <4>2. Original(d)' = Original(d) /\ Reshaped(d) # {}
        BY <2>1, <2>5, <3>4, <4>1 DEF Reshaped
      <4>3. QED
        BY <4>1, <4>2 DEF Careful
    <3>5. QED
      BY <3>4 DEF Careful
  <2>12. QED
    BY <2>7, <2>8, <2>9, <2>10, <2>11
<1>4. QED
  BY <1>2, <1>3

LEMMA PrefixIs ==
  ASSUME NEW S, NEW s \in Seq(S), NEW k \in 0..Len(s)
  PROVE  LET r == SubSeq(s, 1, k)
         IN r \in Seq(S) /\ Len(r) = k /\ DOMAIN r = 1..k /\ \A j \in 1..k : r[j] = s[j]
<1>1. Len(s) \in Nat /\ k \in Nat /\ k <= Len(s)
  OBVIOUS
<1>2. k - 1 + 1 = k /\ \A j \in 1..k : 1 + j - 1 = j
  BY <1>1
<1>3. \A j \in 1..k : s[j] \in S
  BY <1>1
<1>4. /\ SubSeq(s, 1, k) \in Seq(S)
      /\ Len(SubSeq(s, 1, k)) = (IF 1 <= k THEN k - 1 + 1 ELSE 0)
      /\ \A j \in 1..(k - 1 + 1) : SubSeq(s, 1, k)[j] = s[1 + j - 1]
  BY <1>1, <1>3, SubSeqProperties
<1> PICK r \in Seq(S) : r = SubSeq(s, 1, k)
  BY <1>4
<1>5. Len(r) = k /\ \A j \in 1..k : r[j] = s[j]
  BY <1>1, <1>2, <1>4
<1>6. DOMAIN r = 1..k
  BY <1>5
<1>7. QED
  BY <1>5, <1>6

\* The list of an archetype loses the dead at its end, and one of them before.
LEMMA ReapedIs ==
  ASSUME NEW s \in Seq(Entity), NEW i \in Nat \ {0},
         i \in 1..Len(s) => s[i] \notin alive
  PROVE  LET k == Trim(s)
             list == SubSeq(s, 1, k)
             r == IF i > k THEN list ELSE SwapRemove(list, i)
         IN /\ r \in Seq(Entity) /\ k \in 0..Len(s)
            /\ \A j \in (k + 1)..Len(s) : s[j] \notin alive
            /\ list \in Seq(Entity) /\ Len(list) = k
            /\ i > k => DOMAIN r = 1..k /\ \A j \in 1..k : r[j] = s[j]
            /\ i <= k => /\ i < k /\ s[k] \in alive /\ list[k] = s[k]
                         /\ DOMAIN r = 1..(k - 1) /\ r[i] = s[k]
                         /\ \A j \in 1..(k - 1) : j # i => r[j] = s[j]
<1> PICK k : k = Trim(s)
  OBVIOUS
<1> PICK n \in Nat : n = Len(s)
  OBVIOUS
<1>1. /\ k \in 0..n /\ (k = 0 \/ s[k] \in alive)
      /\ \A j \in (k + 1)..n : s[j] \notin alive
  BY TrimIs
<1>2. k \in Nat /\ k <= n
  BY <1>1
<1> PICK list : list = SubSeq(s, 1, k)
  OBVIOUS
<1>3. list \in Seq(Entity) /\ Len(list) = k /\ DOMAIN list = 1..k /\ \A j \in 1..k : list[j] = s[j]
  BY <1>1, PrefixIs
<1>4. CASE i > k
  BY <1>1, <1>3, <1>4
<1>5. CASE i <= k
  <2>1. i \in 1..n /\ i \in 1..k /\ k \in 1..k /\ k # 0
    BY <1>2, <1>5
  <2>2. s[k] \in alive /\ i # k /\ list[k] = s[k]
    BY <1>1, <1>3, <2>1
  <2>3. i < k /\ i \in 1..(k - 1)
    BY <1>2, <2>1, <2>2
  <2> PICK r : r = SwapRemove(list, i)
    OBVIOUS
  <2>4. /\ r \in Seq(Entity) /\ DOMAIN r = 1..(k - 1)
        /\ \A j \in 1..(k - 1) : r[j] = IF j = i THEN list[k] ELSE list[j]
    <3>1. i \in 1..Len(list) /\ list \in Seq(Entity)
      BY <1>3, <2>1
    <3>2. /\ r \in Seq(Entity) /\ DOMAIN r = 1..(Len(list) - 1)
          /\ \A j \in 1..(Len(list) - 1) : r[j] = IF j = i THEN list[Len(list)] ELSE list[j]
      BY ONLY <3>1, r = SwapRemove(list, i), SwapRemoved
    <3>3. QED
      BY <1>3, <3>2
  <2>5. \A j \in 1..(k - 1) : j \in 1..k
    BY <1>2
  <2>6. r[i] = s[k] /\ \A j \in 1..(k - 1) : j # i => r[j] = s[j]
    BY <1>3, <2>2, <2>3, <2>4, <2>5
  <2>7. ~(i > k)
    BY <1>2, <1>5
  <2>8. QED
    BY <1>1, <1>3, <1>5, <2>2, <2>3, <2>4, <2>6, <2>7
<1>6. i > k \/ i <= k
  BY <1>2
<1>7. QED
  BY <1>4, <1>5, <1>6

LEMMA ReapLists ==
  ASSUME CoreInv, ListsInv, NEW a, NEW i, Reap(a, i)
  PROVE  ListsInv'
<1> USE DEF ListsInv
<1> PICK L : L = index_members[a]
  OBVIOUS
<1> PICK k : k = Trim(L)
  OBVIOUS
<1> PICK list : list = SubSeq(L, 1, k)
  OBVIOUS
<1> PICK r : r = IF i > k THEN list ELSE SwapRemove(list, i)
  OBVIOUS
<1>1. /\ phase = "reap" /\ <<a, i>> \in dead /\ dead' = dead \ {<<a, i>>}
      /\ index_members' = [index_members EXCEPT ![a] = r]
      /\ index_in_archetype' = IF i > k THEN index_in_archetype
                               ELSE Patched(index_in_archetype, list, i)
      /\ UNCHANGED <<unused, alive, children, archetype, archetypes, reshaped, condemned, phase>>
  BY DEF Reap, tree, shape
<1>2. comp_members' = [comp_members EXCEPT ![a] = [c \in Comp |->
         IF c \notin Components(a) THEN <<>>
         ELSE IF i > k THEN SubSeq(comp_members[a][c], 1, k)
              ELSE SwapRemove(SubSeq(comp_members[a][c], 1, k), i)]]
  BY DEF Reap, TrimColumn
<1>3. /\ a \in DOMAIN archetypes.comps \ {EMPTY} /\ a \in NonEmpty /\ i \in Nat \ {0}
      /\ L \in Seq(Entity)
  <2>1. a \in DOMAIN archetypes.comps \ {EMPTY} /\ i \in Nat \ {0}
    BY <1>1 DEF ListTypes
  <2>2. a \in NonEmpty
    BY <2>1, ArchetypeIds
  <2>3. QED
    BY <2>1, <2>2 DEF ListTypes
<1> PICK n \in Nat : n = Len(L)
  BY <1>3
<1>4. DOMAIN L = 1..n
  BY <1>3
<1>5. i \in 1..n => L[i] \notin alive
  BY <1>1, <1>4 DEF DeadSlotsFree
<1>6. /\ r \in Seq(Entity) /\ k \in 0..n /\ \A j \in (k + 1)..n : L[j] \notin alive
      /\ list \in Seq(Entity) /\ Len(list) = k
      /\ i > k => DOMAIN r = 1..k /\ \A j \in 1..k : r[j] = L[j]
      /\ i <= k => /\ i < k /\ L[k] \in alive /\ list[k] = L[k]
                   /\ DOMAIN r = 1..(k - 1) /\ r[i] = L[k]
                   /\ \A j \in 1..(k - 1) : j # i => r[j] = L[j]
  <2>1. i \in 1..Len(L) => L[i] \notin alive
    BY <1>5
  <2>2. L \in Seq(Entity) /\ i \in Nat \ {0}
    BY <1>3
  <2>3. QED
    BY ONLY <2>1, <2>2, n = Len(L), k = Trim(L), list = SubSeq(L, 1, k),
            r = IF i > k THEN list ELSE SwapRemove(list, i), ReapedIs
<1>7. k \in Nat /\ k <= n /\ \A j \in 1..n : L[j] \in alive => j \in 1..k
  <2>1. k \in Nat /\ k <= n
    BY <1>6
  <2>2. ASSUME NEW j \in 1..n, j \notin 1..k PROVE j \in (k + 1)..n
    BY <2>1, <2>2
  <2>3. QED
    BY <1>6, <2>1, <2>2
<1>8. \A d : Original(d)' = Original(d)
  BY <1>1 DEF Original, Reshaped
<1>9. /\ \A x \in NonEmpty : index_members'[x] = IF x = a THEN r ELSE index_members[x]
      /\ index_members' \in [NonEmpty -> Seq(Entity)]
  BY <1>1, <1>3, <1>6 DEF ListTypes
<1>10. /\ index_in_archetype' \in [Entity -> Nat]
       /\ \A x \in Entity : index_in_archetype'[x] =
            IF i <= k /\ x = L[k] THEN i ELSE index_in_archetype[x]
  <2>1. CASE i > k
    <3>1. index_in_archetype' = index_in_archetype /\ ~(i <= k)
      BY <1>1, <1>3, <1>7, <2>1
    <3>2. QED
      BY <3>1 DEF ListTypes
  <2>2. CASE i <= k
    <3>1. i < k /\ i \in 1..Len(list) /\ list[Len(list)] = L[k] /\ ~(i > k)
      BY <1>3, <1>6, <1>7, <2>2
    <3>2. index_in_archetype' = Patched(index_in_archetype, list, i)
      BY <1>1, <3>1
    <3>3. index_in_archetype \in [Entity -> Nat]
      BY DEF ListTypes
    <3>4. list \in Seq(Entity)
      BY <1>6
    <3> PICK m : m = i
      OBVIOUS
    <3> PICK pos : pos = index_in_archetype
      OBVIOUS
    <3>5. /\ Patched(pos, list, m) \in [Entity -> Nat]
          /\ \A x \in Entity : Patched(pos, list, m)[x] =
               IF m < Len(list) /\ x = list[Len(list)] THEN m ELSE pos[x]
      BY ONLY <3>1, <3>3, <3>4, m = i, pos = index_in_archetype, PatchedIs
    <3>6. m < Len(list) /\ list[Len(list)] = L[k]
      BY <1>6, <3>1
    <3>7. index_in_archetype' = Patched(pos, list, m)
      BY <3>2
    <3>8. ASSUME NEW x \in Entity
          PROVE  index_in_archetype'[x] = IF x = L[k] THEN i ELSE index_in_archetype[x]
      <4>1. Patched(pos, list, m)[x] = IF x = list[Len(list)] THEN m ELSE pos[x]
        BY <3>5, <3>6
      <4>2. QED
        BY <3>6, <3>7, <4>1
    <3>9. index_in_archetype' \in [Entity -> Nat]
      BY <3>5, <3>7
    <3>10. QED
      BY <2>2, <3>8, <3>9
  <2>3. QED
    BY <1>3, <1>7, <2>1, <2>2
\* Where the entries of the list come from.
<1>11. ASSUME NEW j \in DOMAIN r
       PROVE  \/ j \in 1..n /\ j # i /\ r[j] = L[j] /\ (i <= k => j # k)
              \/ i <= k /\ j = i /\ r[j] = L[k] /\ k \in 1..n
  <2>1. CASE i > k
    BY <1>3, <1>6, <1>7, <1>11, <2>1
  <2>2. CASE i <= k
    <3>1. j \in 1..(k - 1)
      BY <1>6, <1>11, <2>2
    <3>2. j \in 1..n /\ j # k /\ k \in 1..n
      BY <1>7, <3>1
    <3>3. QED
      BY <1>6, <2>2, <3>1, <3>2
  <2>3. QED
    BY <1>3, <1>7, <2>1, <2>2
<1>12. \A j \in 1..n : IF L[j] \in alive THEN Original(L[j]) = a /\ index_in_archetype[L[j]] = j
                                         ELSE <<a, j>> \in dead
  BY <1>3, <1>4 DEF PositionsKnown
<1>13. alive \subseteq Entity
  BY DEF CoreInv, CoreTypes
<1>14. PositionsKnown'
  <2>1. ASSUME NEW x \in alive, Original(x) # EMPTY
        PROVE  /\ index_in_archetype'[x] \in DOMAIN index_members'[Original(x)]
               /\ index_members'[Original(x)][index_in_archetype'[x]] = x
    <3> PICK o : o = Original(x)
      OBVIOUS
    <3> PICK j : j = index_in_archetype[x]
      OBVIOUS
    <3>1. /\ x \in Entity /\ o \in NonEmpty
          /\ j \in DOMAIN index_members[o] /\ index_members[o][j] = x
      BY <1>13, <2>1, OriginalIs DEF PositionsKnown
    <3>2. CASE o # a
      <4>1. ~(i <= k /\ x = L[k])
        <5>1. i <= k => k \in 1..n /\ L[k] \in alive
          BY <1>3, <1>6, <1>7
        <5>2. QED
          BY <1>12, <3>2, <5>1
      <4>2. index_in_archetype'[x] = j /\ index_members'[o] = index_members[o]
        BY <1>9, <1>10, <3>1, <3>2, <4>1
      <4>3. QED
        BY <3>1, <4>2
    <3>3. CASE o = a
      <4>1. j \in 1..n /\ L[j] = x /\ j \in 1..k /\ index_members'[o] = r
        BY <1>4, <1>7, <1>9, <2>1, <3>1, <3>3
      <4>2. CASE i > k
        <5>1. ~(i <= k)
          BY <1>3, <1>7, <4>2
        <5>2. index_in_archetype'[x] = j
          BY <1>10, <3>1, <5>1
        <5>3. QED
          BY <1>6, <4>1, <4>2, <5>2
      <4>3. CASE i <= k
        <5>1. CASE x = L[k]
          <6>1. index_in_archetype'[x] = i /\ i \in 1..(k - 1)
            <7>1. index_in_archetype'[x] = i /\ i < k
              BY <1>6, <1>10, <3>1, <4>3, <5>1
            <7>2. QED
              BY <1>3, <1>7, <7>1
          <6>2. QED
            BY <1>6, <4>1, <4>3, <5>1, <6>1
        <5>2. CASE x # L[k]
          <6>1. index_in_archetype'[x] = j /\ j # k
            BY <1>10, <3>1, <4>1, <5>2
          <6>2. i \in 1..n
            BY <1>3, <1>7, <4>3
          <6>3. j # i
            BY <1>5, <2>1, <4>1, <6>2
          <6>4. j \in 1..(k - 1)
            BY <1>7, <4>1, <6>1
          <6>5. QED
            BY <1>6, <4>1, <4>3, <6>1, <6>3, <6>4
        <5>3. QED
          BY <5>1, <5>2
      <4>4. QED
        BY <1>3, <1>7, <4>2, <4>3
    <3>4. QED
      BY <3>2, <3>3
  <2>2. ASSUME NEW y \in NonEmpty, NEW j \in DOMAIN index_members'[y], NEW x,
               x = index_members'[y][j]
        PROVE  IF x \in alive THEN Original(x) = y /\ index_in_archetype'[x] = j
                              ELSE <<y, j>> \in dead'
    <3>1. i <= k => k \in 1..n /\ L[k] \in alive /\ Original(L[k]) = a
                    /\ index_in_archetype[L[k]] = k
      <4>1. i <= k => k \in 1..n /\ L[k] \in alive
        BY <1>3, <1>6, <1>7
      <4>2. QED
        BY <1>12, <4>1
    <3>2. CASE y # a
      <4>1. index_members'[y] = index_members[y]
        BY <1>9, <3>2
      <4>2. IF x \in alive THEN Original(x) = y /\ index_in_archetype[x] = j
                           ELSE <<y, j>> \in dead
        BY <2>2, <4>1 DEF PositionsKnown
      <4>3. CASE x \in alive
        <5>1. ~(i <= k /\ x = L[k])
          BY <3>1, <3>2, <4>2, <4>3
        <5>2. QED
          BY <1>10, <1>13, <4>2, <4>3, <5>1
      <4>4. CASE x \notin alive
        BY <1>1, <3>2, <4>2, <4>4
      <4>5. QED
        BY <4>3, <4>4
    <3>3. CASE y = a
      <4>1. index_members'[y] = r /\ j \in DOMAIN r /\ x = r[j]
        BY <1>9, <2>2, <3>3
      <4>2. CASE j \in 1..n /\ j # i /\ x = L[j] /\ (i <= k => j # k)
        <5>1. CASE x \in alive
          <6>1. Original(x) = a /\ index_in_archetype[x] = j
            BY <1>12, <4>2, <5>1
          <6>2. ~(i <= k /\ x = L[k])
            BY <3>1, <4>2, <6>1
          <6>3. QED
            BY <1>10, <1>13, <3>3, <5>1, <6>1, <6>2
        <5>2. CASE x \notin alive
          BY <1>1, <1>12, <3>3, <4>2, <5>2
        <5>3. QED
          BY <5>1, <5>2
      <4>3. CASE i <= k /\ j = i /\ x = L[k]
        BY <1>10, <1>13, <3>1, <3>3, <4>3
      <4>4. QED
        BY <1>11, <4>1, <4>2, <4>3
    <3>4. QED
      BY <3>2, <3>3
  <2>3. \A y \in NonEmpty : \A j \in DOMAIN index_members'[y] : \A x :
          x = index_members'[y][j] =>
            IF x \in alive' THEN Original(x)' = y /\ index_in_archetype'[x] = j
                            ELSE <<y, j>> \in dead'
    <3>1. alive' = alive
      BY <1>1
    <3> SUFFICES ASSUME NEW y \in NonEmpty, NEW j \in DOMAIN index_members'[y], NEW x,
                        x = index_members'[y][j]
                 PROVE  IF x \in alive' THEN Original(x)' = y /\ index_in_archetype'[x] = j
                                        ELSE <<y, j>> \in dead'
      OBVIOUS
    <3>2. IF x \in alive THEN Original(x) = y /\ index_in_archetype'[x] = j
                         ELSE <<y, j>> \in dead'
      BY <2>2
    <3>3. QED
      BY <1>8, <3>1, <3>2
  <2>4. \A x \in alive' : Original(x)' # EMPTY =>
          /\ index_in_archetype'[x] \in DOMAIN index_members'[Original(x)']
          /\ index_members'[Original(x)'][index_in_archetype'[x]] = x
    BY <1>1, <1>8, <2>1
  <2>5. QED
    BY ONLY <2>3, <2>4, PositionsLater
<1>15. ColumnsParallel'
  <2> SUFFICES ASSUME NEW y \in DOMAIN archetypes.comps \ {EMPTY}, NEW c \in Components(y)
               PROVE  comp_members'[y][c] = index_members'[y]
    BY <1>1 DEF ColumnsParallel, Components
  <2>1. c \in Comp /\ y \in NonEmpty
    <3>1. archetypes.comps \in Seq(SUBSET Comp)
      BY DEF CoreInv, StoreSound
    <3>2. QED
      BY <3>1, ArchetypeIds DEF Components
  <2>2. comp_members[y][c] = index_members[y]
    BY DEF ColumnsParallel
  <2>3. comp_members \in [NonEmpty -> [Comp -> Seq(Entity)]]
    BY DEF ListTypes
  <2>4. CASE y = a
    <3>1. comp_members'[a][c] = IF i > k THEN SubSeq(comp_members[a][c], 1, k)
                                ELSE SwapRemove(SubSeq(comp_members[a][c], 1, k), i)
      BY <1>2, <1>3, <2>1, <2>3, <2>4
    <3>2. QED
      BY <1>9, <2>1, <2>2, <2>4, <3>1
  <2>5. CASE y # a
    BY <1>2, <1>9, <2>1, <2>2, <2>3, <2>5
  <2>6. QED
    BY <2>4, <2>5
<1>16. ListTypes'
  <2>1. comp_members' \in [NonEmpty -> [Comp -> Seq(Entity)]]
    <3>1. ASSUME NEW c \in Comp
          PROVE  (IF c \notin Components(a) THEN <<>>
                  ELSE IF i > k THEN SubSeq(comp_members[a][c], 1, k)
                       ELSE SwapRemove(SubSeq(comp_members[a][c], 1, k), i)) \in Seq(Entity)
      <4>1. CASE c \notin Components(a)
        BY <4>1
      <4>2. CASE c \in Components(a)
        <5>1. comp_members[a][c] = L
          BY <1>3, <4>2 DEF ColumnsParallel
        <5>2. QED
          BY <1>6, <4>2, <5>1
      <4>3. QED
        BY <4>1, <4>2
    <3> DEFINE col == [c \in Comp |-> IF c \notin Components(a) THEN <<>>
                         ELSE IF i > k THEN SubSeq(comp_members[a][c], 1, k)
                              ELSE SwapRemove(SubSeq(comp_members[a][c], 1, k), i)]
    <3>2. col \in [Comp -> Seq(Entity)]
      BY <3>1
    <3>3. comp_members' = [comp_members EXCEPT ![a] = col]
      BY <1>2
    <3> HIDE DEF col
    <3>4. QED
      BY <1>3, <3>2, <3>3 DEF ListTypes
  <2>2. \A y \in NonEmpty \ DOMAIN archetypes.comps :
          index_members'[y] = <<>> /\ \A c \in Comp : comp_members'[y][c] = <<>>
    BY <1>2, <1>3, <1>9 DEF ListTypes
  <2>3. ASSUME NEW y \in NonEmpty, NEW j \in DOMAIN index_members'[y]
        PROVE  index_members'[y][j] \notin unused
    <3>1. CASE y # a
      BY <1>9, <3>1 DEF ListTypes
    <3>2. CASE y = a
      <4>1. \A m \in 1..n : L[m] \notin unused
        BY <1>3, <1>4 DEF ListTypes
      <4>2. j \in DOMAIN r /\ index_members'[y][j] = r[j]
        BY <1>9, <3>2
      <4>3. \E m \in 1..n : r[j] = L[m]
        BY <1>11, <4>2
      <4>4. QED
        BY <4>1, <4>2, <4>3
    <3>3. QED
      BY <3>1, <3>2
  <2>4. QED
    BY <1>1, <1>9, <1>10, <2>1, <2>2, <2>3 DEF ListTypes
<1>17. DeadSlotsFree'
  <2> SUFFICES ASSUME NEW d \in dead', d[2] \in DOMAIN index_members'[d[1]]
               PROVE  index_members'[d[1]][d[2]] \notin alive
    BY <1>1 DEF DeadSlotsFree
  <2>1. d \in dead /\ d # <<a, i>> /\ d[1] \in NonEmpty /\ d = <<d[1], d[2]>>
    BY <1>1, ArchetypeIds DEF ListTypes
  <2>2. CASE d[1] # a
    BY <1>9, <2>1, <2>2 DEF DeadSlotsFree
  <2>3. CASE d[1] = a
    <3>1. d[2] \in DOMAIN r /\ d[2] # i
      BY <1>9, <2>1, <2>3
    <3>2. d[2] \in 1..n /\ r[d[2]] = L[d[2]]
      BY <1>11, <3>1
    <3>3. L[d[2]] \notin alive
      BY <1>4, <2>1, <2>3, <3>2 DEF DeadSlotsFree
    <3>4. QED
      BY <1>9, <2>1, <2>3, <3>2, <3>3
  <2>4. QED
    BY <2>2, <2>3
<1>18. Careful'
  <2>1. UNCHANGED <<alive, children, condemned, archetype, reshaped>>
    BY <1>1
  <2>2. QED
    BY <2>1, CarefulSame
<1>19. QED
  BY <1>14, <1>15, <1>16, <1>17, <1>18

LEMMA AppendedIs ==
  ASSUME NEW S, NEW s \in Seq(S), NEW x \in S, NEW n \in Nat, n = Len(s)
  PROVE  /\ Append(s, x) \in Seq(S) /\ DOMAIN Append(s, x) = 1..(n + 1)
         /\ Append(s, x)[n + 1] = x /\ \A j \in 1..n : Append(s, x)[j] = s[j]
<1>1. /\ Append(s, x) \in Seq(S) /\ Len(Append(s, x)) = n + 1 /\ Append(s, x)[n + 1] = x
      /\ \A j \in 1..n : Append(s, x)[j] = s[j]
  BY AppendProperties
<1> PICK l \in Seq(S) : l = Append(s, x)
  BY <1>1
<1>2. DOMAIN l = 1..(n + 1)
  BY <1>1
<1>3. QED
  BY <1>1, <1>2

\* An entity that was reshaped moves from the list of one archetype to that of another.
LEMMA ReshapeMoves ==
  ASSUME CoreInv, ListsInv, NEW e, NEW a, Reshape(e, a), a # archetype[e]
  PROVE  ListsInv'
<1> USE DEF ListsInv
<1> PICK b : b = archetype[e]
  OBVIOUS
<1> PICK p : p = index_in_archetype[e]
  OBVIOUS
<1>1. /\ phase = "reshape" /\ <<e, a>> \in reshaped /\ reshaped' = reshaped \ {<<e, a>>}
      /\ a # b
      /\ UNCHANGED <<unused, alive, children, archetype, archetypes, dead, condemned, phase>>
  BY DEF Reshape, tree, flushing
<1>2. /\ e \in Entity /\ e \in alive /\ b \in DOMAIN archetypes.comps /\ b # EMPTY
      /\ b \in NonEmpty /\ a \in DOMAIN archetypes.comps
      /\ a # EMPTY => a \in NonEmpty
      /\ Original(e) = a
  <2>1. e \in Entity /\ a \in DOMAIN archetypes.comps
    BY <1>1 DEF CoreInv, CoreTypes
  <2>2. Reshaped(e) # {}
    BY <1>1 DEF Reshaped
  <2>3. e \in alive
    BY <2>1, <2>2 DEF CoreInv, DeadAlone
  <2>4. b \in DOMAIN archetypes.comps /\ b # EMPTY
    BY <1>1, <2>1 DEF CoreInv, CoreTypes, ReshapedOnce
  <2>5. Original(e) = a
    BY <1>1, <2>1, OriginalIs
  <2>6. QED
    BY <2>1, <2>3, <2>4, <2>5, ArchetypeIds
<1>3. /\ index_members' = [x \in NonEmpty |->
           CASE x = a /\ a # b -> LeftList(e, a)
             [] x = b /\ a # b -> Append(index_members[b], e)
             [] OTHER -> index_members[x]]
      /\ comp_members' = [x \in NonEmpty |-> [c \in Comp |->
           CASE x = a /\ a # b /\ c \in Components(a) -> LeftColumn(e, a, c)
             [] x = b /\ a # b /\ c \in Components(b) -> Append(comp_members[b][c], e)
             [] OTHER -> comp_members[x][c]]]
      /\ index_in_archetype' = [LeftIndex(e, a) EXCEPT ![e] = Len(index_members[b]) + 1]
  BY <1>1 DEF Reshape
<1> PICK L : L = index_members[a]
  OBVIOUS
<1> PICK M \in Seq(Entity) : M = index_members[b]
  BY <1>2 DEF ListTypes
<1> PICK n : n = Len(L)
  OBVIOUS
<1> PICK m \in Nat : m = Len(M)
  OBVIOUS
<1> PICK r : r = SwapRemove(L, p)
  OBVIOUS
<1> PICK t : t = Append(M, e)
  OBVIOUS
<1>4. \A x \in NonEmpty : index_members'[x] = IF x = a THEN r ELSE
                                             IF x = b THEN t ELSE index_members[x]
  BY <1>1, <1>3 DEF LeftList
<1>5. t \in Seq(Entity) /\ DOMAIN t = 1..(m + 1) /\ t[m + 1] = e /\ \A j \in 1..m : t[j] = M[j]
  BY ONLY <1>2, M \in Seq(Entity), m \in Nat, m = Len(M), t = Append(M, e), AppendedIs
<1>6. ASSUME a # EMPTY
      PROVE  /\ L \in Seq(Entity) /\ n \in Nat /\ DOMAIN L = 1..n /\ p \in 1..n /\ L[p] = e
             /\ r \in Seq(Entity) /\ DOMAIN r = 1..(n - 1)
             /\ \A j \in 1..(n - 1) : r[j] = IF j = p THEN L[n] ELSE L[j]
  <2>1. L \in Seq(Entity)
    BY <1>2, <1>6 DEF ListTypes
  <2>2. n \in Nat /\ DOMAIN L = 1..n
    BY <2>1
  <2>3. p \in 1..n /\ L[p] = e
    BY <1>2, <1>6, <2>2 DEF PositionsKnown
  <2>4. p \in 1..Len(L)
    BY <2>3
  <2>5. /\ r \in Seq(Entity) /\ DOMAIN r = 1..(Len(L) - 1)
        /\ \A j \in 1..(Len(L) - 1) : r[j] = IF j = p THEN L[Len(L)] ELSE L[j]
    BY ONLY <2>1, <2>4, r = SwapRemove(L, p), SwapRemoved
  <2>6. QED
    BY <2>1, <2>2, <2>3, <2>5
\* The last entry of the list that e leaves has taken its place.
<1>7. /\ index_in_archetype' \in [Entity -> Nat] /\ index_in_archetype'[e] = m + 1
      /\ \A x \in Entity \ {e} : index_in_archetype'[x] =
           IF a # EMPTY /\ p < n /\ x = L[n] THEN p ELSE index_in_archetype[x]
  <2>1. /\ LeftIndex(e, a) \in [Entity -> Nat]
        /\ \A x \in Entity : LeftIndex(e, a)[x] =
             IF a # EMPTY /\ p < n /\ x = L[n] THEN p ELSE index_in_archetype[x]
    <3> PICK pos : pos = index_in_archetype
      OBVIOUS
    <3>1. pos \in [Entity -> Nat]
      BY DEF ListTypes
    <3>2. CASE a = EMPTY
      BY <3>1, <3>2 DEF LeftIndex
    <3>3. CASE a # EMPTY
      <4>1. LeftIndex(e, a) = Patched(pos, L, p)
        BY <3>3 DEF LeftIndex
      <4>2. L \in Seq(Entity) /\ p \in 1..Len(L)
        BY <1>6, <3>3
      <4>3. /\ Patched(pos, L, p) \in [Entity -> Nat]
            /\ \A x \in Entity : Patched(pos, L, p)[x] =
                 IF p < Len(L) /\ x = L[Len(L)] THEN p ELSE pos[x]
        <5>1. Patched(pos, L, p) \in [Entity -> Nat]
          BY ONLY <3>1, <4>2, PatchedIs
        <5>2. ASSUME NEW x \in Entity
              PROVE  Patched(pos, L, p)[x] = IF p < Len(L) /\ x = L[Len(L)] THEN p ELSE pos[x]
          <6>1. L[Len(L)] \in Entity /\ p \in Nat /\ Len(L) \in Nat
            BY <4>2
          <6>2. CASE p < Len(L)
            <7>1. Patched(pos, L, p) = [pos EXCEPT ![L[Len(L)]] = p]
              BY <6>2 DEF Patched, Last
            <7>2. QED
              BY <3>1, <6>1, <6>2, <7>1
          <6>3. CASE ~(p < Len(L))
            BY <6>3 DEF Patched
          <6>4. QED
            BY <6>2, <6>3
        <5>3. QED
          BY <5>1, <5>2
      <4>4. QED
        BY <3>3, <4>1, <4>3
    <3>4. QED
      BY <3>2, <3>3
  <2> PICK X \in [Entity -> Nat] : X = LeftIndex(e, a)
    BY <2>1
  <2>2. index_in_archetype' = [X EXCEPT ![e] = m + 1]
    BY <1>3
  <2>3. QED
    BY <1>2, <2>1, <2>2
<1>8. archetypes.comps \in Seq(SUBSET Comp) /\ comp_members \in [NonEmpty -> [Comp -> Seq(Entity)]]
  BY DEF CoreInv, StoreSound, ListTypes
<1>9. /\ \A d \in Entity \ {e} : Original(d)' = Original(d)
      /\ Original(e)' = b
  <2>1. Reshaped(e)' = {}
    BY <1>1 DEF Reshaped, CoreInv, ReshapedOnce
  <2>2. Original(e)' = b
    BY <1>1, <2>1 DEF Original
  <2>3. ASSUME NEW d \in Entity \ {e} PROVE Original(d)' = Original(d)
    <3>1. Reshaped(d)' = Reshaped(d) /\ archetype'[d] = archetype[d]
      BY <1>1 DEF Reshaped
    <3>2. QED
      BY <3>1 DEF Original
  <2>4. QED
    BY <2>2, <2>3
\* No dead entity is in a list any more.
<1>10. \A y \in NonEmpty : \A j \in DOMAIN index_members[y] :
         /\ index_members[y][j] \in alive /\ index_members[y][j] \in Entity
         /\ Original(index_members[y][j]) = y
         /\ index_in_archetype[index_members[y][j]] = j
  <2>1. dead = {}
    BY <1>1 DEF DeadSlotsFree
  <2>2. alive \subseteq Entity
    BY DEF CoreInv, CoreTypes
  <2>3. QED
    BY <2>1, <2>2 DEF PositionsKnown
<1>11. ASSUME a # EMPTY
       PROVE  /\ \A j \in 1..n : /\ L[j] \in alive /\ L[j] \in Entity /\ Original(L[j]) = a
                                 /\ index_in_archetype[L[j]] = j
                                 /\ L[j] = e => j = p
              /\ n \in 1..n
  <2>1. \A j \in 1..n : /\ L[j] \in alive /\ L[j] \in Entity /\ Original(L[j]) = a
                        /\ index_in_archetype[L[j]] = j
    BY <1>2, <1>6, <1>10, <1>11
  <2>2. n \in 1..n
    BY <1>6, <1>11
  <2>3. QED
    BY <2>1, <2>2
<1>12. \A j \in 1..m : /\ M[j] \in alive /\ M[j] \in Entity /\ Original(M[j]) = b
                       /\ index_in_archetype[M[j]] = j
  BY <1>2, <1>10
<1>13. ASSUME NEW x \in alive, x # e, Original(x) # EMPTY
       PROVE  /\ index_in_archetype'[x] \in DOMAIN index_members'[Original(x)]
              /\ index_members'[Original(x)][index_in_archetype'[x]] = x
  <2> PICK o : o = Original(x)
    OBVIOUS
  <2> PICK j : j = index_in_archetype[x]
    OBVIOUS
  <2>1. /\ x \in Entity /\ o \in NonEmpty /\ o # EMPTY
        /\ j \in DOMAIN index_members[o] /\ index_members[o][j] = x
    BY <1>13, OriginalIs DEF PositionsKnown, CoreInv, CoreTypes
  <2>2. CASE o # a
    <3>1. ~(a # EMPTY /\ x = L[n])
      BY <1>11, <2>2
    <3>2. index_in_archetype'[x] = j
      BY <1>7, <1>13, <2>1, <3>1
    <3>3. CASE o = b
      <4>1. j \in 1..m /\ M[j] = x /\ index_members'[o] = t
        <5>1. DOMAIN M = 1..m
          OBVIOUS
        <5>2. j \in DOMAIN M /\ M[j] = x
          BY <2>1, <3>3
        <5>3. QED
          BY <1>4, <2>1, <2>2, <3>3, <5>1, <5>2
      <4>2. j \in 1..(m + 1)
        BY <4>1
      <4>3. QED
        BY <1>5, <3>2, <4>1, <4>2
    <3>4. CASE o # b
      BY <1>4, <2>1, <2>2, <3>2, <3>4
    <3>5. QED
      BY <3>3, <3>4
  <2>3. CASE o = a
    <3>1. a # EMPTY
      BY <2>1, <2>3
    <3>2. j \in 1..n /\ L[j] = x /\ j # p /\ p \in 1..n /\ n \in Nat /\ index_members'[o] = r
      BY <1>4, <1>6, <1>13, <2>1, <2>3, <3>1
    <3>3. CASE j = n
      <4>1. p < n /\ p \in 1..(n - 1)
        BY <3>2, <3>3
      <4>2. index_in_archetype'[x] = p
        BY <1>7, <1>13, <2>1, <3>1, <3>2, <3>3, <4>1
      <4>3. QED
        BY <1>6, <3>1, <3>2, <3>3, <4>1, <4>2
    <3>4. CASE j # n
      <4>1. j \in 1..(n - 1)
        BY <3>2, <3>4
      <4>2. x # L[n]
        BY <1>11, <3>1, <3>4
      <4>3. index_in_archetype'[x] = j
        BY <1>7, <1>13, <2>1, <4>2
      <4>4. QED
        BY <1>6, <3>1, <3>2, <4>1, <4>3
    <3>5. QED
      BY <3>3, <3>4
  <2>4. QED
    BY <2>2, <2>3
<1>14. ASSUME NEW y \in NonEmpty, NEW i \in DOMAIN index_members'[y], NEW x,
              x = index_members'[y][i]
       PROVE  /\ x \in alive /\ index_in_archetype'[x] = i
              /\ IF x = e THEN y = b ELSE Original(x) = y
  <2>1. CASE y = a
    <3>1. a # EMPTY /\ index_members'[y] = r
      BY <1>4, <2>1 DEF NonEmpty
    <3>2. i \in 1..(n - 1) /\ x = r[i]
      BY <1>6, <1>14, <3>1
    <3>3. n \in Nat /\ i \in 1..n /\ p \in 1..n /\ i # n
      BY <1>6, <3>1, <3>2
    <3>4. CASE i = p
      <4>1. x = L[n] /\ p < n
        <5>1. p < n
          BY <3>3, <3>4
        <5>2. QED
          BY <1>6, <3>1, <3>2, <3>4, <5>1
      <4>2. x \in alive /\ x \in Entity /\ Original(x) = a /\ x # e
        BY <1>11, <3>1, <4>1
      <4>3. QED
        BY <1>7, <2>1, <3>1, <3>4, <4>1, <4>2
    <3>5. CASE i # p
      <4>1. x = L[i]
        BY <1>6, <3>1, <3>2, <3>5
      <4>2. x \in alive /\ x \in Entity /\ Original(x) = a /\ x # e /\ index_in_archetype[x] = i
        BY <1>11, <3>1, <3>3, <3>5, <4>1
      <4>3. x # L[n]
        BY <1>11, <3>1, <3>3, <4>2
      <4>4. QED
        BY <1>7, <2>1, <4>2, <4>3
    <3>6. QED
      BY <3>4, <3>5
  <2>2. CASE y = b
    <3>1. index_members'[y] = t /\ i \in 1..(m + 1) /\ x = t[i]
      BY <1>1, <1>4, <1>5, <1>14, <2>2
    <3>2. CASE i = m + 1
      BY <1>2, <1>5, <1>7, <2>2, <3>1, <3>2
    <3>3. CASE i # m + 1
      <4>1. i \in 1..m
        BY <3>1, <3>3
      <4>2. x \in alive /\ x \in Entity /\ Original(x) = b /\ index_in_archetype[x] = i
        BY <1>5, <1>12, <3>1, <4>1
      <4>3. x # e /\ ~(a # EMPTY /\ x = L[n])
        BY <1>1, <1>2, <1>11, <4>2
      <4>4. QED
        BY <1>7, <2>2, <4>2, <4>3
    <3>4. QED
      BY <3>2, <3>3
  <2>3. CASE y # a /\ y # b
    <3>1. i \in DOMAIN index_members[y] /\ x = index_members[y][i]
      BY <1>4, <1>14, <2>3
    <3>2. x \in alive /\ x \in Entity /\ Original(x) = y /\ index_in_archetype[x] = i
      BY <1>10, <3>1
    <3>3. x # e /\ ~(a # EMPTY /\ x = L[n])
      BY <1>2, <1>11, <2>3, <3>2
    <3>4. QED
      BY <1>7, <3>2, <3>3
  <2>4. QED
    BY <2>1, <2>2, <2>3
<1>15. alive \subseteq Entity /\ alive' = alive
  BY <1>1 DEF CoreInv, CoreTypes
<1>16. PositionsKnown'
  <2>1. ASSUME NEW x \in alive', Original(x)' # EMPTY
        PROVE  /\ index_in_archetype'[x] \in DOMAIN index_members'[Original(x)']
               /\ index_members'[Original(x)'][index_in_archetype'[x]] = x
    <3>1. CASE x = e
      <4>1. Original(x)' = b /\ index_members'[b] = t /\ index_in_archetype'[x] = m + 1
        BY <1>1, <1>2, <1>4, <1>7, <1>9, <3>1
      <4>2. m + 1 \in 1..(m + 1)
        OBVIOUS
      <4>3. QED
        BY <1>5, <3>1, <4>1, <4>2
    <3>2. CASE x # e
      <4>1. x \in alive /\ Original(x)' = Original(x)
        BY <1>9, <1>15, <3>2
      <4>2. QED
        BY <1>13, <2>1, <3>2, <4>1
    <3>3. QED
      BY <3>1, <3>2
  <2>2. \A x \in alive' : Original(x)' # EMPTY =>
          /\ index_in_archetype'[x] \in DOMAIN index_members'[Original(x)']
          /\ index_members'[Original(x)'][index_in_archetype'[x]] = x
    BY <2>1
  <2>3. \A y \in NonEmpty : \A i \in DOMAIN index_members'[y] : \A x :
          x = index_members'[y][i] =>
            IF x \in alive' THEN Original(x)' = y /\ index_in_archetype'[x] = i
                            ELSE <<y, i>> \in dead'
    <3> SUFFICES ASSUME NEW y \in NonEmpty, NEW i \in DOMAIN index_members'[y], NEW x,
                        x = index_members'[y][i]
                 PROVE  x \in alive' /\ Original(x)' = y /\ index_in_archetype'[x] = i
      OBVIOUS
    <3>1. /\ x \in alive /\ index_in_archetype'[x] = i
          /\ IF x = e THEN y = b ELSE Original(x) = y
      BY <1>14
    <3>2. QED
      BY <1>9, <1>15, <3>1
  <2>4. QED
    BY ONLY <2>2, <2>3, PositionsLater
<1>17. ASSUME NEW y \in NonEmpty, NEW c \in Comp
       PROVE  /\ comp_members'[y][c] \in Seq(Entity)
              /\ y \in DOMAIN archetypes.comps /\ c \in Components(y) =>
                   comp_members'[y][c] = index_members'[y]
              /\ y \notin DOMAIN archetypes.comps => comp_members'[y][c] = comp_members[y][c]
  <2>1. comp_members'[y][c] =
          CASE y = a /\ a # b /\ c \in Components(a) -> LeftColumn(e, a, c)
            [] y = b /\ a # b /\ c \in Components(b) -> Append(comp_members[b][c], e)
            [] OTHER -> comp_members[y][c]
    BY <1>3
  <2>2. y \in DOMAIN archetypes.comps /\ c \in Components(y) => comp_members[y][c] = index_members[y]
    BY DEF ColumnsParallel, NonEmpty
  <2>3. CASE y = a /\ c \in Components(a)
    <3>1. a # EMPTY
      BY <2>3 DEF NonEmpty
    <3>2. comp_members'[y][c] = r
      BY <1>1, <1>2, <2>1, <2>2, <2>3 DEF LeftColumn
    <3>3. QED
      BY <1>2, <1>4, <1>6, <2>3, <3>1, <3>2
  <2>4. CASE y = b /\ c \in Components(b)
    <3>1. comp_members'[y][c] = t
      BY <1>1, <1>2, <2>1, <2>2, <2>4
    <3>2. QED
      BY <1>1, <1>2, <1>4, <1>5, <2>4, <3>1
  <2>5. CASE ~(y = a /\ c \in Components(a)) /\ ~(y = b /\ c \in Components(b))
    <3>1. comp_members'[y][c] = comp_members[y][c]
      BY <2>1, <2>5
    <3>2. c \in Components(y) => y # a /\ y # b
      BY <2>5
    <3>3. QED
      BY <1>4, <1>8, <2>2, <3>1, <3>2
  <2>6. QED
    BY <2>3, <2>4, <2>5
<1>18. ColumnsParallel'
  <2>1. DOMAIN archetypes'.comps \ {EMPTY} \subseteq NonEmpty
    BY <1>1, ArchetypeIds
  <2>2. \A y \in DOMAIN archetypes.comps : Components(y) \subseteq Comp
    BY <1>8 DEF Components
  <2>3. QED
    BY <1>1, <1>17, <2>1, <2>2 DEF ColumnsParallel, Components
<1>19. ListTypes'
  <2>1. index_members' \in [NonEmpty -> Seq(Entity)]
    <3>1. ASSUME NEW x \in NonEmpty PROVE index_members'[x] \in Seq(Entity)
      <4>1. CASE x = a
        <5>1. a # EMPTY /\ index_members'[x] = r
          BY <1>4, <4>1 DEF NonEmpty
        <5>2. QED
          BY <1>6, <5>1
      <4>2. CASE x # a
        BY <1>4, <1>5, <4>2 DEF ListTypes
      <4>3. QED
        BY <4>1, <4>2
    <3>2. QED
      BY <1>3, <3>1
  <2>2. comp_members' \in [NonEmpty -> [Comp -> Seq(Entity)]]
    BY <1>3, <1>17
  <2>3. \A y \in NonEmpty \ DOMAIN archetypes.comps :
          index_members'[y] = <<>> /\ \A c \in Comp : comp_members'[y][c] = <<>>
    <3> SUFFICES ASSUME NEW y \in NonEmpty, y \notin DOMAIN archetypes.comps
                 PROVE  index_members'[y] = <<>> /\ \A c \in Comp : comp_members'[y][c] = <<>>
      OBVIOUS
    <3>1. index_members[y] = <<>> /\ \A c \in Comp : comp_members[y][c] = <<>>
      BY DEF ListTypes
    <3>2. index_members'[y] = index_members[y]
      BY <1>2, <1>4
    <3>3. \A c \in Comp : comp_members'[y][c] = comp_members[y][c]
      BY <1>17
    <3>4. QED
      BY <3>1, <3>2, <3>3
  <2>4. \A y \in NonEmpty : \A i \in DOMAIN index_members'[y] : index_members'[y][i] \notin unused
    BY <1>14 DEF CoreInv, DeadAlone
  <2>5. QED
    BY <1>1, <1>7, <2>1, <2>2, <2>3, <2>4 DEF ListTypes
<1>20. DeadSlotsFree'
  BY <1>1 DEF DeadSlotsFree
<1>21. Careful'
  <2>1. condemned = {}
    BY <1>1 DEF CoreInv, CondemnedQueued, ToSet
  <2> PICK c : c = condemned'
    OBVIOUS
  <2>2. c = {}
    BY <1>1, <2>1
  <2>3. Below(c)' \subseteq {}
    BY <2>2, BelowLater
  <2>4. QED
    BY <2>3 DEF Careful
<1>22. QED
  BY <1>16, <1>18, <1>19, <1>20, <1>21

\* One that is back where it was, or was filed without a change, stays.
LEMMA ReshapeStays ==
  ASSUME CoreInv, ListsInv, NEW e, NEW a, Reshape(e, a), a = archetype[e]
  PROVE  ListsInv'
<1> USE DEF ListsInv
<1>1. /\ phase = "reshape" /\ <<e, a>> \in reshaped /\ reshaped' = reshaped \ {<<e, a>>}
      /\ index_in_archetype' = index_in_archetype
      /\ UNCHANGED <<unused, alive, archetype, archetypes, dead, condemned, phase>>
  BY DEF Reshape, flushing
<1>2. index_members' = index_members
  <2>1. index_members' = [x \in NonEmpty |-> index_members[x]]
    BY DEF Reshape
  <2>2. QED
    BY <2>1 DEF ListTypes
<1>3. comp_members' = comp_members
  <2>1. comp_members' = [x \in NonEmpty |-> [c \in Comp |-> comp_members[x][c]]]
    BY DEF Reshape
  <2>2. comp_members \in [NonEmpty -> [Comp -> Seq(Entity)]]
    BY DEF ListTypes
  <2>3. \A x \in NonEmpty : [c \in Comp |-> comp_members[x][c]] = comp_members[x]
    BY <2>2
  <2>4. comp_members' = [x \in NonEmpty |-> comp_members[x]]
    BY <2>1, <2>3
  <2>5. QED
    BY <2>2, <2>4
<1>4. alive \subseteq Entity /\ e \in Entity /\ Original(e) = a
  <2>1. alive \subseteq Entity /\ e \in Entity
    BY <1>1 DEF CoreInv, CoreTypes
  <2>2. QED
    BY <1>1, <2>1, OriginalIs
<1>5. \A d \in Entity : Original(d)' = Original(d)
  <2>1. Reshaped(e)' = {}
    BY <1>1 DEF Reshaped, CoreInv, ReshapedOnce
  <2>2. Original(e)' = archetype[e]
    BY <1>1, <2>1 DEF Original
  <2>3. ASSUME NEW d \in Entity \ {e} PROVE Original(d)' = Original(d)
    <3>1. Reshaped(d)' = Reshaped(d) /\ archetype'[d] = archetype[d]
      BY <1>1 DEF Reshaped
    <3>2. QED
      BY <3>1 DEF Original
  <2>4. QED
    BY <1>4, <2>2, <2>3
<1>6. ListTypes'
  BY <1>1, <1>2, <1>3 DEF ListTypes
<1>7. PositionsKnown'
  <2>1. ASSUME NEW x \in alive', Original(x)' # EMPTY
        PROVE  /\ index_in_archetype'[x] \in DOMAIN index_members'[Original(x)']
               /\ index_members'[Original(x)'][index_in_archetype'[x]] = x
    <3>1. x \in alive /\ Original(x)' = Original(x)
      BY <1>1, <1>4, <1>5
    <3>2. QED
      BY <1>1, <1>2, <2>1, <3>1 DEF PositionsKnown
  <2>2. ASSUME NEW y \in NonEmpty, NEW i \in DOMAIN index_members'[y], NEW x,
               x = index_members'[y][i]
        PROVE  IF x \in alive' THEN Original(x)' = y /\ index_in_archetype'[x] = i
                               ELSE <<y, i>> \in dead'
    <3>1. IF x \in alive THEN Original(x) = y /\ index_in_archetype[x] = i ELSE <<y, i>> \in dead
      BY <1>2, <2>2 DEF PositionsKnown
    <3>2. alive' = alive /\ dead' = dead
      BY <1>1
    <3>3. x \in alive => Original(x)' = Original(x)
      BY <1>4, <1>5
    <3>4. QED
      BY <1>1, <3>1, <3>2, <3>3
  <2>3. \A x \in alive' : Original(x)' # EMPTY =>
          /\ index_in_archetype'[x] \in DOMAIN index_members'[Original(x)']
          /\ index_members'[Original(x)'][index_in_archetype'[x]] = x
    BY <2>1
  <2>4. \A y \in NonEmpty : \A i \in DOMAIN index_members'[y] : \A x :
          x = index_members'[y][i] =>
            IF x \in alive' THEN Original(x)' = y /\ index_in_archetype'[x] = i
                            ELSE <<y, i>> \in dead'
    BY <2>2
  <2>5. QED
    BY ONLY <2>3, <2>4, PositionsLater
<1>8. ColumnsParallel'
  BY <1>1, <1>2, <1>3 DEF ColumnsParallel, Components
<1>9. DeadSlotsFree'
  BY <1>1, <1>2 DEF DeadSlotsFree
<1>10. Careful'
  <2>1. condemned = {}
    BY <1>1 DEF CoreInv, CondemnedQueued, ToSet
  <2> PICK c : c = condemned'
    OBVIOUS
  <2>2. c = {}
    BY <1>1, <2>1
  <2>3. Below(c)' \subseteq {}
    BY <2>2, BelowLater
  <2>4. QED
    BY <2>3 DEF Careful
<1>11. QED
  BY <1>6, <1>7, <1>8, <1>9, <1>10

LEMMA StepLists ==
  ASSUME Reckless = FALSE, CoreInv, CoreInv', ListsInv, [Next]_vars
  PROVE  ListsInv'
<1>1. CASE GameStep
  <2>1. Careful' /\ UNCHANGED <<flushing, phase>> /\ (phase' \in {"run", "reshape"} => dead = {})
    BY <1>1 DEF GameStep, ListsInv, DeadSlotsFree
  <2>2. ASSUME NEW e \in Entity, NEW p \in Entity, New(e, p) PROVE ListsInv'
    BY <2>1, <2>2, NewLists
  <2>3. ASSUME NEW e \in Entity, NEW p \in Entity \cup {None}, SetParent(e, p) PROVE ListsInv'
    BY <2>1, <2>3, ListsSame DEF SetParent, shape, flushing
  <2>4. ASSUME NEW e \in Entity, NEW c \in Comp, Add(e, c) PROVE ListsInv'
    BY <2>1, <2>4, AddLists
  <2>5. ASSUME NEW e \in Entity, Destroy(e) PROVE ListsInv'
    BY <2>1, <2>5, ListsSame DEF Destroy, shape, flushing
  <2>6. QED
    BY <1>1, <2>2, <2>3, <2>4, <2>5 DEF GameStep
<1>2. CASE Kill
  BY <1>2, KillLists
<1>3. ASSUME NEW d \in dead, Reap(d[1], d[2]) PROVE ListsInv'
  BY <1>3, ReapLists
<1>4. ASSUME NEW r \in reshaped, Reshape(r[1], r[2]) PROVE ListsInv'
  BY <1>4, ReshapeMoves, ReshapeStays
<1>5. ASSUME UNCHANGED <<unused, alive, children, condemned, members, archetype, archetypes,
                         reshaped, dead>>,
             phase' \in {"run", "reshape"} => phase \in {"run", "reshape"} \/ dead = {}
      PROVE  ListsInv'
  <2>1. Careful'
    BY <1>5, CarefulSame DEF ListsInv
  <2>2. phase' \in {"run", "reshape"} => dead = {}
    BY <1>5 DEF ListsInv, DeadSlotsFree
  <2>3. QED
    BY <1>5, <2>1, <2>2, ListsSame
<1>6. CASE FlushTake
  BY <1>5, <1>6 DEF FlushTake, tree, shape
<1>7. CASE HandlerEnd
  BY <1>5, <1>7 DEF HandlerEnd, tree, shape, flushing
<1>8. CASE RemoveComponents
  BY <1>5, <1>8 DEF RemoveComponents, tree
<1>9. CASE QueueEmpty
  BY <1>5, <1>9 DEF QueueEmpty, tree, shape, flushing
<1>10. CASE ReapEnd
  BY <1>5, <1>10 DEF ReapEnd, tree, shape, flushing
<1>11. CASE FlushEnd
  BY <1>5, <1>11 DEF FlushEnd, tree, shape, flushing
<1>12. CASE UNCHANGED vars
  BY <1>5, <1>12 DEF vars, tree, shape, flushing
<1>13. QED
  BY <1>1, <1>2, <1>3, <1>4, <1>6, <1>7, <1>8, <1>9, <1>10, <1>11, <1>12 DEF Next, FlushStep

\* A game that does not destroy what it reshaped in the same tick finds every living entity
\* at its cached position, in the list and in all the columns of its archetype, at any
\* moment of a flush (Entity::flush, destroy_now).
THEOREM ListsAreKept == Reckless = FALSE => (Spec => []ListsKept)
<1> SUFFICES ASSUME Reckless = FALSE PROVE Spec => []ListsKept
  OBVIOUS
<1>1. Init => ListsInv
  BY InitLists
<1>2. CoreInv /\ CoreInv' /\ ListsInv /\ [Next]_vars => ListsInv'
  BY StepLists
<1>3. ListsInv => ListsKept
  BY DEF ListsInv, ListsKept
<1>4. QED
  BY <1>1, <1>2, <1>3, CoreInvariant, PTL DEF Spec

\* The types, and the parents, the children and their cached positions, agree through
\* moves, swap-removals and recursive deaths (set_parent, destroy_now).
THEOREM StoreIsWellFormed == Reckless = FALSE => (Spec => []StoreWellFormed)
<1> SUFFICES ASSUME Reckless = FALSE PROVE Spec => []StoreWellFormed
  OBVIOUS
<1>1. Init => ListsInv
  BY InitLists
<1>2. CoreInv /\ CoreInv' /\ ListsInv /\ [Next]_vars => ListsInv'
  BY StepLists
<1>3. CoreInv /\ ListsInv => StoreWellFormed
  <2> SUFFICES ASSUME CoreInv, ListsInv PROVE TypeOK
    BY DEF CoreInv, StoreWellFormed
  <2>1. /\ StoreSound(archetypes) /\ DOMAIN archetypes.comps \subseteq ArchetypeId
        /\ DOMAIN archetypes.comps \ {EMPTY} \subseteq NonEmpty
    BY ArchetypeIds DEF CoreInv
  <2>2. archetypes.comps \in Seq(SUBSET Comp) /\ Len(archetypes.comps) <= 2 ^ Cardinality(Comp)
    <3>1. archetypes.comps \in Seq(SUBSET Comp) /\ Len(archetypes.comps) >= 1
      BY <2>1 DEF StoreSound
    <3> PICK n \in Nat : n = Len(archetypes.comps)
      BY <3>1
    <3>2. n \in DOMAIN archetypes.comps
      BY <3>1
    <3>3. n \in 1..2 ^ Cardinality(Comp)
      BY <2>1, <3>2 DEF ArchetypeId
    <3>4. QED
      BY <3>1, <3>3
  <2>3. reshaped \subseteq Entity \X ArchetypeId
    BY <2>1 DEF CoreInv, CoreTypes
  <2>4. dead \subseteq NonEmpty \X Nat
    BY <2>1 DEF ListsInv, ListTypes
  <2>5. \A a \in NonEmpty : comp_members[a] \in [Comp -> Seq(Entity)]
    BY DEF ListsInv, ListTypes
  <2>6. QED
    BY <2>2, <2>3, <2>4, <2>5 DEF TypeOK, CoreInv, CoreTypes, ListsInv, ListTypes
<1>4. QED
  BY <1>1, <1>2, <1>3, CoreInvariant, PTL DEF Spec

----------------------------------------------------------------------------
(* Induction, over a set of naturals in place of a predicate *)

LEMMA LeastNatural ==
  ASSUME NEW T, T \subseteq Nat, T # {}
  PROVE  \E m \in T : \A k \in T : m <= k
<1> DEFINE R == OpToRel(<, Nat)
<1>1. IsWellFoundedOn(R, Nat)
  BY NatLessThanWellFounded
<1>2. \A x, y \in Nat : x < y => <<x, y>> \in R
  BY DEF OpToRel
<1> HIDE DEF R
<1>3. PICK m \in T : \A y \in T : ~ (<<y, m>> \in R)
  BY <1>1, WFMin
<1>4. \A k \in T : m <= k
  <2> SUFFICES ASSUME NEW k \in T PROVE m <= k
    OBVIOUS
  <2>1. k \in Nat /\ m \in Nat
    OBVIOUS
  <2>2. ~ (<<k, m>> \in R)
    BY <1>3
  <2>3. k < m => <<k, m>> \in R
    BY <1>2, <2>1
  <2>4. QED
    BY <2>1, <2>2, <2>3
<1>5. QED
  BY <1>4

LEMMA NaturalsIn ==
  ASSUME NEW P, 0 \in P, \A n \in Nat : n \in P => n + 1 \in P
  PROVE  Nat \subseteq P
<1> DEFINE T == Nat \ P
<1> SUFFICES ASSUME T # {} PROVE FALSE
  OBVIOUS
<1>1. T \subseteq Nat
  OBVIOUS
<1> HIDE DEF T
<1>2. PICK m \in T : \A k \in T : m <= k
  BY <1>1, LeastNatural
<1>3. m \in Nat /\ m \notin P /\ m # 0
  BY DEF T
<1>4. m - 1 \in Nat /\ ~(m <= m - 1) /\ (m - 1) + 1 = m
  BY <1>3
<1>5. m - 1 \notin T
  BY <1>2, <1>4
<1>6. m - 1 \in P
  BY <1>4, <1>5 DEF T
<1>7. QED
  BY <1>3, <1>4, <1>6

----------------------------------------------------------------------------
(* What FlattenSeq computes *)

\* The first k of some lists, one after the other.
Chain(lists, k, f) == f = [i \in 1..k |-> IF i = 1 THEN lists[i] ELSE f[i - 1] \o lists[i]]

LEMMA ChainExists ==
  ASSUME NEW lists, NEW n \in Nat
  PROVE  \E f : Chain(lists, n, f)
<1> DEFINE P == {k \in Nat : \E f : Chain(lists, k, f)}
<1>1. 0 \in P
  <2>1. Chain(lists, 0, [i \in 1..0 |-> lists])
    BY DEF Chain
  <2>2. QED
    BY <2>1
<1>2. \A k \in Nat : k \in P => k + 1 \in P
  <2> SUFFICES ASSUME NEW k \in Nat, k \in P PROVE \E f : Chain(lists, k + 1, f)
    OBVIOUS
  <2>1. PICK f : Chain(lists, k, f)
    OBVIOUS
  <2> DEFINE g == [i \in 1..(k + 1) |->
        IF i = k + 1 THEN (IF i = 1 THEN lists[i] ELSE f[k] \o lists[i]) ELSE f[i]]
  <2>2. \A i \in 1..k : f[i] = IF i = 1 THEN lists[i] ELSE f[i - 1] \o lists[i]
    BY <2>1 DEF Chain
  <2>3. \A i \in 1..(k + 1) : g[i] = IF i = 1 THEN lists[i] ELSE g[i - 1] \o lists[i]
    <3> SUFFICES ASSUME NEW i \in 1..(k + 1)
                 PROVE  g[i] = IF i = 1 THEN lists[i] ELSE g[i - 1] \o lists[i]
      OBVIOUS
    <3>1. CASE i = 1
      BY <2>2, <3>1
    <3>2. CASE i # 1
      <4>1. i - 1 \in 1..k /\ i - 1 # k + 1 /\ i - 1 \in 1..(k + 1)
        BY <3>2
      <4>2. g[i - 1] = f[i - 1]
        BY <4>1
      <4>3. CASE i = k + 1
        <5>1. i - 1 = k
          BY <4>3
        <5>2. g[i] = f[k] \o lists[i]
          BY <3>2, <4>3
        <5>3. QED
          BY <3>2, <4>2, <5>1, <5>2
      <4>4. CASE i # k + 1
        <5>1. i \in 1..k /\ g[i] = f[i]
          BY <4>4
        <5>2. f[i] = f[i - 1] \o lists[i]
          BY <2>2, <3>2, <5>1
        <5>3. QED
          BY <3>2, <4>2, <5>1, <5>2
      <4>5. QED
        BY <4>3, <4>4
    <3>3. QED
      BY <3>1, <3>2
  <2>4. g = [i \in 1..(k + 1) |-> g[i]]
    OBVIOUS
  <2> HIDE DEF g
  <2>5. [i \in 1..(k + 1) |-> g[i]]
        = [i \in 1..(k + 1) |-> IF i = 1 THEN lists[i] ELSE g[i - 1] \o lists[i]]
    BY <2>3
  <2>6. Chain(lists, k + 1, g)
    BY <2>4, <2>5, Zenon DEF Chain
  <2>7. QED
    BY <2>6
<1> HIDE DEF P
<1>3. n \in P
  BY <1>1, <1>2, NaturalsIn
<1>4. QED
  BY <1>3 DEF P

LEMMA FlattenChain ==
  ASSUME NEW lists, Len(lists) # 0, NEW n \in Nat, n = Len(lists)
  PROVE  \E f : Chain(lists, n, f) /\ FlattenSeq(lists) = f[n]
<1> DEFINE flat == CHOOSE f : Chain(lists, n, f)
<1>1. Chain(lists, n, flat)
  BY ChainExists
<1>2. FlattenSeq(lists) =
        (CHOOSE f : f = [i \in 1..Len(lists) |-> IF i = 1 THEN lists[i] ELSE f[i - 1] \o lists[i]])[Len(lists)]
  BY Zenon DEF FlattenSeq
<1>3. FlattenSeq(lists) = flat[n]
  BY <1>2, Zenon DEF Chain
<1>4. QED
  BY <1>1, <1>3

----------------------------------------------------------------------------
LEMMA ConcatIs ==
  ASSUME NEW X, NEW s \in Seq(X), NEW r \in Seq(X)
  PROVE  /\ s \o r \in Seq(X) /\ Len(s \o r) = Len(s) + Len(r)
         /\ \A i \in 1..Len(s) : (s \o r)[i] = s[i]
         /\ \A i \in 1..Len(r) : (s \o r)[Len(s) + i] = r[i]
         /\ \A i \in 1..(Len(s) + Len(r)) : i > Len(s) => (s \o r)[i] = r[i - Len(s)]
OBVIOUS

\* What is written out of lists: nothing but their elements, all of them, and each once if
\* the lists have each but once.
Apart(lists) ==
  \A i, j \in DOMAIN lists : \A k \in DOMAIN lists[i], l \in DOMAIN lists[j] :
    lists[i][k] = lists[j][l] => i = j /\ k = l

\* f is the first k lists, written one after the other.
Written(X, lists, k, f) ==
  /\ f \in Seq(X)
  /\ \A m \in DOMAIN f : \E i \in 1..k : \E l \in DOMAIN lists[i] : f[m] = lists[i][l]
  /\ \A i \in 1..k : \A l \in DOMAIN lists[i] : \E m \in DOMAIN f : f[m] = lists[i][l]
  /\ Apart(lists) => \A m, q \in DOMAIN f : f[m] = f[q] => m = q

LEMMA WrittenFirst ==
  ASSUME NEW X, NEW lists \in Seq(Seq(X)), Len(lists) >= 1
  PROVE  Written(X, lists, 1, lists[1])
<1>1. lists[1] \in Seq(X) /\ 1 \in DOMAIN lists /\ 1..1 = {1}
  OBVIOUS
<1>2. QED
  BY <1>1 DEF Written, Apart

LEMMA WrittenNext ==
  ASSUME NEW X, NEW lists \in Seq(Seq(X)), NEW k \in Nat, k >= 1, k < Len(lists),
         NEW f, Written(X, lists, k, f)
  PROVE  Written(X, lists, k + 1, f \o lists[k + 1])
<1> DEFINE r == lists[k + 1]
           g == f \o r
<1>1. f \in Seq(X) /\ r \in Seq(X) /\ k + 1 \in DOMAIN lists /\ 1..k \subseteq DOMAIN lists
  BY DEF Written
<1> PICK n \in Nat : n = Len(f)
  BY <1>1
<1> PICK m \in Nat : m = Len(r)
  BY <1>1
<1>2. /\ g \in Seq(X) /\ Len(g) = n + m
      /\ \A i \in 1..n : g[i] = f[i]
      /\ \A i \in 1..m : g[n + i] = r[i]
      /\ \A i \in 1..(n + m) : i > n => g[i] = r[i - n]
  BY <1>1, ConcatIs
<1> HIDE DEF g
<1>3. DOMAIN f = 1..n /\ DOMAIN r = 1..m /\ DOMAIN g = 1..(n + m)
  BY <1>1, <1>2
<1>4. \A i \in 1..(k + 1) : i \in 1..k \/ i = k + 1
  OBVIOUS
<1>4a. 1..k \subseteq 1..(k + 1) /\ k + 1 \in 1..(k + 1) /\ k + 1 \notin 1..k
  OBVIOUS
<1>5. \A q \in 1..(n + m) : q \in 1..n \/ (q > n /\ q - n \in 1..m)
  OBVIOUS
<1>5a. 1..n \subseteq 1..(n + m) /\ \A i \in 1..m : n + i \in 1..(n + m)
  OBVIOUS
<1> HIDE DEF r
<1>6. \A q \in DOMAIN g : \E i \in 1..(k + 1) : \E l \in DOMAIN lists[i] : g[q] = lists[i][l]
  <2> SUFFICES ASSUME NEW q \in 1..(n + m)
               PROVE  \E i \in 1..(k + 1) : \E l \in DOMAIN lists[i] : g[q] = lists[i][l]
    BY <1>3
  <2>1. CASE q \in 1..n
    <3>1. \E i \in 1..k : \E l \in DOMAIN lists[i] : f[q] = lists[i][l]
      BY <1>3, <2>1 DEF Written
    <3>2. QED
      BY <1>2, <1>4a, <2>1, <3>1
  <2>2. CASE q > n /\ q - n \in 1..m
    <3>1. g[q] = r[q - n] /\ q - n \in DOMAIN r
      BY <1>2, <1>3, <2>2
    <3>2. QED
      BY <1>4a, <3>1 DEF r
  <2>3. QED
    BY <1>5, <2>1, <2>2
<1>7. \A i \in 1..(k + 1) : \A l \in DOMAIN lists[i] : \E q \in DOMAIN g : g[q] = lists[i][l]
  <2> SUFFICES ASSUME NEW i \in 1..(k + 1), NEW l \in DOMAIN lists[i]
               PROVE  \E q \in DOMAIN g : g[q] = lists[i][l]
    OBVIOUS
  <2>1. CASE i \in 1..k
    <3>1. PICK q \in DOMAIN f : f[q] = lists[i][l]
      BY <2>1 DEF Written
    <3>2. q \in DOMAIN g /\ g[q] = f[q]
      BY <1>2, <1>3, <1>5a
    <3>3. QED
      BY <3>1, <3>2
  <2>2. CASE i = k + 1
    <3>1. l \in 1..m /\ lists[i][l] = r[l]
      BY <1>3, <2>2 DEF r
    <3>2. n + l \in DOMAIN g /\ g[n + l] = r[l]
      BY <1>2, <1>3, <1>5a, <3>1
    <3>3. QED
      BY <3>1, <3>2
  <2>3. QED
    BY <1>4, <2>1, <2>2
<1>8. ASSUME Apart(lists), NEW p \in DOMAIN g, NEW q \in DOMAIN g, g[p] = g[q] PROVE p = q
  <2>1. \A v \in 1..n : \E i \in 1..k : \E l \in DOMAIN lists[i] : f[v] = lists[i][l]
    BY <1>3 DEF Written
  <2>2. \A v \in 1..n, w \in 1..m : f[v] # r[w]
    <3> SUFFICES ASSUME NEW v \in 1..n, NEW w \in 1..m, f[v] = r[w] PROVE FALSE
      OBVIOUS
    <3>1. PICK i \in 1..k : \E l \in DOMAIN lists[i] : f[v] = lists[i][l]
      BY <2>1
    <3>2. PICK l \in DOMAIN lists[i] : f[v] = lists[i][l]
      BY <3>1
    <3>3. w \in DOMAIN lists[k + 1] /\ lists[i][l] = lists[k + 1][w]
      BY <1>3, <3>2 DEF r
    <3>4. i \in DOMAIN lists /\ i # k + 1
      BY <1>1, <1>4a
    <3>5. QED
      BY <1>1, <1>8, <3>3, <3>4 DEF Apart
  <2>3. CASE p \in 1..n /\ q \in 1..n
    <3>1. f[p] = f[q]
      BY <1>2, <1>8, <2>3
    <3>2. QED
      BY <1>3, <1>8, <2>3, <3>1 DEF Written
  <2>4. CASE p \in 1..n /\ q > n /\ q - n \in 1..m
    <3>1. g[p] = f[p] /\ g[q] = r[q - n]
      BY <1>2, <1>3, <1>8, <2>4
    <3>2. f[p] # r[q - n]
      BY <2>2, <2>4
    <3>3. QED
      BY <1>8, <3>1, <3>2
  <2>5. CASE q \in 1..n /\ p > n /\ p - n \in 1..m
    <3>1. g[q] = f[q] /\ g[p] = r[p - n]
      BY <1>2, <1>3, <1>8, <2>5
    <3>2. f[q] # r[p - n]
      BY <2>2, <2>5
    <3>3. QED
      BY <1>8, <3>1, <3>2
  <2>6. CASE p > n /\ p - n \in 1..m /\ q > n /\ q - n \in 1..m
    <3>1. r[p - n] = r[q - n]
      BY <1>2, <1>3, <1>8, <2>6
    <3>2. \A v, w \in DOMAIN lists[k + 1] : lists[k + 1][v] = lists[k + 1][w] => v = w
      BY ONLY <1>1, <1>8 DEF Apart
    <3>3. \A v, w \in 1..m : r[v] = r[w] => v = w
      BY ONLY <1>3, <3>2 DEF r
    <3>4. p - n = q - n
      BY ONLY <2>6, <3>1, <3>3
    <3>5. QED
      BY <1>3, <3>4
  <2>7. QED
    BY <1>3, <1>5, <2>3, <2>4, <2>5, <2>6
<1>9. Written(X, lists, k + 1, g)
  BY <1>2, <1>6, <1>7, <1>8 DEF Written
<1>10. QED
  BY <1>9 DEF g, r

LEMMA FlattenWritten ==
  ASSUME NEW X, NEW lists \in Seq(Seq(X)), Len(lists) >= 1
  PROVE  Written(X, lists, Len(lists), FlattenSeq(lists))
<1> PICK n \in Nat : n = Len(lists)
  OBVIOUS
<1>1. n >= 1
  OBVIOUS
<1>2. PICK f : Chain(lists, n, f) /\ FlattenSeq(lists) = f[n]
  BY <1>1, FlattenChain
<1>3. \A i \in 1..n : f[i] = IF i = 1 THEN lists[i] ELSE f[i - 1] \o lists[i]
  BY <1>2 DEF Chain
<1> DEFINE P == {k \in Nat : k < n => Written(X, lists, k + 1, f[k + 1])}
<1>4. 0 \in P
  <2>1. f[1] = lists[1]
    BY <1>1, <1>3
  <2>2. QED
    BY <1>1, <2>1, WrittenFirst
<1>5. \A k \in Nat : k \in P => k + 1 \in P
  <2> SUFFICES ASSUME NEW k \in Nat, k \in P, k + 1 < n
               PROVE  Written(X, lists, k + 1 + 1, f[k + 1 + 1])
    OBVIOUS
  <2> PICK j \in Nat : j = k + 1
    OBVIOUS
  <2>1. Written(X, lists, j, f[j])
    OBVIOUS
  <2>2. f[j + 1] = f[j] \o lists[j + 1]
    <3> PICK i \in 1..n : i = j + 1
      OBVIOUS
    <3>1. i # 1 /\ i - 1 = j
      OBVIOUS
    <3>2. f[i] = f[i - 1] \o lists[i]
      BY <1>3, <3>1
    <3>3. QED
      BY <3>1, <3>2
  <2>3. j >= 1 /\ j < Len(lists)
    OBVIOUS
  <2>4. QED
    BY <2>1, <2>2, <2>3, WrittenNext
<1> HIDE DEF P
<1> PICK m \in Nat : m + 1 = n
  <2>1. n - 1 \in Nat /\ (n - 1) + 1 = n
    BY <1>1
  <2>2. QED
    BY <2>1
<1>5a. Nat \subseteq P
  BY ONLY <1>4, <1>5, NaturalsIn
<1>6. m \in P
  BY <1>5a
<1>7. m < n
  OBVIOUS
<1>8. Written(X, lists, m + 1, f[m + 1])
  BY <1>6, <1>7 DEF P
<1>9. QED
  BY <1>2, <1>8

----------------------------------------------------------------------------
(* What archetypes_with_set finds *)

\* The list of a component holds the archetypes with it, each once and in order.
WithSound(s) ==
  \A c \in Comp :
    /\ \A i, j \in 1..Len(s.with[c]) : i < j => s.with[c][i] < s.with[c][j]
    /\ \A i \in 1..Len(s.with[c]) :
         s.with[c][i] \in 1..Len(s.comps) /\ c \in s.comps[s.with[c][i]]
    /\ \A a \in 1..Len(s.comps) : c \in s.comps[a] =>
         \E i \in 1..Len(s.with[c]) : s.with[c][i] = a

LEMMA WithExtended ==
  ASSUME NEW s, StoreSound(s), WithSound(s), NEW base \in 1..Len(s.comps), NEW c \in Comp
  PROVE  WithSound(Extended(s, base, c))
<1> PICK n \in Nat : n = Len(s.comps)
  BY DEF StoreSound
<1> DEFINE t == Target(s, base, c)
           u == Extended(s, base, c)
           set == s.comps[base] \cup {c}
           linked == [s.pos EXCEPT ![base][c] = t]
<1>1. /\ s.comps \in Seq(SUBSET Comp) /\ s.with \in [Comp -> Seq(Nat)]
      /\ DOMAIN s.comps = 1..n
  BY DEF StoreSound
<1>2. set \in SUBSET Comp
  BY <1>1
<1>3. \/ t \in 1..n
      \/ t = n + 1
  <2>1. CASE s.pos[base][c] # Unknown
    BY <1>1, <2>1 DEF Target, StoreSound
  <2>2. CASE s.pos[base][c] = Unknown /\ Existing(s, set) # {}
    <3>1. t \in Existing(s, set)
      BY <2>2 DEF Target
    <3>2. QED
      BY <1>1, <3>1 DEF Existing
  <2>3. CASE s.pos[base][c] = Unknown /\ Existing(s, set) = {}
    BY <1>1, <2>3 DEF Target
  <2>4. QED
    BY <2>1, <2>2, <2>3
<1> HIDE DEF t, set, linked
<1>4. CASE t \in 1..n
  <2>1. u = [s EXCEPT !.pos = linked]
    BY <1>1, <1>4 DEF Extended, t, linked
  <2>2. u = [comps |-> s.comps, pos |-> linked, with |-> s.with]
    BY <2>1 DEF StoreSound
  <2> HIDE DEF u
  <2>3. u.comps = s.comps /\ u.with = s.with
    BY <2>2
  <2>4. WithSound(u)
    BY <2>3 DEF WithSound
  <2>5. QED
    BY <2>4 DEF u
<1>5. CASE t = n + 1
  <2> DEFINE comps == Append(s.comps, set)
             with == [d \in Comp |-> IF d \in Joined(set, c) THEN Append(s.with[d], t)
                                                             ELSE s.with[d]]
  <2>1. t \notin DOMAIN s.comps
    BY <1>1, <1>5
  <2>2. u = [comps |-> comps, pos |-> Append(linked, [d \in Comp |-> Unknown]), with |-> with]
    BY <2>1 DEF Extended, t, linked, set
  <2>3. /\ Len(comps) = n + 1 /\ comps[n + 1] = set
        /\ \A a \in 1..n : comps[a] = s.comps[a]
    BY <1>1, <1>2, AppendProperties
  <2>4. \A d \in Comp : with[d] = IF d \in set THEN Append(s.with[d], n + 1) ELSE s.with[d]
    BY <1>5 DEF Joined
  <2> HIDE DEF comps, with, u
  <2>5. u.comps = comps /\ u.with = with
    BY <2>2
  <2>6. 1..n \subseteq 1..(n + 1) /\ n + 1 \in 1..(n + 1)
        /\ \A a \in 1..(n + 1) : a \in 1..n \/ a = n + 1
    OBVIOUS
  <2>7. ASSUME NEW d \in Comp
        PROVE  /\ \A i, j \in 1..Len(u.with[d]) : i < j => u.with[d][i] < u.with[d][j]
               /\ \A i \in 1..Len(u.with[d]) :
                    u.with[d][i] \in 1..(n + 1) /\ d \in u.comps[u.with[d][i]]
               /\ \A a \in 1..(n + 1) : d \in u.comps[a] =>
                    \E i \in 1..Len(u.with[d]) : u.with[d][i] = a
    <3> DEFINE v == s.with[d]
               w == u.with[d]
    <3>1. v \in Seq(Nat)
      BY <1>1
    <3>2. /\ \A i, j \in 1..Len(v) : i < j => v[i] < v[j]
          /\ \A i \in 1..Len(v) : v[i] \in 1..n /\ d \in s.comps[v[i]]
          /\ \A a \in 1..n : d \in s.comps[a] => \E i \in 1..Len(v) : v[i] = a
      BY DEF WithSound
    <3> HIDE DEF v
    <3>3. CASE d \notin set
      <4>1. w = v
        BY <2>4, <2>5, <3>3 DEF v
      <4>2. \A i \in 1..Len(v) : v[i] \in 1..(n + 1) /\ d \in u.comps[v[i]]
        BY <2>3, <2>5, <2>6, <3>2
      <4>3. \A a \in 1..(n + 1) : d \in u.comps[a] => a \in 1..n /\ d \in s.comps[a]
        BY <2>3, <2>5, <2>6, <3>3
      <4>4. QED
        BY <3>2, <4>1, <4>2, <4>3
    <3>4. CASE d \in set
      <4>1. w = Append(v, n + 1)
        BY <2>4, <2>5, <3>4 DEF v
      <4> PICK m \in Nat : m = Len(v)
        BY <3>1
      <4> HIDE DEF w
      <4>2. /\ w \in Seq(Nat) /\ Len(w) = m + 1 /\ w[m + 1] = n + 1
            /\ \A i \in 1..m : w[i] = v[i]
        BY <3>1, <4>1, AppendProperties
      <4>3. \A i \in 1..(m + 1) : i \in 1..m \/ i = m + 1
        OBVIOUS
      <4>4. \A i \in 1..(m + 1) : w[i] \in 1..(n + 1) /\ d \in u.comps[w[i]]
        <5> SUFFICES ASSUME NEW i \in 1..(m + 1)
                     PROVE  w[i] \in 1..(n + 1) /\ d \in u.comps[w[i]]
          OBVIOUS
        <5>1. CASE i \in 1..m
          <6>1. w[i] \in 1..n /\ d \in s.comps[w[i]]
            BY <3>2, <4>2, <5>1
          <6>2. QED
            BY <2>3, <2>5, <2>6, <6>1
        <5>2. CASE i = m + 1
          BY <2>3, <2>5, <2>6, <3>4, <4>2, <5>2
        <5>3. QED
          BY <4>3, <5>1, <5>2
      <4>5. \A i, j \in 1..(m + 1) : i < j => w[i] < w[j]
        <5> SUFFICES ASSUME NEW i \in 1..(m + 1), NEW j \in 1..(m + 1), i < j
                     PROVE  w[i] < w[j]
          OBVIOUS
        <5>1. i \in 1..m /\ w[i] = v[i] /\ v[i] \in 1..n
          <6>1. i \in 1..m
            OBVIOUS
          <6>2. QED
            BY <3>2, <4>2, <6>1
        <5>2. CASE j \in 1..m
          <6>1. v[i] < v[j] /\ w[j] = v[j]
            BY <3>2, <4>2, <5>1, <5>2
          <6>2. QED
            BY <5>1, <6>1
        <5>3. CASE j = m + 1
          BY <4>2, <5>1, <5>3
        <5>4. QED
          BY <4>3, <5>2, <5>3
      <4>6. \A a \in 1..(n + 1) : d \in u.comps[a] => \E i \in 1..(m + 1) : w[i] = a
        <5> SUFFICES ASSUME NEW a \in 1..(n + 1), d \in u.comps[a]
                     PROVE  \E i \in 1..(m + 1) : w[i] = a
          OBVIOUS
        <5>1. CASE a \in 1..n
          <6>1. d \in s.comps[a]
            BY <2>3, <2>5, <5>1
          <6>2. PICK i \in 1..m : v[i] = a
            BY <3>2, <5>1, <6>1
          <6>3. i \in 1..(m + 1) /\ w[i] = a
            BY <4>2, <6>2
          <6>4. QED
            BY <6>3
        <5>2. CASE a = n + 1
          <6>1. m + 1 \in 1..(m + 1)
            OBVIOUS
          <6>2. QED
            BY <4>2, <5>2, <6>1
        <5>3. QED
          BY <2>6, <5>1, <5>2
      <4>7. QED
        BY <4>2, <4>4, <4>5, <4>6 DEF w
    <3>5. QED
      BY <3>3, <3>4
  <2>8. Len(u.comps) = n + 1
    BY <2>3, <2>5
  <2>9. WithSound(u)
    BY <2>7, <2>8 DEF WithSound
  <2>10. QED
    BY <2>9 DEF u
<1>6. QED
  BY <1>3, <1>4, <1>5

LEMMA CaughtIs ==
  ASSUME NEW list \in Seq(Nat), NEW key \in Nat, NEW i \in 1..(Len(list) + 1)
  PROVE  LET j == Caught(list, key, i)
         IN /\ j \in i..(Len(list) + 1)
            /\ j > Len(list) \/ list[j] >= key
            /\ \A k \in i..(j - 1) : list[k] < key
<1> PICK n \in Nat : n = Len(list)
  OBVIOUS
<1>1. \A k \in 1..n : list[k] \in Nat
  OBVIOUS
<1>2. i \in 1..(n + 1)
  OBVIOUS
<1> DEFINE T == {j \in i..(n + 1) : j > n \/ list[j] >= key}
<1>3. T \subseteq Nat /\ n + 1 \in T
  BY <1>2
<1> HIDE DEF T
<1>4. PICK j \in T : \A k \in T : j <= k
  BY <1>3, LeastNatural
<1>5. j \in i..(n + 1) /\ (j > n \/ list[j] >= key)
  BY DEF T
<1>6. \A k \in i..(j - 1) : list[k] < key
  <2> SUFFICES ASSUME NEW k \in i..(j - 1) PROVE list[k] < key
    OBVIOUS
  <2>1. k \in i..(n + 1) /\ ~(j <= k) /\ k \in 1..n
    BY <1>2, <1>5
  <2>2. ~(list[k] >= key)
    BY <1>4, <2>1 DEF T
  <2>3. QED
    BY <1>1, <2>1, <2>2
<1>7. \E q \in i..(Len(list) + 1) :
        /\ q > Len(list) \/ list[q] >= key
        /\ \A k \in i..(q - 1) : list[k] < key
  BY <1>5, <1>6
<1>8. QED
  BY <1>7 DEF Caught

\* The operators inside archetypes_with_set.
Lead(s, set) == CHOOSE c \in set : \A d \in set : Len(s.with[c]) <= Len(s.with[d])
CaughtUp(s, set, acc, key) == [c \in set |-> Caught(s.with[c], key, acc.at[c])]
Everywhere(s, set, at, key) == \A c \in set : at[c] \in DOMAIN s.with[c] /\ s.with[c][at[c]] = key
Visited(s, set, acc, key) ==
  LET at == CaughtUp(s, set, acc, key)
  IN [at |-> at, found |-> IF Everywhere(s, set, at, key) THEN Append(acc.found, key) ELSE acc.found]
Untouched(set) == [at |-> [c \in set |-> 1], found |-> <<>>]

\* How FoldLeft computes: over the sets of positions that are left.
Visits(s, set, list, u, f) ==
  IF u = {} THEN Untouched(set) ELSE Visited(s, set, f[u \ {Max(u)}], list[Max(u)])
Folded(s, set, list, p, f) == f = [u \in SUBSET p |-> Visits(s, set, list, u, f)]

LEMMA MaxIs ==
  ASSUME NEW n \in Nat, NEW u, n + 1 \in u, u \subseteq 1..(n + 1)
  PROVE  Max(u) = n + 1
<1>1. \A y \in u : n + 1 >= y /\ y \in Int
  OBVIOUS
<1>2. \E x \in u : \A y \in u : x >= y
  BY <1>1
<1>3. Max(u) \in u /\ \A y \in u : Max(u) >= y
  BY <1>2 DEF Max
<1> PICK m : m = Max(u)
  OBVIOUS
<1>4. m \in Int /\ n + 1 >= m /\ m >= n + 1
  BY <1>1, <1>3
<1>5. QED
  BY <1>4

LEMMA FoldedExists ==
  ASSUME NEW s, NEW set, NEW list, NEW n \in Nat
  PROVE  \E f : Folded(s, set, list, 1..n, f)
<1> DEFINE P == {k \in Nat : \E f : Folded(s, set, list, 1..k, f)}
<1>1. 0 \in P
  <2> DEFINE g == [u \in SUBSET (1..0) |-> Untouched(set)]
  <2>1. \A u \in SUBSET (1..0) : g[u] = Visits(s, set, list, u, g)
    BY DEF Visits
  <2>2. g = [u \in SUBSET (1..0) |-> g[u]]
    OBVIOUS
  <2>3. [u \in SUBSET (1..0) |-> g[u]] = [u \in SUBSET (1..0) |-> Visits(s, set, list, u, g)]
    BY <2>1
  <2> HIDE DEF g
  <2>4. Folded(s, set, list, 1..0, g)
    BY <2>2, <2>3, Zenon DEF Folded
  <2>5. QED
    BY <2>4
<1>2. \A k \in Nat : k \in P => k + 1 \in P
  <2> SUFFICES ASSUME NEW k \in Nat, k \in P
               PROVE  \E f : Folded(s, set, list, 1..(k + 1), f)
    OBVIOUS
  <2>1. PICK f : Folded(s, set, list, 1..k, f)
    OBVIOUS
  <2> HIDE DEF P
  <2> DEFINE g == [u \in SUBSET (1..(k + 1)) |->
        IF k + 1 \in u THEN Visited(s, set, f[u \ {k + 1}], list[k + 1]) ELSE f[u]]
  <2>2. \A u \in SUBSET (1..k) : f[u] = Visits(s, set, list, u, f)
    BY <2>1 DEF Folded
  <2>3. \A u \in SUBSET (1..k) : u \in SUBSET (1..(k + 1)) /\ k + 1 \notin u
    <3>1. 1..k \subseteq 1..(k + 1) /\ k + 1 \notin 1..k
      OBVIOUS
    <3>2. QED
      BY <3>1
  <2>4. \A u \in SUBSET (1..k) : g[u] = f[u]
    BY <2>3
  <2>5. \A u \in SUBSET (1..(k + 1)) : u \ {k + 1} \in SUBSET (1..k)
    <3>1. 1..(k + 1) \subseteq (1..k) \cup {k + 1}
      OBVIOUS
    <3>2. QED
      BY <3>1
  <2>6. \A u \in SUBSET (1..(k + 1)) : g[u] = Visits(s, set, list, u, g)
    <3> SUFFICES ASSUME NEW u \in SUBSET (1..(k + 1)) PROVE g[u] = Visits(s, set, list, u, g)
      OBVIOUS
    <3>1. CASE k + 1 \in u
      <4>1. Max(u) = k + 1 /\ u # {}
        BY <3>1, MaxIs
      <4>2. g[u] = Visited(s, set, f[u \ {k + 1}], list[k + 1])
        BY <3>1
      <4>3. g[u \ {k + 1}] = f[u \ {k + 1}]
        BY <2>4, <2>5
      <4> HIDE DEF g
      <4>4. QED
        BY <4>1, <4>2, <4>3 DEF Visits
    <3>2. CASE k + 1 \notin u
      <4>1. u \in SUBSET (1..k)
        BY <2>5, <3>2
      <4>2. g[u] = f[u] /\ f[u] = Visits(s, set, list, u, f)
        BY <2>2, <2>4, <4>1
      <4>3. u \ {Max(u)} \in SUBSET (1..k)
        BY <4>1
      <4>4. g[u \ {Max(u)}] = f[u \ {Max(u)}]
        BY <2>4, <4>3
      <4> HIDE DEF g
      <4>5. QED
        BY <4>2, <4>4 DEF Visits
    <3>3. QED
      BY <3>1, <3>2
  <2>7. g = [u \in SUBSET (1..(k + 1)) |-> g[u]]
    OBVIOUS
  <2>8. [u \in SUBSET (1..(k + 1)) |-> g[u]]
        = [u \in SUBSET (1..(k + 1)) |-> Visits(s, set, list, u, g)]
    BY <2>6
  <2> HIDE DEF g
  <2>9. Folded(s, set, list, 1..(k + 1), g)
    BY <2>7, <2>8, Zenon DEF Folded
  <2>10. QED
    BY <2>9
<1> HIDE DEF P
<1>3. Nat \subseteq P
  BY ONLY <1>1, <1>2, NaturalsIn
<1>4. n \in P
  BY <1>3
<1>5. QED
  BY <1>4 DEF P

LEMMA FoldIs ==
  ASSUME NEW s, NEW set, NEW list, list = s.with[Lead(s, set)], NEW n \in Nat, DOMAIN list = 1..n
  PROVE  \E f : Folded(s, set, list, 1..n, f) /\ ArchetypesWithSet(s, set) = f[1..n].found
<1> DEFINE fold == CHOOSE f : Folded(s, set, list, DOMAIN list, f)
<1> DEFINE l == s.with[Lead(s, set)]
<1>0. ArchetypesWithSet(s, set) = (CHOOSE f : Folded(s, set, l, DOMAIN l, f))[DOMAIN l].found
  BY Zenon DEF ArchetypesWithSet, FoldLeft, MapThenFoldSet, Folded, Visits, Visited, CaughtUp,
     Everywhere, Lead, Untouched
<1> HIDE DEF l
<1>1. ArchetypesWithSet(s, set) = fold[DOMAIN list].found
  <2>1. list = l
    BY DEF l
  <2>2. QED
    BY ONLY <1>0, <2>1
<1>2. Folded(s, set, list, DOMAIN list, fold)
  <2>1. \E f : Folded(s, set, list, DOMAIN list, f)
    BY FoldedExists
  <2>2. QED
    BY <2>1
<1>3. QED
  BY <1>1, <1>2

\* After the first k archetypes of the list: the other lists are read up to them, and
\* those that all the lists have are found, each once.
Merging(s, set, list, k, acc) ==
  /\ acc.at \in [set -> Nat]
  /\ \A c \in set :
       /\ acc.at[c] \in 1..(Len(s.with[c]) + 1)
       /\ \A i \in 1..(acc.at[c] - 1), j \in 1..Len(list) : j > k => s.with[c][i] < list[j]
  /\ acc.found \in Seq(Nat)
  /\ \A i, j \in 1..Len(acc.found) : acc.found[i] = acc.found[j] => i = j
  /\ \A i \in 1..Len(acc.found) : \E j \in 1..k :
       acc.found[i] = list[j] /\ set \subseteq s.comps[list[j]]
  /\ \A j \in 1..k : set \subseteq s.comps[list[j]] =>
       \E i \in 1..Len(acc.found) : acc.found[i] = list[j]

\* A list that has caught up with an archetype stands at it, or does not have it.
LEMMA StandsAt ==
  ASSUME NEW s, StoreSound(s), WithSound(s), NEW c \in Comp, NEW a \in 1..Len(s.comps),
         NEW j \in 1..(Len(s.with[c]) + 1),
         j > Len(s.with[c]) \/ s.with[c][j] >= a,
         \A k \in 1..(j - 1) : s.with[c][k] < a
  PROVE  (j \in 1..Len(s.with[c]) /\ s.with[c][j] = a) <=> c \in s.comps[a]
<1> DEFINE v == s.with[c]
<1>1. v \in Seq(Nat) /\ Len(s.comps) \in Nat
  BY DEF StoreSound
<1>2. /\ \A i, k \in 1..Len(v) : i < k => v[i] < v[k]
      /\ \A i \in 1..Len(v) : v[i] \in 1..Len(s.comps) /\ c \in s.comps[v[i]]
      /\ \A b \in 1..Len(s.comps) : c \in s.comps[b] => \E i \in 1..Len(v) : v[i] = b
  BY DEF WithSound
<1>3. \A i \in 1..Len(v) : v[i] \in Nat
  <2>1. \A w : w \in Seq(Nat) => \A i \in 1..Len(w) : w[i] \in Nat
    OBVIOUS
  <2>2. QED
    BY ONLY <1>1, <2>1
<1>4. a \in Nat
  BY <1>1
<1> PICK n : n = Len(v)
  OBVIOUS
<1>4a. n \in Nat
  BY ONLY <1>1, n = Len(v), LenProperties
<1>5. ASSUME c \in s.comps[a] PROVE j \in 1..n /\ v[j] = a
  <2>1. PICK i \in 1..n : v[i] = a
    BY <1>2, <1>5
  <2>2. ~(i < j)
    <3> SUFFICES ASSUME i < j PROVE FALSE
      OBVIOUS
    <3>1. i \in 1..(j - 1)
      OBVIOUS
    <3>2. v[i] < a
      BY <3>1
    <3>3. QED
      BY <1>4, <2>1, <3>2
  <2>3. j \in 1..n /\ v[j] >= a
    BY <2>2
  <2>4. CASE j < i
    <3>1. v[j] < v[i]
      BY <1>2, <2>3, <2>4
    <3>2. QED
      BY <1>3, <1>4, <2>1, <2>3, <3>1
  <2>5. CASE j = i
    BY <2>1, <2>5
  <2>6. QED
    BY <2>2, <2>4, <2>5
<1>6. ASSUME j \in 1..n, v[j] = a PROVE c \in s.comps[a]
  BY <1>2, <1>6
<1>7. QED
  BY <1>5, <1>6

LEMMA VisitMerges ==
  ASSUME NEW s, StoreSound(s), WithSound(s), NEW set \in SUBSET Comp,
         NEW lead \in set, NEW list, list = s.with[lead],
         NEW k \in Nat, k < Len(list), NEW acc, Merging(s, set, list, k, acc)
  PROVE  Merging(s, set, list, k + 1, Visited(s, set, acc, list[k + 1]))
<1>1. list \in Seq(Nat) /\ s.with \in [Comp -> Seq(Nat)] /\ Len(s.comps) \in Nat
  BY DEF StoreSound
<1> PICK n \in Nat : n = Len(list)
  BY <1>1
<1> PICK q : q = k + 1
  OBVIOUS
<1>2. q \in 1..n /\ q \in Nat /\ k < q
  OBVIOUS
<1> DEFINE a == list[q]
           at == CaughtUp(s, set, acc, a)
           new == Visited(s, set, acc, a)
<1>3. /\ \A i, j \in 1..n : i < j => list[i] < list[j]
      /\ \A i \in 1..n : list[i] \in 1..Len(s.comps) /\ lead \in s.comps[list[i]]
      /\ \A i \in 1..n : list[i] \in Nat
  BY <1>1 DEF WithSound
<1>4. a \in 1..Len(s.comps) /\ a \in Nat
  BY <1>2, <1>3
<1>5. new = [at |-> at, found |-> IF Everywhere(s, set, at, a) THEN Append(acc.found, a)
                                                               ELSE acc.found]
  BY DEF Visited
<1> HIDE DEF new, a
<1>6. ASSUME NEW c \in set
      PROVE  /\ at[c] \in 1..(Len(s.with[c]) + 1)
             /\ at[c] > Len(s.with[c]) \/ s.with[c][at[c]] >= a
             /\ \A i \in 1..(at[c] - 1) : s.with[c][i] < a
  <2>1. at[c] = Caught(s.with[c], a, acc.at[c])
    BY DEF CaughtUp
  <2> HIDE DEF at
  <2> PICK v \in Seq(Nat) : v = s.with[c]
    BY <1>1
  <2> PICK b : b = acc.at[c]
    OBVIOUS
  <2> PICK m \in Nat : m = Len(v)
    OBVIOUS
  <2>2. b \in 1..(m + 1) /\ \A i \in 1..(b - 1), j \in 1..n : j > k => v[i] < list[j]
    BY DEF Merging
  <2> PICK j : j = Caught(v, a, b)
    OBVIOUS
  <2>3. j \in b..(m + 1) /\ (j > m \/ v[j] >= a) /\ \A i \in b..(j - 1) : v[i] < a
    BY <1>4, <2>2, CaughtIs
  <2>4. \A i \in 1..(j - 1) : v[i] < a
    <3> SUFFICES ASSUME NEW i \in 1..(j - 1) PROVE v[i] < a
      OBVIOUS
    <3>1. i \in 1..(b - 1) \/ i \in b..(j - 1)
      BY <2>2, <2>3
    <3>2. CASE i \in 1..(b - 1)
      BY <1>2, <2>2, <3>2 DEF a
    <3>3. QED
      BY <2>3, <3>1, <3>2
  <2>5. at[c] = j /\ j \in 1..(m + 1)
    BY <2>1, <2>2, <2>3
  <2>6. QED
    BY <2>3, <2>4, <2>5
<1>7. at \in [set -> Nat]
  <2>1. \A c \in set : at[c] \in Nat
    BY <1>1, <1>6
  <2>2. at = [c \in set |-> at[c]]
    BY DEF CaughtUp
  <2> HIDE DEF at
  <2>3. QED
    BY <2>1, <2>2
<1> HIDE DEF at
<1>8. \A c \in set : \A i \in 1..(at[c] - 1), j \in 1..n : j > q => s.with[c][i] < list[j]
  <2> SUFFICES ASSUME NEW c \in set, NEW i \in 1..(at[c] - 1), NEW j \in 1..n, j > q
               PROVE  s.with[c][i] < list[j]
    OBVIOUS
  <2>1. s.with[c][i] < a
    BY <1>6
  <2>2. a < list[j]
    BY <1>2, <1>3 DEF a
  <2>3. i \in 1..Len(s.with[c]) /\ s.with[c] \in Seq(Nat)
    BY <1>1, <1>6, <1>7
  <2>4. s.with[c][i] \in Nat /\ list[j] \in Nat
    <3>1. \A v, b : v \in Seq(Nat) /\ b \in 1..Len(v) => v[b] \in Nat
      OBVIOUS
    <3>2. s.with[c][i] \in Nat
      BY ONLY <2>3, <3>1
    <3>3. QED
      BY ONLY <1>3, <3>2, j \in 1..n
  <2>5. QED
    BY <1>4, <2>1, <2>2, <2>4
<1>9. Everywhere(s, set, at, a) <=> set \subseteq s.comps[a]
  <2>1. \A c \in set : (at[c] \in 1..Len(s.with[c]) /\ s.with[c][at[c]] = a) <=> c \in s.comps[a]
    <3> SUFFICES ASSUME NEW c \in set
                 PROVE  (at[c] \in 1..Len(s.with[c]) /\ s.with[c][at[c]] = a) <=> c \in s.comps[a]
      OBVIOUS
    <3>1. c \in Comp
      OBVIOUS
    <3> PICK j : j = at[c]
      OBVIOUS
    <3>2. /\ j \in 1..(Len(s.with[c]) + 1)
          /\ j > Len(s.with[c]) \/ s.with[c][j] >= a
          /\ \A i \in 1..(j - 1) : s.with[c][i] < a
      BY <1>6
    <3>3. QED
      BY <1>4, <3>1, <3>2, StandsAt
  <2>2. \A c \in set : DOMAIN s.with[c] = 1..Len(s.with[c])
    BY <1>1
  <2>3. QED
    BY <2>1, <2>2 DEF Everywhere
<1>9a. \A c \in set :
         /\ at[c] \in 1..(Len(s.with[c]) + 1)
         /\ \A i \in 1..(at[c] - 1), j \in 1..Len(list) : j > q => s.with[c][i] < list[j]
  BY <1>6, <1>8
<1> DEFINE f == acc.found
<1>10. /\ f \in Seq(Nat)
       /\ \A i, j \in 1..Len(f) : f[i] = f[j] => i = j
       /\ \A i \in 1..Len(f) : \E j \in 1..k : f[i] = list[j] /\ set \subseteq s.comps[list[j]]
       /\ \A j \in 1..k : set \subseteq s.comps[list[j]] => \E i \in 1..Len(f) : f[i] = list[j]
  BY DEF Merging
<1> HIDE DEF f
<1>11. 1..k \subseteq 1..q /\ q \in 1..q /\ \A j \in 1..q : j \in 1..k \/ j = q
  OBVIOUS
<1>12. CASE set \subseteq s.comps[a]
  <2> DEFINE g == new.found
  <2>1. g = Append(f, a) /\ new.at = at
    BY <1>5, <1>9, <1>12 DEF f
  <2> HIDE DEF g
  <2> PICK m \in Nat : m = Len(f)
    BY <1>10
  <2>2. /\ g \in Seq(Nat) /\ Len(g) = m + 1 /\ g[m + 1] = a
        /\ \A i \in 1..m : g[i] = f[i]
    BY <1>4, <1>10, <2>1, AppendProperties
  <2>3. \A i \in 1..(m + 1) : i \in 1..m \/ i = m + 1
    OBVIOUS
  <2>3a. 1..m \subseteq 1..(m + 1) /\ m + 1 \in 1..(m + 1)
    OBVIOUS
  <2>4. \A i \in 1..m : f[i] # a
    <3> SUFFICES ASSUME NEW i \in 1..m, f[i] = a PROVE FALSE
      OBVIOUS
    <3>1. PICK j \in 1..k : f[i] = list[j]
      BY <1>10
    <3>2. j \in 1..n /\ j < q
      OBVIOUS
    <3>3. list[j] < list[q]
      BY <1>2, <1>3, <3>2
    <3>4. QED
      BY <1>3, <1>4, <3>1, <3>2, <3>3 DEF a
  <2>5. \A i, j \in 1..(m + 1) : g[i] = g[j] => i = j
    <3> SUFFICES ASSUME NEW i \in 1..(m + 1), NEW j \in 1..(m + 1), g[i] = g[j] PROVE i = j
      OBVIOUS
    <3>1. CASE i \in 1..m /\ j \in 1..m
      BY <1>10, <2>2, <3>1
    <3>2. CASE i = m + 1 /\ j \in 1..m
      BY <2>2, <2>4, <3>2
    <3>3. CASE j = m + 1 /\ i \in 1..m
      BY <2>2, <2>4, <3>3
    <3>4. QED
      BY <2>3, <3>1, <3>2, <3>3
  <2>6. \A i \in 1..(m + 1) : \E j \in 1..q : g[i] = list[j] /\ set \subseteq s.comps[list[j]]
    <3> SUFFICES ASSUME NEW i \in 1..(m + 1)
                 PROVE  \E j \in 1..q : g[i] = list[j] /\ set \subseteq s.comps[list[j]]
      OBVIOUS
    <3>1. CASE i \in 1..m
      <4>1. PICK j \in 1..k : f[i] = list[j] /\ set \subseteq s.comps[list[j]]
        BY <1>10, <3>1
      <4>2. QED
        BY <1>11, <2>2, <3>1, <4>1
    <3>2. CASE i = m + 1
      BY <1>11, <1>12, <2>2, <3>2 DEF a
    <3>3. QED
      BY <2>3, <3>1, <3>2
  <2>7. \A j \in 1..q : set \subseteq s.comps[list[j]] => \E i \in 1..(m + 1) : g[i] = list[j]
    <3> SUFFICES ASSUME NEW j \in 1..q, set \subseteq s.comps[list[j]]
                 PROVE  \E i \in 1..(m + 1) : g[i] = list[j]
      OBVIOUS
    <3>1. CASE j \in 1..k
      <4>1. PICK i \in 1..m : f[i] = list[j]
        BY <1>10, <3>1
      <4>2. QED
        BY <2>2, <2>3a, <4>1
    <3>2. CASE j = q
      BY <2>2, <2>3a, <3>2 DEF a
    <3>3. QED
      BY <1>11, <3>1, <3>2
  <2>7a. new.found = g /\ Len(new.found) = m + 1
    BY <2>2 DEF g
  <2>7b. /\ new.found \in Seq(Nat)
         /\ \A i, j \in 1..Len(new.found) : new.found[i] = new.found[j] => i = j
         /\ \A i \in 1..Len(new.found) : \E j \in 1..q :
              new.found[i] = list[j] /\ set \subseteq s.comps[list[j]]
         /\ \A j \in 1..q : set \subseteq s.comps[list[j]] =>
              \E i \in 1..Len(new.found) : new.found[i] = list[j]
    BY ONLY <2>2, <2>5, <2>6, <2>7, <2>7a
  <2>8. Merging(s, set, list, q, new)
    BY ONLY <1>7, <1>9a, <2>1, <2>7b, Zenon DEF Merging
  <2>9. QED
    BY <2>8 DEF new, a
<1>13. CASE ~(set \subseteq s.comps[a])
  <2>1. new.found = f /\ new.at = at
    BY <1>5, <1>9, <1>13 DEF f
  <2>2. \A i \in 1..Len(f) : \E j \in 1..q : f[i] = list[j] /\ set \subseteq s.comps[list[j]]
    BY <1>10, <1>11
  <2>3. \A j \in 1..q : set \subseteq s.comps[list[j]] => \E i \in 1..Len(f) : f[i] = list[j]
    BY <1>10, <1>11, <1>13 DEF a
  <2>4. /\ new.found \in Seq(Nat)
        /\ \A i, j \in 1..Len(new.found) : new.found[i] = new.found[j] => i = j
        /\ \A i \in 1..Len(new.found) : \E j \in 1..q :
             new.found[i] = list[j] /\ set \subseteq s.comps[list[j]]
        /\ \A j \in 1..q : set \subseteq s.comps[list[j]] =>
             \E i \in 1..Len(new.found) : new.found[i] = list[j]
    <3> PICK h : h = new.found
      OBVIOUS
    <3>1. h = f
      BY <2>1
    <3>2. QED
      BY ONLY <1>10, <2>2, <2>3, <3>1, h = new.found
  <2>4a. Merging(s, set, list, q, new)
    BY ONLY <1>7, <1>9a, <2>1, <2>4, Zenon DEF Merging
  <2>5. QED
    BY <2>4a DEF new, a
<1>14. QED
  BY <1>12, <1>13

\* archetypes_with_set finds the archetypes that have all the components, each of them once.
LEMMA ArchetypesFound ==
  ASSUME NEW s, StoreSound(s), WithSound(s), NEW set \in SUBSET Comp, set # {}
  PROVE  LET found == ArchetypesWithSet(s, set)
         IN /\ found \in Seq(Nat)
            /\ \A i, j \in 1..Len(found) : found[i] = found[j] => i = j
            /\ \A i \in 1..Len(found) :
                 found[i] \in 1..Len(s.comps) /\ set \subseteq s.comps[found[i]]
            /\ \A a \in 1..Len(s.comps) : set \subseteq s.comps[a] =>
                 \E i \in 1..Len(found) : found[i] = a
<1>1. s.with \in [Comp -> Seq(Nat)]
  BY DEF StoreSound
<1>2. PICK lead \in set : lead = Lead(s, set)
  <2> DEFINE T == {Len(s.with[c]) : c \in set}
  <2>1. \A c \in set : Len(s.with[c]) \in Nat
    BY <1>1
  <2>2. T \subseteq Nat /\ T # {}
    BY <2>1
  <2> HIDE DEF T
  <2>3. PICK m \in T : \A k \in T : m <= k
    BY <2>2, LeastNatural
  <2>4. PICK c \in set : m = Len(s.with[c])
    BY DEF T
  <2>5. \A d \in set : Len(s.with[d]) \in T
    BY DEF T
  <2>6. \A d \in set : Len(s.with[c]) <= Len(s.with[d])
    BY <2>3, <2>4, <2>5
  <2>7. Lead(s, set) \in set
    BY <2>6 DEF Lead
  <2>8. QED
    BY <2>7
<1> PICK list : list = s.with[lead]
  OBVIOUS
<1>3. list \in Seq(Nat)
  BY <1>1
<1> PICK n : n = Len(list)
  OBVIOUS
<1>4. n \in Nat /\ DOMAIN list = 1..n
  BY <1>3
<1>5. PICK f : Folded(s, set, list, 1..n, f) /\ ArchetypesWithSet(s, set) = f[1..n].found
  BY <1>2, <1>4, FoldIs
<1>6. \A u \in SUBSET (1..n) : f[u] = Visits(s, set, list, u, f)
  BY <1>5 DEF Folded
<1> DEFINE P == {k \in Nat : k <= n => Merging(s, set, list, k, f[1..k])}
<1>7. 0 \in P
  <2>1. 1..0 = {} /\ {} \in SUBSET (1..n)
    OBVIOUS
  <2>2. f[{}] = Untouched(set)
    BY <1>6, <2>1 DEF Visits
  <2> PICK acc : acc = Untouched(set)
    OBVIOUS
  <2>3. acc.at = [c \in set |-> 1] /\ acc.found = <<>>
    BY DEF Untouched
  <2>4. \A c \in set : acc.at[c] = 1
    BY <2>3
  <2>5. acc.at \in [set -> Nat]
    BY <2>3
  <2>6. \A c \in set :
          /\ acc.at[c] \in 1..(Len(s.with[c]) + 1)
          /\ \A i \in 1..(acc.at[c] - 1), j \in 1..Len(list) : j > 0 => s.with[c][i] < list[j]
    <3> SUFFICES ASSUME NEW c \in set PROVE acc.at[c] \in 1..(Len(s.with[c]) + 1)
                                            /\ 1..(acc.at[c] - 1) = {}
      OBVIOUS
    <3>1. Len(s.with[c]) \in Nat
      BY <1>1
    <3>2. QED
      BY <2>4, <3>1
  <2>7. Merging(s, set, list, 0, acc)
    BY <2>3, <2>5, <2>6 DEF Merging
  <2>8. QED
    BY <2>1, <2>2, <2>7
<1>8. \A k \in Nat : k \in P => k + 1 \in P
  <2> SUFFICES ASSUME NEW k \in Nat, k \in P, k + 1 <= n
               PROVE  Merging(s, set, list, k + 1, f[1..(k + 1)])
    OBVIOUS
  <2>1. Merging(s, set, list, k, f[1..k]) /\ k < n
    OBVIOUS
  <2> PICK u : u = 1..(k + 1)
    OBVIOUS
  <2>2. u # {} /\ u \in SUBSET (1..n) /\ k + 1 \in u
    OBVIOUS
  <2>3. Max(u) = k + 1
    BY <2>2, MaxIs
  <2>4. u \ {k + 1} = 1..k
    OBVIOUS
  <2>5. f[u] = Visited(s, set, f[1..k], list[k + 1])
    BY <1>6, <2>2, <2>3, <2>4 DEF Visits
  <2>6. Merging(s, set, list, k + 1, Visited(s, set, f[1..k], list[k + 1]))
    BY ONLY StoreSound(s), WithSound(s), set \in SUBSET Comp, lead \in set, list = s.with[lead],
            n = Len(list), k \in Nat, <2>1, VisitMerges
  <2>7. QED
    BY <2>5, <2>6
<1> HIDE DEF P
<1>9. Nat \subseteq P
  BY ONLY <1>7, <1>8, NaturalsIn
<1>10. n \in P /\ n <= n
  BY <1>4, <1>9
<1>11. Merging(s, set, list, n, f[1..n])
  BY <1>10 DEF P
<1> PICK acc : acc = f[1..n]
  OBVIOUS
<1>11a. Merging(s, set, list, n, acc)
  BY <1>11
<1> PICK found : found = acc.found
  OBVIOUS
<1>12. /\ found \in Seq(Nat)
       /\ \A i, j \in 1..Len(found) : found[i] = found[j] => i = j
       /\ \A i \in 1..Len(found) : \E j \in 1..n :
            found[i] = list[j] /\ set \subseteq s.comps[list[j]]
       /\ \A j \in 1..n : set \subseteq s.comps[list[j]] =>
            \E i \in 1..Len(found) : found[i] = list[j]
  BY ONLY <1>11a, found = acc.found DEF Merging
<1>13. /\ \A j \in 1..n : list[j] \in 1..Len(s.comps)
       /\ \A a \in 1..Len(s.comps) : lead \in s.comps[a] => \E j \in 1..n : list[j] = a
  BY DEF WithSound
<1>14. \A i \in 1..Len(found) : found[i] \in 1..Len(s.comps) /\ set \subseteq s.comps[found[i]]
  <2> SUFFICES ASSUME NEW i \in 1..Len(found)
               PROVE  found[i] \in 1..Len(s.comps) /\ set \subseteq s.comps[found[i]]
    OBVIOUS
  <2>1. PICK j \in 1..n : found[i] = list[j] /\ set \subseteq s.comps[list[j]]
    BY ONLY <1>12, i \in 1..Len(found)
  <2>2. QED
    BY <1>13, <2>1
<1>15. \A a \in 1..Len(s.comps) : set \subseteq s.comps[a] => \E i \in 1..Len(found) : found[i] = a
  <2> SUFFICES ASSUME NEW a \in 1..Len(s.comps), set \subseteq s.comps[a]
               PROVE  \E i \in 1..Len(found) : found[i] = a
    OBVIOUS
  <2>1. PICK j \in 1..n : list[j] = a
    BY <1>13
  <2>2. set \subseteq s.comps[list[j]]
    BY <2>1
  <2>3. PICK i \in 1..Len(found) : found[i] = list[j]
    BY ONLY <1>12, <2>2, j \in 1..n
  <2>4. QED
    BY ONLY <2>1, <2>3
<1>16. found = ArchetypesWithSet(s, set)
  BY <1>5
<1>17. QED
  BY ONLY <1>12, <1>14, <1>15, <1>16

----------------------------------------------------------------------------
(* Queries *)

LEMMA InjectiveCard ==
  ASSUME NEW X, NEW f \in Seq(X), \A i, j \in DOMAIN f : f[i] = f[j] => i = j
  PROVE  Cardinality(ToSet(f)) = Len(f)
<1> PICK n : n = Len(f)
  OBVIOUS
<1>1. n \in Nat /\ DOMAIN f = 1..n /\ f \in [1..n -> ToSet(f)]
  BY DEF ToSet
<1>2. f \in Bijection(1..n, ToSet(f))
  BY <1>1 DEF Bijection, Injection, Surjection, IsInjective, ToSet
<1>3. ExistsBijection(1..n, ToSet(f))
  BY <1>2 DEF ExistsBijection
<1>4. IsFiniteSet(1..n) /\ Cardinality(1..n) = n
  <2>0. 1 \in Int /\ n \in Int
    BY <1>1
  <2>1. IsFiniteSet(1..n) /\ Cardinality(1..n) = IF 1 > n THEN 0 ELSE n - 1 + 1
    BY ONLY <2>0, FS_Interval
  <2>2. QED
    BY <1>1, <2>1
<1>5. QED
  BY <1>3, <1>4, FS_Bijection

LEMMA FlattenAll ==
  ASSUME NEW X, NEW lists \in Seq(Seq(X))
  PROVE  Written(X, lists, Len(lists), FlattenSeq(lists))
<1>1. CASE Len(lists) = 0
  <2>1. lists = <<>> /\ FlattenSeq(lists) = lists
    BY <1>1 DEF FlattenSeq
  <2>2. Written(X, <<>>, 0, <<>>)
    BY DEF Written
  <2>3. QED
    BY <1>1, <2>1, <2>2
<1>2. CASE Len(lists) # 0
  BY <1>2, FlattenWritten
<1>3. QED
  BY <1>1, <1>2

\* A row of a query holds one entity, and the columns of an archetype agree on it.
RowOf(set, e) == [c \in set |-> e]

LEMMA RowsAre ==
  ASSUME CoreInv, ListsInv, NEW set \in SUBSET Comp, set # {},
         NEW a \in DOMAIN archetypes.comps, set \subseteq Components(a)
  PROVE  /\ a \in NonEmpty
         /\ Rows(a, set) \in Seq([set -> Entity]) /\ Len(Rows(a, set)) = Len(index_members[a])
         /\ \A i \in 1..Len(index_members[a]) : Rows(a, set)[i] = RowOf(set, index_members[a][i])
<1>1. a # EMPTY
  BY DEF CoreInv, StoreSound, Components
<1>2. a \in NonEmpty
  BY <1>1, ArchetypeIds
<1>3. \A c \in set : comp_members[a][c] = index_members[a]
  BY <1>1 DEF ListsInv, ColumnsParallel
<1> PICK m : m = index_members[a]
  OBVIOUS
<1>4. m \in Seq(Entity)
  BY <1>2 DEF ListsInv, ListTypes
<1> PICK n : n = Len(m)
  OBVIOUS
<1>5. n \in Nat /\ DOMAIN m = 1..n /\ \A i \in 1..n : m[i] \in Entity
  BY <1>4
<1> PICK d : d = CHOOSE c \in set : TRUE
  OBVIOUS
<1>6. d \in set
  OBVIOUS
<1> DEFINE r == [i \in 1..n |-> RowOf(set, m[i])]
<1>7. Rows(a, set) = [i \in DOMAIN m |-> [c \in set |-> comp_members[a][c][i]]]
  <2>1. comp_members[a][CHOOSE c \in set : TRUE] = m
    BY <1>3, <1>6
  <2>2. QED
    BY <2>1 DEF Rows
<1>8. \A i \in 1..n : [c \in set |-> comp_members[a][c][i]] = RowOf(set, m[i])
  BY <1>3 DEF RowOf
<1>9. Rows(a, set) = r
  BY <1>5, <1>7, <1>8
<1>10. \A i \in 1..n : RowOf(set, m[i]) \in [set -> Entity]
  BY <1>5 DEF RowOf
<1>11. r \in Seq([set -> Entity]) /\ Len(r) = n /\ \A i \in 1..n : r[i] = RowOf(set, m[i])
  <2>1. r \in [1..n -> [set -> Entity]]
    BY <1>10
  <2>2. QED
    BY <1>5, <2>1
<1>12. QED
  BY <1>2, <1>9, <1>11

LEMMA QueryIs ==
  ASSUME CoreInv, ListsInv, WithSound(archetypes), dead = {},
         NEW set \in SUBSET Comp, set # {}
  PROVE  LET found == Query(set)
         IN /\ ToSet(found) =
                 {[c \in set |-> e] : e \in {d \in alive : set \subseteq Components(Original(d))}}
            /\ Len(found) = Cardinality(ToSet(found))
<1> DEFINE X == [set -> Entity]
<1> PICK s : s = archetypes
  OBVIOUS
<1>1. StoreSound(s) /\ WithSound(s)
  BY DEF CoreInv
<1>2. DOMAIN s.comps = 1..Len(s.comps)
  BY <1>1 DEF StoreSound
<1> PICK arches : arches = ArchetypesWithSet(s, set)
  OBVIOUS
<1>3. /\ arches \in Seq(Nat)
      /\ \A i, j \in 1..Len(arches) : arches[i] = arches[j] => i = j
      /\ \A i \in 1..Len(arches) :
           arches[i] \in 1..Len(s.comps) /\ set \subseteq s.comps[arches[i]]
      /\ \A a \in 1..Len(s.comps) : set \subseteq s.comps[a] =>
           \E i \in 1..Len(arches) : arches[i] = a
  BY ONLY <1>1, set \in SUBSET Comp, set # {}, arches = ArchetypesWithSet(s, set), ArchetypesFound
<1> PICK n : n = Len(arches)
  OBVIOUS
<1>4. n \in Nat /\ DOMAIN arches = 1..n
  BY <1>3
<1>5. \A i \in 1..n : /\ arches[i] \in DOMAIN archetypes.comps
                      /\ set \subseteq Components(arches[i])
  BY <1>2, <1>3 DEF Components
<1> DEFINE lists == [i \in 1..n |-> Rows(arches[i], set)]
           members_(i) == index_members[arches[i]]
<1>6. ASSUME NEW i \in 1..n
      PROVE  /\ arches[i] \in NonEmpty
             /\ lists[i] \in Seq(X) /\ Len(lists[i]) = Len(members_(i))
             /\ \A k \in 1..Len(members_(i)) : lists[i][k] = RowOf(set, members_(i)[k])
  <2> PICK a : a = arches[i]
    OBVIOUS
  <2>1. a \in DOMAIN archetypes.comps /\ set \subseteq Components(a)
    BY <1>5
  <2>2. /\ a \in NonEmpty
        /\ Rows(a, set) \in Seq([set -> Entity]) /\ Len(Rows(a, set)) = Len(index_members[a])
        /\ \A k \in 1..Len(index_members[a]) : Rows(a, set)[k] = RowOf(set, index_members[a][k])
    BY <2>1, RowsAre
  <2>3. lists[i] = Rows(a, set)
    OBVIOUS
  <2> HIDE DEF lists
  <2>4. QED
    BY <2>2, <2>3
<1>7. lists \in Seq(Seq(X)) /\ Len(lists) = n /\ DOMAIN lists = 1..n
  <2>1. lists \in [1..n -> Seq(X)]
    <3>1. \A i \in 1..n : lists[i] \in Seq(X)
      BY <1>6
    <3>2. lists = [i \in 1..n |-> lists[i]]
      OBVIOUS
    <3> HIDE DEF lists
    <3>3. QED
      BY <3>1, <3>2
  <2> HIDE DEF lists, X
  <2>2. QED
    BY <1>4, <2>1
<1>8. Query(set) = FlattenSeq(lists)
  BY <1>4 DEF Query
<1> HIDE DEF lists
<1>9. \A e, d : RowOf(set, e) = RowOf(set, d) => e = d
  <2> SUFFICES ASSUME NEW e, NEW d, RowOf(set, e) = RowOf(set, d) PROVE e = d
    OBVIOUS
  <2> PICK c \in set : TRUE
    OBVIOUS
  <2>1. RowOf(set, e)[c] = e /\ RowOf(set, d)[c] = d
    BY DEF RowOf
  <2>2. QED
    BY <2>1
<1>10. ASSUME NEW i \in 1..n, NEW k \in 1..Len(members_(i))
       PROVE  /\ members_(i)[k] \in alive
              /\ Original(members_(i)[k]) = arches[i]
              /\ index_in_archetype[members_(i)[k]] = k
  <2> PICK a \in NonEmpty : a = arches[i]
    BY <1>6
  <2>1. index_members[a] \in Seq(Entity)
    BY DEF ListsInv, ListTypes
  <2>2. k \in DOMAIN index_members[a]
    BY <2>1
  <2>3. LET e == index_members[a][k]
        IN IF e \in alive THEN Original(e) = a /\ index_in_archetype[e] = k
                          ELSE <<a, k>> \in dead
    BY <2>2 DEF ListsInv, PositionsKnown
  <2>4. QED
    BY <2>3
<1>10a. \A i \in 1..n : DOMAIN lists[i] = 1..Len(members_(i))
  <2> SUFFICES ASSUME NEW i \in 1..n PROVE DOMAIN lists[i] = 1..Len(members_(i))
    OBVIOUS
  <2>1. lists[i] \in Seq(X) /\ Len(lists[i]) = Len(members_(i))
    BY <1>6
  <2>2. QED
    BY <2>1
<1>11. Apart(lists)
  <2> SUFFICES ASSUME NEW i \in 1..n, NEW j \in 1..n,
                      NEW k \in DOMAIN lists[i], NEW l \in DOMAIN lists[j],
                      lists[i][k] = lists[j][l]
               PROVE  i = j /\ k = l
    BY <1>7 DEF Apart
  <2>1. k \in 1..Len(members_(i)) /\ l \in 1..Len(members_(j))
    BY <1>10a
  <2> PICK e : e = members_(i)[k]
    OBVIOUS
  <2> PICK d : d = members_(j)[l]
    OBVIOUS
  <2>2. lists[i][k] = RowOf(set, e) /\ lists[j][l] = RowOf(set, d)
    BY <1>6, <2>1
  <2>3. e = d
    BY <1>9, <2>2
  <2>4. Original(e) = arches[i] /\ index_in_archetype[e] = k
    BY <1>10, <2>1
  <2>5. Original(d) = arches[j] /\ index_in_archetype[d] = l
    BY <1>10, <2>1
  <2>6. arches[i] = arches[j] /\ k = l
    BY <2>3, <2>4, <2>5
  <2>7. QED
    BY <1>3, <2>6
<1> PICK found : found = Query(set)
  OBVIOUS
<1>12. Written(X, lists, n, found)
  BY <1>7, <1>8, FlattenAll
<1>13. /\ found \in Seq(X)
       /\ \A m \in DOMAIN found : \E i \in 1..n : \E l \in DOMAIN lists[i] : found[m] = lists[i][l]
       /\ \A i \in 1..n : \A l \in DOMAIN lists[i] : \E m \in DOMAIN found : found[m] = lists[i][l]
       /\ \A m, q \in DOMAIN found : found[m] = found[q] => m = q
  BY <1>11, <1>12 DEF Written
<1> HIDE DEF X
<1>14. Len(found) = Cardinality(ToSet(found))
  BY <1>13, InjectiveCard
<1>15. ASSUME NEW m \in DOMAIN found
       PROVE  \E e \in alive : set \subseteq Components(Original(e)) /\ found[m] = RowOf(set, e)
  <2>1. PICK i \in 1..n : \E l \in DOMAIN lists[i] : found[m] = lists[i][l]
    BY <1>13
  <2>2. PICK l \in DOMAIN lists[i] : found[m] = lists[i][l]
    BY <2>1
  <2>3. l \in 1..Len(members_(i))
    BY <1>10a
  <2> PICK e : e = members_(i)[l]
    OBVIOUS
  <2>4. lists[i][l] = RowOf(set, e)
    BY <1>6, <2>3
  <2>5. e \in alive /\ Original(e) = arches[i]
    BY <1>10, <2>3
  <2>6. set \subseteq Components(Original(e))
    BY <1>5, <2>5
  <2>7. QED
    BY <2>2, <2>4, <2>5, <2>6
<1>16. ASSUME NEW e \in alive, set \subseteq Components(Original(e))
       PROVE  \E m \in DOMAIN found : found[m] = RowOf(set, e)
  <2>1. e \in Entity
    BY DEF CoreInv, CoreTypes
  <2> PICK a : a = Original(e)
    OBVIOUS
  <2>2. a \in 1..Len(s.comps) /\ set \subseteq s.comps[a]
    BY <1>2, <1>16, <2>1, OriginalIs DEF Components
  <2>3. PICK i \in 1..n : arches[i] = a
    BY <1>3, <2>2
  <2>4. a # EMPTY
    BY <1>6, <2>3 DEF NonEmpty
  <2> PICK k : k = index_in_archetype[e]
    OBVIOUS
  <2>5. k \in DOMAIN index_members[a] /\ index_members[a][k] = e
    BY <2>4 DEF ListsInv, PositionsKnown
  <2>6. a \in NonEmpty /\ index_members[a] \in Seq(Entity)
    BY <1>6, <2>3 DEF ListsInv, ListTypes
  <2>7. k \in 1..Len(members_(i)) /\ members_(i)[k] = e
    BY <2>3, <2>5, <2>6
  <2>8. k \in DOMAIN lists[i] /\ lists[i][k] = RowOf(set, e)
    BY <1>6, <1>10a, <2>7
  <2>9. QED
    BY <1>13, <2>8
<1>17. ToSet(found) =
         {RowOf(set, e) : e \in {d \in alive : set \subseteq Components(Original(d))}}
  BY <1>15, <1>16 DEF ToSet
<1>18. QED
  BY <1>14, <1>17 DEF RowOf

\* While the game runs, what a query lists are the entities that had the components at the
\* last flush, each of them once (query.rs, archetypes_with_set).
THEOREM QueriesAreExact == Reckless = FALSE => (Spec => []QueriesExact)
<1> SUFFICES ASSUME Reckless = FALSE PROVE Spec => []QueriesExact
  OBVIOUS
<1>1. Init => ListsInv /\ WithSound(archetypes)
  <2> SUFFICES ASSUME Init PROVE WithSound(archetypes)
    BY InitLists
  <2>1. archetypes.comps = <<{}>> /\ \A c \in Comp : archetypes.with[c] = <<>>
    BY DEF Init, NewStore
  <2>2. Len(archetypes.comps) = 1 /\ archetypes.comps[1] = {}
    BY <2>1
  <2>3. QED
    BY <2>1, <2>2 DEF WithSound
<1>2. CoreInv /\ CoreInv' /\ ListsInv /\ [Next]_vars => ListsInv'
  BY StepLists
<1>3. CoreInv /\ WithSound(archetypes) /\ [Next]_vars => WithSound(archetypes)'
  <2> SUFFICES ASSUME CoreInv, WithSound(archetypes), [Next]_vars PROVE WithSound(archetypes')
    BY DEF WithSound
  <2>1. ASSUME NEW e \in Entity, NEW c \in Comp, Add(e, c) PROVE WithSound(archetypes')
    <3>1. archetypes' = Extended(archetypes, archetype[e], c)
      BY <2>1 DEF Add
    <3>2. StoreSound(archetypes) /\ archetype[e] \in DOMAIN archetypes.comps
      BY DEF CoreInv, CoreTypes
    <3>3. archetype[e] \in 1..Len(archetypes.comps)
      BY <3>2 DEF StoreSound
    <3>4. QED
      BY <3>1, <3>2, <3>3, WithExtended
  <2>2. CASE UNCHANGED archetypes
    BY <2>2
  <2>3. CASE GameStep
    BY <2>1, <2>2, <2>3 DEF GameStep, New, SetParent, Destroy, shape
  <2>4. CASE FlushStep
    BY <2>2, <2>4 DEF FlushStep, FlushTake, HandlerEnd, Kill, RemoveComponents, QueueEmpty, Reap,
                      ReapEnd, Reshape, FlushEnd, shape
  <2>5. CASE UNCHANGED vars
    BY <2>2, <2>5 DEF vars, shape
  <2>6. QED
    BY <2>3, <2>4, <2>5 DEF Next
<1>4. CoreInv /\ ListsInv /\ WithSound(archetypes) => QueriesExact
  <2> SUFFICES ASSUME CoreInv, ListsInv, WithSound(archetypes), dead = {},
                      NEW set \in (SUBSET Comp) \ {{}}
               PROVE  LET found == Query(set)
                      IN /\ ToSet(found) = {[c \in set |-> e] : e \in {d \in alive :
                                               set \subseteq Components(Original(d))}}
                         /\ Len(found) = Cardinality(ToSet(found))
    BY Zenon DEF QueriesExact
  <2>1. set \in SUBSET Comp /\ set # {}
    OBVIOUS
  <2>2. QED
    BY <2>1, QueryIs
<1>5. QED
  BY <1>1, <1>2, <1>3, <1>4, CoreInvariant, PTL DEF Spec
=============================================================================
