----------------------------- MODULE EntityStore -----------------------------
(***************************************************************************)
(* The entity store (hg-ecs, entity.rs): a tree of entities that own       *)
(* components, member lists per archetype for the queries, and the flush   *)
(* that kills the condemned entities and patches the lists up.  Between    *)
(* two flushes the game (GameStep) does as it likes, and so it does while  *)
(* the flush runs the game's handler.                                      *)
(*                                                                         *)
(* A handle to a component is the entity that owns it: no entity of the    *)
(* program ever loses a component before it dies (remove and remove_now    *)
(* have no callers).                                                       *)
(***************************************************************************)
EXTENDS ArchetypeStore

CONSTANTS
  Entity,  \* arena slots with their generation: each is used for one entity only
  Root,    \* EntityStore::root
  None,    \* the parent of an entity without one
  Reckless \* whether an entity may be destroyed in the tick that reshaped it

ASSUME EntityStoreAssumption ==
  /\ Root \in Entity
  /\ None \notin Entity
  /\ Reckless \in BOOLEAN

VARIABLES
  unused, alive,      \* EntityStore::entities, and the slots without an entity so far
  parent, children,   \* of EntityInfo, as all that follow up to condemned
  index_in_parent,
  archetype,
  archetypes,         \* the ArchetypeStore
  index_in_archetype,
  condemned,
  storage,            \* storage[c]: the keys of entity_map of c
  index_members,      \* of EntityQueryState
  comp_members,
  reshaped,           \* reshaped_entities, as pairs
  dead,               \* dead_entities
  queue,              \* target_queue_state.condemned
  killing,            \* the entities that flush has taken from the queue and not killed yet
  removed,            \* view_queue_state.to_remove: what query_removed returns
  late,               \* history: the components added while the handler ran
  phase

tree == <<parent, children, index_in_parent>>
members == <<index_in_archetype, index_members, comp_members>>
shape == <<archetype, archetypes, storage, reshaped>>
flushing == <<dead, killing, removed>>
vars == <<unused, alive, tree, members, shape, flushing, condemned, queue, late, phase>>

NonEmpty == ArchetypeId \ {EMPTY}

Components(a) == archetypes.comps[a]
CompsOf(e) == Components(archetype[e])

Init ==
  /\ unused = Entity \ {Root} /\ alive = {Root}
  /\ parent = [e \in Entity |-> None]
  /\ children = [e \in Entity |-> <<>>]
  /\ index_in_parent = [e \in Entity |-> 1]
  /\ archetype = [e \in Entity |-> EMPTY]
  /\ archetypes = NewStore
  /\ index_in_archetype = [e \in Entity |-> 1]
  /\ condemned = {}
  /\ storage = [c \in Comp |-> {}]
  /\ index_members = [a \in NonEmpty |-> <<>>]
  /\ comp_members = [a \in NonEmpty |-> [c \in Comp |-> <<>>]]
  /\ reshaped = {} /\ dead = {}
  /\ queue = <<>> /\ killing = <<>>
  /\ removed = [c \in Comp |-> {}]
  /\ late = {}
  /\ phase = "run"

----------------------------------------------------------------------------
\* Vec::swap_remove, and the cached positions after it.  Mutation: they are not patched.
SwapRemove(s, i) == Front([s EXCEPT ![i] = Last(s)])
Unpatched(pos, s, i) == pos
Patched(pos, s, i) == IF i < Len(s) THEN [pos EXCEPT ![Last(s)] = i] ELSE pos

\* The descendants of the entities of some set, with these.
Closed(set) == \A e \in set : ToSet(children[e]) \subseteq set
Below(set) ==
  {e \in alive : \A s \in SUBSET alive : set \cap alive \subseteq s /\ Closed(s) => e \in s}

\* The archetype that an entity had at the last flush, whose lists it still is in.
Reshaped(e) == {r \in reshaped : r[1] = e}
Original(e) == IF Reshaped(e) = {} THEN archetype[e] ELSE (CHOOSE r \in Reshaped(e) : TRUE)[2]

----------------------------------------------------------------------------
(* What the game calls. *)

\* set_parent, for an entity whose old parent is alive if it has one.
Unlinked(e) ==
  LET p == parent[e] IN
  IF p = None THEN children
  ELSE [children EXCEPT ![p] = SwapRemove(@, index_in_parent[e])]
UnlinkedIndex(e) ==
  LET p == parent[e] IN
  IF p = None THEN index_in_parent
  ELSE Patched(index_in_parent, children[p], index_in_parent[e])
SetParentTo(e, p) ==
  /\ parent' = [parent EXCEPT ![e] = p]
  /\ IF p = None
     THEN /\ children' = Unlinked(e)
          /\ index_in_parent' = UnlinkedIndex(e)
     ELSE /\ children' = [Unlinked(e) EXCEPT ![p] = Append(@, e)]
          /\ index_in_parent' = [UnlinkedIndex(e) EXCEPT ![e] = Len(Unlinked(e)[p]) + 1]

New(e, p) ==
  /\ e \in unused /\ p \in alive
  /\ unused' = unused \ {e} /\ alive' = alive \cup {e}
  /\ SetParentTo(e, p)
  /\ UNCHANGED <<members, shape, condemned, queue, late>>

\* The code does not look for cycles.  While the handler runs, nothing is moved out of
\* what is about to be killed, or into it: which components go has been decided.
SetParent(e, p) ==
  /\ e \in alive \ {Root} /\ p \in (alive \cup {None}) \ Below({e})
  /\ {e, p} \cap Below(ToSet(killing)) = {}
  /\ SetParentTo(e, p)
  /\ UNCHANGED <<unused, alive, members, shape, condemned, queue, late>>

\* Adding a component for the first time: otherwise its value is replaced in place.  It
\* asserts that the entity is not condemned; an entity below a condemned one need not be.
Add(e, c) ==
  /\ e \in alive \ condemned /\ e \notin storage[c]
  /\ storage' = [storage EXCEPT ![c] = @ \cup {e}]
  /\ reshaped' = IF Reshaped(e) = {} THEN reshaped \cup {<<e, archetype[e]>>} ELSE reshaped
  /\ archetype' = [archetype EXCEPT ![e] = Target(archetypes, @, c)]
  /\ archetypes' = Extended(archetypes, archetype[e], c)
  /\ late' = IF phase = "handler" THEN late \cup {<<e, c>>} ELSE late
  /\ UNCHANGED <<unused, alive, tree, members, condemned, queue>>

Destroy(e) ==
  /\ e \in alive \ (condemned \cup {Root})
  /\ condemned' = condemned \cup {e}
  /\ queue' = Append(queue, e)
  /\ UNCHANGED <<unused, alive, tree, members, shape, late>>

\* Unless the game is reckless, what is about to die has not been reshaped since the last
\* flush, but for entities without components then.
Careful == \A e \in Below(condemned) : Reshaped(e) # {} => Original(e) = EMPTY

GameStep ==
  /\ phase \in {"run", "handler"}
  /\ \E e \in Entity :
       \/ \E p \in Entity : New(e, p)
       \/ \E p \in Entity \cup {None} : SetParent(e, p)
       \/ \E c \in Comp : Add(e, c)
       \/ Destroy(e)
  /\ Reckless \/ Careful'
  /\ UNCHANGED <<flushing, phase>>

\* A query: the rows of one archetype after the other.  The first column tells when the
\* rows end, and the others are stepped through with it.
Rows(a, set) ==
  LET leader == comp_members[a][CHOOSE c \in set : TRUE]
  IN [i \in DOMAIN leader |-> [c \in set |-> comp_members[a][c][i]]]
Query(set) ==
  LET arches == ArchetypesWithSet(archetypes, set)
  IN FlattenSeq([i \in DOMAIN arches |-> Rows(arches[i], set)])

----------------------------------------------------------------------------
(* Entity::flush *)

\* Normalization: the descendants die as well.  Mutation: only those in the queue do.
DoomedAlone(set) == set
Doomed(set) == Below(set)

FlushTake ==
  /\ phase \in {"run", "take"}
  /\ queue # <<>>
  /\ phase' = "handler"
  /\ killing' = queue /\ queue' = <<>>
  /\ removed' = [c \in Comp |-> {e \in Doomed(ToSet(queue)) : c \in CompsOf(e)}]
  /\ UNCHANGED <<unused, alive, tree, members, shape, dead, condemned, late>>

HandlerEnd ==
  /\ phase = "handler"
  /\ phase' = "kill"
  /\ UNCHANGED <<unused, alive, tree, members, shape, flushing, condemned, queue, late>>

\* destroy_now removes the components by the entity's archetype.
\* Mutation: this is left to the deferred removal.
KeptAll(c, dying) == storage[c]
Kept(c, dying) == storage[c] \ {e \in dying : c \in CompsOf(e)}

\* What dead_entities learns of them: nothing if no list holds them.
\* Mutation: everything.
DeadSlotsAll(dying) == {<<archetype[d], index_in_archetype[d]>> : d \in dying}
DeadSlots(dying) ==
  {<<archetype[d], index_in_archetype[d]>> : d \in {d \in dying : Original(d) # EMPTY}}

\* destroy_now, with its recursion, for the first entity of the queue.
Kill ==
  LET e == Head(killing)
      dying == Below({e})
  IN /\ phase = "kill" /\ killing # <<>>
     /\ killing' = Tail(killing)
     /\ UNCHANGED <<unused, index_members, comp_members, removed, queue, late, phase,
                    archetypes>>
     /\ \/ /\ e \notin alive
           /\ UNCHANGED <<alive, tree, index_in_archetype, archetype, storage, reshaped, dead,
                          condemned>>
        \/ /\ e \in alive
           /\ alive' = alive \ dying
           /\ parent' = [d \in Entity |-> IF d \in dying THEN None ELSE parent[d]]
           /\ children' = [d \in Entity |-> IF d \in dying THEN <<>> ELSE Unlinked(e)[d]]
           /\ index_in_parent' =
                [d \in Entity |-> IF d \in dying THEN 1 ELSE UnlinkedIndex(e)[d]]
           /\ condemned' = condemned \ dying
           /\ dead' = dead \cup DeadSlots(dying)
           /\ reshaped' = {r \in reshaped : r[1] \notin dying}
           /\ storage' = [c \in Comp |-> Kept(c, dying)]
           /\ archetype' = [d \in Entity |-> IF d \in dying THEN EMPTY ELSE archetype[d]]
           /\ index_in_archetype' =
                [d \in Entity |-> IF d \in dying THEN 1 ELSE index_in_archetype[d]]

\* remove_for_deferred.  (The view is kept until the next flush; only the handlers read it.)
RemoveComponents ==
  /\ phase = "kill" /\ killing = <<>>
  /\ phase' = "take"
  /\ storage' = [c \in Comp |-> storage[c] \ removed[c]]
  /\ removed' = [c \in Comp |-> {}] /\ late' = {}
  /\ UNCHANGED <<unused, alive, tree, members, archetype, archetypes, reshaped, dead, killing,
                 condemned, queue>>

\* The loop ends when the handler has destroyed nothing more.
\* Mutation: it ends after the first round.
DrainedOnce == queue = <<>> \/ phase = "take"
Drained == queue = <<>>
QueueEmpty ==
  /\ phase \in {"run", "take"}
  /\ Drained
  /\ phase' = "reap"
  /\ UNCHANGED <<unused, alive, tree, members, shape, flushing, condemned, queue, late>>

\* How much of a member list is left when the dead at its end have been popped.
\* Mutations: nothing is popped; only the list of the entities is.
TrimNone(s) == Len(s)
Trim(s) == CHOOSE k \in 0..Len(s) :
  /\ k = 0 \/ s[k] \in alive
  /\ \A i \in (k + 1)..Len(s) : s[i] \notin alive
TrimColumnNone(s, k) == s
TrimColumn(s, k) == SubSeq(s, 1, k)

\* One of dead_entities, in the order of a hash set.
Reap(a, i) ==
  LET k == Trim(index_members[a])
      list == SubSeq(index_members[a], 1, k)
      column(c) == TrimColumn(comp_members[a][c], k)
  IN /\ phase = "reap" /\ <<a, i>> \in dead
     /\ dead' = dead \ {<<a, i>>}
     /\ index_members' = [index_members EXCEPT ![a] = IF i > k THEN list ELSE SwapRemove(list, i)]
     /\ comp_members' = [comp_members EXCEPT ![a] =
          [c \in Comp |-> IF c \notin Components(a) THEN <<>>
                         ELSE IF i > k THEN column(c) ELSE SwapRemove(column(c), i)]]
     /\ index_in_archetype' = IF i > k THEN index_in_archetype
                              ELSE Patched(index_in_archetype, list, i)
     /\ UNCHANGED <<unused, alive, tree, shape, killing, removed, condemned, queue, late, phase>>

ReapEnd ==
  /\ phase = "reap" /\ dead = {}
  /\ phase' = "reshape"
  /\ UNCHANGED <<unused, alive, tree, members, shape, flushing, condemned, queue, late>>

\* The lists once e has left those of archetype a, unless a is empty.
LeftList(e, a) == SwapRemove(index_members[a], index_in_archetype[e])
LeftColumn(e, a, c) == SwapRemove(comp_members[a][c], index_in_archetype[e])
LeftIndex(e, a) ==
  IF a = EMPTY THEN index_in_archetype
  ELSE Patched(index_in_archetype, index_members[a], index_in_archetype[e])

\* One of reshaped_entities, in the order of a hash map.
Reshape(e, a) ==
  LET b == archetype[e]
  IN /\ phase = "reshape" /\ <<e, a>> \in reshaped
     /\ reshaped' = reshaped \ {<<e, a>>}
     /\ index_members' = [x \in NonEmpty |->
          CASE x = a /\ a # b -> LeftList(e, a)
            [] x = b /\ a # b -> Append(index_members[b], e)
            [] OTHER -> index_members[x]]
     /\ comp_members' = [x \in NonEmpty |-> [c \in Comp |->
          CASE x = a /\ a # b /\ c \in Components(a) -> LeftColumn(e, a, c)
            [] x = b /\ a # b /\ c \in Components(b) -> Append(comp_members[b][c], e)
            [] OTHER -> comp_members[x][c]]]
     /\ index_in_archetype' =
          IF a = b THEN index_in_archetype
          ELSE [LeftIndex(e, a) EXCEPT ![e] = Len(index_members[b]) + 1]
     /\ UNCHANGED <<unused, alive, tree, archetype, archetypes, storage, flushing, condemned,
                    queue, late, phase>>

FlushEnd ==
  /\ phase = "reshape" /\ reshaped = {}
  /\ phase' = "run"
  /\ UNCHANGED <<unused, alive, tree, members, shape, flushing, condemned, queue, late>>

FlushStep ==
  \/ FlushTake
  \/ HandlerEnd
  \/ Kill
  \/ RemoveComponents
  \/ QueueEmpty
  \/ \E d \in dead : Reap(d[1], d[2])
  \/ ReapEnd
  \/ \E r \in reshaped : Reshape(r[1], r[2])
  \/ FlushEnd

Next == GameStep \/ FlushStep

Spec == Init /\ [][Next]_vars

----------------------------------------------------------------------------
TypeOK ==
  /\ unused \subseteq Entity /\ alive \subseteq Entity
  /\ parent \in [Entity -> Entity \cup {None}]
  /\ children \in [Entity -> Seq(Entity)]
  /\ index_in_parent \in [Entity -> Nat] /\ index_in_archetype \in [Entity -> Nat]
  /\ archetype \in [Entity -> DOMAIN archetypes.comps]
  /\ archetypes.comps \in Seq(SUBSET Comp) /\ Len(archetypes.comps) <= 2 ^ Cardinality(Comp)
  /\ condemned \subseteq Entity
  /\ storage \in [Comp -> SUBSET Entity] /\ removed \in [Comp -> SUBSET Entity]
  /\ index_members \in [NonEmpty -> Seq(Entity)]
  /\ \A a \in NonEmpty : comp_members[a] \in [Comp -> Seq(Entity)]
  /\ reshaped \subseteq Entity \X ArchetypeId
  /\ dead \subseteq NonEmpty \X Nat
  /\ queue \in Seq(Entity) /\ killing \in Seq(Entity)
  /\ late \subseteq Entity \X Comp
  /\ phase \in {"run", "handler", "kill", "take", "reap", "reshape"}

\* The parent, the parent's list of children and the cached index in it agree after every
\* swap-removal, and no living entity is the child of a dead one.
TreeConsistent ==
  /\ \A e \in alive : parent[e] # None =>
       /\ parent[e] \in alive
       /\ index_in_parent[e] \in DOMAIN children[parent[e]]
       /\ children[parent[e]][index_in_parent[e]] = e
  /\ \A e \in Entity : \A i \in DOMAIN children[e] :
       parent[children[e][i]] = e /\ index_in_parent[children[e][i]] = i

\* However a flush takes its requests, every living entity is in the list of its original
\* archetype, at its cached position, and the rest of the lists is what dead_entities says.
PositionsKnown ==
  /\ \A e \in alive : Original(e) # EMPTY =>
       /\ index_in_archetype[e] \in DOMAIN index_members[Original(e)]
       /\ index_members[Original(e)][index_in_archetype[e]] = e
  /\ \A a \in NonEmpty : \A i \in DOMAIN index_members[a] :
       LET e == index_members[a][i]
       IN IF e \in alive THEN Original(e) = a /\ index_in_archetype[e] = i
                         ELSE <<a, i>> \in dead

\* A query steps through the columns of an archetype without looking at their ends: they
\* hold the same entities as the list of the archetype, in the same order.
ColumnsParallel ==
  \A a \in DOMAIN archetypes.comps \ {EMPTY} : \A c \in Components(a) :
    comp_members[a][c] = index_members[a]

\* While the game runs, a query for some components, which merges the archetypes that have
\* them all, lists every entity that had them at the last flush once, and nothing else.
QueriesExact ==
  phase \in {"run", "handler"} /\ dead = {} => \A set \in (SUBSET Comp) \ {{}} :
    LET found == Query(set)
    IN /\ ToSet(found) = {[c \in set |-> e] : e \in {d \in alive : set \subseteq Components(Original(d))}}
       /\ Len(found) = Cardinality(ToSet(found))

\* The archetype of a living entity is the set of its components, and the dead own none:
\* the deferred removal and destroy_now between them take everything.
ArchetypeOwned ==
  phase # "kill" => \A e \in Entity : CompsOf(e) = {c \in Comp : e \in storage[c]}

\* No component disappears unannounced, but for those that the handler itself added, and
\* whatever is announced does disappear.
Announced ==
  [][\A c \in Comp :
       /\ \A e \in storage[c] \ storage'[c] : e \in removed[c] \/ <<e, c>> \in late
       /\ phase = "kill" /\ phase' # "kill" => removed[c] \cap alive = {}]_vars

\* What was condemned before the flush, or by a handler while it ran, dies in that flush.
CondemnedGone == phase \in {"reap", "reshape"} => condemned = {}

\* The comment on dead_entities: it holds the original archetypes and positions of the
\* destroyed entities.
DeadOriginal ==
  phase = "kill" => \A d \in dead :
    /\ d[2] \in DOMAIN index_members[d[1]]
    /\ index_members[d[1]][d[2]] \notin alive

\* The tree stays a tree of living entities through swap-removals and recursive deaths.
StoreWellFormed == TypeOK /\ TreeConsistent

\* The member lists hold each living entity at its cached position, and the columns of the
\* components go along with them, however a flush takes its requests.
ListsKept == PositionsKnown /\ ColumnsParallel

\* A flush leaves no condemned entity, and the dead no component.
DeadOwnNothing == ArchetypeOwned /\ CondemnedGone
=============================================================================
