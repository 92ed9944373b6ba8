---------------------------- MODULE ArchetypeStore ----------------------------
(***************************************************************************)
(* The archetypes of the entity store (hg-ecs, archetype.rs): the sets of  *)
(* components that some entity has had, numbered as they came up, the      *)
(* shortcuts from one to the next, and per component the list that queries *)
(* merge.  The store is a value, with                                      *)
(*   comps[a]    the components of archetype a                             *)
(*   pos[a][c]   the cached extension of a by c, or Unknown                *)
(*   with[c]     comp_arches: the archetypes with c, oldest first          *)
(* neg, which is never read, is left out, and so is the cached shortcut in *)
(* the other direction (lookup_remove has no caller but Entity::remove,    *)
(* which has none).                                                        *)
(***************************************************************************)
EXTENDS Integers, Sequences, FiniteSets, SequencesExt

CONSTANT Comp  \* component types

ASSUME CompAssumption == IsFiniteSet(Comp)

ArchetypeId == 1..2 ^ Cardinality(Comp)
EMPTY == 1
Unknown == 0

NewStore ==
  [comps |-> <<{}>>, pos |-> <<[c \in Comp |-> Unknown]>>, with |-> [c \in Comp |-> <<>>]]

\* Whose list the archetype that adds c to some others joins.  Mutation: only that of c.
JoinedOne(set, c) == {c}
Joined(set, c) == set

\* The map finds an archetype by its components: merged in order, they are a set.
Existing(s, set) == {a \in DOMAIN s.comps : s.comps[a] = set}
Target(s, base, c) ==
  LET same == Existing(s, s.comps[base] \cup {c})
  IN CASE s.pos[base][c] # Unknown -> s.pos[base][c]
       [] s.pos[base][c] = Unknown /\ same # {} -> CHOOSE a \in same : TRUE
       [] OTHER -> Len(s.comps) + 1

\* The store once lookup_extend(base, c) has returned its target.
Extended(s, base, c) ==
  LET set == s.comps[base] \cup {c}
      target == Target(s, base, c)
      linked == [s.pos EXCEPT ![base][c] = target]
  IN IF target \in DOMAIN s.comps THEN [s EXCEPT !.pos = linked]
     ELSE [comps |-> Append(s.comps, set),
           pos |-> Append(linked, [d \in Comp |-> Unknown]),
           with |-> [d \in Comp |-> IF d \in Joined(set, c) THEN Append(s.with[d], target)
                                                            ELSE s.with[d]]]

\* Where a list that is read from position i on has reached or passed the key.
Caught(list, key, i) ==
  CHOOSE j \in i..(Len(list) + 1) :
    /\ j > Len(list) \/ list[j] >= key
    /\ \A k \in i..(j - 1) : list[k] < key

\* archetypes_with_set: the shortest list is walked, the others catch up with it.
ArchetypesWithSet(s, set) ==
  LET list(c) == s.with[c]
      lead == CHOOSE c \in set : \A d \in set : Len(list(c)) <= Len(list(d))
      visit(acc, key) ==
        LET at == [c \in set |-> Caught(list(c), key, acc.at[c])]
            everywhere == \A c \in set : at[c] \in DOMAIN list(c) /\ list(c)[at[c]] = key
        IN [at |-> at, found |-> IF everywhere THEN Append(acc.found, key) ELSE acc.found]
  IN FoldLeft(visit, [at |-> [c \in set |-> 1], found |-> <<>>], list(lead)).found
=============================================================================
