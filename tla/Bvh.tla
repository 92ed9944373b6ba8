--------------------------------- MODULE Bvh ---------------------------------
(***************************************************************************)
(* The bounding volume hierarchy of the colliders (utils/math/bvh.rs).     *)
(*                                                                         *)
(* A tree is a record of functions over the indices of its arena: the leaf *)
(* nodes have a value, the branch nodes have kids.  `stale` is not in the  *)
(* code: it holds the branches whose kids a rotation exchanged and whose   *)
(* box was not computed anew since.                                        *)
(*                                                                         *)
(* An operation that searches the tree returns the SET of trees it may     *)
(* leave behind: the order in which BinaryHeap yields equals is not        *)
(* specified.  Costs are f32 values as far as the tree tells them apart:   *)
(* an integer, Inf, -Inf or NaN.                                           *)
(***************************************************************************)
EXTENDS Aabb, Sequences, FiniteSets, SequencesExt

CONSTANT NegativeNan    \* whether Inf - Inf yields a NaN whose sign is set (as on x86)

ASSUME TreeAssumption == NegativeNan \in BOOLEAN

NoNode == 0

EmptyTree ==
  [root |-> NoNode, parent |-> <<>>, kids |-> <<>>, box |-> <<>>, value |-> <<>>, stale |-> {}]

Nodes(t) == DOMAIN t.box
Branches(t) == DOMAIN t.kids
Leaves(t) == DOMAIN t.value

Put(f, k, v) == [x \in DOMAIN f \cup {k} |-> IF x = k THEN v ELSE f[x]]
Drop(f, k) == [x \in DOMAIN f \ {k} |-> f[x]]

\* An unused slot of the arena (external): handles are only compared, so which one it is
\* does not matter.
FreeSlot(t) ==
  CHOOSE n \in 1..(Cardinality(Nodes(t)) + 1) : n \notin Nodes(t) /\ 1..(n - 1) \subseteq Nodes(t)

\* A node and its ancestors, from the bottom up.
Line(t, n) ==
  LET up[m \in Nodes(t)] ==
        IF t.parent[m] = NoNode THEN <<m>> ELSE <<m>> \o up[t.parent[m]]
  IN up[n]

-----------------------------------------------------------------------------
(* f32 *)

NaN == 10 * Inf

FPlus(a, b) ==
  IF NaN \in {a, b} \/ {a, b} = {Inf, -Inf} THEN NaN
  ELSE IF {a, b} \cap {Inf, -Inf} # {} THEN (IF Inf \in {a, b} THEN Inf ELSE -Inf)
  ELSE a + b

FMinus(a, b) == FPlus(a, -b)
FLess(a, b) == a # NaN /\ b # NaN /\ a < b

\* The place of a value in the order of f32::total_cmp.
Rank(a) == IF a = NaN /\ NegativeNan THEN -NaN ELSE a

-----------------------------------------------------------------------------
(* find_best_sibling *)

\* What the tree would cost more if `aabb` were attached beside n.
DirectCost(t, aabb, n) == SurfaceArea(Union(t.box[n], aabb))
Growth(t, aabb, n) == FMinus(DirectCost(t, aabb, n), SurfaceArea(t.box[n]))

\* The growth of the ancestors is forgotten.
ExploreFlat(t, aabb, s, c) ==
  LET cost == DirectCost(t, aabb, c.node)
      improves == FLess(cost, s.cost)
      bestCost == IF improves THEN cost ELSE s.cost
      queued == IF c.node \in Branches(t) /\ ~FLess(bestCost, SurfaceArea(aabb))
                THEN {[node |-> n, minCost |-> SurfaceArea(aabb), inherited |-> 0] :
                        n \in Range(t.kids[c.node])}
                ELSE {}
  IN [queue |-> (s.queue \ {c}) \cup queued,
      best |-> IF improves THEN c.node ELSE s.best,
      cost |-> bestCost]

\* One candidate c is taken from the queue of the search s.
Explore(t, aabb, s, c) ==
  LET cost == FPlus(DirectCost(t, aabb, c.node), c.inherited)
      improves == FLess(cost, s.cost)
      bestCost == IF improves THEN cost ELSE s.cost
      inherited == IF c.node = t.root THEN 0
                   ELSE FPlus(c.inherited, Growth(t, aabb, c.node))
      minCost == FPlus(SurfaceArea(aabb), inherited)
      queued == IF c.node \in Branches(t) /\ ~FLess(bestCost, minCost)
                THEN {[node |-> n, minCost |-> minCost, inherited |-> inherited] :
                        n \in Range(t.kids[c.node])}
                ELSE {}
  IN [queue |-> (s.queue \ {c}) \cup queued,
      best |-> IF improves THEN c.node ELSE s.best,
      cost |-> bestCost]

\* The siblings that the search may end with.
FindBestSibling(t, aabb) ==
  LET root == [node |-> t.root, minCost |-> 0, inherited |-> 0]
      promising(queue) ==
        {c \in queue : \A d \in queue : Rank(c.minCost) <= Rank(d.minCost)}
      next(s) ==
        IF s.queue = {} THEN {s}
        ELSE {Explore(t, aabb, s, c) : c \in promising(s.queue)}
      after[k \in 0..Cardinality(Nodes(t))] ==
        IF k = 0 THEN {[queue |-> {root}, best |-> t.root, cost |-> Inf]}
        ELSE UNION {next(s) : s \in after[k - 1]}
  IN {s.best : s \in after[Cardinality(Nodes(t))]}

-----------------------------------------------------------------------------
(* rotate_branch_optimally *)

Swaps == <<<<1, 1>>, <<1, 2>>, <<2, 1>>, <<2, 2>>>>   \* <<main, grandchild>>

\* What exchanging a grandchild with the other child would add to the cost of the tree.
SwapCost(t, branch, swap) ==
  LET main == t.kids[branch][swap[1]]
      other == t.kids[branch][3 - swap[1]]
  IN IF main \notin Branches(t) THEN Inf
     ELSE LET sibling == t.kids[main][3 - swap[2]]
          IN FMinus(SurfaceArea(Union(t.box[other], t.box[sibling])), SurfaceArea(t.box[main]))

BestSwap(t, branch) ==
  CHOOSE i \in DOMAIN Swaps : \A j \in DOMAIN Swaps :
    LET a == Rank(SwapCost(t, branch, Swaps[i]))
        b == Rank(SwapCost(t, branch, Swaps[j]))
    IN a < b \/ (a = b /\ i <= j)

\* Without the grandchild's link to its new parent.
SwappedThree(t, branch, swap) ==
  LET main == t.kids[branch][swap[1]]
      other == t.kids[branch][3 - swap[1]]
      grandchild == t.kids[main][swap[2]]
  IN [t EXCEPT
        !.kids[branch][3 - swap[1]] = grandchild,
        !.kids[main][swap[2]] = other,
        !.parent[other] = main,
        !.stale = @ \cup {main} \cup (IF main \in t.stale THEN {branch} ELSE {})]

\* The four links change; no box does.
Swapped(t, branch, swap) ==
  LET main == t.kids[branch][swap[1]]
      other == t.kids[branch][3 - swap[1]]
      grandchild == t.kids[main][swap[2]]
  IN [t EXCEPT
        !.kids[branch][3 - swap[1]] = grandchild,
        !.kids[main][swap[2]] = other,
        !.parent[other] = main,
        !.parent[grandchild] = branch,
        !.stale = @ \cup {main} \cup (IF main \in t.stale THEN {branch} ELSE {})]

Rotated(t, branch) ==
  LET swap == Swaps[BestSwap(t, branch)]
  IN IF FLess(0, SwapCost(t, branch, swap)) THEN t ELSE Swapped(t, branch, swap)

-----------------------------------------------------------------------------
(* insert_leaf, orphan_leaf *)

Refit(t, n) ==
  [t EXCEPT !.box[n] = Union(t.box[t.kids[n][1]], t.box[t.kids[n][2]]),
            !.stale = @ \ {n}]

RotateOnly(t, n) == Rotated(t, n)

RefitAndRotate(t, n) == Rotated(Refit(t, n), n)

\* `new` takes the place of `old` below `parent`.
Relinked(t, parent, old, new) ==
  IF parent = NoNode THEN [t EXCEPT !.root = new]
  ELSE [t EXCEPT !.kids[parent] = [i \in 1..2 |-> IF @[i] = old THEN new ELSE @[i]]]

\* A new branch holds the leaf and its sibling; its line is refitted from the bottom up.
AttachedBeside(t, leaf, sibling) ==
  LET branch == FreeSlot(t)
      above == t.parent[sibling]
      linked == Relinked([t EXCEPT
        !.box = Put(@, branch, Union(t.box[leaf], t.box[sibling])),
        !.kids = Put(@, branch, <<sibling, leaf>>),
        !.parent = Put([@ EXCEPT ![sibling] = branch, ![leaf] = branch], branch, above)],
        above, sibling, branch)
  IN FoldLeft(RefitAndRotate, linked, Line(linked, branch))

InsertLeaf(t, leaf) ==
  IF t.root = NoNode THEN {[t EXCEPT !.root = leaf]}
  ELSE {AttachedBeside(t, leaf, sibling) : sibling \in FindBestSibling(t, t.box[leaf])}

\* The sibling takes the place of the parent; the boxes above stay as they are.
OrphanLeaf(t, leaf) ==
  LET parent == t.parent[leaf] IN
  IF parent = NoNode THEN [t EXCEPT !.root = NoNode]
  ELSE LET above == t.parent[parent]
           sibling == CHOOSE n \in Range(t.kids[parent]) : n # leaf
       IN Relinked([t EXCEPT
            !.box = Drop(@, parent),
            !.kids = Drop(@, parent),
            !.parent = Drop([@ EXCEPT ![sibling] = above, ![leaf] = NoNode], parent),
            !.stale = (@ \ {parent}) \cup (IF parent \in @ THEN {above} \ {NoNode} ELSE {})],
            above, parent, sibling)

-----------------------------------------------------------------------------
(* The operations. *)

\* The leaf is at FreeSlot(t).
Inserted(t, aabb, value) ==
  LET leaf == FreeSlot(t)
  IN InsertLeaf([t EXCEPT !.box = Put(@, leaf, aabb),
                          !.parent = Put(@, leaf, NoNode),
                          !.value = Put(@, leaf, value)], leaf)

Removed(t, leaf) ==
  LET orphaned == OrphanLeaf(t, leaf)
  IN [orphaned EXCEPT !.box = Drop(@, leaf), !.parent = Drop(@, leaf), !.value = Drop(@, leaf)]

\* The leaf goes back with the box that it had.
UpdatedNothing(t, leaf, aabb) == InsertLeaf(OrphanLeaf(t, leaf), leaf)

UpdatedAabb(t, leaf, aabb) == InsertLeaf([OrphanLeaf(t, leaf) EXCEPT !.box[leaf] = aabb], leaf)

\* The leaves that ColliderBus::lookup descends to.
Reached(t, aabb) ==
  {leaf \in Leaves(t) : \A n \in Range(Line(t, leaf)) : Intersects(t.box[n], aabb)}
=============================================================================
