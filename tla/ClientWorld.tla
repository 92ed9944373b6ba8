----------------------------- MODULE ClientWorld -----------------------------
(***************************************************************************)
(* The world of the client, frame by frame (hg-client driver.rs): the      *)
(* flush unregisters the colliders of what dies, the packets of the server *)
(* spawn, move and remove players, the owned player moves and slides, and  *)
(* last the colliders follow.                                              *)
(*                                                                         *)
(* A collider is named by who has it: a wall of the level, its ground of   *)
(* tiles, or a player.  Players come and go; the level stays.              *)
(***************************************************************************)
EXTENDS Bvh, TileMap

CONSTANTS
  Player,      \* players that the server may announce, each of them once
  Ground,      \* the collider of the tile map
  Wall,        \* the boxes of the level's walls, in the order of spawn_level
  LevelTile,   \* the positions that spawn_tile_map decides on, in its order
  TileSize,
  HalfSize,    \* of a player
  Spot,        \* bound: where the server puts players
  Delta,       \* bound: how far an owned player wants to move in one frame
  Window,      \* bound: the box that the owned player's moves stay in
  MaxSteps     \* of MoveAndSlide

Vector == Int \X Int
Box == [min : Vector, max : Vector]

ASSUME ClientWorldAssumption ==
  /\ Ground \notin Player /\ Player \cap DOMAIN Wall = {} /\ Ground \notin DOMAIN Wall
  /\ Wall \in Seq(Box) /\ LevelTile \in Seq(TilePos)
  /\ TileSize \in Nat \ {0} /\ HalfSize \in Nat /\ MaxSteps \in Nat
  /\ Spot \subseteq Vector /\ Delta \subseteq Vector

VARIABLES
  phase,       \* which system of world_tick runs
  laid,        \* how many of LevelTile are decided
  map,         \* the TileMap of the level
  tree,        \* ColliderBus::tree
  collider,    \* of everyone: registered with the bus, bhv_idx, aabb
  player,      \* of every player: life, kind (of PlayerReplicator), pos
  listed,      \* what the queries take a player for: the lists are as of the last flush
  todo,        \* the players that the query of the running system has not reached
  slide        \* the MoveAndSlide of the owned player

vars == <<phase, laid, map, tree, collider, player, listed, todo, slide>>

LevelColliders == <<Ground>> \o [i \in DOMAIN Wall |-> i]
Collider == Range(LevelColliders) \cup Player

\* A collider before it is registered, and the box it is registered with.
Unregistered == [bus |-> FALSE, idx |-> NoNode, aabb |-> ZeroBox]
LevelBox(c) == IF c = Ground THEN EVERYWHERE ELSE Wall[c]

Nobody == [life |-> "absent", kind |-> "none", pos |-> ZERO]
Gone == [Nobody EXCEPT !.life = "gone"]
AtRest == [who |-> {}, steps |-> 0, delta |-> ZERO]

Init ==
  /\ phase = "level" /\ laid = 0
  /\ map = EmptyMap
  /\ tree = EmptyTree
  /\ collider = [c \in Collider |-> Unregistered]
  /\ player = [p \in Player |-> Nobody]
  /\ listed = [p \in Player |-> "none"]
  /\ todo = {}
  /\ slide = AtRest

Life(p) == player[p].life
Present == {p \in Player : Life(p) \in {"alive", "condemned"}}
Living == {p \in Player : Life(p) = "alive"}
Body(p) == NewCentered(player[p].pos, HalfSize)

-----------------------------------------------------------------------------
(* ColliderBus *)

Register(c, aabb) ==
  /\ ~collider[c].bus
  /\ tree' \in Inserted(tree, aabb, c)
  /\ collider' = [collider EXCEPT ![c] = [bus |-> TRUE, idx |-> FreeSlot(tree), aabb |-> aabb]]

Unregister(c) ==
  /\ collider[c].bus
  /\ tree' = Removed(tree, collider[c].idx)
  /\ collider' = [collider EXCEPT ![c].bus = FALSE]

SetAabb(c, aabb) ==
  /\ collider' = [collider EXCEPT ![c].aabb = aabb]
  /\ tree' \in UpdatedAabb(tree, collider[c].idx, aabb)

Found(aabb) == {tree.value[leaf] : leaf \in Reached(tree, aabb)}

-----------------------------------------------------------------------------
(* TileCollider: the tiles below a box, row by row. *)

TileOf(v) == <<v[1] \div TileSize, v[2] \div TileSize>>
TileBox(p) ==
  [min |-> <<p[1] * TileSize, p[2] * TileSize>>,
   max |-> <<(p[1] + 1) * TileSize, (p[2] + 1) * TileSize>>]

TilesBelow(aabb) ==
  LET lo == TileOf(aabb.min)
      hi == TileOf(aabb.max)
      width == hi[1] - lo[1] + 1
  IN [k \in 1..(width * (hi[2] - lo[2] + 1)) |->
        <<lo[1] + ((k - 1) % width), lo[2] + ((k - 1) \div width)>>]

\* The map after a cast has read the tiles, and the result of the cast.
CastTiles(m, start, delta) ==
  LET visit(acc, p) ==
        [map |-> Load(acc.map, p),
         result |-> IF Content(acc.map, p) = Air THEN acc.result
                    ELSE Sooner(acc.result, HullCast(start, delta, TileBox(p)))]
  IN FoldLeft(visit, [map |-> m, result |-> Clear], TilesBelow(CandidateAabb(start, delta)))

-----------------------------------------------------------------------------
(* ColliderGroup::cast_hull, for the player's one collider. *)

\* collide_no_group: not with oneself.
Candidates(p, delta) == Found(CandidateAabb(collider[p].aabb, delta)) \ {p}

CastAgainst(c, start, delta) ==
  IF c = Ground THEN CastTiles(map, start, delta).result
  ELSE Sooner(Clear, HullCast(start, delta, collider[c].aabb))

\* Among equals the order of the lookup decides, but nothing replaces a clear result
\* that stops the move no earlier.
CastResults(p, delta) ==
  LET results == {CastAgainst(c, collider[p].aabb, delta) : c \in Candidates(p, delta)}
      first == {r \in results : r.num < r.den /\ \A s \in results : r.num * s.den <= s.num * r.den}
  IN IF first = {} THEN {Clear} ELSE first

MapAfterCast(p, delta) ==
  IF Ground \in Candidates(p, delta) THEN CastTiles(map, collider[p].aabb, delta).map ELSE map

-----------------------------------------------------------------------------
(* spawn_level *)

\* Each of the level's tiles is set or left as it is.
LayTile(id) ==
  /\ phase = "level" /\ laid < Len(LevelTile)
  /\ laid' = laid + 1
  /\ map' = IF id = Air THEN map ELSE Placed(map, LevelTile[laid + 1], id)
  /\ UNCHANGED <<phase, tree, collider, player, listed, todo, slide>>

RegisterLevel ==
  /\ phase = "level" /\ laid = Len(LevelTile)
  /\ \E i \in DOMAIN LevelColliders :
       /\ \A j \in 1..(i - 1) : collider[LevelColliders[j]].bus
       /\ Register(LevelColliders[i], LevelBox(LevelColliders[i]))
       /\ phase' = IF i = Len(LevelColliders) THEN "flush" ELSE "level"
  /\ UNCHANGED <<laid, map, player, listed, todo, slide>>

-----------------------------------------------------------------------------
(* Entity::flush(world_flush) *)

\* sys_flush_colliders, for one of the dying.
FlushCollider(p) ==
  /\ phase = "flush" /\ Life(p) = "condemned"
  /\ Unregister(p)
  /\ UNCHANGED <<phase, laid, map, player, listed, todo, slide>>

\* The dead do not wait for the handler.
FlushedUnseen == TRUE

\* The handler runs to its end before anyone dies.
Flushed == \A p \in Player : Life(p) = "condemned" => ~collider[p].bus

FlushEnd ==
  /\ phase = "flush" /\ Flushed
  /\ phase' = "rpc"
  /\ player' = [p \in Player |-> IF Life(p) = "condemned" THEN Gone ELSE player[p]]
  /\ listed' = [p \in Player |->
       IF p \notin Living THEN "none"
       ELSE IF player[p].kind = "owner" THEN "moving" ELSE "following"]
  /\ collider' = [c \in Collider |->
       IF c \in Player \ Living THEN Unregistered ELSE collider[c]]
  /\ UNCHANGED <<laid, map, tree, todo, slide>>

-----------------------------------------------------------------------------
(* sys_update_players, its packets *)

\* The collider starts out at the origin: it will follow at the end of a frame.
AddPlayer(p, at) ==
  /\ phase = "rpc" /\ Life(p) = "absent"
  /\ player' = [player EXCEPT ![p] = [life |-> "alive", kind |-> "none", pos |-> at]]
  /\ Register(p, ZeroBox)
  /\ UNCHANGED <<phase, laid, map, listed, todo, slide>>

\* A player has one kind for good, and the server gives a client one player to own.
BindKind(p, kind) ==
  /\ phase = "rpc" /\ Life(p) = "alive" /\ player[p].kind = "none"
  /\ kind = "owner" => \A q \in Player : player[q].kind # "owner"
  /\ player' = [player EXCEPT ![p].kind = kind]
  /\ UNCHANGED <<phase, laid, map, tree, collider, listed, todo, slide>>

SetPos(p, at) ==
  /\ phase = "rpc" /\ Life(p) = "alive" /\ player[p].kind = "puppet"
  /\ player' = [player EXCEPT ![p].pos = at]
  /\ UNCHANGED <<phase, laid, map, tree, collider, listed, todo, slide>>

RemovePlayer(p) ==
  /\ phase = "rpc" /\ Life(p) = "alive"
  /\ player' = [player EXCEPT ![p].life = "condemned"]
  /\ UNCHANGED <<phase, laid, map, tree, collider, listed, todo, slide>>

EndRpc ==
  /\ phase = "rpc"
  /\ phase' = "kinematics"
  /\ todo' = {p \in Player : listed[p] = "moving"}
  /\ UNCHANGED <<laid, map, tree, collider, player, listed, slide>>

-----------------------------------------------------------------------------
(* sys_apply_kinematics *)

\* A cast whose result the model leaves out: the heading, a bullet, the ground checker.
Probe(p, delta) ==
  /\ phase = "kinematics" /\ listed[p] = "moving" /\ slide.who = {}
  /\ map' = MapAfterCast(p, delta)
  /\ UNCHANGED <<phase, laid, tree, collider, player, listed, todo, slide>>

InWindow(v) == \A k \in 1..2 : Window.min[k] <= v[k] /\ v[k] <= Window.max[k]

\* Keys, gravity and friction may amount to any delta.
StartMove(p, delta) ==
  /\ phase = "kinematics" /\ slide.who = {} /\ p \in todo
  /\ InWindow(Plus(player[p].pos, delta))
  /\ todo' = todo \ {p}
  /\ slide' = [who |-> {p}, steps |-> MaxSteps, delta |-> delta]
  /\ UNCHANGED <<phase, laid, map, tree, collider, player, listed>>

Stay(p) ==
  /\ phase = "kinematics" /\ slide.who = {} /\ p \in todo
  /\ todo' = todo \ {p}
  /\ UNCHANGED <<phase, laid, map, tree, collider, player, listed, slide>>

\* The position moves; the collider that the casts start from does not.
SlideStep(p) ==
  /\ slide.who = {p} /\ ShouldStep(slide.steps, slide.delta)
  /\ \E result \in CastResults(p, slide.delta) :
       /\ player' = [player EXCEPT ![p].pos = Plus(@, Moved(slide.delta, result))]
       /\ slide' = [slide EXCEPT !.steps = @ - 1, !.delta = Slide(@, result)]
  /\ map' = MapAfterCast(p, slide.delta)
  /\ UNCHANGED <<phase, laid, tree, collider, listed, todo>>

SlideEnd ==
  /\ slide.who # {} /\ ~ShouldStep(slide.steps, slide.delta)
  /\ slide' = AtRest
  /\ UNCHANGED <<phase, laid, map, tree, collider, player, listed, todo>>

\* Only those who moved by themselves are followed.
EndKinematicsOwner ==
  /\ phase = "kinematics" /\ todo = {} /\ slide.who = {}
  /\ phase' = "colliders"
  /\ todo' = {p \in Player : listed[p] = "moving"}
  /\ UNCHANGED <<laid, map, tree, collider, player, listed, slide>>

EndKinematics ==
  /\ phase = "kinematics" /\ todo = {} /\ slide.who = {}
  /\ phase' = "colliders"
  /\ todo' = {p \in Player : listed[p] # "none"}
  /\ UNCHANGED <<laid, map, tree, collider, player, listed, slide>>

-----------------------------------------------------------------------------
(* sys_update_colliders *)

UpdateCollider(p) ==
  /\ phase = "colliders" /\ p \in todo
  /\ todo' = todo \ {p}
  /\ SetAabb(p, Body(p))
  /\ UNCHANGED <<phase, laid, map, player, listed, slide>>

EndFrame ==
  /\ phase = "colliders" /\ todo = {}
  /\ phase' = "flush"
  /\ UNCHANGED <<laid, map, tree, collider, player, listed, todo, slide>>

-----------------------------------------------------------------------------
Level == (\E id \in TileId : LayTile(id)) \/ RegisterLevel

Packets ==
  \E p \in Player :
    \/ \E at \in Spot : AddPlayer(p, at) \/ SetPos(p, at)
    \/ \E kind \in {"owner", "puppet"} : BindKind(p, kind)
    \/ RemovePlayer(p)

Kinematics ==
  \/ \E p \in Player :
       \/ \E delta \in Delta : Probe(p, delta) \/ StartMove(p, delta)
       \/ Stay(p)
       \/ SlideStep(p)
  \/ SlideEnd

Next ==
  \/ Level
  \/ \E p \in Player : FlushCollider(p) \/ UpdateCollider(p)
  \/ FlushEnd
  \/ Packets
  \/ EndRpc
  \/ Kinematics
  \/ EndKinematics
  \/ EndFrame

Spec == Init /\ [][Next]_vars

-----------------------------------------------------------------------------
Phase == {"level", "flush", "rpc", "kinematics", "colliders"}

TypeOK ==
  /\ phase \in Phase /\ laid \in 0..Len(LevelTile)
  /\ \A c \in Collider : collider[c] \in [bus : BOOLEAN, idx : Nat, aabb : Box]
  /\ player \in [Player -> [life : {"absent", "alive", "condemned", "gone"},
                            kind : {"none", "owner", "puppet"}, pos : Vector]]
  /\ listed \in [Player -> {"none", "following", "moving"}]
  /\ todo \subseteq Player /\ slide.who \subseteq Player
  /\ tree.root \in Nat /\ Nodes(tree) \subseteq Nat \ {NoNode}
  /\ \A n \in Nodes(tree) : tree.box[n] \in Box
  /\ map.pos \in Vector
  /\ \A chunk \in {map.curr} \cup Range(map.chunks) :
       /\ chunk.solid_num \in 0..(ChunkEdge * ChunkEdge)
       /\ \A c \in Cell : chunk.data[c] \in TileId

\* After every insertion, rotation and removal: parents and kids agree, every node
\* hangs below the root, and the arena holds nothing else.
TreeLinked ==
  /\ Nodes(tree) = Branches(tree) \cup Leaves(tree) /\ Branches(tree) \cap Leaves(tree) = {}
  /\ Nodes(tree) = DOMAIN tree.parent
  /\ tree.root = NoNode <=> Nodes(tree) = {}
  /\ \A n \in Branches(tree) :
       /\ tree.kids[n][1] # tree.kids[n][2]
       /\ \A m \in Range(tree.kids[n]) : m \in Nodes(tree) /\ tree.parent[m] = n
  /\ \A n \in Nodes(tree) :
       /\ Last(Line(tree, n)) = tree.root
       /\ n # tree.root => n \in Range(tree.kids[tree.parent[n]])

\* A bhv_idx stays good while others come, go and are rotated around it: it leads to the
\* one leaf of its collider, with the collider's box, and no leaf is without a collider.
HandlesGood ==
  /\ \A c \in Collider : collider[c].bus =>
       /\ collider[c].idx \in Leaves(tree)
       /\ tree.value[collider[c].idx] = c
       /\ tree.box[collider[c].idx] = collider[c].aabb
  /\ \A leaf \in Leaves(tree) :
       collider[tree.value[leaf]].bus /\ collider[tree.value[leaf]].idx = leaf

\* What a lookup finds can still be asked for its material, its group, its box: everyone
\* in the tree is of the level or a player that is still there.
FoundPresent == \A leaf \in Leaves(tree) : tree.value[leaf] \in Range(LevelColliders) \cup Present

\* Only a rotation leaves a branch behind that does not hold its kids.
BoundUnlessRotated ==
  \A n \in Branches(tree) \ tree.stale : \A m \in Range(tree.kids[n]) :
    Encloses(tree.box[n], tree.box[m])

\* The boxes that are inserted.
Inserting == {EVERYWHERE, ZeroBox} \cup Range(Wall) \cup {NewCentered(at, HalfSize) : at \in Spot}

\* The cost that the comment in find_best_sibling defines, for a sibling anywhere.
Cost(aabb, n) ==
  LET line == Line(tree, n)
      above == {line[i] : i \in 2..(Len(line) - 1)}
      growths == [m \in above |-> Growth(tree, aabb, m)]
  IN FPlus(DirectCost(tree, aabb, n), FoldFunction(FPlus, 0, growths))

\* Pruning the search loses nothing: no node would have been a cheaper sibling.
BestSiblingLeast ==
  phase \in {"level", "rpc", "colliders"} /\ tree.root # NoNode =>
    \A aabb \in Inserting : \A s \in FindBestSibling(tree, aabb) : \A n \in Nodes(tree) :
      ~FLess(Cost(aabb, n), Cost(aabb, s))

\* At the end of a frame the boxes of the players are where the players are, but for
\* those whom no query knows yet.
CollidersFollowed ==
  phase = "flush" => \A p \in Player : listed[p] # "none" => collider[p].aabb = Body(p)

ApartBy(gap, axis, a, b) == a.max[axis] + gap <= b.min[axis] \/ b.max[axis] + gap <= a.min[axis]

\* What the casts of player p run into, of what they find.
Obstacles(p, delta) ==
  LET found == Candidates(p, delta)
      tiles == IF Ground \in found THEN Range(TilesBelow(CandidateAabb(collider[p].aabb, delta)))
               ELSE {}
  IN {collider[c].aabb : c \in found \ {Ground}}
       \cup {TileBox(t) : t \in {t \in tiles : Content(map, t) # Air}}

\* A cast along an axis ends at the safety threshold or before, of whatever is in its way
\* and the player kept that distance to.
CastsKeepApart ==
  phase = "kinematics" => \A p \in Living : \A d \in Delta : \A axis \in 1..2 :
    LET delta == OnAxis(axis, d[axis])
        start == collider[p].aabb
    IN \A r \in CastResults(p, delta) : \A o \in Obstacles(p, delta) :
         ~ApartBy(1, 3 - axis, start, o) /\ ApartBy(SafetyThreshold, axis, start, o) =>
           ApartBy(SafetyThreshold, axis, Translated(start, Moved(delta, r)), o)

\* To leave a tile as it is, is to set it to what it is.
Grid == INSTANCE TileGrid WITH grid <- [p \in TilePos |-> Content(map, p)], calls <- laid

\* Moving chunks in and out of the map's hash map is not to be noticed: the level's own
\* calls of set change one tile each, and the casts, which read, change none.
TilesKept == Grid!Spec

\* A lookup passes no registered collider by.
LookupComplete == \A c \in Collider : collider[c].bus => c \in Found(collider[c].aabb)

\* The tree is one, the colliders' handles into it lead to their own leaves, and a lookup
\* prunes by boxes that bound what is below them, unless a rotation has spoiled one.
TreeSound == TypeOK /\ TreeLinked /\ HandlesGood /\ BoundUnlessRotated

\* Colliders follow the entities: those found are present, those listed are up to date.
CollidersCurrent == FoundPresent /\ CollidersFollowed
=============================================================================
