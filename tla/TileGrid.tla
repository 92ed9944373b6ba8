------------------------------ MODULE TileGrid ------------------------------
(***************************************************************************)
(* What a tile map promises: it is a function from positions to tiles that *)
(* only a call of set changes, and only where it is told to.               *)
(***************************************************************************)
EXTENDS Naturals

CONSTANTS
  TilePos,  \* the positions asked about
  TileId,   \* the tiles
  Air       \* the tile of the positions that nobody set

VARIABLES
  grid,
  calls     \* how often set was called

Init == grid = [p \in TilePos |-> Air] /\ calls = 0

Set(p, id) ==
  /\ grid' = [grid EXCEPT ![p] = id]
  /\ calls' = calls + 1

Next == \E p \in TilePos, id \in TileId : Set(p, id)

Spec == Init /\ [][Next]_<<grid, calls>>
=============================================================================
