------------------------------- MODULE TileMap -------------------------------
(***************************************************************************)
(* A tile map (tile/map.rs): chunks in a hash map, and one chunk that is   *)
(* kept out of it because it was used last.  Reading a tile moves chunks   *)
(* as well, and a chunk of air is in neither place.                        *)
(*                                                                         *)
(* The map is a record; the operators say what a call makes of it.         *)
(***************************************************************************)
EXTENDS Integers

CONSTANTS
  ChunkEdge,  \* CHUNK_EDGE
  TilePos,    \* the positions that are looked at
  TileId,     \* the tiles of the palette
  Air         \* TileId(0)

ASSUME TileMapAssumption ==
  /\ ChunkEdge \in Nat \ {0}
  /\ TilePos \subseteq Int \X Int
  /\ Air \in TileId

\* decompose_pos: div_euclid and rem_euclid by the edge, which is positive.
ChunkOf(p) == <<p[1] \div ChunkEdge, p[2] \div ChunkEdge>>
RelOf(p) == (p[2] % ChunkEdge) * ChunkEdge + (p[1] % ChunkEdge)

Cell == 0..(ChunkEdge * ChunkEdge - 1)
EmptyChunk == [solid_num |-> 0, data |-> [c \in Cell |-> Air]]

EmptyMap == [pos |-> <<0, 0>>, curr |-> EmptyChunk, chunks |-> [c \in {} |-> EmptyChunk]]

\* Chunks without the chunk at c, and with `chunk` at c.
Without(chunks, c) == [x \in DOMAIN chunks \ {c} |-> chunks[x]]
With(chunks, c, chunk) ==
  [x \in DOMAIN chunks \cup {c} |-> IF x = c THEN chunk ELSE chunks[x]]

\* The current chunk is forgotten when another one is taken from the map.
LoadChunkForget(m, c) ==
  IF m.pos = c THEN m
  ELSE LET taken == IF c \in DOMAIN m.chunks THEN m.chunks[c] ELSE EmptyChunk
       IN [pos |-> c, curr |-> taken, chunks |-> Without(m.chunks, c)]

\* An empty current chunk is dropped, or goes on as the empty chunk of the new position.
LoadChunk(m, c) ==
  IF m.pos = c THEN m
  ELSE LET taken == IF c \in DOMAIN m.chunks THEN m.chunks[c] ELSE EmptyChunk
           rest == Without(m.chunks, c)
       IN [pos |-> c,
           curr |-> IF m.curr.solid_num = 0 /\ c \notin DOMAIN m.chunks THEN m.curr ELSE taken,
           chunks |-> IF m.curr.solid_num = 0 THEN rest ELSE With(rest, m.pos, m.curr)]

\* get(p): the tile is Tile(Load(m, p), p).
Load(m, p) == LoadChunk(m, ChunkOf(p))
Tile(m, p) == m.curr.data[RelOf(p)]

Solidity(id) == IF id = Air THEN 0 ELSE 1

\* The old tile counts for the new one.
PlacedMiscounted(m, p, id) ==
  LET loaded == Load(m, p)
  IN [loaded EXCEPT
        !.curr.solid_num = @ - Solidity(id) + Solidity(Tile(loaded, p)),
        !.curr.data[RelOf(p)] = id]

Placed(m, p, id) ==
  LET loaded == Load(m, p)
  IN [loaded EXCEPT
        !.curr.solid_num = @ + Solidity(id) - Solidity(Tile(loaded, p)),
        !.curr.data[RelOf(p)] = id]

\* What get would answer.
Content(m, p) == Tile(Load(m, p), p)
=============================================================================
