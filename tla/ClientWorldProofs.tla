-------------------------- MODULE ClientWorldProofs --------------------------
(***************************************************************************)
(* Proofs about ClientWorld, with its tree, its tile map and its casts,    *)
(* for any level, any players and any moves.                               *)
(*                                                                         *)
(* Most of them are about pure operators.  The operators of Bvh are proved *)
(* to lead from trees to trees, a shape at a time: a rotation that swaps a *)
(* child of a branch with one of its grandchildren, the new branch that an *)
(* insertion puts above a sibling, the branch that a removal takes out.    *)
(* A branch has a rank that is greater than those of its children, which   *)
(* is why a line to the root ends.  Bounds is that of the boxes, which an  *)
(* insertion refits from the leaf upwards while it rotates.  What a cast   *)
(* against many obstacles returns is the least of the fractions.           *)
(*                                                                         *)
(* The theorems of the library that have an operator as a parameter are    *)
(* not for these provers: an induction over the natural numbers is the     *)
(* least one at which something fails (LeastNatural), and that a recursive *)
(* function is defined is shown up to each number (FoldExists).            *)
(***************************************************************************)
EXTENDS ClientWorld, FiniteSetTheorems, SequenceTheorems, WellFoundedInduction, TLAPS

----------------------------------------------------------------------------
(* The tile map *)

LEMMA DivMod ==
  ASSUME NEW a \in Int, NEW b \in Nat \ {0}
  PROVE  a \div b \in Int /\ a % b \in 0..(b - 1) /\ a = b * (a \div b) + (a % b)
OBVIOUS

LEMMA RowMajor ==
  ASSUME NEW e \in Nat \ {0}, NEW a \in 0..(e - 1), NEW b \in 0..(e - 1),
         NEW c \in 0..(e - 1), NEW d \in 0..(e - 1)
  PROVE  /\ a * e + b \in 0..(e * e - 1)
         /\ a * e + b = c * e + d => a = c /\ b = d
<1>1. a * e + b \in Int /\ a * e \in Int /\ c * e \in Int /\ e * e \in Int
  OBVIOUS
<1>2. (a + 1) * e <= e * e /\ a * e >= 0 /\ (a + 1) * e = a * e + e
  OBVIOUS
<1>3. a * e + b \in 0..(e * e - 1)
  BY <1>1, <1>2
<1>4. a < c => (a + 1) * e <= c * e
  OBVIOUS
<1>5. c < a => (c + 1) * e <= a * e /\ (c + 1) * e = c * e + e
  OBVIOUS
<1>6. a * e + b = c * e + d => a = c /\ b = d
  BY <1>1, <1>2, <1>4, <1>5
<1>7. QED
  BY <1>3, <1>6

\* A position is its chunk and its cell there.
LEMMA PlaceOfTile ==
  ASSUME NEW p \in Vector
  PROVE  /\ ChunkOf(p) \in Vector /\ RelOf(p) \in Cell
         /\ \A q \in Vector : ChunkOf(p) = ChunkOf(q) /\ RelOf(p) = RelOf(q) => p = q
<1> DEFINE Row(v) == v[2] % ChunkEdge
           Col(v) == v[1] % ChunkEdge
<1>1. \A v \in Vector : v = <<v[1], v[2]>> /\ v[1] \in Int /\ v[2] \in Int
  BY DEF Vector
<1>2. \A v \in Vector :
        /\ v[1] \div ChunkEdge \in Int /\ v[2] \div ChunkEdge \in Int
        /\ Row(v) \in 0..(ChunkEdge - 1) /\ Col(v) \in 0..(ChunkEdge - 1)
        /\ v[1] = ChunkEdge * (v[1] \div ChunkEdge) + Col(v)
        /\ v[2] = ChunkEdge * (v[2] \div ChunkEdge) + Row(v)
  BY <1>1, DivMod, TileMapAssumption
<1>3. \A v \in Vector : RelOf(v) = Row(v) * ChunkEdge + Col(v)
  BY DEF RelOf
<1> HIDE DEF Row, Col
<1>4. ChunkOf(p) \in Vector
  BY <1>2 DEF ChunkOf, Vector
<1>5. RelOf(p) \in Cell
  <2>1. Row(p) * ChunkEdge + Col(p) \in 0..(ChunkEdge * ChunkEdge - 1)
    BY <1>2, RowMajor, TileMapAssumption
  <2>2. QED
    BY <1>3, <2>1 DEF Cell
<1>6. ASSUME NEW q \in Vector, ChunkOf(p) = ChunkOf(q), RelOf(p) = RelOf(q) PROVE p = q
  <2>1. Row(p) = Row(q) /\ Col(p) = Col(q)
    <3> PICK a, b, c, d : a = Row(p) /\ b = Col(p) /\ c = Row(q) /\ d = Col(q)
      OBVIOUS
    <3>1. a * ChunkEdge + b = c * ChunkEdge + d
      BY <1>3, <1>6
    <3>1a. /\ a \in 0..(ChunkEdge - 1) /\ b \in 0..(ChunkEdge - 1)
           /\ c \in 0..(ChunkEdge - 1) /\ d \in 0..(ChunkEdge - 1)
      BY <1>2
    <3>1b. a = c /\ b = d
      BY ONLY <3>1, <3>1a, RowMajor, TileMapAssumption
    <3>2. QED
      BY <3>1b
  <2>2. p[1] \div ChunkEdge = q[1] \div ChunkEdge /\ p[2] \div ChunkEdge = q[2] \div ChunkEdge
    BY <1>6 DEF ChunkOf
  <2>3. p[1] = q[1] /\ p[2] = q[2]
    BY <1>2, <2>1, <2>2
  <2>4. QED
    BY <1>1, <2>3
<1>7. QED
  BY <1>4, <1>5, <1>6

Solid(chunk) == {c \in Cell : chunk.data[c] # Air}

ChunkSound(chunk) ==
  /\ chunk \in [solid_num : Nat, data : [Cell -> TileId]]
  /\ chunk.solid_num = Cardinality(Solid(chunk))

\* A chunk is in one place, and knows how much of it is not air.
MapSound(m) ==
  /\ m = [pos |-> m.pos, curr |-> m.curr, chunks |-> m.chunks]
  /\ m.pos \in Vector /\ m.pos \notin DOMAIN m.chunks
  /\ ChunkSound(m.curr)
  /\ \A c \in DOMAIN m.chunks : ChunkSound(m.chunks[c])

\* Where chunk c is, wherever it is.
ChunkAt(m, c) ==
  IF c = m.pos THEN m.curr ELSE IF c \in DOMAIN m.chunks THEN m.chunks[c] ELSE EmptyChunk

LEMMA CellsFinite ==
  /\ IsFiniteSet(Cell) /\ Cardinality(Cell) = ChunkEdge * ChunkEdge
  /\ \A chunk : IsFiniteSet(Solid(chunk)) /\ Cardinality(Solid(chunk)) \in 0..(ChunkEdge * ChunkEdge)
<1> PICK n : n = ChunkEdge * ChunkEdge
  OBVIOUS
<1>1. n \in Nat /\ n >= 1
  BY TileMapAssumption
<1>2. IsFiniteSet(0..(n - 1)) /\ Cardinality(0..(n - 1)) = n
  <2>1. n - 1 \in Int /\ 0 \in Int
    BY <1>1
  <2>2. QED
    BY <1>1, <2>1, FS_Interval
<1>3. Cell = 0..(n - 1)
  BY DEF Cell
<1>4. \A chunk : Solid(chunk) \subseteq Cell
  BY DEF Solid
<1>5. \A chunk : IsFiniteSet(Solid(chunk)) /\ Cardinality(Solid(chunk)) <= n
  BY <1>2, <1>3, <1>4, FS_Subset
<1>6. \A chunk : Cardinality(Solid(chunk)) \in Nat
  BY <1>5, FS_CardinalityType
<1>7. QED
  BY <1>2, <1>3, <1>5, <1>6

LEMMA EmptyIsSound == ChunkSound(EmptyChunk)
<1>1. EmptyChunk \in [solid_num : Nat, data : [Cell -> TileId]]
  BY TileMapAssumption DEF EmptyChunk
<1>2. Solid(EmptyChunk) = {} /\ EmptyChunk.solid_num = 0
  BY DEF Solid, EmptyChunk
<1>3. QED
  BY <1>1, <1>2, FS_EmptySet DEF ChunkSound

LEMMA EmptyIs ==
  ASSUME NEW chunk, ChunkSound(chunk), chunk.solid_num = 0
  PROVE  chunk = EmptyChunk
<1>1. Solid(chunk) = {}
  BY CellsFinite, FS_EmptySet DEF ChunkSound
<1>2. chunk = [solid_num |-> 0, data |-> chunk.data] /\ chunk.data \in [Cell -> TileId]
  BY DEF ChunkSound
<1>3. \A c \in Cell : chunk.data[c] = Air
  BY <1>1 DEF Solid
<1>4. chunk.data = [c \in Cell |-> Air]
  BY <1>2, <1>3
<1>5. QED
  BY <1>2, <1>4 DEF EmptyChunk

LEMMA LoadKeeps ==
  ASSUME NEW m, MapSound(m), NEW c \in Vector
  PROVE  /\ MapSound(LoadChunk(m, c))
         /\ LoadChunk(m, c).pos = c
         /\ \A d \in Vector : ChunkAt(LoadChunk(m, c), d) = ChunkAt(m, d)
<1>1. CASE m.pos = c
  BY <1>1 DEF LoadChunk
<1>2. CASE m.pos # c
  <2> DEFINE taken == IF c \in DOMAIN m.chunks THEN m.chunks[c] ELSE EmptyChunk
             rest == Without(m.chunks, c)
             curr == IF m.curr.solid_num = 0 /\ c \notin DOMAIN m.chunks THEN m.curr ELSE taken
             chunks == IF m.curr.solid_num = 0 THEN rest ELSE With(rest, m.pos, m.curr)
  <2> PICK l : l = LoadChunk(m, c)
    OBVIOUS
  <2>1. l = [pos |-> c, curr |-> curr, chunks |-> chunks]
    BY <1>2 DEF LoadChunk
  <2>2. curr = taken
    BY EmptyIs DEF MapSound
  <2>3. ChunkSound(taken)
    BY EmptyIsSound DEF MapSound
  <2>4. DOMAIN rest = DOMAIN m.chunks \ {c} /\ \A x \in DOMAIN rest : rest[x] = m.chunks[x]
    BY DEF Without
  <2> HIDE DEF rest, taken, curr
  <2>5. CASE m.curr.solid_num = 0
    <3>1. chunks = rest /\ m.curr = EmptyChunk
      BY <2>5, EmptyIs DEF MapSound
    <3> HIDE DEF chunks
    <3>2. MapSound(l)
      BY <2>1, <2>2, <2>3, <2>4, <3>1 DEF MapSound
    <3>3. \A d \in Vector : ChunkAt(l, d) = ChunkAt(m, d)
      BY <1>2, <2>1, <2>2, <2>4, <3>1 DEF ChunkAt, taken, MapSound
    <3>4. QED
      BY <2>1, <3>2, <3>3
  <2>6. CASE m.curr.solid_num # 0
    <3>1. chunks = With(rest, m.pos, m.curr)
      BY <2>6
    <3>2. /\ DOMAIN chunks = DOMAIN rest \cup {m.pos} /\ chunks[m.pos] = m.curr
          /\ \A x \in DOMAIN rest : x # m.pos => chunks[x] = rest[x]
      BY <3>1 DEF With
    <3> HIDE DEF chunks
    <3>3. MapSound(l)
      BY <1>2, <2>1, <2>2, <2>3, <2>4, <3>2 DEF MapSound
    <3>4. \A d \in Vector : ChunkAt(l, d) = ChunkAt(m, d)
      BY <1>2, <2>1, <2>2, <2>4, <3>2 DEF ChunkAt, taken, MapSound
    <3>5. QED
      BY <2>1, <3>3, <3>4
  <2>7. QED
    BY <2>5, <2>6
<1>3. QED
  BY <1>1, <1>2

LEMMA ContentIs ==
  ASSUME NEW m, MapSound(m), NEW p \in Vector
  PROVE  /\ Content(m, p) = ChunkAt(m, ChunkOf(p)).data[RelOf(p)]
         /\ Content(m, p) \in TileId
<1>1. ChunkOf(p) \in Vector /\ RelOf(p) \in Cell
  BY PlaceOfTile
<1> PICK l : l = LoadChunk(m, ChunkOf(p))
  OBVIOUS
<1>2. l.pos = ChunkOf(p) /\ ChunkAt(l, ChunkOf(p)) = ChunkAt(m, ChunkOf(p)) /\ MapSound(l)
  BY <1>1, LoadKeeps
<1>3. ChunkAt(l, ChunkOf(p)) = l.curr
  BY <1>2 DEF ChunkAt
<1>4. Content(m, p) = l.curr.data[RelOf(p)]
  BY DEF Content, Load, Tile
<1>5. QED
  BY <1>1, <1>2, <1>3, <1>4 DEF MapSound, ChunkSound

\* Reading a tile is not to be noticed.
LEMMA LoadUnnoticed ==
  ASSUME NEW m, MapSound(m), NEW p \in Vector
  PROVE  /\ MapSound(Load(m, p))
         /\ \A q \in Vector : Content(Load(m, p), q) = Content(m, q)
<1>1. ChunkOf(p) \in Vector /\ \A q \in Vector : ChunkOf(q) \in Vector
  BY PlaceOfTile
<1>2. MapSound(Load(m, p)) /\ \A d \in Vector : ChunkAt(Load(m, p), d) = ChunkAt(m, d)
  BY <1>1, LoadKeeps DEF Load
<1>3. QED
  BY <1>1, <1>2, ContentIs

\* Setting a cell, and its chunk's count.
LEMMA CellSet ==
  ASSUME NEW chunk, ChunkSound(chunk), NEW c \in Cell, NEW id \in TileId
  PROVE  LET data == [chunk.data EXCEPT ![c] = id]
             num == chunk.solid_num + Solidity(id) - Solidity(chunk.data[c])
         IN ChunkSound([solid_num |-> num, data |-> data])
<1> DEFINE data == [chunk.data EXCEPT ![c] = id]
           num == chunk.solid_num + Solidity(id) - Solidity(chunk.data[c])
           new == [solid_num |-> num, data |-> data]
           old == Solid(chunk)
<1>1. chunk.data \in [Cell -> TileId] /\ chunk.solid_num \in Nat /\ chunk.solid_num = Cardinality(old)
  BY DEF ChunkSound
<1>2. IsFiniteSet(old)
  BY CellsFinite
<1>3. Solid(new) = IF id = Air THEN old \ {c} ELSE old \cup {c}
  BY <1>1 DEF Solid
<1>4. c \in old <=> chunk.data[c] # Air
  BY DEF Solid
<1>5. /\ Cardinality(old \cup {c}) = IF c \in old THEN Cardinality(old) ELSE Cardinality(old) + 1
      /\ Cardinality(old \ {c}) = IF c \in old THEN Cardinality(old) - 1 ELSE Cardinality(old)
  BY <1>2, FS_AddElement, FS_RemoveElement
<1>6. num = Cardinality(Solid(new))
  BY <1>1, <1>3, <1>4, <1>5 DEF Solidity
<1>7. Cardinality(Solid(new)) \in Nat
  BY CellsFinite
<1>8. data \in [Cell -> TileId]
  BY <1>1
<1> HIDE DEF data, num
<1>9. new \in [solid_num : Nat, data : [Cell -> TileId]]
  BY <1>6, <1>7, <1>8
<1>10. QED
  BY <1>6, <1>9 DEF ChunkSound, data, num

\* Setting a tile changes that one.
LEMMA PlacedChangesOne ==
  ASSUME NEW m, MapSound(m), NEW p \in Vector, NEW id \in TileId
  PROVE  /\ MapSound(Placed(m, p, id))
         /\ \A q \in Vector : Content(Placed(m, p, id), q) = IF q = p THEN id ELSE Content(m, q)
<1> PICK l : l = Load(m, p)
  OBVIOUS
<1> PICK c : c = RelOf(p)
  OBVIOUS
<1> PICK n : n = Placed(m, p, id)
  OBVIOUS
<1>1. ChunkOf(p) \in Vector /\ c \in Cell /\ \A q \in Vector : ChunkOf(q) \in Vector /\ RelOf(q) \in Cell
  BY PlaceOfTile
<1>2. /\ MapSound(l) /\ l.pos = ChunkOf(p)
      /\ \A d \in Vector : ChunkAt(l, d) = ChunkAt(m, d)
  BY <1>1, LoadKeeps DEF Load
<1> DEFINE num == l.curr.solid_num + Solidity(id) - Solidity(l.curr.data[c])
           data == [l.curr.data EXCEPT ![c] = id]
<1>3. /\ l = [pos |-> l.pos, curr |-> l.curr, chunks |-> l.chunks]
      /\ l.curr = [solid_num |-> l.curr.solid_num, data |-> l.curr.data]
      /\ l.curr.data \in [Cell -> TileId]
  BY <1>2 DEF MapSound, ChunkSound
<1>4. n = [l EXCEPT !.curr.solid_num = @ + Solidity(id) - Solidity(Tile(l, p)), !.curr.data[c] = id]
  BY DEF Placed
<1>5. n = [pos |-> l.pos, curr |-> [solid_num |-> num, data |-> data], chunks |-> l.chunks]
  <2> DEFINE counted == [l.curr EXCEPT !.solid_num = @ + Solidity(id) - Solidity(l.curr.data[c])]
  <2>1. counted = [solid_num |-> num, data |-> l.curr.data]
    BY <1>3
  <2> HIDE DEF counted
  <2>2. [counted EXCEPT !.data[c] = id] = [solid_num |-> num, data |-> data]
    <3> HIDE DEF num
    <3>1. [counted EXCEPT !.data[c] = id] = [solid_num |-> num, data |-> [counted.data EXCEPT ![c] = id]]
      BY <2>1
    <3>2. counted.data = l.curr.data
      BY <2>1
    <3>3. QED
      BY <3>1, <3>2
  <2> USE DEF counted
  <2>3. Solidity(Tile(l, p)) = Solidity(l.curr.data[c])
    BY DEF Tile
  <2> HIDE DEF num, data
  <2>4. n = [[l EXCEPT !.curr = counted] EXCEPT !.curr.data[c] = id]
    BY <1>3, <1>4, <2>3
  <2>5. [l EXCEPT !.curr = counted] = [pos |-> l.pos, curr |-> counted, chunks |-> l.chunks]
    BY <1>3
  <2> HIDE DEF counted
  <2>6. n = [pos |-> l.pos, curr |-> [counted EXCEPT !.data[c] = id], chunks |-> l.chunks]
    BY <2>4, <2>5
  <2>7. QED
    BY <2>2, <2>6
<1>6. ChunkSound([solid_num |-> num, data |-> data])
  BY <1>1, <1>2, CellSet DEF MapSound
<1>7. data[c] = id /\ \A d \in Cell : d # c => data[d] = l.curr.data[d]
  BY <1>1, <1>3
<1> HIDE DEF num, data
<1>8. MapSound(n)
  BY <1>2, <1>5, <1>6 DEF MapSound
<1>9. ASSUME NEW q \in Vector PROVE Content(n, q) = IF q = p THEN id ELSE Content(m, q)
  <2>1. Content(n, q) = ChunkAt(n, ChunkOf(q)).data[RelOf(q)]
    BY <1>8, ContentIs
  <2>2. Content(m, q) = ChunkAt(l, ChunkOf(q)).data[RelOf(q)]
    BY <1>1, <1>2, ContentIs
  <2>3. CASE ChunkOf(q) = ChunkOf(p)
    <3>1. ChunkAt(n, ChunkOf(q)).data = data /\ ChunkAt(l, ChunkOf(q)).data = l.curr.data
      BY <1>2, <1>5, <2>3 DEF ChunkAt
    <3>2. q = p <=> RelOf(q) = c
      BY <2>3, PlaceOfTile
    <3>3. QED
      BY <1>1, <1>7, <2>1, <2>2, <3>1, <3>2
  <2>4. CASE ChunkOf(q) # ChunkOf(p)
    <3>1. ChunkAt(n, ChunkOf(q)) = ChunkAt(l, ChunkOf(q))
      BY <1>2, <1>5, <2>4 DEF ChunkAt
    <3>2. q # p
      BY <2>4
    <3>3. QED
      BY <2>1, <2>2, <3>1, <3>2
  <2>5. QED
    BY <2>3, <2>4
<1>10. QED
  BY <1>8, <1>9

----------------------------------------------------------------------------
(* Induction and folds *)

LEMMA LeastNatural ==
  ASSUME NEW T, T \subseteq Nat, T # {}
  PROVE  \E m \in T : \A k \in T : m <= k
<1> DEFINE R == OpToRel(<, Nat)
<1>1. IsWellFoundedOn(R, Nat)
  BY NatLessThanWellFounded
<1>2. \A x, y \in Nat : x < y => <<x, y>> \in R
  BY DEF OpToRel
<1> HIDE DEF R
<1>3. PICK m \in T : \A y \in T : ~ (<<y, m>> \in R)
  BY <1>1, WFMin
<1>4. \A k \in T : m <= k
  <2> SUFFICES ASSUME NEW k \in T PROVE m <= k
    OBVIOUS
  <2>1. k \in Nat /\ m \in Nat
    OBVIOUS
  <2>2. ~ (<<k, m>> \in R)
    BY <1>3
  <2>3. k < m => <<k, m>> \in R
    BY <1>2, <2>1
  <2>4. QED
    BY <2>1, <2>2, <2>3
<1>5. QED
  BY <1>4

LEMMA NaturalsIn ==
  ASSUME NEW P, 0 \in P, \A n \in Nat : n \in P => n + 1 \in P
  PROVE  Nat \subseteq P
<1> DEFINE T == Nat \ P
<1> SUFFICES ASSUME T # {} PROVE FALSE
  OBVIOUS
<1>1. T \subseteq Nat
  OBVIOUS
<1> HIDE DEF T
<1>2. PICK m \in T : \A k \in T : m <= k
  BY <1>1, LeastNatural
<1>3. m \in Nat /\ m \notin P /\ m # 0
  BY DEF T
<1>4. m - 1 \in Nat /\ ~(m <= m - 1) /\ (m - 1) + 1 = m
  BY <1>3
<1>5. m - 1 \notin T
  BY <1>2, <1>4
<1>6. m - 1 \in P
  BY <1>4, <1>5 DEF T
<1>7. QED
  BY <1>3, <1>4, <1>6

LEMMA MaxIs ==
  ASSUME NEW n \in Nat, NEW u, n + 1 \in u, u \subseteq 1..(n + 1)
  PROVE  Max(u) = n + 1
<1>1. \A y \in u : n + 1 >= y /\ y \in Int
  OBVIOUS
<1>2. \E x \in u : \A y \in u : x >= y
  BY <1>1
<1>3. Max(u) \in u /\ \A y \in u : Max(u) >= y
  BY <1>2 DEF Max
<1> PICK m : m = Max(u)
  OBVIOUS
<1>4. m \in Int /\ n + 1 >= m /\ m >= n + 1
  BY <1>1, <1>3
<1>5. QED
  BY <1>4

\* The two folds of the model: the tiles that a cast of arg looks at, and the branches that
\* an insertion refits.
Visit(start, delta, acc, p) ==
  [map |-> Load(acc.map, p),
   result |-> IF Content(acc.map, p) = Air THEN acc.result
              ELSE Sooner(acc.result, HullCast(start, delta, TileBox(p)))]
Step(arg, acc, x) ==
  IF arg.line THEN RefitAndRotate(acc, x) ELSE Visit(arg.start, arg.delta, acc, x)

\* How FoldLeft computes: over the sets of positions that are left.
Folding(arg, base, list, u, f) ==
  IF u = {} THEN base ELSE Step(arg, f[u \ {Max(u)}], list[Max(u)])
IsFold(arg, base, list, p, f) == f = [u \in SUBSET p |-> Folding(arg, base, list, u, f)]

LEMMA FoldExists ==
  ASSUME NEW arg, NEW base, NEW list, NEW n \in Nat
  PROVE  \E f : IsFold(arg, base, list, 1..n, f)
<1> DEFINE P == {k \in Nat : \E f : IsFold(arg, base, list, 1..k, f)}
<1>1. 0 \in P
  <2> DEFINE g == [u \in SUBSET (1..0) |-> base]
  <2>1. \A u \in SUBSET (1..0) : g[u] = Folding(arg, base, list, u, g)
    BY DEF Folding
  <2>2. g = [u \in SUBSET (1..0) |-> g[u]]
    OBVIOUS
  <2>3. [u \in SUBSET (1..0) |-> g[u]] = [u \in SUBSET (1..0) |-> Folding(arg, base, list, u, g)]
    BY <2>1
  <2> HIDE DEF g
  <2>4. IsFold(arg, base, list, 1..0, g)
    BY <2>2, <2>3, Zenon DEF IsFold
  <2>5. QED
    BY <2>4
<1>2. \A k \in Nat : k \in P => k + 1 \in P
  <2> SUFFICES ASSUME NEW k \in Nat, k \in P
               PROVE  \E f : IsFold(arg, base, list, 1..(k + 1), f)
    OBVIOUS
  <2>1. PICK f : IsFold(arg, base, list, 1..k, f)
    OBVIOUS
  <2> HIDE DEF P
  <2> DEFINE g == [u \in SUBSET (1..(k + 1)) |->
        IF k + 1 \in u THEN Step(arg, f[u \ {k + 1}], list[k + 1]) ELSE f[u]]
  <2>2. \A u \in SUBSET (1..k) : f[u] = Folding(arg, base, list, u, f)
    BY <2>1 DEF IsFold
  <2>3. \A u \in SUBSET (1..k) : u \in SUBSET (1..(k + 1)) /\ k + 1 \notin u
    <3>1. 1..k \subseteq 1..(k + 1) /\ k + 1 \notin 1..k
      OBVIOUS
    <3>2. QED
      BY <3>1
  <2>4. \A u \in SUBSET (1..k) : g[u] = f[u]
    BY <2>3
  <2>5. \A u \in SUBSET (1..(k + 1)) : u \ {k + 1} \in SUBSET (1..k)
    <3>1. 1..(k + 1) \subseteq (1..k) \cup {k + 1}
      OBVIOUS
    <3>2. QED
      BY <3>1
  <2>6. \A u \in SUBSET (1..(k + 1)) : g[u] = Folding(arg, base, list, u, g)
    <3> SUFFICES ASSUME NEW u \in SUBSET (1..(k + 1)) PROVE g[u] = Folding(arg, base, list, u, g)
      OBVIOUS
    <3>1. CASE k + 1 \in u
      <4>1. Max(u) = k + 1 /\ u # {}
        BY <3>1, MaxIs
      <4>2. g[u] = Step(arg, f[u \ {k + 1}], list[k + 1])
        BY <3>1
      <4>3. g[u \ {k + 1}] = f[u \ {k + 1}]
        BY <2>4, <2>5
      <4> HIDE DEF g
      <4>4. QED
        BY <4>1, <4>2, <4>3 DEF Folding
    <3>2. CASE k + 1 \notin u
      <4>1. u \in SUBSET (1..k)
        BY <2>5, <3>2
      <4>2. g[u] = f[u] /\ f[u] = Folding(arg, base, list, u, f)
        BY <2>2, <2>4, <4>1
      <4>3. u \ {Max(u)} \in SUBSET (1..k)
        BY <4>1
      <4>4. g[u \ {Max(u)}] = f[u \ {Max(u)}]
        BY <2>4, <4>3
      <4> HIDE DEF g
      <4>5. QED
        BY <4>2, <4>4 DEF Folding
    <3>3. QED
      BY <3>1, <3>2
  <2>7. g = [u \in SUBSET (1..(k + 1)) |-> g[u]]
    OBVIOUS
  <2>8. [u \in SUBSET (1..(k + 1)) |-> g[u]]
        = [u \in SUBSET (1..(k + 1)) |-> Folding(arg, base, list, u, g)]
    BY <2>6
  <2> HIDE DEF g
  <2>9. IsFold(arg, base, list, 1..(k + 1), g)
    BY <2>7, <2>8, Zenon DEF IsFold
  <2>10. QED
    BY <2>9
<1> HIDE DEF P
<1>3. Nat \subseteq P
  BY ONLY <1>1, <1>2, NaturalsIn
<1>4. n \in P
  BY <1>3
<1>5. QED
  BY <1>4 DEF P

\* What a fold has come to after each element.
Stages(arg, base, list, n, h) ==
  h[0] = base /\ \A k \in 1..n : h[k] = Step(arg, h[k - 1], list[k])

LEMMA FoldStages ==
  ASSUME NEW arg, NEW base, NEW list, NEW n \in Nat, NEW f, IsFold(arg, base, list, 1..n, f)
  PROVE  \E h : Stages(arg, base, list, n, h) /\ h[n] = f[1..n]
<1> DEFINE h == [k \in 0..n |-> f[1..k]]
<1>1. \A u \in SUBSET (1..n) : f[u] = Folding(arg, base, list, u, f)
  BY DEF IsFold
<1>2. h[0] = base
  <2>1. 1..0 = {} /\ {} \in SUBSET (1..n)
    OBVIOUS
  <2>2. f[{}] = base
    BY <1>1, <2>1 DEF Folding
  <2>3. QED
    BY <2>1, <2>2
<1>3. \A k \in 0..n : h[k] = f[1..k]
  OBVIOUS
<1> HIDE DEF h
<1>4. ASSUME NEW k \in 1..n PROVE h[k] = Step(arg, h[k - 1], list[k])
  <2> PICK u : u = 1..k
    OBVIOUS
  <2> PICK j : j = k - 1
    OBVIOUS
  <2>1. j \in Nat /\ k = j + 1 /\ j \in 0..n /\ k \in 0..n
    OBVIOUS
  <2>2. u # {} /\ u \in SUBSET (1..n) /\ k \in u /\ u \ {k} = 1..j
    BY <2>1
  <2>3. Max(u) = k
    BY <2>1, <2>2, MaxIs
  <2>4. f[u] = Step(arg, f[1..j], list[k])
    BY <1>1, <2>2, <2>3 DEF Folding
  <2>5. QED
    BY <1>3, <2>1, <2>4
<1>5. QED
  <2>1. n \in 0..n
    OBVIOUS
  <2>2. QED
    BY <1>2, <1>3, <1>4, <2>1 DEF Stages

TilesFold(start, delta, base, list, p, f) ==
  f = [u \in SUBSET p |-> IF u = {} THEN base
                          ELSE Visit(start, delta, f[u \ {Max(u)}], list[Max(u)])]
LineFold(base, list, p, f) ==
  f = [u \in SUBSET p |-> IF u = {} THEN base ELSE RefitAndRotate(f[u \ {Max(u)}], list[Max(u)])]

LEMMA TilesFoldIs ==
  ASSUME NEW start, NEW delta, NEW base, NEW list, NEW p, NEW f
  PROVE  TilesFold(start, delta, base, list, p, f)
           <=> IsFold([line |-> FALSE, start |-> start, delta |-> delta], base, list, p, f)
<1> DEFINE arg == [line |-> FALSE, start |-> start, delta |-> delta]
<1>0. ~arg.line /\ arg.start = start /\ arg.delta = delta
  OBVIOUS
<1>1. \A u \in SUBSET p : Folding(arg, base, list, u, f)
        = IF u = {} THEN base ELSE Visit(start, delta, f[u \ {Max(u)}], list[Max(u)])
  BY <1>0 DEF Folding, Step
<1>2. [u \in SUBSET p |-> Folding(arg, base, list, u, f)]
      = [u \in SUBSET p |-> IF u = {} THEN base
                            ELSE Visit(start, delta, f[u \ {Max(u)}], list[Max(u)])]
  BY <1>1
<1> HIDE DEF arg
<1>3. QED
  BY <1>2, Zenon DEF TilesFold, IsFold, arg

LEMMA LineFoldIs ==
  ASSUME NEW base, NEW list, NEW p, NEW f
  PROVE  LineFold(base, list, p, f) <=> IsFold([line |-> TRUE], base, list, p, f)
<1>1. \A u \in SUBSET p : Folding([line |-> TRUE], base, list, u, f)
        = IF u = {} THEN base ELSE RefitAndRotate(f[u \ {Max(u)}], list[Max(u)])
  BY DEF Folding, Step
<1>2. [u \in SUBSET p |-> Folding([line |-> TRUE], base, list, u, f)]
      = [u \in SUBSET p |-> IF u = {} THEN base ELSE RefitAndRotate(f[u \ {Max(u)}], list[Max(u)])]
  BY <1>1
<1>3. QED
  BY <1>2, Zenon DEF LineFold, IsFold

LEMMA CastStages ==
  ASSUME NEW m, NEW start, NEW delta, NEW list, list = TilesBelow(CandidateAabb(start, delta)),
         NEW n \in Nat, DOMAIN list = 1..n
  PROVE  \E h : /\ h[0] = [map |-> m, result |-> Clear]
                /\ \A k \in 1..n : h[k] = Visit(start, delta, h[k - 1], list[k])
                /\ CastTiles(m, start, delta) = h[n]
<1> DEFINE base == [map |-> m, result |-> Clear]
           l == TilesBelow(CandidateAabb(start, delta))
           fold == CHOOSE f : TilesFold(start, delta, base, list, DOMAIN list, f)
           arg == [line |-> FALSE, start |-> start, delta |-> delta]
<1>1. CastTiles(m, start, delta) = (CHOOSE f : TilesFold(start, delta, base, l, DOMAIN l, f))[DOMAIN l]
  BY Zenon DEF CastTiles, FoldLeft, MapThenFoldSet, TilesFold, Visit
<1> HIDE DEF l
<1>2. CastTiles(m, start, delta) = fold[DOMAIN list]
  <2>1. list = l
    BY DEF l
  <2>2. QED
    BY ONLY <1>1, <2>1
<1> HIDE DEF base
<1>3. \E f : TilesFold(start, delta, base, list, 1..n, f)
  <2>1. \E f : IsFold(arg, base, list, 1..n, f)
    BY FoldExists
  <2>2. QED
    BY <2>1, TilesFoldIs
<1>4. TilesFold(start, delta, base, list, 1..n, fold)
  BY <1>3
<1> HIDE DEF fold
<1>5. IsFold(arg, base, list, 1..n, fold)
  BY <1>4, TilesFoldIs
<1> HIDE DEF arg
<1>6. PICK h : Stages(arg, base, list, n, h) /\ h[n] = fold[1..n]
  BY <1>5, FoldStages
<1>7. ~arg.line /\ arg.start = start /\ arg.delta = delta
  BY DEF arg
<1>8. \A k \in 1..n : h[k] = Visit(start, delta, h[k - 1], list[k])
  BY <1>6, <1>7 DEF Stages, Step
<1>9. QED
  BY <1>2, <1>6, <1>8 DEF Stages, base

----------------------------------------------------------------------------
(* The tree *)

Shape(t) ==
  /\ t = [root |-> t.root, parent |-> t.parent, kids |-> t.kids, box |-> t.box,
          value |-> t.value, stale |-> t.stale]
  /\ t.parent \in [Nodes(t) -> Nodes(t) \cup {NoNode}]
  /\ t.kids \in [Branches(t) -> [1..2 -> Nodes(t)]]
  /\ t.box \in [Nodes(t) -> Box]
  /\ t.value \in [Leaves(t) -> Collider]
  /\ Nodes(t) \subseteq Nat \ {NoNode} /\ IsFiniteSet(Nodes(t))
  /\ Nodes(t) = Branches(t) \cup Leaves(t) /\ Branches(t) \cap Leaves(t) = {}
  /\ t.stale \subseteq Branches(t)

\* Parents and kids agree.  X is what was taken out of the tree and is still in the arena.
Linked(t, X) ==
  /\ X \subseteq Leaves(t)
  /\ t.root \in (Nodes(t) \ X) \cup {NoNode}
  /\ t.root = NoNode => Nodes(t) = X
  /\ \A n \in Nodes(t) : t.parent[n] = NoNode <=> n = t.root \/ n \in X
  /\ \A n \in Branches(t) :
       /\ t.kids[n][1] # t.kids[n][2]
       /\ t.parent[t.kids[n][1]] = n /\ t.parent[t.kids[n][2]] = n
  /\ \A n \in Nodes(t) : t.parent[n] # NoNode =>
       /\ t.parent[n] \in Branches(t)
       /\ t.kids[t.parent[n]][1] = n \/ t.kids[t.parent[n]][2] = n

\* Following the parents comes to an end.
Ranked(t, d) ==
  /\ d \in [Nodes(t) -> Nat]
  /\ \A n \in Nodes(t) : t.parent[n] # NoNode => d[t.parent[n]] < d[n]

Tree(t, X) == Shape(t) /\ Linked(t, X) /\ \E d : Ranked(t, d)

LEMMA EmptyIsTree == Tree(EmptyTree, {}) /\ Nodes(EmptyTree) = {} /\ Leaves(EmptyTree) = {}
<1> PICK t : t = EmptyTree
  OBVIOUS
<1> PICK e : e = <<>>
  OBVIOUS
<1>1. /\ t.root = NoNode /\ t.parent = e /\ t.kids = e /\ t.box = e /\ t.value = e /\ t.stale = {}
      /\ t = [root |-> t.root, parent |-> t.parent, kids |-> t.kids, box |-> t.box,
              value |-> t.value, stale |-> t.stale]
  BY DEF EmptyTree
<1>2. DOMAIN e = {} /\ \A S : e \in [{} -> S]
  OBVIOUS
<1>3. Nodes(t) = {} /\ Branches(t) = {} /\ Leaves(t) = {}
  BY <1>1, <1>2 DEF Nodes, Branches, Leaves
<1>4. Shape(t)
  BY <1>1, <1>2, <1>3, FS_EmptySet DEF Shape
<1>5. Linked(t, {})
  BY <1>1, <1>3 DEF Linked
<1>6. Ranked(t, e)
  BY <1>2, <1>3 DEF Ranked
<1>7. QED
  BY <1>3, <1>4, <1>5, <1>6 DEF Tree

LEMMA FreeSlotIs ==
  ASSUME NEW t, Shape(t)
  PROVE  FreeSlot(t) \in Nat \ {0} /\ FreeSlot(t) \notin Nodes(t)
<1> PICK c : c = Cardinality(Nodes(t))
  OBVIOUS
<1> DEFINE T == {n \in 1..(c + 1) : n \notin Nodes(t)}
<1>1. c \in Nat /\ IsFiniteSet(Nodes(t))
  BY FS_CardinalityType DEF Shape
<1>2. T # {}
  <2> SUFFICES ASSUME T = {} PROVE FALSE
    OBVIOUS
  <2>1. 1..(c + 1) \subseteq Nodes(t)
    OBVIOUS
  <2>2. 1 \in Int /\ c + 1 \in Int
    BY <1>1
  <2>3. Cardinality(1..(c + 1)) = c + 1
    BY <1>1, <2>2, FS_Interval
  <2>4. Cardinality(1..(c + 1)) <= c
    BY <1>1, <2>1, FS_Subset
  <2>5. QED
    BY <1>1, <2>3, <2>4
<1>3. T \subseteq Nat
  BY <1>1
<1> HIDE DEF T
<1>4. PICK m \in T : \A k \in T : m <= k
  BY <1>2, <1>3, LeastNatural
<1>5. m \in 1..(c + 1) /\ m \notin Nodes(t) /\ 1..(m - 1) \subseteq Nodes(t)
  <2>1. \A k \in 1..(m - 1) : k \notin T
    BY <1>1, <1>3, <1>4
  <2>2. m \in 1..(c + 1) /\ m \notin Nodes(t)
    BY DEF T
  <2>3. \A k \in 1..(m - 1) : k \in 1..(c + 1)
    BY <1>1, <2>2
  <2>4. QED
    BY <2>1, <2>2, <2>3 DEF T
<1>6. FreeSlot(t) \in 1..(c + 1) /\ FreeSlot(t) \notin Nodes(t)
  BY <1>5 DEF FreeSlot
<1>7. QED
  BY <1>1, <1>6

----------------------------------------------------------------------------
(* The line of a node *)

Upwards(t, up, m) ==
  IF t.parent[m] = NoNode THEN <<m>> ELSE <<m>> \o up[t.parent[m]]

\* A function on a finite set is bounded.
LEMMA BoundedOnFinite ==
  ASSUME NEW S, IsFiniteSet(S), NEW d \in [S -> Nat]
  PROVE  \E k \in Nat : \A n \in S : d[n] < k
<1> DEFINE P == {c \in Nat : \A T \in SUBSET S : Cardinality(T) = c =>
                              \E k \in Nat : \A n \in T : d[n] < k}
<1>1. 0 \in P
  <2>1. \A T \in SUBSET S : Cardinality(T) = 0 => T = {}
    BY FS_Subset, FS_EmptySet
  <2>2. QED
    BY <2>1
<1>2. \A c \in Nat : c \in P => c + 1 \in P
  <2> SUFFICES ASSUME NEW c \in Nat, c \in P, NEW T \in SUBSET S, Cardinality(T) = c + 1
               PROVE  \E k \in Nat : \A n \in T : d[n] < k
    OBVIOUS
  <2>0. IsFiniteSet(T)
    BY FS_Subset
  <2>1. IsFiniteSet(T) /\ T # {}
    <3>1. Cardinality(T) # 0
      OBVIOUS
    <3>2. QED
      BY <2>0, <3>1, FS_EmptySet
  <2>2. PICK x : x \in T
    BY <2>1
  <2>3. Cardinality(T \ {x}) = c /\ T \ {x} \in SUBSET S
    <3>1. Cardinality(T \ {x}) = Cardinality(T) - 1
      BY <2>1, <2>2, FS_RemoveElement
    <3>2. QED
      BY <3>1
  <2>4. PICK k \in Nat : \A n \in T \ {x} : d[n] < k
    BY <2>3
  <2>5. d[x] \in Nat
    BY <2>2
  <2>6. CASE d[x] < k
    BY <2>4, <2>6
  <2>7. CASE ~(d[x] < k)
    <3>1. d[x] + 1 \in Nat /\ \A n \in T : d[n] < d[x] + 1
      <4>1. \A n \in T : d[n] \in Nat
        OBVIOUS
      <4>2. QED
        BY <2>4, <2>5, <2>7, <4>1
    <3>2. QED
      BY <3>1
  <2>8. QED
    BY <2>6, <2>7
<1> HIDE DEF P
<1>3. Nat \subseteq P
  BY ONLY <1>1, <1>2, NaturalsIn
<1>4. Cardinality(S) \in P /\ S \in SUBSET S
  BY <1>3, FS_CardinalityType
<1>5. QED
  BY <1>4 DEF P

LEMMA UpExists ==
  ASSUME NEW t, NEW X, Tree(t, X)
  PROVE  \E up : up = [m \in Nodes(t) |-> Upwards(t, up, m)]
<1> PICK d : Ranked(t, d)
  BY DEF Tree
<1> DEFINE Below(k) == {m \in Nodes(t) : d[m] < k}
<1> DEFINE P == {k \in Nat : \E f : \A m \in Below(k) : f[m] = Upwards(t, f, m)}
<1>1. 0 \in P
  <2>1. Below(0) = {}
    BY DEF Ranked
  <2>2. QED
    BY <2>1
<1>2. \A k \in Nat : k \in P => k + 1 \in P
  <2> SUFFICES ASSUME NEW k \in Nat, k \in P
               PROVE  \E f : \A m \in Below(k + 1) : f[m] = Upwards(t, f, m)
    OBVIOUS
  <2>1. PICK f : \A m \in Below(k) : f[m] = Upwards(t, f, m)
    OBVIOUS
  <2> HIDE DEF P
  <2> DEFINE g == [m \in Nodes(t) |-> IF m \in Below(k) THEN f[m] ELSE Upwards(t, f, m)]
  <2>2. \A m \in Below(k + 1) : t.parent[m] # NoNode => t.parent[m] \in Below(k)
    BY DEF Ranked, Tree, Shape
  <2>3. \A m \in Nodes(t) : g[m] = Upwards(t, f, m)
    BY <2>1
  <2>4. \A m \in Below(k) : g[m] = f[m]
    OBVIOUS
  <2> HIDE DEF g
  <2>5. \A m \in Below(k + 1) : g[m] = Upwards(t, g, m)
    BY <2>2, <2>3, <2>4 DEF Upwards
  <2>6. QED
    BY <2>5
<1> HIDE DEF P
<1>3. Nat \subseteq P
  BY ONLY <1>1, <1>2, NaturalsIn
<1>4. \E k \in Nat : Nodes(t) = Below(k)
  <2>1. IsFiniteSet(Nodes(t)) /\ d \in [Nodes(t) -> Nat]
    BY DEF Tree, Shape, Ranked
  <2>2. QED
    BY <2>1, BoundedOnFinite
<1>5. PICK k \in Nat : Nodes(t) = Below(k)
  BY <1>4
<1>6. PICK f : \A m \in Nodes(t) : f[m] = Upwards(t, f, m)
  BY <1>3, <1>5 DEF P
<1> DEFINE g == [m \in Nodes(t) |-> f[m]]
<1>7. \A m \in Nodes(t) : g[m] = Upwards(t, g, m)
  <2>1. \A m \in Nodes(t) : t.parent[m] # NoNode => t.parent[m] \in Nodes(t)
    BY DEF Tree, Shape
  <2>2. QED
    BY <1>6, <2>1 DEF Upwards
<1>8. g = [m \in Nodes(t) |-> g[m]]
  OBVIOUS
<1> HIDE DEF g
<1>9. g = [m \in Nodes(t) |-> Upwards(t, g, m)]
  BY <1>7, <1>8
<1>10. QED
  BY <1>9

LEMMA LineUnfolds ==
  ASSUME NEW t, NEW X, Tree(t, X), NEW m \in Nodes(t)
  PROVE  Line(t, m) = IF t.parent[m] = NoNode THEN <<m>> ELSE <<m>> \o Line(t, t.parent[m])
<1> DEFINE up == CHOOSE up : up = [n \in Nodes(t) |-> Upwards(t, up, n)]
<1>1. \A n : Line(t, n) = up[n]
  BY Zenon DEF Line, Upwards
<1>2. up = [n \in Nodes(t) |-> Upwards(t, up, n)]
  BY UpExists
<1> HIDE DEF up
<1>3. up[m] = Upwards(t, up, m)
  BY <1>2
<1>4. QED
  BY <1>1, <1>3 DEF Upwards

\* l leads from m to where there is no parent.
IsLine(t, m, l) ==
  /\ l \in Seq(Nodes(t)) /\ Len(l) >= 1 /\ l[1] = m
  /\ \A i \in 1..(Len(l) - 1) : t.parent[l[i]] # NoNode /\ l[i + 1] = t.parent[l[i]]
  /\ t.parent[l[Len(l)]] = NoNode

LEMMA LineIs ==
  ASSUME NEW t, NEW X, Tree(t, X), NEW m \in Nodes(t)
  PROVE  IsLine(t, m, Line(t, m))
<1> PICK d : Ranked(t, d)
  BY DEF Tree
<1> DEFINE P == {k \in Nat : \A n \in Nodes(t) : d[n] < k => IsLine(t, n, Line(t, n))}
<1>1. 0 \in P
  BY DEF Ranked
<1>2. \A k \in Nat : k \in P => k + 1 \in P
  <2> SUFFICES ASSUME NEW k \in Nat, k \in P, NEW n \in Nodes(t), d[n] < k + 1
               PROVE  IsLine(t, n, Line(t, n))
    OBVIOUS
  <2>1. CASE t.parent[n] = NoNode
    <3> PICK l : l = <<n>>
      OBVIOUS
    <3>1. Line(t, n) = l
      BY <2>1, LineUnfolds
    <3>2. l \in Seq(Nodes(t)) /\ Len(l) = 1 /\ l[1] = n
      OBVIOUS
    <3>3. IsLine(t, n, l)
      BY <2>1, <3>2 DEF IsLine
    <3>4. QED
      BY <3>1, <3>3
  <2>2. CASE t.parent[n] # NoNode
    <3> PICK p : p = t.parent[n]
      OBVIOUS
    <3> PICK l : l = Line(t, p)
      OBVIOUS
    <3> PICK r : r = <<n>> \o l
      OBVIOUS
    <3>1. p \in Nodes(t) /\ d[p] < k
      BY <2>2 DEF Tree, Shape, Ranked
    <3>2. IsLine(t, p, l)
      BY <3>1
    <3>3. Line(t, n) = r
      BY <2>2, LineUnfolds
    <3> PICK z : z = Len(l)
      OBVIOUS
    <3>4. z \in Nat /\ z >= 1 /\ l \in Seq(Nodes(t))
      BY <3>2 DEF IsLine
    <3>5. /\ r \in Seq(Nodes(t)) /\ Len(r) = z + 1 /\ r[1] = n
          /\ \A i \in 1..z : r[i + 1] = l[i]
      <4>1. <<n>> \in Seq(Nodes(t)) /\ Len(<<n>>) = 1 /\ <<n>>[1] = n
        OBVIOUS
      <4>2. /\ r \in Seq(Nodes(t)) /\ Len(r) = 1 + z
            /\ \A i \in 1..(1 + z) : r[i] = IF i <= 1 THEN <<n>>[i] ELSE l[i - 1]
        BY <3>4, <4>1, ConcatProperties
      <4>3. \A i \in 1..z : i + 1 \in 1..(1 + z) /\ ~(i + 1 <= 1) /\ (i + 1) - 1 = i
        BY <3>4
      <4>4. QED
        BY <3>4, <4>1, <4>2, <4>3
    <3>6. \A i \in 1..z : t.parent[r[i]] # NoNode /\ r[i + 1] = t.parent[r[i]]
      <4> SUFFICES ASSUME NEW i \in 1..z
                   PROVE  t.parent[r[i]] # NoNode /\ r[i + 1] = t.parent[r[i]]
        OBVIOUS
      <4>1. CASE i = 1
        BY <2>2, <3>2, <3>5, <4>1 DEF IsLine
      <4>2. CASE i # 1
        <5>1. i - 1 \in 1..(z - 1) /\ i - 1 \in 1..z /\ (i - 1) + 1 = i
          BY <4>2
        <5>2. t.parent[l[i - 1]] # NoNode /\ l[i] = t.parent[l[i - 1]]
          BY <3>2, <5>1 DEF IsLine
        <5>3. r[i] = l[i - 1] /\ r[i + 1] = l[i]
          BY <3>5, <5>1
        <5>4. QED
          BY <5>2, <5>3
      <4>3. QED
        BY <4>1, <4>2
    <3>7. t.parent[r[z + 1]] = NoNode
      BY <3>2, <3>4, <3>5 DEF IsLine
    <3>8. IsLine(t, n, r)
      BY <3>4, <3>5, <3>6, <3>7 DEF IsLine
    <3>9. QED
      BY <3>3, <3>8
  <2>3. QED
    BY <2>1, <2>2
<1> HIDE DEF P
<1>3. Nat \subseteq P
  BY ONLY <1>1, <1>2, NaturalsIn
<1>4. d[m] + 1 \in P /\ d[m] < d[m] + 1
  BY <1>3 DEF Ranked
<1>5. QED
  BY <1>4 DEF P

\* A line goes up: the ranks along it get smaller.
LEMMA LineGoesUp ==
  ASSUME NEW t, NEW d, Ranked(t, d), NEW l \in Seq(Nodes(t)), NEW a \in 1..Len(l),
         \A i \in a..(Len(l) - 1) : t.parent[l[i]] # NoNode /\ l[i + 1] = t.parent[l[i]]
  PROVE  \A j \in (a + 1)..Len(l) : d[l[j]] < d[l[a]]
<1> DEFINE P == {k \in Nat : a + k + 1 <= Len(l) => d[l[a + k + 1]] < d[l[a]]}
<1>0. \A i \in 1..Len(l) : l[i] \in Nodes(t) /\ d[l[i]] \in Nat
  BY DEF Ranked
<1>1. 0 \in P
  <2> SUFFICES ASSUME a + 1 <= Len(l) PROVE d[l[a + 1]] < d[l[a]]
    OBVIOUS
  <2>1. a \in a..(Len(l) - 1)
    OBVIOUS
  <2>2. QED
    BY <1>0, <2>1 DEF Ranked
<1>2. \A k \in Nat : k \in P => k + 1 \in P
  <2> SUFFICES ASSUME NEW k \in Nat, k \in P, a + (k + 1) + 1 <= Len(l)
               PROVE  d[l[a + (k + 1) + 1]] < d[l[a]]
    OBVIOUS
  <2> PICK b : b = a + k + 1
    OBVIOUS
  <2>1. b \in a..(Len(l) - 1) /\ b \in 1..Len(l) /\ b + 1 = a + (k + 1) + 1 /\ b + 1 \in 1..Len(l)
    OBVIOUS
  <2>2. d[l[b]] < d[l[a]]
    BY <2>1
  <2>3. d[l[b + 1]] < d[l[b]]
    BY <1>0, <2>1 DEF Ranked
  <2>4. d[l[b + 1]] < d[l[a]]
    BY <1>0, <2>1, <2>2, <2>3
  <2>5. QED
    BY <2>1, <2>4
<1> HIDE DEF P
<1>3. Nat \subseteq P
  BY ONLY <1>1, <1>2, NaturalsIn
<1>4. ASSUME NEW j \in (a + 1)..Len(l) PROVE d[l[j]] < d[l[a]]
  <2> PICK k : k = j - a - 1
    OBVIOUS
  <2>1. k \in Nat /\ a + k + 1 = j /\ j <= Len(l)
    OBVIOUS
  <2>2. k \in P
    BY <1>3, <2>1
  <2>3. QED
    BY <2>1, <2>2 DEF P
<1>5. QED
  BY <1>4

----------------------------------------------------------------------------
(* Boxes and costs *)

LEMMA BoxIs ==
  \A a \in Box :
    /\ a = [min |-> a.min, max |-> a.max] /\ a.min \in Vector /\ a.max \in Vector
    /\ a.min = <<a.min[1], a.min[2]>> /\ a.max = <<a.max[1], a.max[2]>>
    /\ \A k \in 1..2 : a.min[k] \in Int /\ a.max[k] \in Int
<1> SUFFICES ASSUME NEW a \in Box
             PROVE  /\ a = [min |-> a.min, max |-> a.max] /\ a.min \in Vector /\ a.max \in Vector
                    /\ a.min = <<a.min[1], a.min[2]>> /\ a.max = <<a.max[1], a.max[2]>>
                    /\ \A k \in 1..2 : a.min[k] \in Int /\ a.max[k] \in Int
  OBVIOUS
<1>1. a = [min |-> a.min, max |-> a.max] /\ a.min \in Vector /\ a.max \in Vector
  BY DEF Box
<1>2. \A v \in Vector : v = <<v[1], v[2]>> /\ v[1] \in Int /\ v[2] \in Int
  BY DEF Vector
<1>3. \A k \in 1..2 : k = 1 \/ k = 2
  OBVIOUS
<1>4. QED
  BY <1>1, <1>2, <1>3

LEMMA UnionIs ==
  ASSUME NEW a \in Box, NEW b \in Box
  PROVE  /\ Union(a, b) \in Box
         /\ Encloses(Union(a, b), a) /\ Encloses(Union(a, b), b)
<1> PICK u : u = Union(a, b)
  OBVIOUS
<1>1. \A x, y \in Int : Low(x, y) \in Int /\ High(x, y) \in Int /\ Low(x, y) <= x /\ Low(x, y) <= y
                        /\ x <= High(x, y) /\ y <= High(x, y)
  BY DEF Low, High
<1>2. /\ u.min = <<Low(a.min[1], b.min[1]), Low(a.min[2], b.min[2])>>
      /\ u.max = <<High(a.max[1], b.max[1]), High(a.max[2], b.max[2])>>
      /\ u = [min |-> u.min, max |-> u.max]
  BY DEF Union
<1>3. \A k \in {1, 2} : a.min[k] \in Int /\ a.max[k] \in Int /\ b.min[k] \in Int /\ b.max[k] \in Int
  BY BoxIs
<1>4. u.min \in Vector /\ u.max \in Vector
  BY <1>1, <1>2, <1>3 DEF Vector
<1>5. u \in Box
  BY <1>2, <1>4 DEF Box
<1>6. \A k \in {1, 2} : u.min[k] = Low(a.min[k], b.min[k]) /\ u.max[k] = High(a.max[k], b.max[k])
  BY <1>2
<1>7. ASSUME NEW k \in {1, 2}
      PROVE  /\ u.min[k] <= a.min[k] /\ a.max[k] <= u.max[k]
             /\ u.min[k] <= b.min[k] /\ b.max[k] <= u.max[k]
  <2> PICK p, q, v, w : p = a.min[k] /\ q = b.min[k] /\ v = a.max[k] /\ w = b.max[k]
    OBVIOUS
  <2>1. p \in Int /\ q \in Int /\ v \in Int /\ w \in Int
    BY <1>3
  <2>2. u.min[k] = Low(p, q) /\ u.max[k] = High(v, w)
    BY <1>6
  <2>3. /\ Low(p, q) <= p /\ v <= High(v, w) /\ Low(p, q) <= q /\ w <= High(v, w)
    BY ONLY <1>1, <2>1
  <2>4. /\ u.min[k] <= p /\ v <= u.max[k] /\ u.min[k] <= q /\ w <= u.max[k]
    BY ONLY <2>2, <2>3
  <2>5. QED
    BY ONLY <2>4, p = a.min[k] /\ q = b.min[k] /\ v = a.max[k] /\ w = b.max[k]
<1>8. 1..2 = {1, 2}
  OBVIOUS
<1>9. QED
  BY <1>5, <1>7, <1>8 DEF Encloses

LEMMA EnclosesTransitive ==
  ASSUME NEW a \in Box, NEW b \in Box, NEW c \in Box, Encloses(a, b), Encloses(b, c)
  PROVE  Encloses(a, c)
<1>1. \A k \in 1..2 : /\ a.min[k] \in Int /\ a.max[k] \in Int /\ b.min[k] \in Int
                      /\ b.max[k] \in Int /\ c.min[k] \in Int /\ c.max[k] \in Int
  BY BoxIs
<1>2. QED
  BY <1>1 DEF Encloses

LEMMA AreaType ==
  ASSUME NEW a \in Box
  PROVE  SurfaceArea(a) \in Int
<1>1. a.min[1] \in Int /\ a.min[2] \in Int /\ a.max[1] \in Int /\ a.max[2] \in Int
  BY BoxIs
<1>2. QED
  BY <1>1, GeometryAssumption DEF SurfaceArea

LEMMA CostType ==
  ASSUME NEW a \in Int, NEW b \in Int
  PROVE  FPlus(a, b) \in Int /\ FMinus(a, b) \in Int /\ Rank(a) \in Int
<1>1. NaN \in Int /\ Inf \in Int /\ -Inf \in Int /\ -NaN \in Int /\ -b \in Int
  BY GeometryAssumption DEF NaN
<1>2. \A x, y \in Int : FPlus(x, y) \in Int
  BY <1>1 DEF FPlus
<1>3. QED
  BY <1>1, <1>2 DEF FMinus, Rank

----------------------------------------------------------------------------
(* rotate_branch_optimally *)

LEMMA SwapsAre ==
  /\ DOMAIN Swaps = 1..4
  /\ \A i \in 1..4 : Swaps[i][1] \in {1, 2} /\ Swaps[i][2] \in {1, 2}
<1> PICK s : s = Swaps
  OBVIOUS
<1>1. /\ DOMAIN s = 1..4
      /\ s[1] = <<1, 1>> /\ s[2] = <<1, 2>> /\ s[3] = <<2, 1>> /\ s[4] = <<2, 2>>
  BY DEF Swaps
<1>2. \A i \in 1..4 : i = 1 \/ i = 2 \/ i = 3 \/ i = 4
  OBVIOUS
<1>3. QED
  BY <1>1, <1>2

LEMMA KidsAre ==
  ASSUME NEW t, Shape(t), NEW n \in Branches(t), NEW s \in {1, 2}
  PROVE  /\ n \in Nodes(t) /\ 3 - s \in {1, 2} /\ 3 - s # s
         /\ t.kids[n][s] \in Nodes(t) /\ t.kids[n][3 - s] \in Nodes(t)
<1>1. t.kids[n] \in [1..2 -> Nodes(t)] /\ n \in Nodes(t)
  BY DEF Shape, Branches
<1>2. 1 \in 1..2 /\ 2 \in 1..2 /\ 3 - 1 = 2 /\ 3 - 2 = 1
  OBVIOUS
<1>3. QED
  BY <1>1, <1>2

LEMMA SwapCostType ==
  ASSUME NEW t, Shape(t), NEW branch \in Branches(t), NEW swap, swap[1] \in {1, 2}, swap[2] \in {1, 2}
  PROVE  SwapCost(t, branch, swap) \in Int
<1> PICK main : main = t.kids[branch][swap[1]]
  OBVIOUS
<1> PICK other : other = t.kids[branch][3 - swap[1]]
  OBVIOUS
<1> PICK sibling : sibling = t.kids[main][3 - swap[2]]
  OBVIOUS
<1>1. main \in Nodes(t) /\ other \in Nodes(t)
  BY KidsAre
<1>2. CASE main \notin Branches(t)
  BY <1>2, GeometryAssumption DEF SwapCost
<1>3. CASE main \in Branches(t)
  <2>1. sibling \in Nodes(t)
    BY <1>3, KidsAre
  <2>2. t.box[main] \in Box /\ t.box[other] \in Box /\ t.box[sibling] \in Box
    BY <1>1, <2>1 DEF Shape
  <2> PICK x, y : x = SurfaceArea(Union(t.box[other], t.box[sibling])) /\ y = SurfaceArea(t.box[main])
    OBVIOUS
  <2>3. x \in Int /\ y \in Int
    BY <2>2, UnionIs, AreaType
  <2>4. FMinus(x, y) \in Int
    BY <2>3, CostType
  <2>5. SwapCost(t, branch, swap) = FMinus(x, y)
    BY <1>3 DEF SwapCost
  <2>6. QED
    BY <2>4, <2>5
<1>4. QED
  BY <1>2, <1>3

LEMMA LexLeast ==
  ASSUME NEW c, \A i \in 1..4 : c[i] \in Int
  PROVE  \E i \in 1..4 : \A j \in 1..4 : c[i] < c[j] \/ (c[i] = c[j] /\ i <= j)
<1>1. c[1] \in Int /\ c[2] \in Int /\ c[3] \in Int /\ c[4] \in Int
  OBVIOUS
<1>2. \A j \in 1..4 : j = 1 \/ j = 2 \/ j = 3 \/ j = 4
  OBVIOUS
<1>3. CASE c[1] <= c[2] /\ c[1] <= c[3] /\ c[1] <= c[4]
  BY <1>1, <1>2, <1>3
<1>4. CASE c[2] < c[1] /\ c[2] <= c[3] /\ c[2] <= c[4]
  BY <1>1, <1>2, <1>4
<1>5. CASE c[3] < c[1] /\ c[3] < c[2] /\ c[3] <= c[4]
  BY <1>1, <1>2, <1>5
<1>6. CASE c[4] < c[1] /\ c[4] < c[2] /\ c[4] < c[3]
  BY <1>1, <1>2, <1>6
<1>7. QED
  BY <1>1, <1>3, <1>4, <1>5, <1>6

\* A rotation exchanges something only if the one child is a branch.
LEMMA RotatedIs ==
  ASSUME NEW t, Shape(t), NEW branch \in Branches(t)
  PROVE  \/ Rotated(t, branch) = t
         \/ \E swap : /\ swap[1] \in {1, 2} /\ swap[2] \in {1, 2}
                      /\ t.kids[branch][swap[1]] \in Branches(t)
                      /\ Rotated(t, branch) = Swapped(t, branch, swap)
<1> DEFINE c == [i \in 1..4 |-> Rank(SwapCost(t, branch, Swaps[i]))]
<1>1. \A i \in 1..4 : SwapCost(t, branch, Swaps[i]) \in Int
  BY SwapsAre, SwapCostType
<1>2. \A i \in 1..4 : c[i] \in Int
  BY <1>1, CostType
<1>3. \A i \in 1..4 : c[i] = Rank(SwapCost(t, branch, Swaps[i]))
  OBVIOUS
<1> HIDE DEF c
<1>4. \E i \in 1..4 : \A j \in 1..4 : c[i] < c[j] \/ (c[i] = c[j] /\ i <= j)
  BY <1>2, LexLeast
<1>5. \E i \in DOMAIN Swaps : \A j \in DOMAIN Swaps :
        LET a == Rank(SwapCost(t, branch, Swaps[i]))
            b == Rank(SwapCost(t, branch, Swaps[j]))
        IN a < b \/ (a = b /\ i <= j)
  BY <1>3, <1>4, SwapsAre
<1>6. BestSwap(t, branch) \in DOMAIN Swaps
  BY <1>5 DEF BestSwap
<1> PICK swap : swap = Swaps[BestSwap(t, branch)]
  OBVIOUS
<1>7. swap[1] \in {1, 2} /\ swap[2] \in {1, 2}
  BY <1>6, SwapsAre
<1>8. CASE t.kids[branch][swap[1]] \in Branches(t)
  BY <1>7, <1>8 DEF Rotated
<1>9. CASE t.kids[branch][swap[1]] \notin Branches(t)
  <2>1. SwapCost(t, branch, swap) = Inf
    BY <1>9 DEF SwapCost
  <2>2. FLess(0, Inf)
    BY GeometryAssumption DEF FLess, NaN
  <2>3. QED
    BY <2>1, <2>2 DEF Rotated
<1>10. QED
  BY <1>8, <1>9

\* What an exchange leaves as it was.
SameArena(t, s) ==
  /\ Nodes(s) = Nodes(t) /\ Branches(s) = Branches(t) /\ Leaves(s) = Leaves(t)
  /\ s.value = t.value /\ s.root = t.root
  /\ \A n \in Leaves(t) : s.box[n] = t.box[n]

\* Of a branch, a child that is a branch as well, and what hangs there.
Family(t, branch, swap, main, other, grandchild, sibling) ==
  /\ swap[1] \in {1, 2} /\ swap[2] \in {1, 2}
  /\ branch \in Branches(t) /\ main \in Branches(t)
  /\ main = t.kids[branch][swap[1]] /\ other = t.kids[branch][3 - swap[1]]
  /\ grandchild = t.kids[main][swap[2]] /\ sibling = t.kids[main][3 - swap[2]]

LEMMA BothKids ==
  ASSUME NEW t, NEW X, Tree(t, X), NEW n \in Branches(t), NEW s \in {1, 2}
  PROVE  /\ t.parent[t.kids[n][s]] = n /\ t.parent[t.kids[n][3 - s]] = n
         /\ t.kids[n][s] # t.kids[n][3 - s]
         /\ \A m \in Nodes(t) : t.parent[m] = n => m = t.kids[n][s] \/ m = t.kids[n][3 - s]
<1>1. (s = 1 /\ 3 - s = 2) \/ (s = 2 /\ 3 - s = 1)
  OBVIOUS
<1>2. n # NoNode
  BY DEF Tree, Shape
<1>3. /\ t.kids[n][1] # t.kids[n][2]
      /\ t.parent[t.kids[n][1]] = n /\ t.parent[t.kids[n][2]] = n
  BY DEF Tree, Linked
<1>4. \A m \in Nodes(t) : t.parent[m] = n => t.kids[n][1] = m \/ t.kids[n][2] = m
  BY <1>2 DEF Tree, Linked
<1>5. QED
  BY <1>1, <1>3, <1>4

LEMMA FamilyApart ==
  ASSUME NEW t, NEW X, Tree(t, X), NEW branch, NEW swap, NEW main, NEW other, NEW grandchild, NEW sibling,
         Family(t, branch, swap, main, other, grandchild, sibling)
  PROVE  /\ branch \in Nodes(t) /\ main \in Nodes(t) /\ other \in Nodes(t)
         /\ grandchild \in Nodes(t) /\ sibling \in Nodes(t)
         /\ t.parent[main] = branch /\ t.parent[other] = branch
         /\ t.parent[grandchild] = main /\ t.parent[sibling] = main
         /\ branch # main /\ branch # other /\ branch # grandchild /\ branch # sibling
         /\ main # other /\ main # grandchild /\ main # sibling
         /\ other # grandchild /\ other # sibling /\ grandchild # sibling
         /\ \A m \in Nodes(t) : t.parent[m] = branch => m = main \/ m = other
         /\ \A m \in Nodes(t) : t.parent[m] = main => m = grandchild \/ m = sibling
<1> USE DEF Family
<1>0. Shape(t)
  BY DEF Tree
<1>1. /\ branch \in Nodes(t) /\ main \in Nodes(t) /\ other \in Nodes(t)
      /\ grandchild \in Nodes(t) /\ sibling \in Nodes(t)
  BY <1>0, KidsAre
<1>2. /\ t.parent[main] = branch /\ t.parent[other] = branch /\ main # other
      /\ \A m \in Nodes(t) : t.parent[m] = branch => m = main \/ m = other
  BY BothKids
<1>3. /\ t.parent[grandchild] = main /\ t.parent[sibling] = main /\ grandchild # sibling
      /\ \A m \in Nodes(t) : t.parent[m] = main => m = grandchild \/ m = sibling
  <2>1. /\ main \in Branches(t) /\ swap[2] \in {1, 2}
        /\ grandchild = t.kids[main][swap[2]] /\ sibling = t.kids[main][3 - swap[2]]
    OBVIOUS
  <2>2. \A s \in {1, 2} :
          /\ t.parent[t.kids[main][s]] = main /\ t.parent[t.kids[main][3 - s]] = main
          /\ t.kids[main][s] # t.kids[main][3 - s]
          /\ \A m \in Nodes(t) : t.parent[m] = main => m = t.kids[main][s] \/ m = t.kids[main][3 - s]
    BY ONLY <2>1, Tree(t, X), BothKids
  <2>3. QED
    BY ONLY <2>1, <2>2
<1>4. branch # NoNode /\ main # NoNode
  BY <1>0, <1>1 DEF Shape
<1>5. PICK d : Ranked(t, d)
  BY DEF Tree
<1>6. /\ d[branch] \in Nat /\ d[main] \in Nat /\ d[other] \in Nat /\ d[grandchild] \in Nat
      /\ d[sibling] \in Nat
      /\ d[branch] < d[main] /\ d[branch] < d[other] /\ d[main] < d[grandchild] /\ d[main] < d[sibling]
  BY <1>1, <1>2, <1>3, <1>4, <1>5 DEF Ranked
<1>7. /\ branch # main /\ branch # other /\ branch # grandchild /\ branch # sibling
      /\ main # grandchild /\ main # sibling
  BY ONLY <1>6
<1>8. other # grandchild /\ other # sibling
  BY <1>2, <1>3, <1>7
<1> HIDE DEF Family
<1>9. QED
  BY ONLY <1>1, <1>2, <1>3, <1>7, <1>8

\* s is t after an exchange.
SwappedIs(t, branch, swap, main, other, grandchild, sibling, s) ==
  /\ s = [root |-> s.root, parent |-> s.parent, kids |-> s.kids, box |-> s.box,
          value |-> s.value, stale |-> s.stale]
  /\ s.root = t.root /\ s.box = t.box /\ s.value = t.value
  /\ s.parent = [[t.parent EXCEPT ![other] = main] EXCEPT ![grandchild] = branch]
  /\ s.kids \in [Branches(t) -> [1..2 -> Nodes(t)]]
  /\ s.kids[branch][swap[1]] = main /\ s.kids[branch][3 - swap[1]] = grandchild
  /\ s.kids[main][swap[2]] = other /\ s.kids[main][3 - swap[2]] = sibling
  /\ \A n \in Branches(t) : n # branch /\ n # main => s.kids[n] = t.kids[n]
  /\ s.stale = t.stale \cup {main} \cup (IF main \in t.stale THEN {branch} ELSE {})

LEMMA SwappedFields ==
  ASSUME NEW t, NEW X, Tree(t, X), NEW branch, NEW swap, NEW main, NEW other, NEW grandchild, NEW sibling,
         Family(t, branch, swap, main, other, grandchild, sibling)
  PROVE  SwappedIs(t, branch, swap, main, other, grandchild, sibling, Swapped(t, branch, swap))
<1> PICK s : s = Swapped(t, branch, swap)
  OBVIOUS
<1>a. /\ swap[1] \in {1, 2} /\ swap[2] \in {1, 2}
      /\ branch \in Branches(t) /\ main \in Branches(t)
      /\ main = t.kids[branch][swap[1]] /\ other = t.kids[branch][3 - swap[1]]
      /\ grandchild = t.kids[main][swap[2]] /\ sibling = t.kids[main][3 - swap[2]]
  BY DEF Family
<1>b. Shape(t) /\ branch # main
  BY FamilyApart DEF Tree
<1> DEFINE kids1 == [t.kids EXCEPT ![branch][3 - swap[1]] = grandchild]
           kids2 == [kids1 EXCEPT ![main][swap[2]] = other]
<1>1. s = [root |-> t.root,
           parent |-> [t.parent EXCEPT ![other] = main, ![grandchild] = branch],
           kids |-> kids2,
           box |-> t.box, value |-> t.value,
           stale |-> t.stale \cup {main} \cup (IF main \in t.stale THEN {branch} ELSE {})]
  BY <1>a, <1>b DEF Swapped, Shape
<1>2. /\ t.kids \in [Branches(t) -> [1..2 -> Nodes(t)]]
      /\ other \in Nodes(t) /\ grandchild \in Nodes(t)
      /\ swap[1] \in 1..2 /\ swap[2] \in 1..2 /\ 3 - swap[1] \in 1..2 /\ 3 - swap[2] \in 1..2
      /\ swap[1] # 3 - swap[1] /\ swap[2] # 3 - swap[2]
  <2>1. other \in Nodes(t) /\ grandchild \in Nodes(t)
    BY <1>a, <1>b, KidsAre
  <2>2. QED
    BY ONLY <1>a, <1>b, <2>1 DEF Shape
<1>3. /\ kids1 \in [Branches(t) -> [1..2 -> Nodes(t)]]
      /\ kids1[branch] = [t.kids[branch] EXCEPT ![3 - swap[1]] = grandchild]
      /\ \A n \in Branches(t) : n # branch => kids1[n] = t.kids[n]
  <2>1. [t.kids[branch] EXCEPT ![3 - swap[1]] = grandchild] \in [1..2 -> Nodes(t)]
    BY <1>a, <1>b, <1>2
  <2>2. QED
    BY <1>a, <1>b, <1>2, <2>1
<1>4. kids1[branch][swap[1]] = main /\ kids1[branch][3 - swap[1]] = grandchild
  BY <1>a, <1>b, <1>2, <1>3
<1> HIDE DEF kids1
<1>5. /\ kids2 \in [Branches(t) -> [1..2 -> Nodes(t)]]
      /\ kids2[main] = [kids1[main] EXCEPT ![swap[2]] = other]
      /\ \A n \in Branches(t) : n # main => kids2[n] = kids1[n]
  <2>1. [kids1[main] EXCEPT ![swap[2]] = other] \in [1..2 -> Nodes(t)]
    BY <1>a, <1>b, <1>2, <1>3
  <2>2. QED
    BY <1>a, <1>b, <1>2, <1>3, <2>1
<1>6. kids2[main][swap[2]] = other /\ kids2[main][3 - swap[2]] = t.kids[main][3 - swap[2]]
  BY <1>a, <1>b, <1>2, <1>3, <1>5
<1> HIDE DEF kids2
<1>7. /\ kids2[branch][swap[1]] = main /\ kids2[branch][3 - swap[1]] = grandchild
      /\ \A n \in Branches(t) : n # branch /\ n # main => kids2[n] = t.kids[n]
  BY <1>a, <1>b, <1>3, <1>4, <1>5
<1>8. kids2 = s.kids
  BY <1>1
<1>8a./\ s = [root |-> s.root, parent |-> s.parent, kids |-> s.kids, box |-> s.box,
              value |-> s.value, stale |-> s.stale]
      /\ s.root = t.root /\ s.box = t.box /\ s.value = t.value
      /\ s.parent = [t.parent EXCEPT ![other] = main, ![grandchild] = branch]
      /\ s.stale = t.stale \cup {main} \cup (IF main \in t.stale THEN {branch} ELSE {})
  BY <1>1
<1>9. /\ s.kids \in [Branches(t) -> [1..2 -> Nodes(t)]]
      /\ s.kids[branch][swap[1]] = main /\ s.kids[branch][3 - swap[1]] = grandchild
      /\ s.kids[main][swap[2]] = other /\ s.kids[main][3 - swap[2]] = sibling
      /\ \A n \in Branches(t) : n # branch /\ n # main => s.kids[n] = t.kids[n]
  BY ONLY <1>5, <1>6, <1>7, <1>8, <1>a
<1>10. QED
  BY <1>8a, <1>9 DEF SwappedIs

\* An exchange keeps the tree a tree.
LEMMA SwappedTree ==
  ASSUME NEW t, Tree(t, {}), NEW branch, NEW swap, NEW main, NEW other, NEW grandchild, NEW sibling,
         Family(t, branch, swap, main, other, grandchild, sibling),
         NEW s, s = Swapped(t, branch, swap)
  PROVE  Tree(s, {}) /\ SameArena(t, s)
<1>0. /\ swap[1] \in {1, 2} /\ swap[2] \in {1, 2}
      /\ branch \in Branches(t) /\ main \in Branches(t)
      /\ main = t.kids[branch][swap[1]] /\ other = t.kids[branch][3 - swap[1]]
      /\ grandchild = t.kids[main][swap[2]] /\ sibling = t.kids[main][3 - swap[2]]
  BY DEF Family
<1>1. Shape(t) /\ Linked(t, {})
  BY DEF Tree
<1>2. /\ branch \in Nodes(t) /\ main \in Nodes(t) /\ other \in Nodes(t)
      /\ grandchild \in Nodes(t) /\ sibling \in Nodes(t)
      /\ t.parent[main] = branch /\ t.parent[other] = branch
      /\ t.parent[grandchild] = main /\ t.parent[sibling] = main
      /\ branch # main /\ branch # other /\ branch # grandchild /\ branch # sibling
      /\ main # other /\ main # grandchild /\ main # sibling
      /\ other # grandchild /\ other # sibling /\ grandchild # sibling
  BY FamilyApart
<1>2a. /\ \A m \in Nodes(t) : t.parent[m] = branch => m = main \/ m = other
       /\ \A m \in Nodes(t) : t.parent[m] = main => m = grandchild \/ m = sibling
  BY FamilyApart
<1>3a.SwappedIs(t, branch, swap, main, other, grandchild, sibling, s)
  BY SwappedFields
<1>3. /\ s = [root |-> s.root, parent |-> s.parent, kids |-> s.kids, box |-> s.box,
              value |-> s.value, stale |-> s.stale]
      /\ s.root = t.root /\ s.box = t.box /\ s.value = t.value
      /\ s.parent = [[t.parent EXCEPT ![other] = main] EXCEPT ![grandchild] = branch]
      /\ s.stale = t.stale \cup {main} \cup (IF main \in t.stale THEN {branch} ELSE {})
  BY <1>3a DEF SwappedIs
<1>4. /\ s.kids \in [Branches(t) -> [1..2 -> Nodes(t)]]
      /\ s.kids[branch][swap[1]] = main /\ s.kids[branch][3 - swap[1]] = grandchild
      /\ s.kids[main][swap[2]] = other /\ s.kids[main][3 - swap[2]] = sibling
      /\ \A n \in Branches(t) : n # branch /\ n # main => s.kids[n] = t.kids[n]
  BY <1>3a DEF SwappedIs
<1>5. /\ Nodes(s) = Nodes(t) /\ Branches(s) = Branches(t) /\ Leaves(s) = Leaves(t)
  BY <1>3, <1>4 DEF Nodes, Branches, Leaves
<1>6. /\ s.parent \in [Nodes(t) -> Nodes(t) \cup {NoNode}]
      /\ s.parent[other] = main /\ s.parent[grandchild] = branch
      /\ \A n \in Nodes(t) : n # other /\ n # grandchild => s.parent[n] = t.parent[n]
  BY <1>1, <1>2, <1>3 DEF Shape
<1>7. branch # NoNode /\ main # NoNode
  BY <1>1, <1>2 DEF Shape
<1>8. Shape(s)
  <2>1. s.stale \subseteq Branches(s)
    BY <1>0, <1>1, <1>3, <1>5 DEF Shape
  <2>2. QED
    BY <1>1, <1>3, <1>4, <1>5, <1>6, <2>1 DEF Shape
<1>9. \A n \in Branches(t) : \A k \in {1, 2} :
        {s.kids[n][1], s.kids[n][2]} = {s.kids[n][k], s.kids[n][3 - k]}
        /\ (s.kids[n][k] # s.kids[n][3 - k] => s.kids[n][1] # s.kids[n][2])
  <2>1. 3 - 1 = 2 /\ 3 - 2 = 1
    OBVIOUS
  <2>2. QED
    BY <2>1
<1>9a. /\ {s.kids[branch][1], s.kids[branch][2]} = {main, grandchild}
       /\ {s.kids[main][1], s.kids[main][2]} = {other, sibling}
  BY ONLY <1>0, <1>4, <1>9
<1>9b. /\ s.kids[branch][1] # s.kids[branch][2] /\ s.kids[main][1] # s.kids[main][2]
       /\ s.kids[branch][1] = grandchild \/ s.kids[branch][2] = grandchild
       /\ s.kids[main][1] = other \/ s.kids[main][2] = other
  <2>1. main # grandchild /\ other # sibling
    BY ONLY <1>2
  <2>2. PICK k, l : k = s.kids[branch] /\ l = s.kids[main]
    OBVIOUS
  <2>3. 3 - 1 = 2 /\ 3 - 2 = 1
    OBVIOUS
  <2>4. \/ k[1] = main /\ k[2] = grandchild
        \/ k[2] = main /\ k[1] = grandchild
    BY ONLY <1>0, <1>4, <2>2, <2>3
  <2>5. \/ l[1] = other /\ l[2] = sibling
        \/ l[2] = other /\ l[1] = sibling
    BY ONLY <1>0, <1>4, <2>2, <2>3
  <2>6. QED
    BY ONLY <2>1, <2>2, <2>4, <2>5
<1>10. ASSUME NEW n \in Branches(t)
       PROVE  /\ s.kids[n][1] # s.kids[n][2]
              /\ s.parent[s.kids[n][1]] = n /\ s.parent[s.kids[n][2]] = n
  <2>1. CASE n = branch
    <3>1. s.parent[main] = branch /\ s.parent[grandchild] = branch /\ main # grandchild
      BY ONLY <1>2, <1>6
    <3>2. {s.kids[n][1], s.kids[n][2]} = {main, grandchild} /\ s.kids[n][1] # s.kids[n][2]
      BY ONLY <1>9a, <1>9b, <2>1
    <3>3. QED
      BY ONLY <2>1, <3>1, <3>2
  <2>2. CASE n = main
    <3>1. s.parent[other] = main /\ s.parent[sibling] = main /\ other # sibling
      BY ONLY <1>2, <1>6
    <3>2. {s.kids[n][1], s.kids[n][2]} = {other, sibling} /\ s.kids[n][1] # s.kids[n][2]
      BY ONLY <1>9a, <1>9b, <2>2
    <3>3. QED
      BY ONLY <2>2, <3>1, <3>2
  <2>3. CASE n # branch /\ n # main
    <3>1. /\ t.kids[n][1] # t.kids[n][2] /\ t.kids[n][1] \in Nodes(t) /\ t.kids[n][2] \in Nodes(t)
          /\ t.parent[t.kids[n][1]] = n /\ t.parent[t.kids[n][2]] = n
      BY <1>1 DEF Linked, Shape
    <3>2. s.kids[n] = t.kids[n]
      BY <1>4, <2>3
    <3>3. QED
      BY <1>2, <1>6, <2>3, <3>1, <3>2
  <2>4. QED
    BY <2>1, <2>2, <2>3
<1>11. ASSUME NEW n \in Nodes(t), s.parent[n] # NoNode
       PROVE  /\ s.parent[n] \in Branches(t)
              /\ s.kids[s.parent[n]][1] = n \/ s.kids[s.parent[n]][2] = n
  <2>1. CASE n = other
    <3>1. s.parent[n] = main /\ main \in Branches(t)
      BY ONLY <1>0, <1>6, <2>1
    <3>2. s.kids[main][1] = n \/ s.kids[main][2] = n
      BY ONLY <1>9b, <2>1
    <3>3. QED
      BY ONLY <3>1, <3>2
  <2>2. CASE n = grandchild
    <3>1. s.parent[n] = branch /\ branch \in Branches(t)
      BY ONLY <1>0, <1>6, <2>2
    <3>2. s.kids[branch][1] = n \/ s.kids[branch][2] = n
      BY ONLY <1>9b, <2>2
    <3>3. QED
      BY ONLY <3>1, <3>2
  <2>3. CASE n = main
    <3>1. s.parent[n] = branch
      BY ONLY <1>2, <1>6, <2>3
    <3>2. QED
      BY ONLY <1>0, <1>9a, <2>3, <3>1
  <2>4. CASE n = sibling
    <3>1. s.parent[n] = main
      BY ONLY <1>2, <1>6, <2>4
    <3>2. n \in {s.kids[main][1], s.kids[main][2]}
      BY ONLY <1>9a, <2>4
    <3>3. QED
      BY ONLY <1>0, <3>1, <3>2
  <2>5. CASE n # other /\ n # grandchild /\ n # main /\ n # sibling
    <3>1. s.parent[n] = t.parent[n] /\ t.parent[n] # branch /\ t.parent[n] # main
      BY <1>2a, <1>6, <1>11, <2>5
    <3>2. /\ t.parent[n] \in Branches(t)
          /\ t.kids[t.parent[n]][1] = n \/ t.kids[t.parent[n]][2] = n
      BY <1>1, <1>11, <3>1 DEF Linked
    <3>3. QED
      BY <1>4, <3>1, <3>2
  <2>6. QED
    BY <2>1, <2>2, <2>3, <2>4, <2>5
<1>12. \A n \in Nodes(t) : s.parent[n] = NoNode <=> t.parent[n] = NoNode
  BY <1>2, <1>6, <1>7
<1>13. Linked(s, {})
  BY <1>1, <1>3, <1>5, <1>10, <1>11, <1>12 DEF Linked
<1>14. \E e : Ranked(s, e)
  <2>1. PICK d : Ranked(t, d)
    BY DEF Tree
  <2> DEFINE e == [n \in Nodes(t) |-> IF n = main THEN 2 * d[branch] + 1 ELSE 2 * d[n]]
  <2>2. \A n \in Nodes(t) : d[n] \in Nat /\ (t.parent[n] # NoNode => d[t.parent[n]] < d[n])
    BY <2>1 DEF Ranked
  <2>2a. d[branch] < d[main] /\ d[branch] < d[other] /\ d[main] < d[grandchild] /\ d[main] < d[sibling]
    BY <1>2, <1>7, <2>2
  <2>3. e \in [Nodes(t) -> Nat] /\ \A n \in Nodes(t) : n # main => e[n] = 2 * d[n]
    BY <1>2, <2>2
  <2>4. e[main] = 2 * d[branch] + 1
    BY <1>2
  <2> HIDE DEF e
  <2>5. ASSUME NEW n \in Nodes(t), s.parent[n] # NoNode PROVE e[s.parent[n]] < e[n]
    <3>1. CASE n = other
      BY <1>2, <1>6, <2>2, <2>2a, <2>3, <2>4, <3>1
    <3>2. CASE n = grandchild
      BY <1>2, <1>6, <2>2, <2>2a, <2>3, <2>4, <3>2
    <3>3. CASE n = main
      BY <1>2, <1>6, <2>2, <2>2a, <2>3, <2>4, <3>3
    <3>4. CASE n = sibling
      BY <1>2, <1>6, <2>2, <2>2a, <2>3, <2>4, <3>4
    <3>5. CASE n # other /\ n # grandchild /\ n # main /\ n # sibling
      <4> PICK p : p = t.parent[n]
        OBVIOUS
      <4>1. s.parent[n] = p /\ p # NoNode /\ p # main /\ p \in Nodes(t)
        BY <1>1, <1>2a, <1>6, <2>5, <3>5 DEF Shape
      <4>2. e[p] = 2 * d[p] /\ e[n] = 2 * d[n]
        BY <2>3, <3>5, <4>1
      <4>3. d[p] < d[n] /\ d[p] \in Nat /\ d[n] \in Nat
        BY <2>2, <4>1
      <4>4. QED
        BY <4>1, <4>2, <4>3
    <3>6. QED
      BY <3>1, <3>2, <3>3, <3>4, <3>5
  <2>6. Ranked(s, e)
    BY <1>5, <2>3, <2>5 DEF Ranked
  <2>7. QED
    BY <2>6
<1>15. SameArena(t, s)
  BY <1>3, <1>5 DEF SameArena
<1>16. QED
  BY <1>8, <1>13, <1>14, <1>15 DEF Tree

\* s is t with a new box for n.
RefitIs(t, n, s) ==
  /\ s.parent = t.parent /\ s.kids = t.kids /\ s.root = t.root /\ s.value = t.value
  /\ s.box = [t.box EXCEPT ![n] = Union(t.box[t.kids[n][1]], t.box[t.kids[n][2]])]
  /\ s.stale = t.stale \ {n}

LEMMA RefitTree ==
  ASSUME NEW t, Tree(t, {}), NEW n \in Branches(t)
  PROVE  Tree(Refit(t, n), {}) /\ SameArena(t, Refit(t, n)) /\ RefitIs(t, n, Refit(t, n))
<1> PICK s : s = Refit(t, n)
  OBVIOUS
<1> PICK b : b = Union(t.box[t.kids[n][1]], t.box[t.kids[n][2]])
  OBVIOUS
<1>1. Shape(t) /\ Linked(t, {})
  BY DEF Tree
<1>2. n \in Nodes(t) /\ t.kids[n][1] \in Nodes(t) /\ t.kids[n][2] \in Nodes(t)
  BY <1>1 DEF Shape
<1>3. b \in Box
  BY <1>1, <1>2, UnionIs DEF Shape
<1>4. s = [root |-> t.root, parent |-> t.parent, kids |-> t.kids, box |-> [t.box EXCEPT ![n] = b],
           value |-> t.value, stale |-> t.stale \ {n}]
  BY <1>1 DEF Refit, Shape
<1>4a. RefitIs(t, n, s)
  BY <1>4 DEF RefitIs
<1>4b. /\ s = [root |-> s.root, parent |-> s.parent, kids |-> s.kids, box |-> s.box,
               value |-> s.value, stale |-> s.stale]
       /\ s.parent = t.parent /\ s.kids = t.kids /\ s.root = t.root /\ s.value = t.value
       /\ s.box = [t.box EXCEPT ![n] = b] /\ s.stale = t.stale \ {n}
  BY <1>4
<1>5. s.box \in [Nodes(t) -> Box] /\ \A m \in Nodes(t) : m # n => s.box[m] = t.box[m]
  BY <1>1, <1>3, <1>4b DEF Shape
<1>6. Nodes(s) = Nodes(t) /\ Branches(s) = Branches(t) /\ Leaves(s) = Leaves(t)
  BY <1>4b, <1>5 DEF Nodes, Branches, Leaves
<1>7. Shape(s)
  BY ONLY <1>1, <1>4b, <1>5, <1>6 DEF Shape
<1>8. Linked(s, {})
  BY ONLY <1>1, <1>4b, <1>6 DEF Linked
<1>9. \E d : Ranked(s, d)
  <2>1. PICK d : Ranked(t, d)
    BY DEF Tree
  <2>2. Ranked(s, d)
    BY ONLY <1>4b, <1>6, <2>1 DEF Ranked
  <2>3. QED
    BY <2>2
<1>10. n \notin Leaves(t) /\ Leaves(t) \subseteq Nodes(t)
  BY <1>1 DEF Shape
<1>11. SameArena(t, s)
  BY <1>4b, <1>5, <1>6, <1>10 DEF SameArena
<1>12. QED
  BY <1>4a, <1>7, <1>8, <1>9, <1>11 DEF Tree

LEMMA RefitAndRotateTree ==
  ASSUME NEW t, Tree(t, {}), NEW n \in Branches(t)
  PROVE  Tree(RefitAndRotate(t, n), {}) /\ SameArena(t, RefitAndRotate(t, n))
<1> PICK r : r = Refit(t, n)
  OBVIOUS
<1> PICK s : s = Rotated(r, n)
  OBVIOUS
<1>1. Tree(r, {}) /\ SameArena(t, r) /\ n \in Branches(r)
  BY RefitTree DEF SameArena
<1>2. \/ s = r
      \/ \E swap : /\ swap[1] \in {1, 2} /\ swap[2] \in {1, 2}
                   /\ r.kids[n][swap[1]] \in Branches(r)
                   /\ s = Swapped(r, n, swap)
  BY <1>1, RotatedIs DEF Tree
<1>3. Tree(s, {}) /\ SameArena(r, s)
  <2>1. CASE s = r
    BY <1>1, <2>1 DEF SameArena
  <2>2. ASSUME NEW swap, swap[1] \in {1, 2}, swap[2] \in {1, 2},
               r.kids[n][swap[1]] \in Branches(r), s = Swapped(r, n, swap)
        PROVE  Tree(s, {}) /\ SameArena(r, s)
    <3> PICK main : main = r.kids[n][swap[1]]
      OBVIOUS
    <3>1. Family(r, n, swap, main, r.kids[n][3 - swap[1]], r.kids[main][swap[2]], r.kids[main][3 - swap[2]])
      BY <1>1, <2>2 DEF Family
    <3>2. QED
      BY <1>1, <2>2, <3>1, SwappedTree
  <2>3. QED
    BY <1>2, <2>1, <2>2
<1>4. SameArena(t, s)
  BY <1>1, <1>3 DEF SameArena
<1>5. QED
  BY <1>3, <1>4 DEF RefitAndRotate

----------------------------------------------------------------------------
(* find_best_sibling *)

SearchStart(t) ==
  {[queue |-> {[node |-> t.root, minCost |-> 0, inherited |-> 0]}, best |-> t.root, cost |-> Inf]}
Promising(queue) == {c \in queue : \A d \in queue : Rank(c.minCost) <= Rank(d.minCost)}
SearchSteps(t, aabb, s) ==
  IF s.queue = {} THEN {s} ELSE {Explore(t, aabb, s, c) : c \in Promising(s.queue)}
Searched(t, aabb, k, f) ==
  IF k = 0 THEN SearchStart(t) ELSE UNION {SearchSteps(t, aabb, s) : s \in f[k - 1]}

LEMMA SearchedIs ==
  ASSUME NEW t, NEW aabb, NEW f
  PROVE  /\ Searched(t, aabb, 0, f) = SearchStart(t)
         /\ \A k : k # 0 => Searched(t, aabb, k, f) = UNION {SearchSteps(t, aabb, s) : s \in f[k - 1]}
BY Zenon DEF Searched

LEMMA SearchExists ==
  ASSUME NEW t, NEW aabb, NEW n \in Nat
  PROVE  \E f : f = [k \in 0..n |-> Searched(t, aabb, k, f)]
<1> DEFINE P == {m \in Nat : \E f : f = [k \in 0..m |-> Searched(t, aabb, k, f)]}
<1>1. 0 \in P
  <2> DEFINE g == [k \in 0..0 |-> SearchStart(t)]
  <2>1. \A k \in 0..0 : g[k] = Searched(t, aabb, k, g)
    BY DEF Searched
  <2>2. g = [k \in 0..0 |-> g[k]]
    OBVIOUS
  <2> HIDE DEF g
  <2>3. g = [k \in 0..0 |-> Searched(t, aabb, k, g)]
    BY <2>1, <2>2
  <2>4. QED
    BY <2>3
<1>2. \A m \in Nat : m \in P => m + 1 \in P
  <2> SUFFICES ASSUME NEW m \in Nat, m \in P
               PROVE  \E f : f = [k \in 0..(m + 1) |-> Searched(t, aabb, k, f)]
    OBVIOUS
  <2>1. PICK f : f = [k \in 0..m |-> Searched(t, aabb, k, f)]
    OBVIOUS
  <2> HIDE DEF P
  <2>2. \A k \in 0..m : f[k] = Searched(t, aabb, k, f)
    BY <2>1
  <2> DEFINE g == [k \in 0..(m + 1) |-> IF k = m + 1 THEN Searched(t, aabb, k, f) ELSE f[k]]
  <2>3. \A k \in 0..m : g[k] = f[k]
    OBVIOUS
  <2>4. g[m + 1] = Searched(t, aabb, m + 1, f)
    OBVIOUS
  <2>5. g = [k \in 0..(m + 1) |-> g[k]]
    OBVIOUS
  <2> HIDE DEF g
  <2>6. ASSUME NEW k \in 0..(m + 1) PROVE g[k] = Searched(t, aabb, k, g)
    <3>1. CASE k = 0
      <4>1. 0 \in 0..m
        OBVIOUS
      <4>2. g[0] = Searched(t, aabb, 0, f)
        BY ONLY <2>2, <2>3, <4>1
      <4>3. Searched(t, aabb, 0, f) = Searched(t, aabb, 0, g)
        BY ONLY SearchedIs
      <4>4. QED
        BY ONLY <3>1, <4>2, <4>3
    <3>2. CASE k # 0
      <4> PICK j : j = k - 1
        OBVIOUS
      <4>1. j \in 0..m /\ (k = m + 1 \/ k \in 0..m)
        BY <3>2
      <4>2. g[j] = f[j]
        BY <2>3, <4>1
      <4>3. g[k] = Searched(t, aabb, k, f)
        BY <2>2, <2>3, <2>4, <4>1
      <4>4. QED
        BY <3>2, <4>2, <4>3 DEF Searched
    <3>3. QED
      BY <3>1, <3>2
  <2>7. g = [k \in 0..(m + 1) |-> Searched(t, aabb, k, g)]
    BY <2>5, <2>6
  <2>8. QED
    BY <2>7
<1> HIDE DEF P
<1>3. Nat \subseteq P
  BY ONLY <1>1, <1>2, NaturalsIn
<1>4. n \in P
  BY <1>3
<1>5. QED
  BY <1>4 DEF P

\* The search stays among the nodes that hang below the root.
Among(t, X, s) ==
  /\ s.best \in Nodes(t) \ X
  /\ \A c \in s.queue : c.node \in Nodes(t) \ X

LEMMA ExploreAmong ==
  ASSUME NEW t, NEW X, Tree(t, X), NEW aabb, NEW s, Among(t, X, s), NEW c \in s.queue
  PROVE  Among(t, X, Explore(t, aabb, s, c))
<1> PICK e : e = Explore(t, aabb, s, c)
  OBVIOUS
<1>1. c.node \in Nodes(t) \ X /\ s.best \in Nodes(t) \ X
  BY DEF Among
<1>2. e.best \in {c.node, s.best}
  BY DEF Explore
<1>3. \A d \in e.queue :
        d \in s.queue \/ (c.node \in Branches(t) /\ d.node \in Range(t.kids[c.node]))
  BY DEF Explore
<1>4. ASSUME c.node \in Branches(t), NEW m \in Range(t.kids[c.node]) PROVE m \in Nodes(t) \ X
  <2>1. t.kids[c.node] \in [1..2 -> Nodes(t)]
    BY <1>4 DEF Tree, Shape
  <2>2. PICK k \in 1..2 : m = t.kids[c.node][k]
    BY <2>1 DEF Range
  <2>3. t.parent[m] = c.node /\ m \in Nodes(t)
    BY <1>4, <2>1, <2>2 DEF Tree, Linked
  <2>4. c.node # NoNode
    BY <1>1 DEF Tree, Shape
  <2>5. \A n \in X : n \in Nodes(t) => t.parent[n] = NoNode
    BY DEF Tree, Linked
  <2>6. QED
    BY <2>3, <2>4, <2>5
<1>5. \A d \in e.queue : d.node \in Nodes(t) \ X
  BY <1>3, <1>4 DEF Among
<1>6. QED
  BY <1>1, <1>2, <1>5 DEF Among

LEMMA SiblingAmong ==
  ASSUME NEW t, NEW X, Tree(t, X), t.root # NoNode, NEW aabb
  PROVE  FindBestSibling(t, aabb) \subseteq Nodes(t) \ X
<1> PICK n : n = Cardinality(Nodes(t))
  OBVIOUS
<1>1. n \in Nat
  BY FS_CardinalityType DEF Tree, Shape
<1> DEFINE after == CHOOSE f : f = [k \in 0..n |-> Searched(t, aabb, k, f)]
<1>2. FindBestSibling(t, aabb) = {s.best : s \in after[n]}
  <2>1. FindBestSibling(t, aabb) =
          {s.best : s \in (CHOOSE f : f = [k \in 0..Cardinality(Nodes(t)) |-> Searched(t, aabb, k, f)])
                            [Cardinality(Nodes(t))]}
    BY Zenon DEF FindBestSibling, Searched, SearchSteps, SearchStart, Promising
  <2>2. QED
    BY <2>1
<1>3. after = [k \in 0..n |-> Searched(t, aabb, k, after)]
  BY <1>1, SearchExists
<1> HIDE DEF after
<1>4. \A k \in 0..n : after[k] = Searched(t, aabb, k, after)
  BY <1>3
<1> DEFINE P == {k \in Nat : k <= n => \A s \in after[k] : Among(t, X, s)}
<1>5. 0 \in P
  <2>1. after[0] = SearchStart(t)
    <3>1. 0 \in 0..n
      BY <1>1
    <3>2. after[0] = Searched(t, aabb, 0, after)
      BY ONLY <1>4, <3>1
    <3>3. QED
      BY ONLY <3>2, SearchedIs
  <2>2. t.root \in Nodes(t) \ X
    BY DEF Tree, Linked
  <2>3. \A s \in SearchStart(t) : Among(t, X, s)
    BY <2>2 DEF SearchStart, Among
  <2>4. QED
    BY <2>1, <2>3
<1>6. \A k \in Nat : k \in P => k + 1 \in P
  <2> SUFFICES ASSUME NEW k \in Nat, k \in P, k + 1 <= n, NEW s \in after[k + 1]
               PROVE  Among(t, X, s)
    OBVIOUS
  <2>1. k + 1 \in 0..n /\ k + 1 # 0 /\ (k + 1) - 1 = k /\ k <= n
    BY <1>1
  <2>2. after[k + 1] = UNION {SearchSteps(t, aabb, r) : r \in after[k]}
    BY <1>4, <2>1 DEF Searched
  <2>3. PICK r \in after[k] : s \in SearchSteps(t, aabb, r)
    BY <2>2
  <2>4. Among(t, X, r)
    BY <2>1
  <2>5. s = r \/ \E c \in r.queue : s = Explore(t, aabb, r, c)
    BY <2>3 DEF SearchSteps, Promising
  <2>6. QED
    BY <2>4, <2>5, ExploreAmong
<1> HIDE DEF P
<1>7. Nat \subseteq P
  BY ONLY <1>5, <1>6, NaturalsIn
<1>8. \A s \in after[n] : Among(t, X, s)
  BY <1>1, <1>7 DEF P
<1>9. QED
  BY <1>2, <1>8 DEF Among

----------------------------------------------------------------------------
(* Refitting a line *)

RefittedLine(t, list) == FoldLeft(RefitAndRotate, t, list)

\* The tree after each node of the line.
RefitStages(t, list, n, h) ==
  h[0] = t /\ \A k \in 1..n : h[k] = RefitAndRotate(h[k - 1], list[k])

LEMMA LineStages ==
  ASSUME NEW t, NEW list, NEW n \in Nat, DOMAIN list = 1..n
  PROVE  \E h : RefitStages(t, list, n, h) /\ RefittedLine(t, list) = h[n]
<1> DEFINE fold == CHOOSE f : LineFold(t, list, DOMAIN list, f)
           arg == [line |-> TRUE]
<1>1. RefittedLine(t, list) = fold[DOMAIN list]
  BY Zenon DEF RefittedLine, FoldLeft, MapThenFoldSet, LineFold
<1>2. \E f : LineFold(t, list, 1..n, f)
  <2>1. \E f : IsFold(arg, t, list, 1..n, f)
    BY FoldExists
  <2>2. QED
    BY <2>1, LineFoldIs
<1>3. LineFold(t, list, 1..n, fold)
  BY <1>2
<1> HIDE DEF fold
<1>4. IsFold(arg, t, list, 1..n, fold)
  BY <1>3, LineFoldIs
<1>5. arg.line
  OBVIOUS
<1> HIDE DEF arg
<1>6. PICK h : Stages(arg, t, list, n, h) /\ h[n] = fold[1..n]
  BY <1>4, FoldStages
<1>7. \A k \in 1..n : h[k] = RefitAndRotate(h[k - 1], list[k])
  BY <1>5, <1>6 DEF Stages, Step
<1>8. QED
  BY <1>1, <1>6, <1>7 DEF Stages, RefitStages

LEMMA RefittedTree ==
  ASSUME NEW t, Tree(t, {}), NEW list \in Seq(Branches(t))
  PROVE  Tree(RefittedLine(t, list), {}) /\ SameArena(t, RefittedLine(t, list))
<1> PICK n : n = Len(list)
  OBVIOUS
<1>1. n \in Nat /\ DOMAIN list = 1..n /\ \A k \in 1..n : list[k] \in Branches(t)
  BY LenProperties, ElementOfSeq
<1>1a. \E h : RefitStages(t, list, n, h) /\ RefittedLine(t, list) = h[n]
  BY ONLY <1>1, LineStages
<1>2. PICK h : /\ h[0] = t
               /\ \A k \in 1..n : h[k] = RefitAndRotate(h[k - 1], list[k])
               /\ RefittedLine(t, list) = h[n]
  BY <1>1a DEF RefitStages
<1> DEFINE P == {k \in Nat : k <= n => Tree(h[k], {}) /\ SameArena(t, h[k])}
<1>3. 0 \in P
  BY <1>2 DEF SameArena
<1>4. \A k \in Nat : k \in P => k + 1 \in P
  <2> SUFFICES ASSUME NEW k \in Nat, k \in P, k + 1 <= n
               PROVE  Tree(h[k + 1], {}) /\ SameArena(t, h[k + 1])
    OBVIOUS
  <2>1. Tree(h[k], {}) /\ SameArena(t, h[k])
    BY <1>1
  <2>2. k + 1 \in 1..n /\ (k + 1) - 1 = k
    BY <1>1
  <2>3. h[k + 1] = RefitAndRotate(h[k], list[k + 1]) /\ list[k + 1] \in Branches(h[k])
    BY <1>1, <1>2, <2>1, <2>2 DEF SameArena
  <2>4. Tree(h[k + 1], {}) /\ SameArena(h[k], h[k + 1])
    BY <2>1, <2>3, RefitAndRotateTree
  <2>5. QED
    BY <2>1, <2>4 DEF SameArena
<1> HIDE DEF P
<1>5. Nat \subseteq P
  BY ONLY <1>3, <1>4, NaturalsIn
<1>6. n \in P /\ n <= n
  BY <1>1, <1>5
<1>7. QED
  BY <1>2, <1>6 DEF P

----------------------------------------------------------------------------
(* Nodes come and go *)

\* g is f, with k mapped to v.
PutOn(S, T, f, k, v, g) ==
  /\ g \in [S \cup {k} -> T]
  /\ g[k] = v
  /\ \A x \in S : x # k => g[x] = f[x]

LEMMA PutIs ==
  ASSUME NEW S, NEW T, NEW f \in [S -> T], NEW k, NEW v \in T
  PROVE  PutOn(S, T, f, k, v, Put(f, k, v))
BY DEF Put, PutOn

DropOn(S, T, f, k, g) ==
  /\ g \in [S \ {k} -> T]
  /\ \A x \in S \ {k} : g[x] = f[x]

LEMMA DropIs ==
  ASSUME NEW S, NEW T, NEW f \in [S -> T], NEW k
  PROVE  DropOn(S, T, f, k, Drop(f, k))
BY DEF Drop, DropOn

\* u is t with a leaf more, which hangs nowhere yet.
AllocIs(t, leaf, aabb, value, u) ==
  /\ leaf \in Nat \ {0} /\ leaf \notin Nodes(t)
  /\ Nodes(u) = Nodes(t) \cup {leaf} /\ Leaves(u) = Leaves(t) \cup {leaf}
  /\ Branches(u) = Branches(t)
  /\ u.root = t.root /\ u.kids = t.kids /\ u.stale = t.stale
  /\ \A n \in Nodes(t) : u.parent[n] = t.parent[n] /\ u.box[n] = t.box[n]
  /\ \A n \in Leaves(t) : u.value[n] = t.value[n]
  /\ u.parent[leaf] = NoNode /\ u.box[leaf] = aabb /\ u.value[leaf] = value

Allocated(t, aabb, value) ==
  [t EXCEPT !.box = Put(@, FreeSlot(t), aabb),
            !.parent = Put(@, FreeSlot(t), NoNode),
            !.value = Put(@, FreeSlot(t), value)]

LEMMA AllocTree ==
  ASSUME NEW t, Tree(t, {}), NEW aabb \in Box, NEW value \in Collider
  PROVE  /\ AllocIs(t, FreeSlot(t), aabb, value, Allocated(t, aabb, value))
         /\ Tree(Allocated(t, aabb, value), {FreeSlot(t)})
<1> PICK leaf : leaf = FreeSlot(t)
  OBVIOUS
<1> PICK u : u = Allocated(t, aabb, value)
  OBVIOUS
<1>1. Shape(t) /\ Linked(t, {})
  BY DEF Tree
<1>2. leaf \in Nat \ {0} /\ leaf \notin Nodes(t)
  BY <1>1, FreeSlotIs
<1>3. /\ u = [root |-> u.root, parent |-> u.parent, kids |-> u.kids, box |-> u.box,
              value |-> u.value, stale |-> u.stale]
      /\ u.root = t.root /\ u.kids = t.kids /\ u.stale = t.stale
      /\ u.parent = Put(t.parent, leaf, NoNode) /\ u.box = Put(t.box, leaf, aabb)
      /\ u.value = Put(t.value, leaf, value)
  BY <1>1 DEF Allocated, Shape
<1>4. /\ DOMAIN t.parent = Nodes(t) /\ DOMAIN t.box = Nodes(t) /\ DOMAIN t.value = Leaves(t)
      /\ DOMAIN t.kids = Branches(t)
      /\ Leaves(t) \subseteq Nodes(t)
  BY <1>1 DEF Shape, Nodes, Leaves, Branches
<1>5. /\ u.box[leaf] = aabb
      /\ \A n \in Nodes(t) : u.box[n] = t.box[n]
      /\ u.box \in [Nodes(t) \cup {leaf} -> Box]
  <2>1. t.box \in [Nodes(t) -> Box]
    BY <1>1 DEF Shape
  <2>2. PutOn(Nodes(t), Box, t.box, leaf, aabb, u.box)
    BY ONLY <1>3, <2>1, aabb \in Box, PutIs
  <2>3. QED
    BY ONLY <1>2, <2>2 DEF PutOn
<1>6. /\ u.parent[leaf] = NoNode
      /\ \A n \in Nodes(t) : u.parent[n] = t.parent[n]
      /\ u.parent \in [Nodes(t) \cup {leaf} -> Nodes(t) \cup {NoNode}]
  <2>1. t.parent \in [Nodes(t) -> Nodes(t) \cup {NoNode}]
    BY <1>1 DEF Shape
  <2>2. PICK T : T = Nodes(t) \cup {NoNode}
    OBVIOUS
  <2>3. t.parent \in [Nodes(t) -> T] /\ NoNode \in T
    BY <2>1, <2>2
  <2>4. PutOn(Nodes(t), T, t.parent, leaf, NoNode, u.parent)
    BY ONLY <1>3, <2>3, PutIs
  <2>5. QED
    BY ONLY <1>2, <2>2, <2>4 DEF PutOn
<1>7. /\ u.value[leaf] = value
      /\ \A n \in Leaves(t) : u.value[n] = t.value[n]
      /\ u.value \in [Leaves(t) \cup {leaf} -> Collider]
  <2>1. t.value \in [Leaves(t) -> Collider]
    BY <1>1 DEF Shape
  <2>2. PutOn(Leaves(t), Collider, t.value, leaf, value, u.value)
    BY ONLY <1>3, <2>1, value \in Collider, PutIs
  <2>3. QED
    BY ONLY <1>2, <1>4, <2>2 DEF PutOn
<1>8. /\ Nodes(u) = Nodes(t) \cup {leaf} /\ Leaves(u) = Leaves(t) \cup {leaf}
      /\ Branches(u) = Branches(t)
  BY <1>3, <1>4, <1>5, <1>7 DEF Nodes, Leaves, Branches
<1>9. AllocIs(t, leaf, aabb, value, u)
  BY ONLY <1>2, <1>3, <1>5, <1>6, <1>7, <1>8 DEF AllocIs
<1>10. Shape(u)
  <2>1. u.kids \in [Branches(u) -> [1..2 -> Nodes(u)]]
    <3>1. t.kids \in [Branches(t) -> [1..2 -> Nodes(t)]]
      BY <1>1 DEF Shape
    <3>2. \A n \in Branches(t) : t.kids[n] \in [1..2 -> Nodes(u)]
      BY <1>8, <3>1
    <3>3. QED
      BY <1>3, <1>8, <3>1, <3>2
  <2>2. IsFiniteSet(Nodes(u))
    BY <1>1, <1>8, FS_AddElement DEF Shape
  <2>3. Nodes(u) \subseteq Nat \ {NoNode}
    BY <1>1, <1>2, <1>8 DEF Shape, NoNode
  <2>4. /\ Nodes(u) = Branches(u) \cup Leaves(u) /\ Branches(u) \cap Leaves(u) = {}
        /\ u.stale \subseteq Branches(u)
    BY <1>1, <1>2, <1>3, <1>8 DEF Shape
  <2>5. u.parent \in [Nodes(u) -> Nodes(u) \cup {NoNode}]
    BY <1>6, <1>8
  <2>6. QED
    BY <1>3, <1>5, <1>7, <1>8, <2>1, <2>2, <2>3, <2>4, <2>5 DEF Shape
<1>11. Linked(u, {leaf})
  <2>1. t.root # leaf
    BY <1>1, <1>2 DEF Linked, NoNode
  <2>2. /\ t.root \in Nodes(t) \cup {NoNode} /\ (t.root = NoNode => Nodes(t) = {})
        /\ \A n \in Nodes(t) : t.parent[n] = NoNode <=> n = t.root
    BY <1>1 DEF Linked
  <2>3. \A n \in Branches(t) : t.kids[n][1] \in Nodes(t) /\ t.kids[n][2] \in Nodes(t)
    BY <1>1 DEF Shape
  <2>4. \A n \in Branches(u) :
          /\ u.kids[n][1] # u.kids[n][2]
          /\ u.parent[u.kids[n][1]] = n /\ u.parent[u.kids[n][2]] = n
    BY <1>1, <1>3, <1>6, <1>8, <2>3 DEF Linked
  <2>5. \A n \in Nodes(u) : u.parent[n] # NoNode =>
          /\ u.parent[n] \in Branches(u)
          /\ u.kids[u.parent[n]][1] = n \/ u.kids[u.parent[n]][2] = n
    BY <1>1, <1>3, <1>6, <1>8 DEF Linked
  <2>6. \A n \in Nodes(u) : u.parent[n] = NoNode <=> n = u.root \/ n \in {leaf}
    BY <1>3, <1>6, <1>8, <2>2
  <2>7. /\ {leaf} \subseteq Leaves(u) /\ u.root \in (Nodes(u) \ {leaf}) \cup {NoNode}
        /\ (u.root = NoNode => Nodes(u) = {leaf})
    BY <1>2, <1>3, <1>8, <2>1, <2>2
  <2>8. QED
    BY ONLY <2>4, <2>5, <2>6, <2>7 DEF Linked
<1>12. \E d : Ranked(u, d)
  <2>1. PICK d : Ranked(t, d)
    BY DEF Tree
  <2> DEFINE e == [n \in Nodes(u) |-> IF n = leaf THEN 0 ELSE d[n]]
  <2>2. \A n \in Nodes(t) : t.parent[n] # NoNode => t.parent[n] \in Nodes(t)
    BY <1>1 DEF Shape
  <2>3. Ranked(u, e)
    BY <1>2, <1>6, <1>8, <2>1, <2>2 DEF Ranked
  <2>4. QED
    BY <2>3
<1>13. QED
  BY <1>9, <1>10, <1>11, <1>12 DEF Tree

\* w is u, with the leaf and its sibling below a branch that takes the sibling's place.
AttachIs(u, leaf, sibling, branch, w) ==
  /\ branch \in Nat \ {0} /\ branch \notin Nodes(u)
  /\ Nodes(w) = Nodes(u) \cup {branch} /\ Branches(w) = Branches(u) \cup {branch}
  /\ Leaves(w) = Leaves(u) /\ w.value = u.value /\ w.stale = u.stale
  /\ w.root = IF u.parent[sibling] = NoNode THEN branch ELSE u.root
  /\ w.parent[sibling] = branch /\ w.parent[leaf] = branch
  /\ w.parent[branch] = u.parent[sibling]
  /\ \A n \in Nodes(u) : n # sibling /\ n # leaf => w.parent[n] = u.parent[n]
  /\ w.kids[branch][1] = sibling /\ w.kids[branch][2] = leaf
  /\ \A n \in Branches(u) : n # u.parent[sibling] => w.kids[n] = u.kids[n]
  /\ u.parent[sibling] # NoNode => \A i \in {1, 2} :
       w.kids[u.parent[sibling]][i] =
         IF u.kids[u.parent[sibling]][i] = sibling THEN branch ELSE u.kids[u.parent[sibling]][i]
  /\ w.box[branch] = Union(u.box[leaf], u.box[sibling])
  /\ \A n \in Nodes(u) : w.box[n] = u.box[n]

Attached(u, leaf, sibling) ==
  [u EXCEPT
     !.box = Put(@, FreeSlot(u), Union(u.box[leaf], u.box[sibling])),
     !.kids = Put(@, FreeSlot(u), <<sibling, leaf>>),
     !.parent = Put([@ EXCEPT ![sibling] = FreeSlot(u), ![leaf] = FreeSlot(u)],
                    FreeSlot(u), u.parent[sibling])]

LEMMA AttachedShape ==
  ASSUME NEW u, NEW leaf \in Leaves(u), Tree(u, {leaf}),
         NEW sibling \in Nodes(u), sibling # leaf,
         NEW branch, branch = FreeSlot(u),
         NEW w, w = Relinked(Attached(u, leaf, sibling), u.parent[sibling], sibling, branch)
  PROVE  Shape(w) /\ AttachIs(u, leaf, sibling, branch, w)
<1> PICK v : v = Attached(u, leaf, sibling)
  OBVIOUS
<1> PICK above : above = u.parent[sibling]
  OBVIOUS
<1> PICK N : N = Nodes(u) \cup {branch}
  OBVIOUS
<1> PICK b : b = Union(u.box[leaf], u.box[sibling])
  OBVIOUS
<1> PICK pair : pair = <<sibling, leaf>>
  OBVIOUS
<1>1. Shape(u) /\ Linked(u, {leaf})
  BY DEF Tree
<1>2. branch \in Nat \ {0} /\ branch \notin Nodes(u)
  BY <1>1, FreeSlotIs
<1>3. leaf \in Nodes(u) /\ leaf \notin Branches(u) /\ above \in Nodes(u) \cup {NoNode}
  BY <1>1 DEF Shape
<1>4. above # NoNode => above \in Branches(u)
  BY <1>1 DEF Linked
<1>5. /\ v = [root |-> v.root, parent |-> v.parent, kids |-> v.kids, box |-> v.box,
              value |-> v.value, stale |-> v.stale]
      /\ v.root = u.root /\ v.value = u.value /\ v.stale = u.stale
      /\ v.box = Put(u.box, branch, b)
      /\ v.kids = Put(u.kids, branch, pair)
      /\ v.parent = Put([u.parent EXCEPT ![sibling] = branch, ![leaf] = branch], branch, above)
  BY <1>1 DEF Attached, Shape
<1>6. /\ v.box \in [N -> Box] /\ v.box[branch] = b
      /\ \A n \in Nodes(u) : v.box[n] = u.box[n]
  <2>1. u.box \in [Nodes(u) -> Box]
    BY <1>1 DEF Shape
  <2>2. b \in Box
    BY <1>3, <2>1, UnionIs
  <2>3. PutOn(Nodes(u), Box, u.box, branch, b, v.box)
    BY ONLY <1>5, <2>1, <2>2, PutIs
  <2>4. QED
    BY ONLY <1>2, <2>3, N = Nodes(u) \cup {branch} DEF PutOn
<1>7. pair \in [1..2 -> N] /\ pair[1] = sibling /\ pair[2] = leaf
  BY <1>3
<1>8. /\ v.kids \in [Branches(u) \cup {branch} -> [1..2 -> N]] /\ v.kids[branch] = pair
      /\ \A n \in Branches(u) : v.kids[n] = u.kids[n]
  <2> PICK T : T = [1..2 -> N]
    OBVIOUS
  <2>1. u.kids \in [Branches(u) -> [1..2 -> Nodes(u)]]
    BY <1>1 DEF Shape
  <2>2. \A n \in Branches(u) : u.kids[n] \in T
    BY <2>1
  <2>3. u.kids \in [Branches(u) -> T] /\ pair \in T
    BY <1>7, <2>1, <2>2
  <2>4. PutOn(Branches(u), T, u.kids, branch, pair, v.kids)
    BY ONLY <1>5, <2>3, PutIs
  <2>5. branch \notin Branches(u)
    BY <1>1, <1>2 DEF Shape
  <2>6. QED
    BY ONLY <2>4, <2>5, T = [1..2 -> N] DEF PutOn
<1>9. /\ v.parent \in [N -> N \cup {NoNode}]
      /\ v.parent[branch] = above /\ v.parent[sibling] = branch /\ v.parent[leaf] = branch
      /\ \A n \in Nodes(u) : n # sibling /\ n # leaf => v.parent[n] = u.parent[n]
  <2> PICK T : T = N \cup {NoNode}
    OBVIOUS
  <2> PICK p : p = [u.parent EXCEPT ![sibling] = branch, ![leaf] = branch]
    OBVIOUS
  <2>1. u.parent \in [Nodes(u) -> Nodes(u) \cup {NoNode}]
    BY <1>1 DEF Shape
  <2>2. /\ p \in [Nodes(u) -> T] /\ p[sibling] = branch /\ p[leaf] = branch
        /\ \A n \in Nodes(u) : n # sibling /\ n # leaf => p[n] = u.parent[n]
    BY <1>3, <2>1
  <2>3. above \in T
    BY <1>3
  <2>4. PutOn(Nodes(u), T, p, branch, above, v.parent)
    BY ONLY <1>5, <2>2, <2>3, p = [u.parent EXCEPT ![sibling] = branch, ![leaf] = branch], PutIs
  <2>5. sibling # branch /\ leaf # branch
    BY <1>2, <1>3
  <2>6. /\ v.parent \in [Nodes(u) \cup {branch} -> T] /\ v.parent[branch] = above
        /\ \A n \in Nodes(u) : v.parent[n] = p[n]
    BY ONLY <1>2, <2>4 DEF PutOn
  <2>7. QED
    BY <1>3, <2>2, <2>6
<1>10. /\ w = [root |-> w.root, parent |-> w.parent, kids |-> w.kids, box |-> w.box,
               value |-> w.value, stale |-> w.stale]
       /\ w.parent = v.parent /\ w.box = v.box /\ w.value = v.value /\ w.stale = v.stale
       /\ above = NoNode => w.root = branch /\ w.kids = v.kids
       /\ above # NoNode =>
            /\ w.root = v.root
            /\ w.kids = [v.kids EXCEPT ![above] =
                           [i \in 1..2 |-> IF v.kids[above][i] = sibling THEN branch ELSE v.kids[above][i]]]
  <2>1. w = Relinked(v, above, sibling, branch)
    OBVIOUS
  <2>2. CASE above = NoNode
    <3>1. w = [v EXCEPT !.root = branch]
      BY <2>1, <2>2 DEF Relinked
    <3>2. QED
      BY <1>5, <2>2, <3>1
  <2>3. CASE above # NoNode
    <3> PICK k : k = [v.kids EXCEPT ![above] =
                   [i \in 1..2 |-> IF v.kids[above][i] = sibling THEN branch ELSE v.kids[above][i]]]
      OBVIOUS
    <3>1. w = [v EXCEPT !.kids = k]
      BY <1>5, <2>1, <2>3 DEF Relinked
    <3>2. QED
      BY <1>5, <2>3, <3>1
  <2>4. QED
    BY <2>2, <2>3
<1>11. /\ w.kids \in [Branches(u) \cup {branch} -> [1..2 -> N]] /\ w.kids[branch] = pair
       /\ \A n \in Branches(u) : n # above => w.kids[n] = u.kids[n]
       /\ above # NoNode => \A i \in {1, 2} :
            w.kids[above][i] = IF u.kids[above][i] = sibling THEN branch ELSE u.kids[above][i]
  <2>1. CASE above = NoNode
    BY <1>8, <1>10, <2>1
  <2>2. CASE above # NoNode
    <3> PICK a : a = [i \in 1..2 |-> IF v.kids[above][i] = sibling THEN branch ELSE v.kids[above][i]]
      OBVIOUS
    <3>1. above \in Branches(u) /\ v.kids[above] = u.kids[above] /\ v.kids[above] \in [1..2 -> N]
      BY <1>4, <1>8, <2>2
    <3>2. \A i \in {1, 2} : a[i] = IF u.kids[above][i] = sibling THEN branch ELSE u.kids[above][i]
      BY <3>1
    <3>3. a \in [1..2 -> N]
      BY <3>1
    <3>4. w.kids = [v.kids EXCEPT ![above] = a]
      BY <1>10, <2>2
    <3>5. above # branch
      BY <1>2, <1>3, <2>2
    <3>6. /\ w.kids \in [Branches(u) \cup {branch} -> [1..2 -> N]] /\ w.kids[above] = a
          /\ \A n \in Branches(u) \cup {branch} : n # above => w.kids[n] = v.kids[n]
      BY ONLY <1>8, <3>1, <3>3, <3>4
    <3>7. QED
      BY ONLY <1>8, <3>2, <3>5, <3>6
  <2>3. QED
    BY <2>1, <2>2
<1>12. Nodes(w) = N /\ Branches(w) = Branches(u) \cup {branch} /\ Leaves(w) = Leaves(u)
  <2>1. DOMAIN w.box = N
    BY ONLY <1>6, <1>10
  <2>2. DOMAIN w.kids = Branches(u) \cup {branch}
    BY ONLY <1>11
  <2>3. w.value = u.value
    BY ONLY <1>5, <1>10
  <2>4. QED
    BY <2>1, <2>2, <2>3 DEF Nodes, Branches, Leaves
<1>13. AttachIs(u, leaf, sibling, branch, w)
  <2>1. w.root = IF above = NoNode THEN branch ELSE u.root
    BY ONLY <1>5, <1>10
  <2>2. /\ w.parent[sibling] = branch /\ w.parent[leaf] = branch
        /\ w.parent[branch] = above
        /\ \A n \in Nodes(u) : n # sibling /\ n # leaf => w.parent[n] = u.parent[n]
    BY ONLY <1>9, <1>10
  <2>3. w.kids[branch][1] = sibling /\ w.kids[branch][2] = leaf
    BY ONLY <1>7, <1>11
  <2>4. w.box[branch] = b /\ \A n \in Nodes(u) : w.box[n] = u.box[n]
    BY ONLY <1>6, <1>10
  <2>5. w.value = u.value /\ w.stale = u.stale
    BY ONLY <1>5, <1>10
  <2>6. QED
    BY ONLY <1>2, <1>11, <1>12, <2>1, <2>2, <2>3, <2>4, <2>5, above = u.parent[sibling],
            N = Nodes(u) \cup {branch}, b = Union(u.box[leaf], u.box[sibling]) DEF AttachIs
<1>14. Shape(w)
  <2>1. IsFiniteSet(N)
    BY <1>1, FS_AddElement DEF Shape
  <2>2. N \subseteq Nat \ {NoNode}
    BY <1>1, <1>2 DEF Shape, NoNode
  <2>3. /\ N = (Branches(u) \cup {branch}) \cup Leaves(u) /\ (Branches(u) \cup {branch}) \cap Leaves(u) = {}
        /\ u.stale \subseteq Branches(u) \cup {branch}
    BY <1>1, <1>2 DEF Shape
  <2>4. u.value \in [Leaves(u) -> Collider]
    BY <1>1 DEF Shape
  <2>5. w.value = u.value /\ w.stale = u.stale
    BY ONLY <1>5, <1>10
  <2>6. w.parent \in [N -> N \cup {NoNode}] /\ w.box \in [N -> Box]
    BY ONLY <1>6, <1>9, <1>10
  <2>7. QED
    BY ONLY <1>10, <1>11, <1>12, <2>1, <2>2, <2>3, <2>4, <2>5, <2>6 DEF Shape
<1>15. QED
  BY <1>13, <1>14

LEMMA AttachedTree ==
  ASSUME NEW u, NEW leaf \in Leaves(u), Tree(u, {leaf}),
         NEW sibling \in Nodes(u), sibling # leaf, NEW branch, NEW w, Shape(w),
         AttachIs(u, leaf, sibling, branch, w)
  PROVE  Tree(w, {})
<1> PICK above : above = u.parent[sibling]
  OBVIOUS
<1>1. Shape(u) /\ Linked(u, {leaf})
  BY DEF Tree
<1>2. /\ branch \in Nat \ {0} /\ branch \notin Nodes(u)
      /\ Nodes(w) = Nodes(u) \cup {branch} /\ Branches(w) = Branches(u) \cup {branch}
      /\ Leaves(w) = Leaves(u)
      /\ w.root = IF above = NoNode THEN branch ELSE u.root
      /\ w.parent[sibling] = branch /\ w.parent[leaf] = branch
      /\ w.parent[branch] = above
      /\ \A n \in Nodes(u) : n # sibling /\ n # leaf => w.parent[n] = u.parent[n]
      /\ w.kids[branch][1] = sibling /\ w.kids[branch][2] = leaf
      /\ \A n \in Branches(u) : n # above => w.kids[n] = u.kids[n]
      /\ above # NoNode => \A i \in {1, 2} :
           w.kids[above][i] = IF u.kids[above][i] = sibling THEN branch ELSE u.kids[above][i]
  BY DEF AttachIs
<1>3. /\ leaf \in Nodes(u) /\ leaf \notin Branches(u) /\ Branches(u) \subseteq Nodes(u)
      /\ NoNode \notin Nodes(u) /\ NoNode \notin Nodes(w)
      /\ above \in Nodes(u) \cup {NoNode}
  BY <1>1, <1>2 DEF Shape, NoNode
<1>4. /\ above # NoNode => above \in Branches(u)
      /\ above = NoNode <=> sibling = u.root
      /\ u.root \in (Nodes(u) \ {leaf}) \cup {NoNode}
      /\ u.parent[leaf] = NoNode
  BY <1>1, <1>3 DEF Linked
<1>5. \A n \in Branches(u) : u.kids[n][1] \in Nodes(u) /\ u.kids[n][2] \in Nodes(u)
  BY <1>1 DEF Shape
<1>6. \A n \in Branches(u) :
        /\ u.kids[n][1] # u.kids[n][2]
        /\ u.parent[u.kids[n][1]] = n /\ u.parent[u.kids[n][2]] = n
  BY <1>1 DEF Linked
<1>7. \A n \in Branches(u) : u.kids[n][1] # leaf /\ u.kids[n][2] # leaf
  BY <1>3, <1>4, <1>6
<1>8. \A n \in Branches(u) : n # above => u.kids[n][1] # sibling /\ u.kids[n][2] # sibling
  BY <1>6
<1>9. ASSUME NEW n \in Branches(w)
      PROVE  /\ w.kids[n][1] # w.kids[n][2]
             /\ w.parent[w.kids[n][1]] = n /\ w.parent[w.kids[n][2]] = n
  <2>1. CASE n = branch
    BY ONLY <1>2, <2>1, sibling # leaf
  <2>2. CASE n # branch /\ n # above
    BY <1>2, <1>5, <1>6, <1>7, <1>8, <2>2
  <2>3. CASE n # branch /\ n = above
    <3>1. n \in Branches(u) /\ above # NoNode
      BY <1>2, <1>3, <2>3
    <3>2. PICK a, c : a = u.kids[above][1] /\ c = u.kids[above][2]
      OBVIOUS
    <3>3. /\ a \in Nodes(u) /\ c \in Nodes(u) /\ a # c /\ a # leaf /\ c # leaf
          /\ u.parent[a] = above /\ u.parent[c] = above
      BY ONLY <1>5, <1>6, <1>7, <2>3, <3>1, <3>2
    <3>4. /\ w.kids[above][1] = IF a = sibling THEN branch ELSE a
          /\ w.kids[above][2] = IF c = sibling THEN branch ELSE c
      BY ONLY <1>2, <3>1, <3>2
    <3>5. QED
      BY ONLY <1>2, <2>3, <3>3, <3>4
  <2>4. QED
    BY <2>1, <2>2, <2>3
<1>10. ASSUME NEW n \in Nodes(w), w.parent[n] # NoNode
       PROVE  /\ w.parent[n] \in Branches(w)
              /\ w.kids[w.parent[n]][1] = n \/ w.kids[w.parent[n]][2] = n
  <2>1. CASE n = sibling \/ n = leaf
    BY ONLY <1>2, <2>1
  <2>2. CASE n = branch
    <3>1. above # NoNode /\ above \in Branches(u)
      BY <1>2, <1>4, <1>10, <2>2
    <3>2. u.kids[above][1] = sibling \/ u.kids[above][2] = sibling
      BY <1>1, <3>1 DEF Linked
    <3>3. w.kids[above][1] = branch \/ w.kids[above][2] = branch
      BY ONLY <1>2, <3>1, <3>2
    <3>4. QED
      BY ONLY <1>2, <2>2, <3>1, <3>3
  <2>3. CASE n # sibling /\ n # leaf /\ n # branch
    <3>1. n \in Nodes(u) /\ w.parent[n] = u.parent[n]
      BY ONLY <1>2, <2>3, n \in Nodes(w)
    <3>2. PICK p : p = u.parent[n]
      OBVIOUS
    <3>3. p \in Branches(u) /\ (u.kids[p][1] = n \/ u.kids[p][2] = n)
      BY <1>1, <1>10, <3>1, <3>2 DEF Linked
    <3>4. CASE p # above
      BY ONLY <1>2, <3>1, <3>2, <3>3, <3>4
    <3>5. CASE p = above
      <4>1. above # NoNode
        BY <1>3, <3>3, <3>5
      <4>2. w.kids[p][1] = n \/ w.kids[p][2] = n
        BY ONLY <1>2, <2>3, <3>3, <3>5, <4>1
      <4>3. QED
        BY ONLY <1>2, <3>1, <3>2, <3>3, <4>2
    <3>6. QED
      BY <3>4, <3>5
  <2>4. QED
    BY <2>1, <2>2, <2>3
<1>11. \A n \in Nodes(w) : w.parent[n] = NoNode <=> n = w.root
  <2>0. \A n \in Nodes(u) : u.parent[n] = NoNode <=> n = u.root \/ n = leaf
    BY <1>1 DEF Linked
  <2>1. branch # NoNode /\ w.root # sibling /\ w.root # leaf
    <3>1. branch # NoNode
      BY <1>2 DEF NoNode
    <3>2. branch # sibling /\ branch # leaf
      BY <1>2, <1>3
    <3>3. u.root # leaf
      BY <1>3, <1>4
    <3>4. above # NoNode => u.root # sibling
      BY <1>4
    <3>5. QED
      BY <1>2, <3>1, <3>2, <3>3, <3>4
  <2>2. \A n \in Nodes(u) : n # sibling /\ n # leaf => (w.parent[n] = NoNode <=> n = u.root)
    BY <1>2, <2>0
  <2>3. ASSUME NEW n \in Nodes(w) PROVE w.parent[n] = NoNode <=> n = w.root
    <3>1. CASE n = sibling \/ n = leaf
      BY <1>2, <2>1, <3>1
    <3>2. CASE n = branch
      <4>1. branch # u.root
        BY <1>2, <1>4, <2>1
      <4>2. QED
        BY <1>2, <3>2, <4>1
    <3>3. CASE n # sibling /\ n # leaf /\ n # branch
      <4>1. n \in Nodes(u) /\ (w.parent[n] = NoNode <=> n = u.root)
        BY <1>2, <2>2, <3>3
      <4>2. QED
        BY <1>2, <1>4, <3>3, <4>1
    <3>4. QED
      BY <3>1, <3>2, <3>3
  <2>4. QED
    BY <2>3
<1>12. /\ w.root \in Nodes(w) /\ w.root # NoNode
  <2>1. u.root = NoNode => Nodes(u) = {leaf}
    BY <1>1 DEF Linked
  <2>2. u.root # NoNode
    BY <2>1
  <2>3. u.root \in Nodes(u)
    BY <1>4, <2>2
  <2>4. branch # NoNode
    BY <1>2 DEF NoNode
  <2>5. QED
    BY ONLY <1>2, <2>2, <2>3, <2>4
<1>13. Linked(w, {})
  <2>1. \A n \in Branches(w) : /\ w.kids[n][1] # w.kids[n][2]
                               /\ w.parent[w.kids[n][1]] = n /\ w.parent[w.kids[n][2]] = n
    BY <1>9
  <2>2. \A n \in Nodes(w) : w.parent[n] # NoNode =>
          /\ w.parent[n] \in Branches(w)
          /\ w.kids[w.parent[n]][1] = n \/ w.kids[w.parent[n]][2] = n
    BY <1>10
  <2>3. QED
    BY ONLY <1>11, <1>12, <2>1, <2>2 DEF Linked
<1>14. \E d : Ranked(w, d)
  <2>1. PICK d : Ranked(u, d)
    BY DEF Tree
  <2> DEFINE e == [n \in Nodes(w) |-> IF n = branch THEN 2 * d[sibling]
                                      ELSE IF n = leaf THEN 2 * d[sibling] + 1 ELSE 2 * d[n] + 1]
  <2>2. \A n \in Nodes(u) : d[n] \in Nat /\ (u.parent[n] # NoNode => d[u.parent[n]] < d[n])
    BY <2>1 DEF Ranked
  <2>3. /\ e \in [Nodes(w) -> Nat] /\ e[branch] = 2 * d[sibling] /\ e[leaf] = 2 * d[sibling] + 1
        /\ \A n \in Nodes(u) : n # leaf => e[n] = 2 * d[n] + 1
    BY <1>2, <1>3, <2>2
  <2> HIDE DEF e
  <2>4. ASSUME NEW n \in Nodes(w), w.parent[n] # NoNode PROVE e[w.parent[n]] < e[n]
    <3>1. CASE n = sibling \/ n = leaf
      BY <1>2, <2>2, <2>3, <3>1
    <3>2. CASE n = branch
      <4>1. above \in Nodes(u) /\ above # leaf /\ above # NoNode
        BY <1>2, <1>3, <1>4, <2>4, <3>2
      <4>2. e[above] = 2 * d[above] + 1 /\ d[above] < d[sibling] /\ d[above] \in Nat /\ d[sibling] \in Nat
        BY <2>2, <2>3, <4>1
      <4>3. e[branch] = 2 * d[sibling] /\ w.parent[branch] = above
        BY <1>2, <2>3
      <4>4. QED
        BY ONLY <3>2, <4>2, <4>3
    <3>3. CASE n # sibling /\ n # leaf /\ n # branch
      <4> PICK p : p = u.parent[n]
        OBVIOUS
      <4>1. n \in Nodes(u) /\ w.parent[n] = p /\ p # NoNode
        BY <1>2, <2>4, <3>3
      <4>2. p \in Nodes(u) /\ p # leaf
        <5>1. p \in Branches(u)
          BY <1>1, <4>1 DEF Linked
        <5>2. QED
          BY <1>3, <5>1
      <4>3. e[p] = 2 * d[p] + 1 /\ e[n] = 2 * d[n] + 1 /\ d[p] < d[n] /\ d[p] \in Nat /\ d[n] \in Nat
        BY <2>2, <2>3, <3>3, <4>1, <4>2
      <4>4. QED
        BY ONLY <4>1, <4>3
    <3>4. QED
      BY <3>1, <3>2, <3>3
  <2>5. Ranked(w, e)
    BY <2>3, <2>4 DEF Ranked
  <2>6. QED
    BY <2>5
<1>15. QED
  BY <1>13, <1>14 DEF Tree

LEMMA LineOfBranch ==
  ASSUME NEW t, NEW X, Tree(t, X), NEW n \in Branches(t)
  PROVE  Line(t, n) \in Seq(Branches(t))
<1> PICK l : l = Line(t, n)
  OBVIOUS
<1>1. n \in Nodes(t)
  BY DEF Tree, Shape
<1>2. IsLine(t, n, l)
  BY <1>1, LineIs
<1> PICK z : z = Len(l)
  OBVIOUS
<1>3. z \in Nat /\ l \in Seq(Nodes(t)) /\ \A i \in 1..z : l[i] \in Nodes(t)
  BY <1>2, ElementOfSeq DEF IsLine
<1>4. ASSUME NEW i \in 1..z PROVE l[i] \in Branches(t)
  <2>1. CASE i = 1
    BY <1>2, <2>1 DEF IsLine
  <2>2. CASE i # 1
    <3> PICK j : j = i - 1
      OBVIOUS
    <3>1. j \in 1..(z - 1) /\ j \in 1..z /\ j + 1 = i
      BY <1>3, <2>2
    <3>2. t.parent[l[j]] # NoNode /\ l[i] = t.parent[l[j]]
      BY <1>2, <3>1 DEF IsLine
    <3>3. QED
      BY <1>3, <3>1, <3>2 DEF Tree, Linked
  <2>3. QED
    BY <2>1, <2>2
<1>5. l = [i \in 1..z |-> l[i]]
  BY <1>3
<1>6. l \in Seq(Branches(t))
  <2>1. l \in [1..z -> Branches(t)]
    BY ONLY <1>4, <1>5
  <2> PICK S : S = Branches(t)
    OBVIOUS
  <2>2. l \in [1..z -> S]
    BY <2>1
  <2>3. l \in Seq(S)
    BY ONLY <1>3, <2>2
  <2>4. QED
    BY <2>3
<1>7. QED
  BY <1>6

\* The leaves, their values and their boxes are the same.
SameLeaves(t, s) ==
  /\ Leaves(s) = Leaves(t) /\ s.value = t.value
  /\ \A n \in Leaves(t) : s.box[n] = t.box[n]

LEMMA InsertLeafIs ==
  ASSUME NEW u, NEW leaf \in Leaves(u), Tree(u, {leaf}), NEW s \in InsertLeaf(u, leaf)
  PROVE  Tree(s, {}) /\ SameLeaves(u, s)
<1>1. Shape(u) /\ Linked(u, {leaf})
  BY DEF Tree
<1>2. CASE u.root = NoNode
  <2>1. Nodes(u) = {leaf} /\ Leaves(u) = {leaf} /\ Branches(u) = {} /\ leaf # NoNode
    BY <1>1, <1>2 DEF Shape, Linked
  <2>2. s = [u EXCEPT !.root = leaf]
    BY <1>2 DEF InsertLeaf
  <2>3. /\ s = [root |-> s.root, parent |-> s.parent, kids |-> s.kids, box |-> s.box,
                value |-> s.value, stale |-> s.stale]
        /\ s.root = leaf /\ s.parent = u.parent /\ s.kids = u.kids /\ s.box = u.box
        /\ s.value = u.value /\ s.stale = u.stale
    BY <1>1, <2>2 DEF Shape
  <2>4. Nodes(s) = Nodes(u) /\ Leaves(s) = Leaves(u) /\ Branches(s) = Branches(u)
    BY ONLY <2>3 DEF Nodes, Leaves, Branches
  <2>5. Shape(s)
    BY ONLY <1>1, <2>3, <2>4 DEF Shape
  <2>6. u.parent[leaf] = NoNode
    BY <1>1, <2>1 DEF Linked
  <2>7. Linked(s, {})
    BY ONLY <2>1, <2>3, <2>4, <2>6 DEF Linked
  <2>8. \E d : Ranked(s, d)
    <3>1. PICK d : Ranked(u, d)
      BY DEF Tree
    <3>2. Ranked(s, d)
      BY ONLY <2>3, <2>4, <3>1 DEF Ranked
    <3>3. QED
      BY <3>2
  <2>9. SameLeaves(u, s)
    BY ONLY <2>3, <2>4 DEF SameLeaves
  <2>10. QED
    BY <2>5, <2>7, <2>8, <2>9 DEF Tree
<1>3. CASE u.root # NoNode
  <2>1. PICK sibling \in FindBestSibling(u, u.box[leaf]) : s = AttachedBeside(u, leaf, sibling)
    BY <1>3 DEF InsertLeaf
  <2>2. sibling \in Nodes(u) /\ sibling # leaf
    BY <1>3, <2>1, SiblingAmong
  <2> PICK branch : branch = FreeSlot(u)
    OBVIOUS
  <2> PICK w : w = Relinked(Attached(u, leaf, sibling), u.parent[sibling], sibling, branch)
    OBVIOUS
  <2>3. Shape(w) /\ AttachIs(u, leaf, sibling, branch, w)
    BY <2>2, AttachedShape
  <2>4. Tree(w, {})
    BY <2>2, <2>3, AttachedTree
  <2>5. branch \in Branches(w)
    BY <2>3 DEF AttachIs
  <2>6. s = RefittedLine(w, Line(w, branch))
    BY <2>1, Zenon DEF AttachedBeside, RefittedLine, Attached
  <2>7. Line(w, branch) \in Seq(Branches(w))
    BY <2>4, <2>5, LineOfBranch
  <2>8. Tree(s, {}) /\ SameArena(w, s)
    BY ONLY <2>4, <2>6, <2>7, RefittedTree
  <2>9. Leaves(w) = Leaves(u) /\ w.value = u.value /\ \A n \in Nodes(u) : w.box[n] = u.box[n]
    BY <2>3 DEF AttachIs
  <2>10. Leaves(u) \subseteq Nodes(u)
    BY <1>1 DEF Shape
  <2>11. SameLeaves(u, s)
    BY <2>8, <2>9, <2>10 DEF SameArena, SameLeaves
  <2>12. QED
    BY <2>8, <2>11
<1>4. QED
  BY <1>2, <1>3

\* s is t with one leaf more.
InsertIs(t, leaf, aabb, value, s) ==
  /\ leaf \notin Leaves(t) /\ Leaves(s) = Leaves(t) \cup {leaf}
  /\ s.value[leaf] = value /\ s.box[leaf] = aabb
  /\ \A n \in Leaves(t) : s.value[n] = t.value[n] /\ s.box[n] = t.box[n]

LEMMA InsertedIs ==
  ASSUME NEW t, Tree(t, {}), NEW aabb \in Box, NEW value \in Collider,
         NEW s \in Inserted(t, aabb, value)
  PROVE  Tree(s, {}) /\ InsertIs(t, FreeSlot(t), aabb, value, s)
<1> PICK leaf : leaf = FreeSlot(t)
  OBVIOUS
<1> PICK u : u = Allocated(t, aabb, value)
  OBVIOUS
<1>1. AllocIs(t, leaf, aabb, value, u) /\ Tree(u, {leaf})
  BY AllocTree
<1>2. s \in InsertLeaf(u, leaf)
  BY Zenon DEF Inserted, Allocated
<1>3. leaf \in Leaves(u)
  BY <1>1 DEF AllocIs
<1>4. Tree(s, {}) /\ SameLeaves(u, s)
  BY <1>1, <1>2, <1>3, InsertLeafIs
<1>5. Leaves(t) \subseteq Nodes(t)
  BY DEF Tree, Shape
<1>6. InsertIs(t, leaf, aabb, value, s)
  BY <1>1, <1>4, <1>5 DEF AllocIs, SameLeaves, InsertIs
<1>7. QED
  BY <1>4, <1>6

\* s is t without the leaf's parent: the sibling has its place.
OrphanIs(t, leaf, parent, above, sibling, s) ==
  /\ parent \in Branches(t) /\ parent = t.parent[leaf] /\ above = t.parent[parent]
  /\ sibling \in Nodes(t) /\ sibling # leaf /\ t.parent[sibling] = parent
  /\ \A n \in Nodes(t) : t.parent[n] = parent => n = leaf \/ n = sibling
  /\ Nodes(s) = Nodes(t) \ {parent} /\ Branches(s) = Branches(t) \ {parent}
  /\ Leaves(s) = Leaves(t) /\ s.value = t.value
  /\ s.stale = (t.stale \ {parent}) \cup (IF parent \in t.stale THEN {above} \ {NoNode} ELSE {})
  /\ s.root = IF above = NoNode THEN sibling ELSE t.root
  /\ s.parent[sibling] = above /\ s.parent[leaf] = NoNode
  /\ \A n \in Nodes(s) : n # sibling /\ n # leaf => s.parent[n] = t.parent[n]
  /\ \A n \in Branches(s) : n # above => s.kids[n] = t.kids[n]
  /\ above # NoNode => \A i \in {1, 2} :
       s.kids[above][i] = IF t.kids[above][i] = parent THEN sibling ELSE t.kids[above][i]
  /\ \A n \in Nodes(s) : s.box[n] = t.box[n]

Orphaned(t, leaf, sibling) ==
  [t EXCEPT
     !.box = Drop(@, t.parent[leaf]),
     !.kids = Drop(@, t.parent[leaf]),
     !.parent = Drop([@ EXCEPT ![sibling] = t.parent[t.parent[leaf]], ![leaf] = NoNode],
                     t.parent[leaf]),
     !.stale = (@ \ {t.parent[leaf]})
                 \cup (IF t.parent[leaf] \in @ THEN {t.parent[t.parent[leaf]]} \ {NoNode} ELSE {})]

LEMMA OrphanedShape ==
  ASSUME NEW t, Tree(t, {}), NEW leaf \in Leaves(t), NEW parent, parent = t.parent[leaf],
         parent # NoNode, NEW above, above = t.parent[parent],
         NEW sibling, sibling = (CHOOSE n \in Range(t.kids[parent]) : n # leaf),
         NEW s, s = Relinked(Orphaned(t, leaf, sibling), above, parent, sibling)
  PROVE  Shape(s) /\ OrphanIs(t, leaf, parent, above, sibling, s)
<1> PICK v : v = Orphaned(t, leaf, sibling)
  OBVIOUS
<1> PICK N : N = Nodes(t) \ {parent}
  OBVIOUS
<1>1. Shape(t) /\ Linked(t, {})
  BY DEF Tree
<1>2. /\ leaf \in Nodes(t) /\ parent \in Branches(t) /\ parent \in Nodes(t)
      /\ above \in Nodes(t) \cup {NoNode} /\ leaf # parent
      /\ Leaves(t) \subseteq Nodes(t) /\ Branches(t) \subseteq Nodes(t) /\ parent \notin Leaves(t)
  BY <1>1 DEF Shape, Linked
<1>3. above # NoNode => above \in Branches(t) /\ above # parent
  <2>1. PICK d : Ranked(t, d)
    BY DEF Tree
  <2>2. above # NoNode => d[above] < d[parent] /\ d[parent] \in Nat /\ d[above] \in Nat
    BY <1>2, <2>1 DEF Ranked
  <2>3. above # NoNode => above \in Branches(t)
    BY <1>1, <1>2 DEF Linked
  <2>4. QED
    BY <2>2, <2>3
<1>4. /\ sibling \in Nodes(t) /\ sibling # leaf /\ t.parent[sibling] = parent /\ sibling # parent
      /\ \A n \in Nodes(t) : t.parent[n] = parent => n = leaf \/ n = sibling
  <2> PICK a, b : a = t.kids[parent][1] /\ b = t.kids[parent][2]
    OBVIOUS
  <2>1. t.kids[parent] \in [1..2 -> Nodes(t)]
    BY <1>1, <1>2 DEF Shape
  <2>2. Range(t.kids[parent]) = {a, b} /\ a \in Nodes(t) /\ b \in Nodes(t)
    <3>1. DOMAIN t.kids[parent] = {1, 2} /\ a \in Nodes(t) /\ b \in Nodes(t)
      BY <2>1
    <3>2. QED
      BY ONLY <3>1, a = t.kids[parent][1] /\ b = t.kids[parent][2] DEF Range
  <2>3. a # b /\ t.parent[a] = parent /\ t.parent[b] = parent
    BY <1>1, <1>2 DEF Linked
  <2>4. \A n \in Nodes(t) : t.parent[n] = parent => n = a \/ n = b
    BY <1>1, <1>2 DEF Linked
  <2>5. leaf = a \/ leaf = b
    BY <1>2, <2>4
  <2>5a. \E n \in Range(t.kids[parent]) : n # leaf
    BY ONLY <2>2, <2>3
  <2>5b. sibling \in Range(t.kids[parent]) /\ sibling # leaf
    BY ONLY <2>5a, sibling = (CHOOSE n \in Range(t.kids[parent]) : n # leaf)
  <2>6. sibling \in {a, b} /\ sibling # leaf
    BY ONLY <2>2, <2>5b
  <2>7. sibling # parent
    <3>1. PICK d : Ranked(t, d)
      BY DEF Tree
    <3>2. d[parent] < d[a] /\ d[parent] < d[b] /\ d[parent] \in Nat
      BY <1>2, <2>2, <2>3, <3>1 DEF Ranked
    <3>3. QED
      BY ONLY <2>6, <3>2
  <2>8. QED
    BY <2>2, <2>3, <2>4, <2>5, <2>6, <2>7
<1>5. /\ v = [root |-> v.root, parent |-> v.parent, kids |-> v.kids, box |-> v.box,
              value |-> v.value, stale |-> v.stale]
      /\ v.root = t.root /\ v.value = t.value
      /\ v.stale = (t.stale \ {parent}) \cup (IF parent \in t.stale THEN {above} \ {NoNode} ELSE {})
      /\ v.box = Drop(t.box, parent)
      /\ v.kids = Drop(t.kids, parent)
      /\ v.parent = Drop([t.parent EXCEPT ![sibling] = above, ![leaf] = NoNode], parent)
  BY <1>1 DEF Orphaned, Shape
<1>6. v.box \in [N -> Box] /\ \A n \in N : v.box[n] = t.box[n]
  <2>1. t.box \in [Nodes(t) -> Box]
    BY <1>1 DEF Shape
  <2>2. DropOn(Nodes(t), Box, t.box, parent, v.box)
    BY ONLY <1>5, <2>1, DropIs
  <2>3. QED
    BY ONLY <2>2, N = Nodes(t) \ {parent} DEF DropOn
<1>7. \A n \in Branches(t) : n # parent =>
        /\ t.kids[n] \in [1..2 -> Nodes(t)]
        /\ n # above => t.kids[n][1] # parent /\ t.kids[n][2] # parent
  <2>1. \A n \in Branches(t) : t.kids[n] \in [1..2 -> Nodes(t)]
    BY <1>1 DEF Shape
  <2>2. \A n \in Branches(t) : t.parent[t.kids[n][1]] = n /\ t.parent[t.kids[n][2]] = n
    BY <1>1 DEF Linked
  <2>3. QED
    BY ONLY <2>1, <2>2, above = t.parent[parent]
<1>8. /\ v.kids \in [Branches(t) \ {parent} -> [1..2 -> Nodes(t)]]
      /\ \A n \in Branches(t) \ {parent} : v.kids[n] = t.kids[n]
  <2> PICK T : T = [1..2 -> Nodes(t)]
    OBVIOUS
  <2>1. t.kids \in [Branches(t) -> T]
    BY <1>1 DEF Shape
  <2>2. DropOn(Branches(t), T, t.kids, parent, v.kids)
    BY ONLY <1>5, <2>1, DropIs
  <2>3. QED
    BY ONLY <2>2, T = [1..2 -> Nodes(t)] DEF DropOn
<1>9. /\ v.parent \in [N -> N \cup {NoNode}]
      /\ v.parent[sibling] = above /\ v.parent[leaf] = NoNode
      /\ \A n \in N : n # sibling /\ n # leaf => v.parent[n] = t.parent[n]
  <2> PICK T : T = Nodes(t) \cup {NoNode}
    OBVIOUS
  <2> PICK p : p = [t.parent EXCEPT ![sibling] = above, ![leaf] = NoNode]
    OBVIOUS
  <2>1. t.parent \in [Nodes(t) -> T]
    BY <1>1 DEF Shape
  <2>2. /\ p \in [Nodes(t) -> T] /\ p[sibling] = above /\ p[leaf] = NoNode
        /\ \A n \in Nodes(t) : n # sibling /\ n # leaf => p[n] = t.parent[n]
    BY <1>2, <1>4, <2>1
  <2>3. DropOn(Nodes(t), T, p, parent, v.parent)
    BY ONLY <1>5, <2>2, p = [t.parent EXCEPT ![sibling] = above, ![leaf] = NoNode], DropIs
  <2>4. v.parent \in [N -> T] /\ \A n \in N : v.parent[n] = p[n]
    BY ONLY <2>3, N = Nodes(t) \ {parent} DEF DropOn
  <2>5. sibling \in N /\ leaf \in N
    BY <1>2, <1>4
  <2>6. /\ v.parent[sibling] = above /\ v.parent[leaf] = NoNode
        /\ \A n \in N : n # sibling /\ n # leaf => v.parent[n] = t.parent[n]
    <3>1. \A n \in N : n \in Nodes(t)
      OBVIOUS
    <3>2. QED
      BY ONLY <2>2, <2>4, <2>5, <3>1
  <2>7. \A n \in N : v.parent[n] \in N \cup {NoNode}
    <3>1. above \in N \cup {NoNode}
      BY <1>2, <1>3
    <3>2. \A n \in N : n # sibling /\ n # leaf => t.parent[n] # parent
      BY <1>4
    <3>3. \A n \in N : n # sibling /\ n # leaf => t.parent[n] \in N \cup {NoNode}
      <4>1. \A n \in N : t.parent[n] \in Nodes(t) \cup {NoNode}
        BY <2>1
      <4>2. QED
        BY <3>2, <4>1
    <3>4. QED
      BY ONLY <2>6, <3>1, <3>3
  <2>8. QED
    BY <2>4, <2>6, <2>7
<1>10. /\ s = [root |-> s.root, parent |-> s.parent, kids |-> s.kids, box |-> s.box,
               value |-> s.value, stale |-> s.stale]
       /\ s.parent = v.parent /\ s.box = v.box /\ s.value = v.value /\ s.stale = v.stale
       /\ above = NoNode => s.root = sibling /\ s.kids = v.kids
       /\ above # NoNode =>
            /\ s.root = v.root
            /\ s.kids = [v.kids EXCEPT ![above] =
                           [i \in 1..2 |-> IF v.kids[above][i] = parent THEN sibling ELSE v.kids[above][i]]]
  <2>1. s = Relinked(v, above, parent, sibling)
    OBVIOUS
  <2>2. CASE above = NoNode
    <3>1. s = [v EXCEPT !.root = sibling]
      BY <2>1, <2>2 DEF Relinked
    <3>2. QED
      BY <1>5, <2>2, <3>1
  <2>3. CASE above # NoNode
    <3> PICK k : k = [v.kids EXCEPT ![above] =
                   [i \in 1..2 |-> IF v.kids[above][i] = parent THEN sibling ELSE v.kids[above][i]]]
      OBVIOUS
    <3>1. s = [v EXCEPT !.kids = k]
      BY <1>5, <2>1, <2>3 DEF Relinked
    <3>2. QED
      BY <1>5, <2>3, <3>1
  <2>4. QED
    BY <2>2, <2>3
<1>11. /\ s.kids \in [Branches(t) \ {parent} -> [1..2 -> N]]
       /\ \A n \in Branches(t) \ {parent} : n # above => s.kids[n] = t.kids[n]
       /\ above # NoNode => \A i \in {1, 2} :
            s.kids[above][i] = IF t.kids[above][i] = parent THEN sibling ELSE t.kids[above][i]
  <2>0. sibling \in N
    BY <1>4
  <2>1. \A n \in Branches(t) \ {parent} : n # above => v.kids[n] \in [1..2 -> N]
    <3> SUFFICES ASSUME NEW n \in Branches(t) \ {parent}, n # above PROVE v.kids[n] \in [1..2 -> N]
      OBVIOUS
    <3>1. v.kids[n] = t.kids[n] /\ t.kids[n] \in [1..2 -> Nodes(t)]
      BY <1>7, <1>8
    <3>2. t.kids[n][1] # parent /\ t.kids[n][2] # parent
      BY <1>7
    <3>3. 1..2 = {1, 2}
      OBVIOUS
    <3>4. PICK k : k = t.kids[n]
      OBVIOUS
    <3>5. k \in [1..2 -> Nodes(t)] /\ k[1] # parent /\ k[2] # parent
      BY ONLY <3>1, <3>2, <3>4
    <3>6. k \in [1..2 -> N]
      BY ONLY <3>3, <3>5, N = Nodes(t) \ {parent}
    <3>7. QED
      BY ONLY <3>1, <3>4, <3>6
  <2>2. CASE above = NoNode
    <3>1. s.kids = v.kids
      BY <1>10, <2>2
    <3>2. \A n \in Branches(t) \ {parent} : n # above
      BY <1>1, <1>2, <2>2 DEF Shape
    <3>3. QED
      BY <1>8, <2>1, <2>2, <3>1, <3>2
  <2>3. CASE above # NoNode
    <3>0. PICK a : a = [i \in 1..2 |-> IF v.kids[above][i] = parent THEN sibling ELSE v.kids[above][i]]
      OBVIOUS
    <3>1. /\ above \in Branches(t) \ {parent} /\ v.kids[above] = t.kids[above]
          /\ v.kids[above] \in [1..2 -> Nodes(t)]
      BY <1>3, <1>8, <2>3
    <3>1a. 1..2 = {1, 2}
      OBVIOUS
    <3>2. \A i \in {1, 2} : a[i] = IF t.kids[above][i] = parent THEN sibling ELSE t.kids[above][i]
      BY ONLY <3>0, <3>1, <3>1a
    <3>3. a \in [1..2 -> N]
      BY <2>0, <3>0, <3>1
    <3>4. s.kids = [v.kids EXCEPT ![above] = a]
      BY <1>10, <2>3, <3>0
    <3>5. /\ DOMAIN s.kids = Branches(t) \ {parent} /\ s.kids[above] = a
          /\ \A n \in Branches(t) \ {parent} : n # above => s.kids[n] = v.kids[n]
          /\ s.kids = [n \in Branches(t) \ {parent} |-> s.kids[n]]
      BY ONLY <1>8, <3>1, <3>4
    <3>6. \A n \in Branches(t) \ {parent} : s.kids[n] \in [1..2 -> N]
      <4> SUFFICES ASSUME NEW n \in Branches(t) \ {parent} PROVE s.kids[n] \in [1..2 -> N]
        OBVIOUS
      <4>1. CASE n = above
        <5>1. s.kids[n] = a
          BY ONLY <3>5, <4>1
        <5>2. QED
          BY ONLY <3>3, <5>1
      <4>2. CASE n # above
        <5>1. s.kids[n] = v.kids[n]
          BY ONLY <3>5, <4>2, n \in Branches(t) \ {parent}
        <5>2. v.kids[n] \in [1..2 -> N]
          BY ONLY <2>1, <4>2, n \in Branches(t) \ {parent}
        <5>3. QED
          BY ONLY <5>1, <5>2
      <4>3. QED
        BY ONLY <4>1, <4>2
    <3>7. s.kids \in [Branches(t) \ {parent} -> [1..2 -> N]]
      BY ONLY <3>5, <3>6
    <3>8. QED
      BY ONLY <1>8, <3>2, <3>5, <3>7
  <2>4. QED
    BY <2>2, <2>3
<1>12. Nodes(s) = N /\ Branches(s) = Branches(t) \ {parent} /\ Leaves(s) = Leaves(t)
  <2>1. DOMAIN s.box = N
    BY ONLY <1>6, <1>10
  <2>2. DOMAIN s.kids = Branches(t) \ {parent}
    BY ONLY <1>11
  <2>3. s.value = t.value
    BY ONLY <1>5, <1>10
  <2>4. QED
    BY <2>1, <2>2, <2>3 DEF Nodes, Branches, Leaves
<1>13. OrphanIs(t, leaf, parent, above, sibling, s)
  <2>1. s.root = IF above = NoNode THEN sibling ELSE t.root
    BY ONLY <1>5, <1>10
  <2>2. /\ s.parent[sibling] = above /\ s.parent[leaf] = NoNode
        /\ \A n \in N : n # sibling /\ n # leaf => s.parent[n] = t.parent[n]
    BY ONLY <1>9, <1>10
  <2>3. \A n \in N : s.box[n] = t.box[n]
    BY ONLY <1>6, <1>10
  <2>4. s.value = t.value
    BY ONLY <1>5, <1>10
  <2>5. s.stale = (t.stale \ {parent}) \cup (IF parent \in t.stale THEN {above} \ {NoNode} ELSE {})
    BY ONLY <1>5, <1>10
  <2>6. QED
    BY ONLY <1>2, <1>4, <1>11, <1>12, <2>1, <2>2, <2>3, <2>4, <2>5, parent = t.parent[leaf],
            above = t.parent[parent], N = Nodes(t) \ {parent} DEF OrphanIs
<1>14. Shape(s)
  <2>1. IsFiniteSet(N)
    BY <1>1, FS_RemoveElement DEF Shape
  <2>2. N \subseteq Nat \ {NoNode}
    BY <1>1 DEF Shape
  <2>3. /\ N = (Branches(t) \ {parent}) \cup Leaves(t) /\ (Branches(t) \ {parent}) \cap Leaves(t) = {}
        /\ v.stale \subseteq Branches(t) \ {parent}
    <3>1. /\ Nodes(t) = Branches(t) \cup Leaves(t) /\ Branches(t) \cap Leaves(t) = {}
          /\ t.stale \subseteq Branches(t)
      BY <1>1 DEF Shape
    <3>2. N = (Branches(t) \ {parent}) \cup Leaves(t) /\ (Branches(t) \ {parent}) \cap Leaves(t) = {}
      BY ONLY <1>2, <3>1, N = Nodes(t) \ {parent}
    <3>3. {above} \ {NoNode} \subseteq Branches(t) \ {parent}
      BY ONLY <1>3
    <3>4. v.stale \subseteq (t.stale \ {parent}) \cup ({above} \ {NoNode})
      BY ONLY <1>5
    <3>5. QED
      BY ONLY <3>1, <3>2, <3>3, <3>4
  <2>4. t.value \in [Leaves(t) -> Collider]
    BY <1>1 DEF Shape
  <2>5. s.value = t.value /\ s.stale = v.stale
    BY ONLY <1>5, <1>10
  <2>6. s.parent \in [N -> N \cup {NoNode}] /\ s.box \in [N -> Box]
    BY ONLY <1>6, <1>9, <1>10
  <2>7. QED
    BY ONLY <1>10, <1>11, <1>12, <2>1, <2>2, <2>3, <2>4, <2>5, <2>6 DEF Shape
<1>15. QED
  BY <1>13, <1>14

LEMMA OrphanedTree ==
  ASSUME NEW t, Tree(t, {}), NEW leaf \in Leaves(t), NEW parent, NEW above, NEW sibling, NEW s,
         Shape(s), OrphanIs(t, leaf, parent, above, sibling, s)
  PROVE  Tree(s, {leaf})
<1>1. Shape(t) /\ Linked(t, {})
  BY DEF Tree
<1>2. /\ parent \in Branches(t) /\ parent = t.parent[leaf] /\ above = t.parent[parent]
      /\ sibling \in Nodes(t) /\ sibling # leaf /\ t.parent[sibling] = parent
      /\ \A n \in Nodes(t) : t.parent[n] = parent => n = leaf \/ n = sibling
      /\ Nodes(s) = Nodes(t) \ {parent} /\ Branches(s) = Branches(t) \ {parent}
      /\ Leaves(s) = Leaves(t)
      /\ s.root = IF above = NoNode THEN sibling ELSE t.root
      /\ s.parent[sibling] = above /\ s.parent[leaf] = NoNode
      /\ \A n \in Nodes(s) : n # sibling /\ n # leaf => s.parent[n] = t.parent[n]
      /\ \A n \in Branches(s) : n # above => s.kids[n] = t.kids[n]
      /\ above # NoNode => \A i \in {1, 2} :
           s.kids[above][i] = IF t.kids[above][i] = parent THEN sibling ELSE t.kids[above][i]
  BY DEF OrphanIs
<1>3. /\ Branches(t) \subseteq Nodes(t) /\ NoNode \notin Nodes(t)
      /\ leaf \in Nodes(t) /\ leaf \notin Branches(t) /\ parent \in Nodes(t)
  BY <1>1, <1>2 DEF Shape
<1>4. PICK d : Ranked(t, d)
  BY DEF Tree
<1>5. \A n \in Nodes(t) : d[n] \in Nat /\ (t.parent[n] # NoNode => d[t.parent[n]] < d[n])
  BY <1>4 DEF Ranked
<1>6. sibling \in Nodes(s) /\ leaf \in Nodes(s)
  <2>1. parent # NoNode
    BY <1>3
  <2>2. d[parent] < d[sibling] /\ d[parent] < d[leaf] /\ d[parent] \in Nat
    BY <1>2, <1>3, <1>5, <2>1
  <2>3. sibling # parent /\ leaf # parent
    BY ONLY <2>2
  <2>4. QED
    BY ONLY <1>2, <1>3, <2>3
<1>7. above # NoNode => above \in Branches(t) /\ above # parent
  <2>1. above # NoNode => d[above] < d[parent] /\ d[parent] \in Nat
    BY <1>2, <1>3, <1>5
  <2>2. above # NoNode => above \in Branches(t)
    BY <1>1, <1>2, <1>3 DEF Linked
  <2>3. QED
    BY <2>1, <2>2
<1>8. \A n \in Branches(t) :
        /\ t.kids[n][1] \in Nodes(t) /\ t.kids[n][2] \in Nodes(t)
        /\ t.kids[n][1] # t.kids[n][2]
        /\ t.parent[t.kids[n][1]] = n /\ t.parent[t.kids[n][2]] = n
  BY <1>1 DEF Shape, Linked
<1>9. ASSUME NEW n \in Branches(s)
      PROVE  /\ s.kids[n][1] # s.kids[n][2]
             /\ s.parent[s.kids[n][1]] = n /\ s.parent[s.kids[n][2]] = n
  <2> PICK a, b : a = t.kids[n][1] /\ b = t.kids[n][2]
    OBVIOUS
  <2>1. n \in Branches(t) /\ n # parent
    BY ONLY <1>2, n \in Branches(s)
  <2>2. a \in Nodes(t) /\ b \in Nodes(t) /\ a # b /\ t.parent[a] = n /\ t.parent[b] = n
    BY ONLY <1>8, <2>1, a = t.kids[n][1] /\ b = t.kids[n][2]
  <2>3. a # leaf /\ a # sibling /\ b # leaf /\ b # sibling
    BY ONLY <1>2, <2>1, <2>2
  <2>4. CASE n # above
    <3>1. a # parent /\ b # parent
      BY ONLY <1>2, <2>2, <2>4
    <3>2. s.kids[n][1] = a /\ s.kids[n][2] = b
      BY ONLY <1>2, <2>4, n \in Branches(s), a = t.kids[n][1] /\ b = t.kids[n][2]
    <3>3. a \in Nodes(s) /\ b \in Nodes(s)
      BY ONLY <1>2, <2>2, <3>1
    <3>4. QED
      BY ONLY <1>2, <2>2, <2>3, <3>2, <3>3
  <2>5. CASE n = above
    <3>1. above # NoNode
      BY ONLY <1>3, <2>1, <2>5
    <3>2. /\ s.kids[n][1] = IF a = parent THEN sibling ELSE a
          /\ s.kids[n][2] = IF b = parent THEN sibling ELSE b
      BY ONLY <1>2, <2>5, <3>1, a = t.kids[n][1] /\ b = t.kids[n][2]
    <3>3. \A c \in {a, b} : c # parent => c \in Nodes(s) /\ s.parent[c] = n
      BY ONLY <1>2, <2>2, <2>3
    <3>4. QED
      BY ONLY <1>2, <2>2, <2>3, <2>5, <3>2, <3>3
  <2>6. QED
    BY <2>4, <2>5
<1>10. ASSUME NEW n \in Nodes(s), s.parent[n] # NoNode
       PROVE  /\ s.parent[n] \in Branches(s)
              /\ s.kids[s.parent[n]][1] = n \/ s.kids[s.parent[n]][2] = n
  <2>1. CASE n = sibling
    <3>1. above # NoNode /\ s.parent[n] = above
      BY ONLY <1>2, <1>10, <2>1
    <3>2. above \in Branches(s)
      BY ONLY <1>2, <1>7, <3>1
    <3>3. t.kids[above][1] = parent \/ t.kids[above][2] = parent
      BY <1>1, <1>2, <1>3, <3>1 DEF Linked
    <3>4. s.kids[above][1] = sibling \/ s.kids[above][2] = sibling
      BY ONLY <1>2, <3>1, <3>3
    <3>5. QED
      BY ONLY <2>1, <3>1, <3>2, <3>4
  <2>2. CASE n = leaf
    BY ONLY <1>2, <1>10, <2>2
  <2>3. CASE n # sibling /\ n # leaf
    <3>0. PICK p : p = t.parent[n]
      OBVIOUS
    <3>1. n \in Nodes(t) /\ n # parent /\ s.parent[n] = p /\ p # NoNode /\ p # parent
      BY ONLY <1>2, <1>10, <2>3, <3>0, n \in Nodes(s)
    <3>2. p \in Branches(t) /\ (t.kids[p][1] = n \/ t.kids[p][2] = n)
      BY <1>1, <3>0, <3>1 DEF Linked
    <3>3. p \in Branches(s)
      BY ONLY <1>2, <3>1, <3>2
    <3>4. s.kids[p][1] = n \/ s.kids[p][2] = n
      <4>1. CASE p # above
        BY ONLY <1>2, <3>2, <3>3, <4>1
      <4>2. CASE p = above
        BY ONLY <1>2, <3>1, <3>2, <4>2
      <4>3. QED
        BY <4>1, <4>2
    <3>5. QED
      BY ONLY <3>1, <3>3, <3>4
  <2>4. QED
    BY <2>1, <2>2, <2>3
<1>11. /\ t.root \in Nodes(t) \cup {NoNode} /\ (t.root = NoNode => Nodes(t) = {})
       /\ \A n \in Nodes(t) : t.parent[n] = NoNode <=> n = t.root
  BY <1>1 DEF Linked
<1>12. parent # NoNode /\ t.root # leaf /\ t.root # sibling /\ t.root \in Nodes(t)
  BY ONLY <1>2, <1>3, <1>11
<1>13. above = NoNode <=> t.root = parent
  BY ONLY <1>2, <1>3, <1>11
<1>14. s.root \in Nodes(s) \ {leaf} /\ s.root # NoNode
  BY ONLY <1>2, <1>3, <1>6, <1>12, <1>13
<1>15. ASSUME NEW n \in Nodes(s) PROVE s.parent[n] = NoNode <=> n = s.root \/ n = leaf
  <2>1. CASE n = sibling
    BY ONLY <1>2, <1>12, <2>1
  <2>2. CASE n = leaf
    BY ONLY <1>2, <2>2
  <2>3. CASE n # sibling /\ n # leaf
    <3>1. n \in Nodes(t) /\ n # parent /\ s.parent[n] = t.parent[n]
      BY ONLY <1>2, <2>3, n \in Nodes(s)
    <3>2. t.parent[n] = NoNode <=> n = t.root
      BY ONLY <1>11, <3>1
    <3>3. QED
      BY ONLY <1>2, <1>13, <2>3, <3>1, <3>2
  <2>4. QED
    BY <2>1, <2>2, <2>3
<1>16. Linked(s, {leaf})
  <2>1. \A n \in Branches(s) : /\ s.kids[n][1] # s.kids[n][2]
                               /\ s.parent[s.kids[n][1]] = n /\ s.parent[s.kids[n][2]] = n
    BY <1>9
  <2>2. \A n \in Nodes(s) : s.parent[n] # NoNode =>
          /\ s.parent[n] \in Branches(s)
          /\ s.kids[s.parent[n]][1] = n \/ s.kids[s.parent[n]][2] = n
    BY <1>10
  <2>3. \A n \in Nodes(s) : s.parent[n] = NoNode <=> n = s.root \/ n \in {leaf}
    BY <1>15
  <2>4. {leaf} \subseteq Leaves(s)
    BY <1>2
  <2>5. QED
    BY ONLY <1>14, <2>1, <2>2, <2>3, <2>4 DEF Linked
<1>17. \E e : Ranked(s, e)
  <2>0. PICK e : e = [n \in Nodes(s) |-> d[n]]
    OBVIOUS
  <2>1. \A n \in Nodes(s) : n \in Nodes(t)
    BY <1>2
  <2>2. e \in [Nodes(s) -> Nat] /\ \A n \in Nodes(s) : e[n] = d[n]
    BY ONLY <1>5, <2>0, <2>1
  <2>3. ASSUME NEW n \in Nodes(s), s.parent[n] # NoNode PROVE e[s.parent[n]] < e[n]
    <3>1. s.parent[n] \in Nodes(s)
      BY <2>3 DEF Shape
    <3>2. e[s.parent[n]] = d[s.parent[n]] /\ e[n] = d[n]
      BY ONLY <2>2, <3>1, n \in Nodes(s)
    <3>3. CASE n = sibling
      <4>1. s.parent[n] = above /\ above # NoNode
        BY ONLY <1>2, <2>3, <3>3
      <4>2. d[above] < d[parent] /\ d[parent] < d[sibling]
        BY ONLY <1>2, <1>3, <1>5, <1>12, <4>1
      <4>3. d[above] \in Nat /\ d[parent] \in Nat /\ d[sibling] \in Nat
        BY ONLY <1>2, <1>3, <1>5, <1>7, <4>1
      <4>4. QED
        BY ONLY <3>2, <3>3, <4>1, <4>2, <4>3
    <3>4. CASE n = leaf
      BY ONLY <1>2, <2>3, <3>4
    <3>5. CASE n # sibling /\ n # leaf
      <4>1. s.parent[n] = t.parent[n]
        BY ONLY <1>2, <3>5, n \in Nodes(s)
      <4>2. QED
        BY ONLY <1>5, <2>1, <2>3, <3>2, <4>1, n \in Nodes(s)
    <3>6. QED
      BY <3>3, <3>4, <3>5
  <2>4. Ranked(s, e)
    BY <2>2, <2>3 DEF Ranked
  <2>5. QED
    BY <2>4
<1>18. QED
  BY <1>16, <1>17 DEF Tree

\* A leaf at the root is all there is.
LEMMA LoneLeaf ==
  ASSUME NEW t, Tree(t, {}), NEW leaf \in Leaves(t), t.parent[leaf] = NoNode
  PROVE  Nodes(t) = {leaf} /\ t.root = leaf
<1>1. Shape(t) /\ Linked(t, {})
  BY DEF Tree
<1>2. leaf \in Nodes(t) /\ leaf \notin Branches(t)
  BY <1>1 DEF Shape
<1>3. \A n \in Nodes(t) : t.parent[n] = NoNode <=> n = leaf
  BY <1>1, <1>2 DEF Linked
<1>4. ASSUME NEW n \in Nodes(t) PROVE n = leaf
  <2>0. PICK l : l = Line(t, n)
    OBVIOUS
  <2>1. IsLine(t, n, l)
    BY <2>0, LineIs
  <2>2. PICK z : z = Len(l)
    OBVIOUS
  <2>3. z \in Nat /\ z >= 1 /\ l[z] \in Nodes(t) /\ \A i \in 1..z : l[i] \in Nodes(t)
    BY <2>1, <2>2, ElementOfSeq DEF IsLine
  <2>4. l[z] = leaf
    BY <1>3, <2>1, <2>2, <2>3 DEF IsLine
  <2>5. CASE z = 1
    BY <2>1, <2>4, <2>5 DEF IsLine
  <2>6. CASE z # 1
    <3>0. PICK j : j = z - 1
      OBVIOUS
    <3>1. j \in 1..(z - 1) /\ j \in 1..z /\ j + 1 = z
      BY <2>3, <2>6, <3>0
    <3>2. t.parent[l[j]] # NoNode /\ l[z] = t.parent[l[j]] /\ l[j] \in Nodes(t)
      BY <2>1, <2>2, <2>3, <3>1 DEF IsLine
    <3>3. leaf \in Branches(t)
      BY <1>1, <2>4, <3>2 DEF Linked
    <3>4. QED
      BY <1>2, <3>3
  <2>7. QED
    BY <2>5, <2>6
<1>5. QED
  BY <1>2, <1>4, <1>1 DEF Linked

LEMMA OrphanLeafIs ==
  ASSUME NEW t, Tree(t, {}), NEW leaf \in Leaves(t)
  PROVE  /\ Tree(OrphanLeaf(t, leaf), {leaf}) /\ SameLeaves(t, OrphanLeaf(t, leaf))
<1>0. PICK s : s = OrphanLeaf(t, leaf)
  OBVIOUS
<1>1. Shape(t) /\ Linked(t, {})
  BY DEF Tree
<1>2. CASE t.parent[leaf] = NoNode
  <2>1. Nodes(t) = {leaf} /\ t.root = leaf
    BY <1>2, LoneLeaf
  <2>2. s = [t EXCEPT !.root = NoNode]
    BY <1>0, <1>2 DEF OrphanLeaf
  <2>3. /\ s = [root |-> s.root, parent |-> s.parent, kids |-> s.kids, box |-> s.box,
                value |-> s.value, stale |-> s.stale]
        /\ s.root = NoNode /\ s.parent = t.parent /\ s.kids = t.kids /\ s.box = t.box
        /\ s.value = t.value /\ s.stale = t.stale
    BY <1>1, <2>2 DEF Shape
  <2>4. Nodes(s) = Nodes(t) /\ Leaves(s) = Leaves(t) /\ Branches(s) = Branches(t)
    BY ONLY <2>3 DEF Nodes, Leaves, Branches
  <2>5. Shape(s)
    BY ONLY <1>1, <2>3, <2>4 DEF Shape
  <2>6. Branches(t) = {} /\ Leaves(t) = {leaf}
    BY <1>1, <2>1 DEF Shape
  <2>7. Linked(s, {leaf})
    BY ONLY <1>2, <2>1, <2>3, <2>4, <2>6 DEF Linked
  <2>8. \E d : Ranked(s, d)
    <3>1. PICK d : Ranked(t, d)
      BY DEF Tree
    <3>2. Ranked(s, d)
      BY ONLY <2>3, <2>4, <3>1 DEF Ranked
    <3>3. QED
      BY <3>2
  <2>9. SameLeaves(t, s)
    BY ONLY <2>3, <2>4 DEF SameLeaves
  <2>10. QED
    BY <1>0, <2>5, <2>7, <2>8, <2>9 DEF Tree
<1>3. CASE t.parent[leaf] # NoNode
  <2>1. PICK parent, above : parent = t.parent[leaf] /\ above = t.parent[parent]
    OBVIOUS
  <2>2. PICK sibling : sibling = (CHOOSE n \in Range(t.kids[parent]) : n # leaf)
    OBVIOUS
  <2>3. s = Relinked(Orphaned(t, leaf, sibling), above, parent, sibling)
    BY <1>0, <1>3, <2>1, <2>2, Zenon DEF OrphanLeaf, Orphaned
  <2>4. parent = t.parent[leaf] /\ parent # NoNode /\ above = t.parent[parent]
    BY <1>3, <2>1
  <2>5. Shape(s) /\ OrphanIs(t, leaf, parent, above, sibling, s)
    BY <2>2, <2>3, <2>4, OrphanedShape
  <2>6. Tree(s, {leaf})
    BY <2>5, OrphanedTree
  <2>7. Leaves(t) \subseteq Nodes(t) \ {parent}
    BY <1>1, <2>5 DEF Shape, OrphanIs
  <2>8. SameLeaves(t, s)
    BY <2>5, <2>7 DEF OrphanIs, SameLeaves
  <2>9. QED
    BY <1>0, <2>6, <2>8
<1>4. QED
  BY <1>2, <1>3

\* s is t with one leaf less.
RemoveIs(t, leaf, s) ==
  /\ Leaves(s) = Leaves(t) \ {leaf}
  /\ \A n \in Leaves(s) : s.value[n] = t.value[n] /\ s.box[n] = t.box[n]

LEMMA RemovedIs ==
  ASSUME NEW t, Tree(t, {}), NEW leaf \in Leaves(t)
  PROVE  Tree(Removed(t, leaf), {}) /\ RemoveIs(t, leaf, Removed(t, leaf))
<1>0. PICK o, s : o = OrphanLeaf(t, leaf) /\ s = Removed(t, leaf)
  OBVIOUS
<1>1. Tree(o, {leaf}) /\ SameLeaves(t, o)
  BY <1>0, OrphanLeafIs
<1>2. Shape(o) /\ Linked(o, {leaf}) /\ leaf \in Leaves(o)
  BY <1>1 DEF Tree, SameLeaves
<1>3. PICK N : N = Nodes(o) \ {leaf}
  OBVIOUS
<1>4. /\ s = [root |-> s.root, parent |-> s.parent, kids |-> s.kids, box |-> s.box,
              value |-> s.value, stale |-> s.stale]
      /\ s.root = o.root /\ s.kids = o.kids /\ s.stale = o.stale
      /\ s.box = Drop(o.box, leaf) /\ s.parent = Drop(o.parent, leaf) /\ s.value = Drop(o.value, leaf)
  BY <1>0, <1>2 DEF Removed, Shape
<1>5. s.box \in [N -> Box] /\ \A n \in N : s.box[n] = o.box[n]
  <2>1. o.box \in [Nodes(o) -> Box]
    BY <1>2 DEF Shape
  <2>2. DropOn(Nodes(o), Box, o.box, leaf, s.box)
    BY ONLY <1>4, <2>1, DropIs
  <2>3. QED
    BY ONLY <1>3, <2>2 DEF DropOn
<1>6. s.value \in [Leaves(o) \ {leaf} -> Collider] /\ \A n \in Leaves(o) \ {leaf} : s.value[n] = o.value[n]
  <2>1. o.value \in [Leaves(o) -> Collider]
    BY <1>2 DEF Shape
  <2>2. DropOn(Leaves(o), Collider, o.value, leaf, s.value)
    BY ONLY <1>4, <2>1, DropIs
  <2>3. QED
    BY ONLY <2>2 DEF DropOn
<1>7. /\ \A n \in Nodes(o) : o.parent[n] # leaf
      /\ leaf \in Nodes(o) /\ leaf \notin Branches(o) /\ o.parent[leaf] = NoNode
      /\ NoNode \notin Nodes(o) /\ Branches(o) \subseteq Nodes(o)
  <2>1. /\ leaf \in Nodes(o) /\ leaf \notin Branches(o) /\ NoNode \notin Nodes(o)
        /\ Branches(o) \subseteq Nodes(o)
    BY <1>2 DEF Shape
  <2>2. o.parent[leaf] = NoNode
    BY <1>2, <2>1 DEF Linked
  <2>3. \A n \in Nodes(o) : o.parent[n] # NoNode => o.parent[n] \in Branches(o)
    BY <1>2 DEF Linked
  <2>4. QED
    BY ONLY <2>1, <2>2, <2>3
<1>8. s.parent \in [N -> N \cup {NoNode}] /\ \A n \in N : s.parent[n] = o.parent[n]
  <2>0. PICK T : T = Nodes(o) \cup {NoNode}
    OBVIOUS
  <2>1. o.parent \in [Nodes(o) -> T]
    BY <1>2, <2>0 DEF Shape
  <2>2. DropOn(Nodes(o), T, o.parent, leaf, s.parent)
    BY ONLY <1>4, <2>1, DropIs
  <2>3. s.parent \in [N -> T] /\ \A n \in N : s.parent[n] = o.parent[n]
    BY ONLY <1>3, <2>2 DEF DropOn
  <2>4. \A n \in N : s.parent[n] \in N \cup {NoNode}
    BY ONLY <1>3, <1>7, <2>0, <2>1, <2>3
  <2>5. QED
    BY ONLY <2>3, <2>4
<1>9. \A n \in Branches(o) :
        /\ o.kids[n] \in [1..2 -> N]
        /\ o.kids[n][1] \in N /\ o.kids[n][2] \in N
  <2> SUFFICES ASSUME NEW n \in Branches(o)
               PROVE  o.kids[n] \in [1..2 -> N] /\ o.kids[n][1] \in N /\ o.kids[n][2] \in N
    OBVIOUS
  <2>1. o.kids[n] \in [1..2 -> Nodes(o)]
    BY <1>2 DEF Shape
  <2>2. o.parent[o.kids[n][1]] = n /\ o.parent[o.kids[n][2]] = n /\ n # NoNode
    BY <1>2, <1>7 DEF Linked
  <2>3. o.kids[n][1] # leaf /\ o.kids[n][2] # leaf
    BY ONLY <1>7, <2>2
  <2>4. 1..2 = {1, 2}
    OBVIOUS
  <2>5. QED
    BY ONLY <1>3, <2>1, <2>3, <2>4
<1>10. Nodes(s) = N /\ Branches(s) = Branches(o) /\ Leaves(s) = Leaves(o) \ {leaf}
  <2>1. DOMAIN s.box = N /\ DOMAIN s.value = Leaves(o) \ {leaf} /\ s.kids = o.kids
    BY ONLY <1>4, <1>5, <1>6
  <2>2. QED
    BY <2>1 DEF Nodes, Branches, Leaves
<1>11. Shape(s)
  <2>1. IsFiniteSet(N)
    BY <1>2, <1>3, FS_RemoveElement DEF Shape
  <2>2. N \subseteq Nat \ {NoNode}
    BY <1>2, <1>3 DEF Shape
  <2>3. /\ N = Branches(o) \cup (Leaves(o) \ {leaf}) /\ Branches(o) \cap (Leaves(o) \ {leaf}) = {}
        /\ s.stale \subseteq Branches(o)
    BY <1>2, <1>3, <1>4, <1>7 DEF Shape
  <2>4. s.kids \in [Branches(o) -> [1..2 -> N]]
    <3>1. s.kids \in [Branches(o) -> [1..2 -> Nodes(o)]] /\ s.kids = o.kids
      BY <1>2, <1>4 DEF Shape
    <3>2. QED
      BY ONLY <1>9, <3>1
  <2>5. QED
    BY ONLY <1>4, <1>5, <1>6, <1>8, <1>10, <2>1, <2>2, <2>3, <2>4 DEF Shape
<1>12. Linked(s, {})
  <2>1. \A n \in Branches(s) : /\ s.kids[n][1] # s.kids[n][2]
                               /\ s.parent[s.kids[n][1]] = n /\ s.parent[s.kids[n][2]] = n
    <3>1. \A n \in Branches(o) : /\ o.kids[n][1] # o.kids[n][2]
                                 /\ o.parent[o.kids[n][1]] = n /\ o.parent[o.kids[n][2]] = n
      BY <1>2 DEF Linked
    <3>2. QED
      BY ONLY <1>4, <1>8, <1>9, <1>10, <3>1
  <2>2. \A n \in Nodes(s) : s.parent[n] # NoNode =>
          /\ s.parent[n] \in Branches(s)
          /\ s.kids[s.parent[n]][1] = n \/ s.kids[s.parent[n]][2] = n
    <3>1. \A n \in Nodes(o) : o.parent[n] # NoNode =>
          /\ o.parent[n] \in Branches(o)
          /\ o.kids[o.parent[n]][1] = n \/ o.kids[o.parent[n]][2] = n
      BY <1>2 DEF Linked
    <3>2. QED
      BY ONLY <1>3, <1>4, <1>8, <1>10, <3>1
  <2>3. \A n \in Nodes(s) : s.parent[n] = NoNode <=> n = s.root
    <3>1. \A n \in Nodes(o) : o.parent[n] = NoNode <=> n = o.root \/ n \in {leaf}
      BY <1>2 DEF Linked
    <3>2. QED
      BY ONLY <1>3, <1>4, <1>8, <1>10, <3>1
  <2>4. s.root \in Nodes(s) \cup {NoNode} /\ (s.root = NoNode => Nodes(s) = {})
    BY <1>2, <1>3, <1>4, <1>10 DEF Linked
  <2>5. QED
    BY ONLY <2>1, <2>2, <2>3, <2>4 DEF Linked
<1>13. \E e : Ranked(s, e)
  <2>1. PICK d : Ranked(o, d)
    BY <1>1 DEF Tree
  <2>2. PICK e : e = [n \in N |-> d[n]]
    OBVIOUS
  <2>3. \A n \in N : n \in Nodes(o) /\ s.parent[n] = o.parent[n] /\ (s.parent[n] # NoNode => s.parent[n] \in N)
    BY ONLY <1>3, <1>8
  <2>4. Ranked(s, e)
    BY ONLY <1>10, <2>1, <2>2, <2>3 DEF Ranked
  <2>5. QED
    BY <2>4
<1>14. RemoveIs(t, leaf, s)
  <2>1. Leaves(o) \subseteq Nodes(o)
    BY <1>2 DEF Shape
  <2>2. QED
    BY ONLY <1>1, <1>3, <1>5, <1>6, <1>10, <2>1 DEF SameLeaves, RemoveIs
<1>15. QED
  BY <1>0, <1>11, <1>12, <1>13, <1>14 DEF Tree

\* s is t with another box for the leaf.
UpdateIs(t, leaf, aabb, s) ==
  /\ Leaves(s) = Leaves(t) /\ s.value = t.value
  /\ s.box[leaf] = aabb
  /\ \A n \in Leaves(t) : n # leaf => s.box[n] = t.box[n]

\* The leaf that was taken out gets another box.
LEMMA ReboxedTree ==
  ASSUME NEW o, NEW leaf \in Leaves(o), Tree(o, {leaf}), NEW aabb \in Box,
         NEW u, u = [o EXCEPT !.box[leaf] = aabb]
  PROVE  Tree(u, {leaf}) /\ leaf \in Leaves(u) /\ UpdateIs(o, leaf, aabb, u)
<1>2. Shape(o) /\ Linked(o, {leaf})
  BY DEF Tree
<1>3. leaf \in Nodes(o) /\ Leaves(o) \subseteq Nodes(o)
  BY <1>2 DEF Shape
<1>4. /\ u = [root |-> u.root, parent |-> u.parent, kids |-> u.kids, box |-> u.box,
              value |-> u.value, stale |-> u.stale]
      /\ u.root = o.root /\ u.parent = o.parent /\ u.kids = o.kids /\ u.value = o.value /\ u.stale = o.stale
      /\ u.box = [o.box EXCEPT ![leaf] = aabb]
  BY <1>2 DEF Shape
<1>5. /\ u.box \in [Nodes(o) -> Box] /\ u.box[leaf] = aabb
      /\ \A n \in Nodes(o) : n # leaf => u.box[n] = o.box[n]
  BY <1>2, <1>3, <1>4 DEF Shape
<1>6. Nodes(u) = Nodes(o) /\ Branches(u) = Branches(o) /\ Leaves(u) = Leaves(o)
  BY <1>4, <1>5 DEF Nodes, Branches, Leaves
<1>7. Shape(u)
  BY ONLY <1>2, <1>4, <1>5, <1>6 DEF Shape
<1>8. Linked(u, {leaf})
  BY ONLY <1>2, <1>4, <1>6 DEF Linked
<1>9. \E d : Ranked(u, d)
  <2>1. PICK d : Ranked(o, d)
    BY DEF Tree
  <2>2. Ranked(u, d)
    BY ONLY <1>4, <1>6, <2>1 DEF Ranked
  <2>3. QED
    BY <2>2
<1>10. UpdateIs(o, leaf, aabb, u)
  BY ONLY <1>3, <1>4, <1>5, <1>6 DEF UpdateIs
<1>11. QED
  BY <1>6, <1>7, <1>8, <1>9, <1>10 DEF Tree

LEMMA UpdatedIs ==
  ASSUME NEW t, Tree(t, {}), NEW leaf \in Leaves(t), NEW aabb \in Box, NEW s \in UpdatedAabb(t, leaf, aabb)
  PROVE  Tree(s, {}) /\ UpdateIs(t, leaf, aabb, s)
<1>0. PICK o, u : o = OrphanLeaf(t, leaf) /\ u = [o EXCEPT !.box[leaf] = aabb]
  OBVIOUS
<1>1. Tree(o, {leaf}) /\ SameLeaves(t, o)
  BY <1>0, OrphanLeafIs
<1>2. leaf \in Leaves(o)
  BY <1>1 DEF SameLeaves
<1>3. Tree(u, {leaf}) /\ leaf \in Leaves(u) /\ UpdateIs(o, leaf, aabb, u)
  BY <1>0, <1>1, <1>2, ReboxedTree
<1>4. s \in InsertLeaf(u, leaf)
  BY <1>0, Zenon DEF UpdatedAabb
<1>5. Tree(s, {}) /\ SameLeaves(u, s)
  BY <1>3, <1>4, InsertLeafIs
<1>6. UpdateIs(t, leaf, aabb, s)
  BY ONLY <1>1, <1>2, <1>3, <1>5 DEF SameLeaves, UpdateIs
<1>7. QED
  BY <1>5, <1>6

----------------------------------------------------------------------------
(* Boxes bound what is below them *)

\* Apart from R and the branches that a rotation spoiled.
BoundBut(t, R) ==
  \A n \in Branches(t) : n \notin t.stale /\ n \notin R =>
    \A k \in {1, 2} : Encloses(t.box[n], t.box[t.kids[n][k]])

LEMMA RefitBound ==
  ASSUME NEW t, Tree(t, {}), NEW n \in Branches(t), NEW R, BoundBut(t, R \cup {n}),
         t.parent[n] # NoNode => t.parent[n] \in R
  PROVE  BoundBut(Refit(t, n), R) /\ n \notin Refit(t, n).stale
<1>0. PICK s : s = Refit(t, n)
  OBVIOUS
<1>1. PICK b : b = Union(t.box[t.kids[n][1]], t.box[t.kids[n][2]])
  OBVIOUS
<1>2. Shape(t) /\ Linked(t, {})
  BY DEF Tree
<1>3. /\ s.parent = t.parent /\ s.kids = t.kids /\ s.stale = t.stale \ {n}
      /\ s.box = [t.box EXCEPT ![n] = b]
  <2>1. RefitIs(t, n, s)
    BY <1>0, RefitTree
  <2>2. QED
    BY <1>1, <2>1 DEF RefitIs
<1>4. t.box \in [Nodes(t) -> Box] /\ n \in Nodes(t)
  BY <1>2 DEF Shape
<1>5. s.box[n] = b /\ \A m \in Nodes(t) : m # n => s.box[m] = t.box[m]
  BY ONLY <1>3, <1>4
<1>6. \A m \in Branches(t) : \A k \in {1, 2} : t.kids[m][k] \in Nodes(t) /\ t.parent[t.kids[m][k]] = m
  <2>1. \A m \in Branches(t) : t.kids[m] \in [1..2 -> Nodes(t)]
    BY <1>2 DEF Shape
  <2>2. \A m \in Branches(t) : t.parent[t.kids[m][1]] = m /\ t.parent[t.kids[m][2]] = m
    BY <1>2 DEF Linked
  <2>3. QED
    BY ONLY <2>1, <2>2
<1>7. n # t.parent[n]
  <2>1. PICK d : Ranked(t, d)
    BY DEF Tree
  <2>2. t.parent[n] # NoNode => d[t.parent[n]] < d[n] /\ d[n] \in Nat
    BY <1>4, <2>1 DEF Ranked
  <2>3. n # NoNode
    BY <1>2, <1>4 DEF Shape
  <2>4. QED
    BY <2>2, <2>3
<1>8. Branches(s) = Branches(t)
  BY <1>3 DEF Branches
<1>9. ASSUME NEW m \in Branches(t), m \notin s.stale, m \notin R, NEW k \in {1, 2}
      PROVE  Encloses(s.box[m], s.box[t.kids[m][k]])
  <2>0. PICK c : c = t.kids[m][k]
    OBVIOUS
  <2>1. c \in Nodes(t) /\ t.parent[c] = m
    BY ONLY <1>6, <2>0, m \in Branches(t), k \in {1, 2}
  <2>2. CASE m = n
    <3>1. c # n
      BY ONLY <1>7, <2>1, <2>2
    <3>2. t.box[t.kids[n][1]] \in Box /\ t.box[t.kids[n][2]] \in Box
      BY <1>4, <1>6
    <3>3. Encloses(b, t.box[t.kids[n][1]]) /\ Encloses(b, t.box[t.kids[n][2]])
      BY <1>1, <3>2, UnionIs
    <3>4. c = t.kids[n][1] \/ c = t.kids[n][2]
      BY ONLY <2>0, <2>2, k \in {1, 2}
    <3>5. QED
      BY ONLY <1>5, <2>0, <2>1, <2>2, <3>1, <3>3, <3>4
  <2>3. CASE m # n
    <3>1. m \in Nodes(t) /\ m # NoNode
      BY <1>2 DEF Shape
    <3>2. c # n
      BY ONLY <1>9, <2>1, <3>1, t.parent[n] # NoNode => t.parent[n] \in R
    <3>3. m \notin t.stale /\ m \notin R \cup {n}
      BY ONLY <1>3, <1>9, <2>3
    <3>4. Encloses(t.box[m], t.box[c])
      BY ONLY <2>0, <3>3, BoundBut(t, R \cup {n}), m \in Branches(t), k \in {1, 2} DEF BoundBut
    <3>5. QED
      BY ONLY <1>5, <2>0, <2>1, <2>3, <3>1, <3>2, <3>4
  <2>4. QED
    BY <2>2, <2>3
<1>10. BoundBut(s, R)
  BY ONLY <1>3, <1>8, <1>9 DEF BoundBut
<1>11. QED
  BY ONLY <1>0, <1>3, <1>10

LEMMA SwapBound ==
  ASSUME NEW t, Tree(t, {}), NEW branch, NEW swap, NEW main, NEW other, NEW grandchild, NEW sibling,
         Family(t, branch, swap, main, other, grandchild, sibling),
         NEW R, BoundBut(t, R), branch \notin t.stale, branch \notin R, main \notin R
  PROVE  BoundBut(Swapped(t, branch, swap), R)
<1>0. PICK s : s = Swapped(t, branch, swap)
  OBVIOUS
<1>1. /\ swap[1] \in {1, 2} /\ swap[2] \in {1, 2}
      /\ branch \in Branches(t) /\ main \in Branches(t)
      /\ main = t.kids[branch][swap[1]] /\ other = t.kids[branch][3 - swap[1]]
      /\ grandchild = t.kids[main][swap[2]] /\ sibling = t.kids[main][3 - swap[2]]
  BY DEF Family
<1>2. SwappedIs(t, branch, swap, main, other, grandchild, sibling, s)
  BY <1>0, SwappedFields
<1>3. /\ s.box = t.box
      /\ s.kids \in [Branches(t) -> [1..2 -> Nodes(t)]]
      /\ s.kids[branch][swap[1]] = main /\ s.kids[branch][3 - swap[1]] = grandchild
      /\ \A n \in Branches(t) : n # branch /\ n # main => s.kids[n] = t.kids[n]
      /\ s.stale = t.stale \cup {main} \cup (IF main \in t.stale THEN {branch} ELSE {})
  BY <1>2 DEF SwappedIs
<1>4. Branches(s) = Branches(t)
  BY <1>3 DEF Branches
<1>5. /\ main \in Nodes(t) /\ grandchild \in Nodes(t) /\ branch \in Nodes(t)
  BY FamilyApart
<1>6. t.box \in [Nodes(t) -> Box]
  BY DEF Tree, Shape
<1>7. ASSUME NEW n \in Branches(t), n \notin s.stale, n \notin R, NEW k \in {1, 2}
      PROVE  Encloses(s.box[n], s.box[s.kids[n][k]])
  <2>1. n # main /\ n \notin t.stale
    BY ONLY <1>3, <1>7
  <2>2. CASE n = branch
    <3>1. main \notin t.stale
      BY ONLY <1>3, <1>7, <2>2
    <3>2. Encloses(t.box[branch], t.box[main])
      BY ONLY <1>1, BoundBut(t, R), branch \notin t.stale, branch \notin R DEF BoundBut
    <3>3. Encloses(t.box[main], t.box[grandchild])
      BY ONLY <1>1, <3>1, BoundBut(t, R), main \notin R DEF BoundBut
    <3>4. t.box[branch] \in Box /\ t.box[main] \in Box /\ t.box[grandchild] \in Box
      BY ONLY <1>5, <1>6
    <3>5. Encloses(t.box[branch], t.box[grandchild])
      BY <3>2, <3>3, <3>4, EnclosesTransitive
    <3>6. k = swap[1] \/ k = 3 - swap[1]
      BY ONLY <1>1, k \in {1, 2}
    <3>7. s.kids[n][k] = main \/ s.kids[n][k] = grandchild
      BY ONLY <1>3, <2>2, <3>6
    <3>8. QED
      BY ONLY <1>3, <2>2, <3>2, <3>5, <3>7
  <2>3. CASE n # branch
    <3>1. s.kids[n] = t.kids[n]
      BY ONLY <1>3, <2>1, <2>3, n \in Branches(t)
    <3>2. Encloses(t.box[n], t.box[t.kids[n][k]])
      BY ONLY <1>7, <2>1, BoundBut(t, R), n \in Branches(t), k \in {1, 2} DEF BoundBut
    <3>3. QED
      BY ONLY <1>3, <3>1, <3>2
  <2>4. QED
    BY <2>2, <2>3
<1>8. BoundBut(s, R)
  BY ONLY <1>4, <1>7 DEF BoundBut
<1>9. QED
  BY ONLY <1>0, <1>8

\* A rotation at n disturbs no link above n.
LEMMA RotateBound ==
  ASSUME NEW t, Tree(t, {}), NEW n \in Branches(t), NEW R, BoundBut(t, R),
         n \notin t.stale, n \notin R, NEW d, Ranked(t, d),
         \A m \in R : d[m] < d[n]
  PROVE  /\ BoundBut(Rotated(t, n), R)
         /\ \A m \in Nodes(t) : d[m] <= d[n] => Rotated(t, n).parent[m] = t.parent[m]
<1>0. PICK s : s = Rotated(t, n)
  OBVIOUS
<1>1. \/ s = t
      \/ \E swap : /\ swap[1] \in {1, 2} /\ swap[2] \in {1, 2}
                   /\ t.kids[n][swap[1]] \in Branches(t)
                   /\ s = Swapped(t, n, swap)
  BY <1>0, RotatedIs DEF Tree
<1>2. CASE s = t
  BY <1>0, <1>2
<1>3. ASSUME NEW swap, swap[1] \in {1, 2}, swap[2] \in {1, 2},
             t.kids[n][swap[1]] \in Branches(t), s = Swapped(t, n, swap)
      PROVE  /\ BoundBut(s, R)
             /\ \A m \in Nodes(t) : d[m] <= d[n] => s.parent[m] = t.parent[m]
  <2>0. PICK main, other, grandchild, sibling :
          /\ main = t.kids[n][swap[1]] /\ other = t.kids[n][3 - swap[1]]
          /\ grandchild = t.kids[main][swap[2]] /\ sibling = t.kids[main][3 - swap[2]]
    OBVIOUS
  <2>1. Family(t, n, swap, main, other, grandchild, sibling)
    BY ONLY <1>3, <2>0, n \in Branches(t) DEF Family
  <2>2. /\ n \in Nodes(t) /\ main \in Nodes(t) /\ other \in Nodes(t) /\ grandchild \in Nodes(t)
        /\ t.parent[main] = n /\ t.parent[other] = n /\ t.parent[grandchild] = main
        /\ other # grandchild
    BY <2>1, FamilyApart
  <2>3. n # NoNode /\ main # NoNode
    BY <2>2 DEF Tree, Shape
  <2>4. /\ d[n] < d[main] /\ d[n] < d[other] /\ d[main] < d[grandchild]
        /\ d[n] \in Nat /\ d[main] \in Nat /\ d[other] \in Nat /\ d[grandchild] \in Nat
    BY <2>2, <2>3 DEF Ranked
  <2>5. main \notin R
    BY <2>4
  <2>6. BoundBut(s, R)
    BY <1>3, <2>1, <2>5, SwapBound
  <2>7. SwappedIs(t, n, swap, main, other, grandchild, sibling, s)
    BY <1>3, <2>1, SwappedFields
  <2>8. s.parent = [[t.parent EXCEPT ![other] = main] EXCEPT ![grandchild] = n]
    BY <2>7 DEF SwappedIs
  <2>9. t.parent \in [Nodes(t) -> Nodes(t) \cup {NoNode}]
    BY DEF Tree, Shape
  <2>10. \A m \in Nodes(t) : m # other /\ m # grandchild => s.parent[m] = t.parent[m]
    BY ONLY <2>8, <2>9
  <2>11. ~(d[other] <= d[n]) /\ ~(d[grandchild] <= d[n])
    BY ONLY <2>4
  <2>12. \A m \in Nodes(t) : d[m] <= d[n] => s.parent[m] = t.parent[m]
    BY ONLY <2>10, <2>11
  <2>13. QED
    BY ONLY <2>6, <2>12
<1>4. QED
  BY <1>0, <1>1, <1>2, <1>3

\* What of a line is still to be refitted.
Rest(l, k) == {l[j] : j \in (k + 1)..Len(l)}

OnLine(t, l, k) ==
  /\ \A j \in (k + 1)..(Len(l) - 1) : t.parent[l[j]] # NoNode /\ l[j + 1] = t.parent[l[j]]
  /\ k < Len(l) => t.parent[l[Len(l)]] = NoNode

LEMMA StepBound ==
  ASSUME NEW t, Tree(t, {}), NEW l \in Seq(Branches(t)), NEW k \in Nat, k < Len(l),
         OnLine(t, l, k), BoundBut(t, Rest(l, k))
  PROVE  /\ OnLine(RefitAndRotate(t, l[k + 1]), l, k + 1)
         /\ BoundBut(RefitAndRotate(t, l[k + 1]), Rest(l, k + 1))
<1>0. PICK n, r, s, R, z, a : /\ n = l[k + 1] /\ r = Refit(t, n) /\ s = Rotated(r, n)
                              /\ R = Rest(l, k + 1) /\ z = Len(l) /\ a = k + 1
  OBVIOUS
<1>1. z \in Nat /\ a \in 1..z /\ a \in Nat /\ n = l[a] /\ \A j \in 1..z : l[j] \in Branches(t)
  BY <1>0, LenProperties, ElementOfSeq
<1>2. n \in Branches(t) /\ Branches(t) \subseteq Nodes(t)
  BY <1>1 DEF Tree, Shape
<1>3. /\ \A j \in a..(z - 1) : t.parent[l[j]] # NoNode /\ l[j + 1] = t.parent[l[j]]
      /\ t.parent[l[z]] = NoNode
  BY <1>0, <1>1 DEF OnLine
<1>4. Rest(l, k) = R \cup {n}
  <2>1. a..z = {a} \cup (a + 1)..z
    BY <1>1
  <2>2. R = {l[j] : j \in (a + 1)..z} /\ Rest(l, k) = {l[j] : j \in a..z}
    BY <1>0 DEF Rest
  <2>3. QED
    BY ONLY <1>1, <2>1, <2>2
<1>5. t.parent[n] # NoNode => t.parent[n] \in R
  <2>1. CASE a = z
    BY ONLY <1>1, <1>3, <2>1
  <2>2. CASE a # z
    <3>1. a \in a..(z - 1) /\ a + 1 \in (a + 1)..z
      BY ONLY <1>1, <2>2
    <3>2. t.parent[n] = l[a + 1]
      BY ONLY <1>1, <1>3, <3>1
    <3>3. R = {l[j] : j \in (a + 1)..z}
      BY <1>0 DEF Rest
    <3>4. QED
      BY ONLY <3>1, <3>2, <3>3
  <2>3. QED
    BY <2>1, <2>2
<1>6. BoundBut(r, R) /\ n \notin r.stale
  <2>1. BoundBut(t, R \cup {n})
    BY <1>4
  <2>2. QED
    BY <1>0, <1>2, <1>5, <2>1, RefitBound
<1>7. Tree(r, {}) /\ SameArena(t, r) /\ RefitIs(t, n, r)
  BY <1>0, <1>2, RefitTree
<1>8. Nodes(r) = Nodes(t) /\ Branches(r) = Branches(t) /\ r.parent = t.parent
  BY <1>7 DEF SameArena, RefitIs
<1>9. PICK d : Ranked(t, d)
  BY DEF Tree
<1>10. Ranked(r, d)
  BY ONLY <1>8, <1>9 DEF Ranked
<1>11. \A j \in (a + 1)..z : d[l[j]] < d[l[a]]
  <2>1. l \in Seq(Nodes(t))
    <3>1. l \in [1..z -> Branches(t)]
      BY <1>0, LenProperties
    <3>2. l \in [1..z -> Nodes(t)]
      BY <1>2, <3>1
    <3>3. PICK S : S = Nodes(t)
      OBVIOUS
    <3>4. l \in [1..z -> S]
      BY <3>2, <3>3
    <3>5. l \in Seq(S)
      BY ONLY <1>1, <3>4
    <3>6. QED
      BY <3>3, <3>5
  <2>2. z = Len(l)
    BY <1>0
  <2>3. QED
    BY ONLY <1>1, <1>3, <1>9, <2>1, <2>2, LineGoesUp
<1>12. \A m \in R : d[m] < d[n]
  <2>1. R = {l[j] : j \in (a + 1)..z}
    BY <1>0 DEF Rest
  <2>2. QED
    BY ONLY <1>1, <1>11, <2>1
<1>13. n \notin R
  <2>1. d[n] \in Nat
    BY <1>2, <1>9 DEF Ranked
  <2>2. QED
    BY <1>12, <2>1
<1>14. /\ BoundBut(s, R)
       /\ \A m \in Nodes(t) : d[m] <= d[n] => s.parent[m] = t.parent[m]
  <2>1. n \in Branches(r)
    BY <1>2, <1>8
  <2>2. /\ BoundBut(s, R)
        /\ \A m \in Nodes(r) : d[m] <= d[n] => s.parent[m] = r.parent[m]
    BY <1>0, <1>6, <1>7, <1>10, <1>12, <1>13, <2>1, RotateBound
  <2>3. QED
    BY <1>8, <2>2
<1>15. \A j \in (a + 1)..z : s.parent[l[j]] = t.parent[l[j]]
  <2> SUFFICES ASSUME NEW j \in (a + 1)..z PROVE s.parent[l[j]] = t.parent[l[j]]
    OBVIOUS
  <2>1. j \in 1..z
    BY <1>1
  <2>2. l[j] \in Nodes(t)
    BY <1>1, <1>2, <2>1
  <2>3. d[l[j]] \in Nat /\ d[n] \in Nat
    BY <1>2, <1>9, <2>2 DEF Ranked
  <2>4. d[l[j]] <= d[n]
    BY <1>1, <1>11, <2>3
  <2>5. QED
    BY <1>14, <2>2, <2>4
<1>16. OnLine(s, l, a)
  <2>1. \A j \in (a + 1)..(z - 1) : s.parent[l[j]] # NoNode /\ l[j + 1] = s.parent[l[j]]
    <3>1. \A j \in (a + 1)..(z - 1) : j \in (a + 1)..z /\ j \in a..(z - 1)
      BY <1>1
    <3>2. QED
      BY ONLY <1>3, <1>15, <3>1
  <2>2. a < z => s.parent[l[z]] = NoNode
    <3>1. a < z => z \in (a + 1)..z
      BY <1>1
    <3>2. QED
      BY ONLY <1>3, <1>15, <3>1
  <2>3. z = Len(l)
    BY <1>0
  <2>4. QED
    BY ONLY <2>1, <2>2, <2>3 DEF OnLine
<1>17. s = RefitAndRotate(t, l[k + 1])
  BY <1>0 DEF RefitAndRotate
<1>18. QED
  BY ONLY <1>0, <1>14, <1>16, <1>17

LEMMA LineBound ==
  ASSUME NEW t, Tree(t, {}), NEW l \in Seq(Branches(t)), OnLine(t, l, 0), BoundBut(t, Rest(l, 0))
  PROVE  BoundBut(RefittedLine(t, l), {})
<1>0. PICK n : n = Len(l)
  OBVIOUS
<1>1. n \in Nat /\ DOMAIN l = 1..n /\ \A k \in 1..n : l[k] \in Branches(t)
  BY <1>0, LenProperties, ElementOfSeq
<1>1a. \E h : RefitStages(t, l, n, h) /\ RefittedLine(t, l) = h[n]
  BY ONLY <1>1, LineStages
<1>2. PICK h : /\ h[0] = t
               /\ \A k \in 1..n : h[k] = RefitAndRotate(h[k - 1], l[k])
               /\ RefittedLine(t, l) = h[n]
  BY <1>1a DEF RefitStages
<1> DEFINE P == {k \in Nat : k <= n => /\ Tree(h[k], {}) /\ Branches(h[k]) = Branches(t)
                                       /\ OnLine(h[k], l, k) /\ BoundBut(h[k], Rest(l, k))}
<1>3. 0 \in P
  BY <1>2
<1>4. \A k \in Nat : k \in P => k + 1 \in P
  <2> SUFFICES ASSUME NEW k \in Nat, k \in P, k + 1 <= n
               PROVE  /\ Tree(h[k + 1], {}) /\ Branches(h[k + 1]) = Branches(t)
                      /\ OnLine(h[k + 1], l, k + 1) /\ BoundBut(h[k + 1], Rest(l, k + 1))
    OBVIOUS
  <2>0. PICK r : r = h[k]
    OBVIOUS
  <2>1. Tree(r, {}) /\ Branches(r) = Branches(t) /\ OnLine(r, l, k) /\ BoundBut(r, Rest(l, k))
    BY <1>1, <2>0
  <2> HIDE DEF P
  <2>2. k + 1 \in 1..n /\ (k + 1) - 1 = k /\ k < Len(l)
    BY <1>0, <1>1
  <2>3. h[k + 1] = RefitAndRotate(r, l[k + 1]) /\ l[k + 1] \in Branches(r)
    BY ONLY <1>1, <1>2, <2>0, <2>1, <2>2
  <2>4. Tree(h[k + 1], {}) /\ SameArena(r, h[k + 1])
    BY <2>1, <2>3, RefitAndRotateTree
  <2>5. l \in Seq(Branches(r))
    BY <2>1
  <2>6. OnLine(h[k + 1], l, k + 1) /\ BoundBut(h[k + 1], Rest(l, k + 1))
    BY <2>1, <2>2, <2>3, <2>5, StepBound
  <2>7. QED
    BY ONLY <2>1, <2>4, <2>6 DEF SameArena
<1> HIDE DEF P
<1>5. Nat \subseteq P
  BY ONLY <1>3, <1>4, NaturalsIn
<1>6. n \in P /\ n <= n
  BY <1>1, <1>5
<1>7. Rest(l, n) = {}
  BY <1>0, <1>1 DEF Rest
<1>8. QED
  BY <1>2, <1>6, <1>7 DEF P

\* Every branch bounds its kids, unless a rotation spoiled it.
Bounds(t) == BoundBut(t, {})

LEMMA KidsOf ==
  ASSUME NEW t, NEW X, Tree(t, X), NEW n \in Branches(t), NEW k \in {1, 2}
  PROVE  t.kids[n][k] \in Nodes(t) /\ t.parent[t.kids[n][k]] = n /\ n \in Nodes(t) /\ n # NoNode
<1>1. t.kids[n] \in [1..2 -> Nodes(t)] /\ n \in Nodes(t) /\ n # NoNode
  BY DEF Tree, Shape
<1>2. t.parent[t.kids[n][1]] = n /\ t.parent[t.kids[n][2]] = n
  BY DEF Tree, Linked
<1>3. QED
  BY ONLY <1>1, <1>2, k \in {1, 2}

LEMMA InsertLeafBound ==
  ASSUME NEW u, NEW leaf \in Leaves(u), Tree(u, {leaf}), Bounds(u), NEW s \in InsertLeaf(u, leaf)
  PROVE  Bounds(s)
<1>1. Shape(u) /\ Linked(u, {leaf})
  BY DEF Tree
<1>2. CASE u.root = NoNode
  <2>1. s = [u EXCEPT !.root = leaf]
    BY <1>2 DEF InsertLeaf
  <2>2. s.kids = u.kids /\ s.box = u.box /\ s.stale = u.stale
    BY <1>1, <2>1 DEF Shape
  <2>3. Branches(s) = Branches(u)
    BY <2>2 DEF Branches
  <2>4. QED
    BY ONLY <2>2, <2>3, Bounds(u) DEF Bounds, BoundBut
<1>3. CASE u.root # NoNode
  <2>1. PICK sibling \in FindBestSibling(u, u.box[leaf]) : s = AttachedBeside(u, leaf, sibling)
    BY <1>3 DEF InsertLeaf
  <2>2. sibling \in Nodes(u) /\ sibling # leaf
    BY <1>3, <2>1, SiblingAmong
  <2>3. PICK branch, above : branch = FreeSlot(u) /\ above = u.parent[sibling]
    OBVIOUS
  <2>4. PICK w : w = Relinked(Attached(u, leaf, sibling), u.parent[sibling], sibling, branch)
    OBVIOUS
  <2>5. Shape(w) /\ AttachIs(u, leaf, sibling, branch, w)
    BY <2>2, <2>3, <2>4, AttachedShape
  <2>6. Tree(w, {})
    BY <2>2, <2>5, AttachedTree
  <2>7. branch \in Branches(w)
    BY <2>5 DEF AttachIs
  <2>8. PICK l : l = Line(w, branch)
    OBVIOUS
  <2>9. s = RefittedLine(w, l)
    BY <2>1, <2>3, <2>4, <2>8, Zenon DEF AttachedBeside, RefittedLine, Attached
  <2>10. l \in Seq(Branches(w))
    BY <2>6, <2>7, <2>8, LineOfBranch
  <2>11. branch \in Nodes(w)
    BY <2>5 DEF AttachIs
  <2>12. IsLine(w, branch, l)
    BY <2>6, <2>8, <2>11, LineIs
  <2>13. OnLine(w, l, 0)
    BY <2>12 DEF IsLine, OnLine
  <2>14. above # NoNode => above \in Rest(l, 0)
    <3>1. w.parent[branch] = above
      BY <2>3, <2>5 DEF AttachIs
    <3>2. PICK z : z = Len(l)
      OBVIOUS
    <3>3. z \in Nat /\ z >= 1 /\ l[1] = branch /\ w.parent[l[z]] = NoNode
      BY <2>12, <3>2 DEF IsLine
    <3>4. above # NoNode => 1 \in 1..(z - 1) /\ 2 \in 1..z
      BY ONLY <3>1, <3>3
    <3>5. above # NoNode => l[2] = above
      <4>1. \A i \in 1..(z - 1) : l[i + 1] = w.parent[l[i]]
        BY <2>12, <3>2 DEF IsLine
      <4>2. 1 + 1 = 2
        OBVIOUS
      <4>3. QED
        BY ONLY <3>1, <3>3, <3>4, <4>1, <4>2
    <3>6. Rest(l, 0) = {l[j] : j \in 1..z}
      BY <3>2 DEF Rest
    <3>7. QED
      BY ONLY <3>4, <3>5, <3>6
  <2>15. BoundBut(w, Rest(l, 0))
    <3>1. /\ branch \notin Nodes(u) /\ Branches(w) = Branches(u) \cup {branch}
          /\ w.stale = u.stale
          /\ w.kids[branch][1] = sibling /\ w.kids[branch][2] = leaf
          /\ \A n \in Branches(u) : n # above => w.kids[n] = u.kids[n]
          /\ w.box[branch] = Union(u.box[leaf], u.box[sibling])
          /\ \A n \in Nodes(u) : w.box[n] = u.box[n]
      BY <2>3, <2>5 DEF AttachIs
    <3>2. ASSUME NEW n \in Branches(w), n \notin w.stale, n \notin Rest(l, 0), NEW k \in {1, 2}
          PROVE  Encloses(w.box[n], w.box[w.kids[n][k]])
      <4>1. CASE n = branch
        <5>1. u.box[leaf] \in Box /\ u.box[sibling] \in Box /\ leaf \in Nodes(u)
          BY <1>1, <2>2 DEF Shape
        <5>2. Encloses(w.box[branch], u.box[leaf]) /\ Encloses(w.box[branch], u.box[sibling])
          BY <3>1, <5>1, UnionIs
        <5>3. w.kids[n][k] = sibling \/ w.kids[n][k] = leaf
          BY ONLY <3>1, <4>1, k \in {1, 2}
        <5>4. QED
          BY ONLY <2>2, <3>1, <4>1, <5>1, <5>2, <5>3
      <4>2. CASE n # branch
        <5>1. n \in Branches(u)
          BY <3>1, <4>2
        <5>2. n # NoNode /\ n \in Nodes(u) /\ u.kids[n][k] \in Nodes(u)
          BY <5>1, KidsOf
        <5>3. n # above
          BY ONLY <2>14, <3>2, <5>2
        <5>4. Encloses(u.box[n], u.box[u.kids[n][k]])
          BY ONLY <3>1, <3>2, <5>1, Bounds(u), k \in {1, 2} DEF Bounds, BoundBut
        <5>5. QED
          BY ONLY <3>1, <5>1, <5>2, <5>3, <5>4
      <4>3. QED
        BY <4>1, <4>2
    <3>3. QED
      BY ONLY <3>2 DEF BoundBut
  <2>16. BoundBut(s, {})
    BY <2>6, <2>9, <2>10, <2>13, <2>15, LineBound
  <2>17. QED
    BY <2>16 DEF Bounds
<1>4. QED
  BY <1>2, <1>3

LEMMA InsertedBound ==
  ASSUME NEW t, Tree(t, {}), Bounds(t), NEW aabb \in Box, NEW value \in Collider,
         NEW s \in Inserted(t, aabb, value)
  PROVE  Bounds(s)
<1>0. PICK leaf, u : leaf = FreeSlot(t) /\ u = Allocated(t, aabb, value)
  OBVIOUS
<1>1. AllocIs(t, leaf, aabb, value, u) /\ Tree(u, {leaf})
  BY <1>0, AllocTree
<1>2. s \in InsertLeaf(u, leaf)
  BY <1>0, Zenon DEF Inserted, Allocated
<1>3. leaf \in Leaves(u)
  BY <1>1 DEF AllocIs
<1>4. Bounds(u)
  <2>1. /\ Branches(u) = Branches(t) /\ u.kids = t.kids /\ u.stale = t.stale
        /\ \A n \in Nodes(t) : u.box[n] = t.box[n]
    BY <1>1 DEF AllocIs
  <2>2. \A n \in Branches(t) : \A k \in {1, 2} : t.kids[n][k] \in Nodes(t) /\ n \in Nodes(t)
    BY KidsOf
  <2>3. QED
    BY ONLY <2>1, <2>2, Bounds(t) DEF Bounds, BoundBut
<1>5. QED
  BY <1>1, <1>2, <1>3, <1>4, InsertLeafBound

LEMMA OrphanBound ==
  ASSUME NEW t, Tree(t, {}), Bounds(t), NEW leaf \in Leaves(t)
  PROVE  Bounds(OrphanLeaf(t, leaf))
<1>0. PICK s : s = OrphanLeaf(t, leaf)
  OBVIOUS
<1>1. Shape(t) /\ Linked(t, {})
  BY DEF Tree
<1>2. CASE t.parent[leaf] = NoNode
  <2>1. s = [t EXCEPT !.root = NoNode]
    BY <1>0, <1>2 DEF OrphanLeaf
  <2>2. s.kids = t.kids /\ s.box = t.box /\ s.stale = t.stale
    BY <1>1, <2>1 DEF Shape
  <2>3. Branches(s) = Branches(t)
    BY <2>2 DEF Branches
  <2>4. QED
    BY ONLY <1>0, <2>2, <2>3, Bounds(t) DEF Bounds, BoundBut
<1>3. CASE t.parent[leaf] # NoNode
  <2>1. PICK parent, above : parent = t.parent[leaf] /\ above = t.parent[parent]
    OBVIOUS
  <2>2. PICK sibling : sibling = (CHOOSE n \in Range(t.kids[parent]) : n # leaf)
    OBVIOUS
  <2>3. s = Relinked(Orphaned(t, leaf, sibling), above, parent, sibling)
    BY <1>0, <1>3, <2>1, <2>2, Zenon DEF OrphanLeaf, Orphaned
  <2>4. parent = t.parent[leaf] /\ parent # NoNode /\ above = t.parent[parent]
    BY <1>3, <2>1
  <2>5. Shape(s) /\ OrphanIs(t, leaf, parent, above, sibling, s)
    BY <2>2, <2>3, <2>4, OrphanedShape
  <2>6. /\ parent \in Branches(t) /\ above = t.parent[parent]
        /\ sibling \in Nodes(t) /\ t.parent[sibling] = parent
        /\ \A n \in Nodes(t) : t.parent[n] = parent => n = leaf \/ n = sibling
        /\ Nodes(s) = Nodes(t) \ {parent} /\ Branches(s) = Branches(t) \ {parent}
        /\ s.stale = (t.stale \ {parent}) \cup (IF parent \in t.stale THEN {above} \ {NoNode} ELSE {})
        /\ \A n \in Branches(s) : n # above => s.kids[n] = t.kids[n]
        /\ above # NoNode => \A i \in {1, 2} :
             s.kids[above][i] = IF t.kids[above][i] = parent THEN sibling ELSE t.kids[above][i]
        /\ \A n \in Nodes(s) : s.box[n] = t.box[n]
    BY <2>5 DEF OrphanIs
  <2>7. sibling # parent /\ parent \in Nodes(t)
    <3>1. PICK d : Ranked(t, d)
      BY DEF Tree
    <3>2. parent \in Nodes(t)
      BY <1>1, <2>6 DEF Shape
    <3>3. d[parent] < d[sibling] /\ d[parent] \in Nat
      BY <2>4, <2>6, <3>1, <3>2 DEF Ranked
    <3>4. QED
      BY ONLY <3>2, <3>3
  <2>8. \E c \in {1, 2} : t.kids[parent][c] = sibling
    <3>1. t.kids[parent][1] = sibling \/ t.kids[parent][2] = sibling
      BY <1>1, <2>4, <2>6 DEF Linked
    <3>2. QED
      BY ONLY <3>1
  <2>9. ASSUME NEW n \in Branches(s), n \notin s.stale, NEW k \in {1, 2}
        PROVE  Encloses(s.box[n], s.box[s.kids[n][k]])
    <3>0. PICK c : c = t.kids[n][k]
      OBVIOUS
    <3>1. n \in Branches(t) /\ n # parent
      BY ONLY <2>6, n \in Branches(s)
    <3>2. n \in Nodes(t) /\ n # NoNode /\ c \in Nodes(t) /\ t.parent[c] = n
      BY <3>0, <3>1, KidsOf
    <3>3. n \notin t.stale
      BY ONLY <2>6, <2>9, <3>1
    <3>4. Encloses(t.box[n], t.box[c])
      BY ONLY <3>0, <3>1, <3>3, Bounds(t), k \in {1, 2} DEF Bounds, BoundBut
    <3>5. n \in Nodes(s) /\ s.box[n] = t.box[n]
      BY ONLY <2>6, <3>1, <3>2
    <3>6. CASE c # parent
      <4>1. s.kids[n][k] = c
        BY ONLY <2>6, <3>0, <3>2, <3>6, n \in Branches(s), k \in {1, 2}
      <4>2. s.box[c] = t.box[c]
        BY ONLY <2>6, <3>2, <3>6
      <4>3. QED
        BY ONLY <3>4, <3>5, <4>1, <4>2
    <3>7. CASE c = parent
      <4>1. n = above /\ above # NoNode
        BY ONLY <2>6, <3>2, <3>7
      <4>2. s.kids[n][k] = sibling
        BY ONLY <2>6, <3>0, <3>7, <4>1, k \in {1, 2}
      <4>3. parent \notin t.stale
        BY ONLY <2>6, <2>9, <4>1
      <4>4. Encloses(t.box[parent], t.box[sibling])
        BY ONLY <2>6, <2>8, <4>3, Bounds(t) DEF Bounds, BoundBut
      <4>5. t.box[n] \in Box /\ t.box[parent] \in Box /\ t.box[sibling] \in Box
        BY <1>1, <2>6, <2>7, <3>2 DEF Shape
      <4>6. Encloses(t.box[n], t.box[sibling])
        BY <3>4, <3>7, <4>4, <4>5, EnclosesTransitive
      <4>7. s.box[sibling] = t.box[sibling]
        BY ONLY <2>6, <2>7
      <4>8. QED
        BY ONLY <3>5, <4>2, <4>6, <4>7
    <3>8. QED
      BY <3>6, <3>7
  <2>10. Bounds(s)
    BY ONLY <2>9 DEF Bounds, BoundBut
  <2>11. QED
    BY <1>0, <2>10
<1>4. QED
  BY <1>2, <1>3

LEMMA RemovedBound ==
  ASSUME NEW t, Tree(t, {}), Bounds(t), NEW leaf \in Leaves(t)
  PROVE  Bounds(Removed(t, leaf))
<1>0. PICK o, s : o = OrphanLeaf(t, leaf) /\ s = Removed(t, leaf)
  OBVIOUS
<1>1. Tree(o, {leaf}) /\ Bounds(o)
  BY <1>0, OrphanLeafIs, OrphanBound
<1>2. s.kids = o.kids /\ s.stale = o.stale /\ s.box = Drop(o.box, leaf)
  BY <1>0, <1>1 DEF Removed, Tree, Shape
<1>3. o.box \in [Nodes(o) -> Box] /\ leaf \notin Branches(o) /\ o.parent[leaf] = NoNode
  BY <1>1 DEF Tree, Shape, Linked
<1>4. DropOn(Nodes(o), Box, o.box, leaf, s.box)
  BY ONLY <1>2, <1>3, DropIs
<1>5. \A n \in Branches(o) : \A k \in {1, 2} :
        n \in Nodes(o) \ {leaf} /\ o.kids[n][k] \in Nodes(o) \ {leaf}
  <2>1. \A n \in Branches(o) : \A k \in {1, 2} :
          /\ o.kids[n][k] \in Nodes(o) /\ o.parent[o.kids[n][k]] = n /\ n \in Nodes(o) /\ n # NoNode
    BY <1>1, KidsOf
  <2>2. QED
    BY ONLY <1>3, <2>1
<1>6. Branches(s) = Branches(o)
  BY <1>2 DEF Branches
<1>7. Bounds(s)
  BY ONLY <1>1, <1>2, <1>4, <1>5, <1>6 DEF Bounds, BoundBut, DropOn
<1>8. QED
  BY <1>0, <1>7

LEMMA UpdatedBound ==
  ASSUME NEW t, Tree(t, {}), Bounds(t), NEW leaf \in Leaves(t), NEW aabb \in Box,
         NEW s \in UpdatedAabb(t, leaf, aabb)
  PROVE  Bounds(s)
<1>0. PICK o, u : o = OrphanLeaf(t, leaf) /\ u = [o EXCEPT !.box[leaf] = aabb]
  OBVIOUS
<1>1. Tree(o, {leaf}) /\ Bounds(o) /\ leaf \in Leaves(o)
  BY <1>0, OrphanLeafIs, OrphanBound DEF SameLeaves
<1>2. leaf \in Leaves(u) /\ Tree(u, {leaf})
  BY <1>0, <1>1, ReboxedTree
<1>3. /\ u.kids = o.kids /\ u.stale = o.stale /\ u.box = [o.box EXCEPT ![leaf] = aabb]
  BY <1>0, <1>1 DEF Tree, Shape
<1>4. o.box \in [Nodes(o) -> Box] /\ leaf \notin Branches(o) /\ o.parent[leaf] = NoNode
  BY <1>1 DEF Tree, Shape, Linked
<1>5. \A n \in Branches(o) : \A k \in {1, 2} :
        n \in Nodes(o) \ {leaf} /\ o.kids[n][k] \in Nodes(o) \ {leaf}
  <2>1. \A n \in Branches(o) : \A k \in {1, 2} :
          /\ o.kids[n][k] \in Nodes(o) /\ o.parent[o.kids[n][k]] = n /\ n \in Nodes(o) /\ n # NoNode
    BY <1>1, KidsOf
  <2>2. QED
    BY ONLY <1>4, <2>1
<1>6. Branches(u) = Branches(o)
  BY <1>3 DEF Branches
<1>7. \A n \in Nodes(o) \ {leaf} : u.box[n] = o.box[n]
  BY ONLY <1>3, <1>4
<1>8. Bounds(u)
  BY ONLY <1>1, <1>3, <1>5, <1>6, <1>7 DEF Bounds, BoundBut
<1>9. s \in InsertLeaf(u, leaf)
  BY <1>0, Zenon DEF UpdatedAabb
<1>10. QED
  BY <1>2, <1>8, <1>9, InsertLeafBound

----------------------------------------------------------------------------
(* Casts *)

Proper(a) == a \in Box /\ a.min[1] <= a.max[1] /\ a.min[2] <= a.max[2]

\* A result is a fraction of the move, at most all of it, and a normal.
ResultIs(r) ==
  /\ r.num \in Nat /\ r.den \in Nat \ {0} /\ r.num <= r.den
  /\ r.normal[1] \in Int /\ r.normal[2] \in Int

LEMMA VectorIs ==
  /\ \A v \in Vector : v[1] \in Int /\ v[2] \in Int
  /\ \A x, y \in Int : <<x, y>> \in Vector /\ <<x, y>>[1] = x /\ <<x, y>>[2] = y
BY DEF Vector

LEMMA OnAxisIs ==
  ASSUME NEW axis \in 1..2, NEW mag \in Int
  PROVE  /\ OnAxis(axis, mag)[1] \in Int /\ OnAxis(axis, mag)[2] \in Int
         /\ OnAxis(axis, mag)[axis] = mag /\ OnAxis(axis, mag)[3 - axis] = 0
BY DEF OnAxis

LEMMA PlusIs ==
  ASSUME NEW u, NEW v, u[1] \in Int, u[2] \in Int, v[1] \in Int, v[2] \in Int
  PROVE  Plus(u, v) \in Vector
BY DEF Plus, Vector

LEMMA ClearIs == ResultIs(Clear) /\ Clear.num = 1 /\ Clear.den = 1
BY DEF Clear, ResultIs, ZERO

LEMMA SoonerIs ==
  ASSUME NEW a, NEW b, ResultIs(a), ResultIs(b)
  PROVE  ResultIs(Sooner(a, b))
BY DEF Sooner

LEMMA PaddingType ==
  ASSUME NEW start \in Box, NEW delta, delta[1] \in Int, delta[2] \in Int,
         NEW aabb \in Box, NEW axis \in 1..2, NEW sign \in {-1, 1}
  PROVE  ResultIs(HullCastPadding(start, delta, aabb, axis, sign))
<1> DEFINE den == sign * delta[axis]
           toFlush == sign * (Corner(aabb, axis, -sign) - Corner(start, axis, sign))
           num == High(toFlush, 0)
           normal == OnAxis(axis, -sign)
<1>1. /\ start.min[axis] \in Int /\ start.max[axis] \in Int
      /\ aabb.min[axis] \in Int /\ aabb.max[axis] \in Int
  BY BoxIs
<1>2. Corner(aabb, axis, -sign) \in Int /\ Corner(start, axis, sign) \in Int
  BY <1>1 DEF Corner
<1>3. toFlush \in Int /\ den \in Int
  BY <1>2
<1>4. num \in Nat
  BY <1>3 DEF High
<1>5. normal[1] \in Int /\ normal[2] \in Int
  BY OnAxisIs
<1>6. \/ HullCastPadding(start, delta, aabb, axis, sign) = Clear
      \/ /\ ~(den <= 0) /\ ~(num > den)
         /\ HullCastPadding(start, delta, aabb, axis, sign) = Obstructed(num, den, normal)
  BY DEF HullCastPadding
<1> HIDE DEF den, toFlush, num, normal
<1>7. ~(den <= 0) /\ ~(num > den) => ResultIs(Obstructed(num, den, normal))
  BY <1>3, <1>4, <1>5 DEF Obstructed, ResultIs
<1>8. QED
  BY <1>6, <1>7, ClearIs

LEMMA PaddingBox ==
  ASSUME NEW o \in Box, NEW axis \in 1..2, NEW mag \in Int
  PROVE  TranslateExtend(o, OnAxis(axis, mag)) \in Box
<1>1. OnAxis(axis, mag)[1] \in Int /\ OnAxis(axis, mag)[2] \in Int
  BY OnAxisIs
<1>2. Translated(o, OnAxis(axis, mag)) \in Box
  BY <1>1, BoxIs, PlusIs DEF Translated, Box
<1>3. QED
  BY <1>2, UnionIs DEF TranslateExtend

LEMMA HullCastIs ==
  ASSUME NEW start \in Box, NEW delta, delta[1] \in Int, delta[2] \in Int, NEW o \in Box
  PROVE  ResultIs(HullCast(start, delta, o))
<1> DEFINE sign(axis) == OfBiased(delta[axis])
           padding(axis) == TranslateExtend(o, OnAxis(axis, -sign(axis) * SafetyThreshold))
           cast(axis) == HullCastPadding(start, delta, padding(axis), axis, sign(axis))
           first == Sooner(Clear, cast(1))
<1>1. \A axis \in 1..2 : sign(axis) \in {-1, 1}
  BY DEF OfBiased
<1>2. \A axis \in 1..2 : -sign(axis) * SafetyThreshold \in Int
  BY <1>1, GeometryAssumption
<1> HIDE DEF sign
<1>3. \A axis \in 1..2 : padding(axis) \in Box
  BY <1>2, PaddingBox
<1> HIDE DEF padding
<1>4. \A axis \in 1..2 : ResultIs(cast(axis))
  BY <1>1, <1>3, PaddingType
<1>5. ResultIs(cast(1)) /\ ResultIs(cast(2))
  BY <1>4
<1> HIDE DEF cast
<1>6. ResultIs(first)
  BY <1>5, ClearIs, SoonerIs
<1>7. ResultIs(Sooner(first, cast(2)))
  BY <1>5, <1>6, SoonerIs
<1>8. HullCast(start, delta, o) \in {first, Sooner(first, cast(2))}
  BY DEF HullCast, AXES, sign, padding, cast
<1> HIDE DEF first
<1>9. QED
  BY <1>6, <1>7, <1>8

LEMMA SumOfBox ==
  ASSUME NEW a \in Box, NEW u, u[1] \in Int, u[2] \in Int, NEW v, v[1] \in Int, v[2] \in Int
  PROVE  [min |-> Plus(a.min, u), max |-> Plus(a.max, v)] \in Box
BY BoxIs, PlusIs DEF Box

LEMMA CandidateProper ==
  ASSUME NEW a, Proper(a), NEW delta, delta[1] \in Int, delta[2] \in Int
  PROVE  Proper(CandidateAabb(a, delta))
<1>0. PICK s, b, u, c : /\ s = SafetyThreshold /\ b = Translated(a, delta)
                        /\ u = Union(a, b) /\ c = CandidateAabb(a, delta)
  OBVIOUS
<1>1. s \in Nat /\ a \in Box
  BY <1>0, GeometryAssumption DEF Proper
<1>2. b \in Box
  BY <1>0, <1>1, SumOfBox DEF Translated
<1>3. u \in Box /\ Encloses(u, a)
  BY <1>0, <1>1, <1>2, UnionIs
<1>4. c = [min |-> Plus(u.min, <<-s, -s>>), max |-> Plus(u.max, <<s, s>>)]
  BY <1>0 DEF CandidateAabb, TranslateExtend, Grow
<1>5. c \in Box
  <2>1. <<-s, -s>>[1] \in Int /\ <<-s, -s>>[2] \in Int /\ <<s, s>>[1] \in Int /\ <<s, s>>[2] \in Int
    BY <1>1
  <2>2. QED
    BY <1>3, <1>4, <2>1, SumOfBox
<1>6. \A k \in 1..2 : c.min[k] = u.min[k] - s /\ c.max[k] = u.max[k] + s
  BY <1>1, <1>3, <1>4, BoxIs DEF Plus
<1>7. \A k \in 1..2 : u.min[k] <= a.min[k] /\ a.max[k] <= u.max[k] /\ a.min[k] <= a.max[k]
  BY <1>3 DEF Encloses, Proper
<1>8. \A k \in 1..2 : /\ u.min[k] \in Int /\ u.max[k] \in Int
                      /\ a.min[k] \in Int /\ a.max[k] \in Int
  BY <1>1, <1>3, BoxIs
<1>9. \A k \in 1..2 : c.min[k] <= c.max[k]
  BY <1>1, <1>6, <1>7, <1>8
<1>10. QED
  BY <1>0, <1>5, <1>9 DEF Proper

LEMMA DivMonotone ==
  ASSUME NEW a \in Int, NEW b \in Int, NEW e \in Nat \ {0}, a <= b
  PROVE  a \div e <= b \div e
<1>0. PICK q, r, s, t : q = a \div e /\ r = b \div e /\ s = a % e /\ t = b % e
  OBVIOUS
<1>1. /\ q \in Int /\ r \in Int /\ s \in 0..(e - 1) /\ t \in 0..(e - 1)
      /\ a = e * q + s /\ b = e * r + t
  BY <1>0, DivMod
<1>2. SUFFICES ASSUME r + 1 <= q PROVE FALSE
  BY <1>0, <1>1
<1>3. e * (r + 1) <= e * q /\ e * (r + 1) = e * r + e
  BY <1>1, <1>2
<1>4. e * q \in Int /\ e * r \in Int
  BY <1>1
<1>5. QED
  BY ONLY <1>1, <1>3, <1>4, a <= b, e \in Nat \ {0}, a \in Int, b \in Int

LEMMA TileBoxIs ==
  ASSUME NEW p \in Vector
  PROVE  TileBox(p) \in Box
<1>1. p[1] \in Int /\ p[2] \in Int
  BY VectorIs
<1>2. /\ p[1] * TileSize \in Int /\ p[2] * TileSize \in Int
      /\ (p[1] + 1) * TileSize \in Int /\ (p[2] + 1) * TileSize \in Int
  BY <1>1, ClientWorldAssumption
<1>3. QED
  BY <1>2, VectorIs DEF TileBox, Box

\* The tiles of a box, in their order.
TilesIs(list, n) ==
  n \in Nat /\ DOMAIN list = 1..n /\ \A k \in 1..n : list[k] \in Vector

LEMMA TilesBelowIs ==
  ASSUME NEW a, Proper(a)
  PROVE  \E n : TilesIs(TilesBelow(a), n)
<1>0. PICK lo, hi : lo = TileOf(a.min) /\ hi = TileOf(a.max)
  OBVIOUS
<1>1. /\ a.min[1] \in Int /\ a.min[2] \in Int /\ a.max[1] \in Int /\ a.max[2] \in Int
  BY BoxIs DEF Proper
<1>2. /\ lo[1] = a.min[1] \div TileSize /\ lo[2] = a.min[2] \div TileSize
      /\ hi[1] = a.max[1] \div TileSize /\ hi[2] = a.max[2] \div TileSize
  BY <1>0 DEF TileOf
<1>3. /\ lo[1] \in Int /\ lo[2] \in Int /\ hi[1] \in Int /\ hi[2] \in Int
      /\ lo[1] <= hi[1] /\ lo[2] <= hi[2]
  <2>1. TileSize \in Nat \ {0}
    BY ClientWorldAssumption
  <2>2. \A x \in Int : x \div TileSize \in Int
    BY <2>1, DivMod
  <2>3. \A x, y \in Int : x <= y => x \div TileSize <= y \div TileSize
    BY <2>1, DivMonotone
  <2>4. a.min[1] <= a.max[1] /\ a.min[2] <= a.max[2]
    BY DEF Proper
  <2>5. QED
    BY ONLY <1>1, <1>2, <2>2, <2>3, <2>4
<1>4. PICK w, h : w = hi[1] - lo[1] + 1 /\ h = hi[2] - lo[2] + 1
  OBVIOUS
<1>5. w \in Nat \ {0} /\ h \in Nat \ {0} /\ w * h \in Nat
  BY <1>3, <1>4
<1>6. PICK n : n = w * h
  OBVIOUS
<1>7. PICK list : list = TilesBelow(a)
  OBVIOUS
<1>8. list = [k \in 1..n |-> <<lo[1] + ((k - 1) % w), lo[2] + ((k - 1) \div w)>>]
  BY <1>0, <1>4, <1>6, <1>7 DEF TilesBelow
<1>9. ASSUME NEW k \in 1..n PROVE list[k] \in Vector
  <2>1. (k - 1) % w \in Int /\ (k - 1) \div w \in Int
    BY <1>5, DivMod
  <2>2. lo[1] + ((k - 1) % w) \in Int /\ lo[2] + ((k - 1) \div w) \in Int
    BY <1>3, <2>1
  <2>3. QED
    BY <1>8, <2>2, VectorIs
<1>10. TilesIs(list, n)
  BY <1>5, <1>6, <1>8, <1>9 DEF TilesIs
<1>11. QED
  BY <1>7, <1>10

\* What a cast makes of the map, and its result.
CastIs(m, acc) ==
  /\ MapSound(acc.map) /\ \A q \in Vector : Content(acc.map, q) = Content(m, q)
  /\ ResultIs(acc.result)

LEMMA VisitIs ==
  ASSUME NEW m, NEW acc, CastIs(m, acc), NEW start \in Box,
         NEW delta, delta[1] \in Int, delta[2] \in Int, NEW p \in Vector
  PROVE  CastIs(m, Visit(start, delta, acc, p))
<1>0. PICK v : v = Visit(start, delta, acc, p)
  OBVIOUS
<1>1. /\ v.map = Load(acc.map, p)
      /\ v.result = IF Content(acc.map, p) = Air THEN acc.result
                    ELSE Sooner(acc.result, HullCast(start, delta, TileBox(p)))
  BY <1>0 DEF Visit
<1>2. MapSound(v.map) /\ \A q \in Vector : Content(v.map, q) = Content(acc.map, q)
  BY <1>1, LoadUnnoticed DEF CastIs
<1>3. ResultIs(HullCast(start, delta, TileBox(p)))
  BY TileBoxIs, HullCastIs
<1>4. ResultIs(v.result)
  BY <1>1, <1>3, SoonerIs DEF CastIs
<1>5. QED
  BY <1>0, <1>2, <1>4 DEF CastIs

LEMMA CastTilesIs ==
  ASSUME NEW m, MapSound(m), NEW start, Proper(start),
         NEW delta, delta[1] \in Int, delta[2] \in Int
  PROVE  CastIs(m, CastTiles(m, start, delta))
<1>0. PICK list : list = TilesBelow(CandidateAabb(start, delta))
  OBVIOUS
<1>1. PICK n : TilesIs(list, n)
  BY <1>0, CandidateProper, TilesBelowIs
<1>2. n \in Nat /\ DOMAIN list = 1..n /\ \A k \in 1..n : list[k] \in Vector
  BY <1>1 DEF TilesIs
<1>3. PICK h : /\ h[0] = [map |-> m, result |-> Clear]
               /\ \A k \in 1..n : h[k] = Visit(start, delta, h[k - 1], list[k])
               /\ CastTiles(m, start, delta) = h[n]
  BY <1>0, <1>2, CastStages
<1> DEFINE P == {k \in Nat : k <= n => CastIs(m, h[k])}
<1>4. 0 \in P
  BY <1>3, ClearIs DEF CastIs
<1>5. \A k \in Nat : k \in P => k + 1 \in P
  <2> SUFFICES ASSUME NEW k \in Nat, k \in P, k + 1 <= n PROVE CastIs(m, h[k + 1])
    OBVIOUS
  <2>1. k + 1 \in 1..n /\ (k + 1) - 1 = k /\ k <= n
    BY <1>2
  <2>2. CastIs(m, h[k])
    BY <2>1
  <2>3. h[k + 1] = Visit(start, delta, h[k], list[k + 1]) /\ list[k + 1] \in Vector
    BY <1>2, <1>3, <2>1
  <2>4. start \in Box
    BY DEF Proper
  <2>5. QED
    BY <2>2, <2>3, <2>4, VisitIs
<1> HIDE DEF P
<1>6. Nat \subseteq P
  BY ONLY <1>4, <1>5, NaturalsIn
<1>7. n \in P
  BY <1>2, <1>6
<1>8. CastIs(m, h[n])
  BY <1>2, <1>7 DEF P
<1>9. QED
  BY <1>3, <1>8

----------------------------------------------------------------------------
(* The invariant *)

\* Everything is of its type, but for the tree and the map.
Typed ==
  /\ phase \in Phase /\ laid \in 0..Len(LevelTile)
  /\ player \in [Player -> [life : {"absent", "alive", "condemned", "gone"},
                            kind : {"none", "owner", "puppet"}, pos : Vector]]
  /\ listed \in [Player -> {"none", "following", "moving"}]
  /\ todo \subseteq Player
  /\ slide \in [who : SUBSET Player, steps : Int, delta : Vector]

Colliders ==
  /\ collider \in [Collider -> [bus : BOOLEAN, idx : Nat, aabb : Box]]
  /\ \A p \in Player : Proper(collider[p].aabb)

\* The bus and its tree.
HandlesOf(t, col) ==
  /\ \A c \in Collider : col[c].bus =>
       col[c].idx \in Leaves(t) /\ t.value[col[c].idx] = c /\ t.box[col[c].idx] = col[c].aabb
  /\ \A leaf \in Leaves(t) : col[t.value[leaf]].bus /\ col[t.value[leaf]].idx = leaf
BusSoundOf(t, col) == Tree(t, {}) /\ Bounds(t) /\ HandlesOf(t, col)
BusSound == BusSoundOf(tree, collider)

\* Who is in the bus: the living, and the condemned until the flush.
BusOf(p) ==
  /\ Life(p) = "alive" => collider[p].bus
  /\ Life(p) = "condemned" /\ phase # "flush" => collider[p].bus
  /\ Life(p) \in {"absent", "gone"} => ~collider[p].bus

\* What a query lists is there.
ListedIs(p) ==
  /\ phase = "level" => listed[p] = "none"
  /\ phase \in {"rpc", "kinematics", "colliders"} /\ listed[p] # "none" =>
       Life(p) \in {"alive", "condemned"}

\* Whom the last system of the frame has reached has been followed.
FollowedIs(p) ==
  /\ phase = "colliders" /\ p \in todo => listed[p] # "none"
  /\ phase = "colliders" /\ listed[p] # "none" /\ p \notin todo => collider[p].aabb = Body(p)
  /\ phase = "flush" /\ listed[p] # "none" => collider[p].aabb = Body(p)

SlideIs == slide.who # {} => phase = "kinematics"

Inv ==
  /\ Typed /\ Colliders /\ BusSound /\ MapSound(map) /\ SlideIs
  /\ \A p \in Player : BusOf(p) /\ ListedIs(p) /\ FollowedIs(p)

----------------------------------------------------------------------------
(* The level's colliders *)

LEMMA LevelIs ==
  /\ LevelColliders \in Seq(Collider)
  /\ \A i \in DOMAIN LevelColliders :
       LevelColliders[i] \in Collider \ Player /\ LevelBox(LevelColliders[i]) \in Box
<1>0. PICK w, g, l : w = [i \in DOMAIN Wall |-> i] /\ g = <<Ground>> /\ l = LevelColliders
  OBVIOUS
<1>1. Wall \in Seq(Box) /\ DOMAIN Wall = 1..Len(Wall) /\ Len(Wall) \in Nat
  BY ClientWorldAssumption
<1>2. PICK S : S = {Ground} \cup DOMAIN Wall
  OBVIOUS
<1>3. w \in Seq(S) /\ Len(w) = Len(Wall) /\ \A i \in 1..Len(Wall) : w[i] = i
  BY <1>0, <1>1, <1>2
<1>4. g \in Seq(S) /\ Len(g) = 1 /\ g[1] = Ground
  BY <1>0, <1>2
<1>5. l = g \o w
  BY <1>0 DEF LevelColliders
<1>6. l \in Seq(S)
  BY ONLY <1>3, <1>4, <1>5, ConcatProperties
<1>7. DOMAIN l = 1..Len(l)
  BY <1>6
<1>8. \A i \in DOMAIN l : l[i] \in S /\ l[i] \in Range(l)
  <2>1. \A i \in 1..Len(l) : l[i] \in S
    BY ONLY <1>6
  <2>2. \A i \in DOMAIN l : l[i] \in Range(l)
    BY DEF Range
  <2>3. QED
    BY ONLY <1>7, <2>1, <2>2
<1>9. Range(l) \subseteq Collider
  BY <1>0 DEF Collider
<1>10. S \cap Player = {}
  BY <1>2, ClientWorldAssumption
<1>11. \A c \in S : LevelBox(c) \in Box
  <2>1. EVERYWHERE \in Box
    BY GeometryAssumption DEF EVERYWHERE, Box, Vector
  <2>2. \A i \in DOMAIN Wall : Wall[i] \in Box
    BY <1>1
  <2>3. QED
    BY <1>2, <2>1, <2>2 DEF LevelBox
<1>12. l \in Seq(Collider)
  <2>1. PICK n : n = Len(l) /\ n \in Nat
    BY <1>6
  <2>2. l \in [1..n -> Collider]
    BY <1>6, <1>7, <1>8, <1>9, <2>1
  <2>3. QED
    BY ONLY <2>1, <2>2
<1>13. QED
  BY <1>0, <1>8, <1>9, <1>10, <1>11, <1>12

----------------------------------------------------------------------------
(* The casts of a player *)

LEMMA FoundAre ==
  ASSUME BusSound, NEW aabb
  PROVE  Found(aabb) \subseteq {c \in Collider : collider[c].bus}
<1>1. tree.value \in [Leaves(tree) -> Collider]
  BY DEF BusSound, BusSoundOf, Tree, Shape
<1>2. \A leaf \in Leaves(tree) : collider[tree.value[leaf]].bus
  BY DEF BusSound, BusSoundOf, HandlesOf
<1>3. QED
  BY <1>1, <1>2 DEF Found, Reached

LEMMA CastAgainstIs ==
  ASSUME Colliders, MapSound(map), NEW c \in Collider, NEW start, Proper(start), NEW delta \in Vector
  PROVE  ResultIs(CastAgainst(c, start, delta))
<1>1. delta[1] \in Int /\ delta[2] \in Int /\ start \in Box
  BY VectorIs DEF Proper
<1>2. ResultIs(CastTiles(map, start, delta).result)
  BY <1>1, CastTilesIs DEF CastIs
<1>3. collider[c].aabb \in Box
  BY DEF Colliders
<1>4. ResultIs(Sooner(Clear, HullCast(start, delta, collider[c].aabb)))
  BY <1>1, <1>3, ClearIs, SoonerIs, HullCastIs
<1>5. QED
  BY <1>2, <1>4 DEF CastAgainst

LEMMA CastResultsAre ==
  ASSUME Colliders, BusSound, MapSound(map), NEW p \in Player, NEW delta \in Vector
  PROVE  \A r \in CastResults(p, delta) : ResultIs(r)
<1>1. Candidates(p, delta) \subseteq Collider
  BY FoundAre DEF Candidates
<1>2. Proper(collider[p].aabb)
  BY DEF Colliders
<1>3. \A c \in Candidates(p, delta) : ResultIs(CastAgainst(c, collider[p].aabb, delta))
  BY <1>1, <1>2, CastAgainstIs
<1>4. CastResults(p, delta) \subseteq
        {Clear} \cup {CastAgainst(c, collider[p].aabb, delta) : c \in Candidates(p, delta)}
  BY DEF CastResults
<1>5. QED
  BY <1>3, <1>4, ClearIs

LEMMA MapAfterCastIs ==
  ASSUME Colliders, MapSound(map), NEW p \in Player, NEW delta \in Vector
  PROVE  /\ MapSound(MapAfterCast(p, delta))
         /\ \A q \in Vector : Content(MapAfterCast(p, delta), q) = Content(map, q)
<1>1. delta[1] \in Int /\ delta[2] \in Int /\ Proper(collider[p].aabb)
  BY VectorIs DEF Colliders
<1>2. CastIs(map, CastTiles(map, collider[p].aabb, delta))
  BY <1>1, CastTilesIs
<1>3. QED
  BY <1>2 DEF CastIs, MapAfterCast

LEMMA PartIs ==
  ASSUME NEW delta \in Vector, NEW num \in Int, NEW den \in Nat \ {0}
  PROVE  Part(delta, num, den) \in Vector
<1>1. delta[1] * num \in Int /\ delta[2] * num \in Int
  BY VectorIs
<1>2. (delta[1] * num) \div den \in Int /\ (delta[2] * num) \div den \in Int
  BY <1>1, DivMod
<1>3. QED
  BY <1>2, VectorIs DEF Part

LEMMA MovesAre ==
  ASSUME NEW delta \in Vector, NEW r, ResultIs(r)
  PROVE  Moved(delta, r) \in Vector /\ Slide(delta, r) \in Vector
<1>1. Moved(delta, r) \in Vector
  BY PartIs DEF Moved, ResultIs
<1>2. PICK v : v = Part(delta, r.den - r.num, r.den)
  OBVIOUS
<1>3. r.den - r.num \in Int
  BY DEF ResultIs
<1>4. v \in Vector
  BY <1>2, <1>3, PartIs DEF ResultIs
<1>5. v[1] \in Int /\ v[2] \in Int /\ r.normal[1] \in Int /\ r.normal[2] \in Int
  BY <1>4, VectorIs DEF ResultIs
<1>6. PICK k : k = High(-(v[1] * r.normal[1] + v[2] * r.normal[2]), 0)
  OBVIOUS
<1>7. k \in Int
  BY <1>5, <1>6 DEF High
<1>8. v[1] + k * r.normal[1] \in Int /\ v[2] + k * r.normal[2] \in Int
  BY <1>5, <1>7
<1>9. CancelNormal(v, r.normal) = <<v[1] + k * r.normal[1], v[2] + k * r.normal[2]>>
  BY ONLY <1>6 DEF CancelNormal
<1>10. Slide(delta, r) = CancelNormal(v, r.normal)
  BY ONLY <1>2 DEF Slide
<1>11. QED
  BY <1>1, <1>8, <1>9, <1>10, VectorIs

----------------------------------------------------------------------------
(* Registering, unregistering and following keep the bus and its tree together *)

Entry == [bus : BOOLEAN, idx : Nat, aabb : Box]

\* The bus is sound after a step that changed the entry of c.
BusStep(t, col, c, s, new) ==
  /\ BusSoundOf(s, new) /\ new \in [Collider -> Entry]
  /\ \A d \in Collider : d # c => new[d] = col[d]

RegisterOn(t, col, c, aabb, s, new) ==
  /\ ~col[c].bus /\ s \in Inserted(t, aabb, c)
  /\ new = [col EXCEPT ![c] = [bus |-> TRUE, idx |-> FreeSlot(t), aabb |-> aabb]]

UnregisterOn(t, col, c, s, new) ==
  /\ col[c].bus /\ s = Removed(t, col[c].idx)
  /\ new = [col EXCEPT ![c].bus = FALSE]

SetAabbOn(t, col, c, aabb, s, new) ==
  /\ new = [col EXCEPT ![c].aabb = aabb]
  /\ s \in UpdatedAabb(t, col[c].idx, aabb)

LEMMA RegisterIs ==
  ASSUME NEW t, NEW col \in [Collider -> Entry], BusSoundOf(t, col),
         NEW c \in Collider, NEW aabb \in Box, NEW s, NEW new, RegisterOn(t, col, c, aabb, s, new)
  PROVE  BusStep(t, col, c, s, new) /\ new[c].bus /\ new[c].aabb = aabb
<1> ~col[c].bus /\ s \in Inserted(t, aabb, c)
    /\ new = [col EXCEPT ![c] = [bus |-> TRUE, idx |-> FreeSlot(t), aabb |-> aabb]]
  BY Zenon DEF RegisterOn
<1>0. PICK leaf : leaf = FreeSlot(t)
  OBVIOUS
<1>1. Tree(t, {}) /\ Bounds(t) /\ HandlesOf(t, col)
  BY DEF BusSoundOf
<1>2. Tree(s, {}) /\ InsertIs(t, leaf, aabb, c, s) /\ Bounds(s)
  BY <1>0, <1>1, InsertedIs, InsertedBound
<1>3. leaf \in Nat /\ t.value \in [Leaves(t) -> Collider]
  BY <1>0, <1>1, FreeSlotIs DEF Tree, Shape
<1>4. /\ new \in [Collider -> Entry]
      /\ new[c].bus /\ new[c].idx = leaf /\ new[c].aabb = aabb
      /\ \A d \in Collider : d # c => new[d] = col[d]
  <2>1. [bus |-> TRUE, idx |-> leaf, aabb |-> aabb] \in Entry
    BY <1>3 DEF Entry
  <2>2. QED
    BY <1>0, <2>1
<1>5. /\ leaf \notin Leaves(t) /\ Leaves(s) = Leaves(t) \cup {leaf}
      /\ s.value[leaf] = c /\ s.box[leaf] = aabb
      /\ \A n \in Leaves(t) : s.value[n] = t.value[n] /\ s.box[n] = t.box[n]
  BY <1>2 DEF InsertIs
<1>6. HandlesOf(s, new)
  <2>1. ASSUME NEW d \in Collider, new[d].bus
        PROVE  new[d].idx \in Leaves(s) /\ s.value[new[d].idx] = d /\ s.box[new[d].idx] = new[d].aabb
    BY ONLY <1>1, <1>4, <1>5, <2>1 DEF HandlesOf
  <2>2. ASSUME NEW n \in Leaves(s)
        PROVE  new[s.value[n]].bus /\ new[s.value[n]].idx = n
    <3>1. CASE n = leaf
      BY ONLY <1>4, <1>5, <3>1
    <3>2. CASE n # leaf
      <4>1. n \in Leaves(t) /\ s.value[n] = t.value[n] /\ t.value[n] \in Collider
        BY <1>3, <1>5, <3>2
      <4>2. col[t.value[n]].bus /\ col[t.value[n]].idx = n
        BY <1>1, <4>1 DEF HandlesOf
      <4>3. t.value[n] # c
        BY <4>2
      <4>4. QED
        BY ONLY <1>4, <4>1, <4>2, <4>3
    <3>3. QED
      BY <3>1, <3>2
  <2>3. QED
    BY <2>1, <2>2 DEF HandlesOf
<1>7. QED
  BY <1>2, <1>4, <1>6 DEF BusSoundOf, BusStep

LEMMA UnregisterIs ==
  ASSUME NEW t, NEW col \in [Collider -> Entry], BusSoundOf(t, col),
         NEW c \in Collider, NEW s, NEW new, UnregisterOn(t, col, c, s, new)
  PROVE  BusStep(t, col, c, s, new) /\ ~new[c].bus /\ new[c].aabb = col[c].aabb
<1> col[c].bus /\ s = Removed(t, col[c].idx) /\ new = [col EXCEPT ![c].bus = FALSE]
  BY Zenon DEF UnregisterOn
<1>0. PICK leaf : leaf = col[c].idx
  OBVIOUS
<1>1. Tree(t, {}) /\ Bounds(t) /\ HandlesOf(t, col)
  BY DEF BusSoundOf
<1>2. leaf \in Leaves(t) /\ t.value[leaf] = c
  BY <1>0, <1>1 DEF HandlesOf
<1>3. Tree(s, {}) /\ RemoveIs(t, leaf, s) /\ Bounds(s)
  BY <1>0, <1>1, <1>2, RemovedIs, RemovedBound
<1>4. /\ new \in [Collider -> Entry] /\ ~new[c].bus /\ new[c].aabb = col[c].aabb
      /\ \A d \in Collider : d # c => new[d] = col[d]
  BY DEF Entry
<1>5. /\ Leaves(s) = Leaves(t) \ {leaf}
      /\ \A n \in Leaves(s) : s.value[n] = t.value[n] /\ s.box[n] = t.box[n]
  BY <1>3 DEF RemoveIs
<1>6. t.value \in [Leaves(t) -> Collider]
  BY <1>1 DEF Tree, Shape
<1>7. HandlesOf(s, new)
  <2>1. ASSUME NEW d \in Collider, new[d].bus
        PROVE  new[d].idx \in Leaves(s) /\ s.value[new[d].idx] = d /\ s.box[new[d].idx] = new[d].aabb
    <3>1. d # c /\ new[d] = col[d]
      BY <1>4, <2>1
    <3>2. col[d].idx \in Leaves(t) /\ t.value[col[d].idx] = d /\ t.box[col[d].idx] = col[d].aabb
      BY <1>1, <2>1, <3>1 DEF HandlesOf
    <3>3. col[d].idx # leaf
      BY <1>2, <3>1, <3>2
    <3>4. QED
      BY ONLY <1>5, <3>1, <3>2, <3>3
  <2>2. ASSUME NEW n \in Leaves(s)
        PROVE  new[s.value[n]].bus /\ new[s.value[n]].idx = n
    <3>1. n \in Leaves(t) /\ n # leaf /\ s.value[n] = t.value[n] /\ t.value[n] \in Collider
      BY <1>5, <1>6
    <3>2. col[t.value[n]].bus /\ col[t.value[n]].idx = n
      BY <1>1, <3>1 DEF HandlesOf
    <3>3. t.value[n] # c
      BY <1>0, <3>1, <3>2
    <3>4. QED
      BY ONLY <1>4, <3>1, <3>2, <3>3
  <2>3. QED
    BY <2>1, <2>2 DEF HandlesOf
<1>8. QED
  BY <1>3, <1>4, <1>7 DEF BusSoundOf, BusStep

LEMMA SetAabbIs ==
  ASSUME NEW t, NEW col \in [Collider -> Entry], BusSoundOf(t, col),
         NEW c \in Collider, col[c].bus, NEW aabb \in Box, NEW s, NEW new, SetAabbOn(t, col, c, aabb, s, new)
  PROVE  BusStep(t, col, c, s, new) /\ new[c].bus /\ new[c].aabb = aabb
<1> new = [col EXCEPT ![c].aabb = aabb] /\ s \in UpdatedAabb(t, col[c].idx, aabb)
  BY Zenon DEF SetAabbOn
<1>0. PICK leaf : leaf = col[c].idx
  OBVIOUS
<1>1. Tree(t, {}) /\ Bounds(t) /\ HandlesOf(t, col)
  BY DEF BusSoundOf
<1>2. leaf \in Leaves(t) /\ t.value[leaf] = c
  BY <1>0, <1>1 DEF HandlesOf
<1>3. Tree(s, {}) /\ UpdateIs(t, leaf, aabb, s) /\ Bounds(s)
  BY <1>0, <1>1, <1>2, UpdatedIs, UpdatedBound
<1>4. /\ new \in [Collider -> Entry]
      /\ new[c].bus = col[c].bus /\ new[c].aabb = aabb /\ new[c].idx = leaf
      /\ \A d \in Collider : d # c => new[d] = col[d]
  BY <1>0 DEF Entry
<1>5. /\ Leaves(s) = Leaves(t) /\ s.value = t.value /\ s.box[leaf] = aabb
      /\ \A n \in Leaves(t) : n # leaf => s.box[n] = t.box[n]
  BY <1>3 DEF UpdateIs
<1>6. t.value \in [Leaves(t) -> Collider]
  BY <1>1 DEF Tree, Shape
<1>7. HandlesOf(s, new)
  <2>1. ASSUME NEW d \in Collider, new[d].bus
        PROVE  new[d].idx \in Leaves(s) /\ s.value[new[d].idx] = d /\ s.box[new[d].idx] = new[d].aabb
    <3>1. CASE d = c
      BY ONLY <1>2, <1>4, <1>5, <3>1
    <3>2. CASE d # c
      <4>1. new[d] = col[d]
        BY <1>4, <3>2
      <4>2. col[d].idx \in Leaves(t) /\ t.value[col[d].idx] = d /\ t.box[col[d].idx] = col[d].aabb
        BY <1>1, <2>1, <4>1 DEF HandlesOf
      <4>3. col[d].idx # leaf
        BY <1>2, <3>2, <4>2
      <4>4. QED
        BY ONLY <1>5, <4>1, <4>2, <4>3
    <3>3. QED
      BY <3>1, <3>2
  <2>2. ASSUME NEW n \in Leaves(s)
        PROVE  new[s.value[n]].bus /\ new[s.value[n]].idx = n
    <3>1. n \in Leaves(t) /\ s.value[n] = t.value[n] /\ t.value[n] \in Collider
      BY <1>5, <1>6
    <3>2. col[t.value[n]].bus /\ col[t.value[n]].idx = n
      BY <1>1, <3>1 DEF HandlesOf
    <3>3. QED
      BY ONLY <1>0, <1>4, <3>1, <3>2
  <2>3. QED
    BY <2>1, <2>2 DEF HandlesOf
<1>8. QED
  BY <1>3, <1>4, <1>7 DEF BusSoundOf, BusStep

LEMMA BodyIs ==
  ASSUME NEW pos \in Vector
  PROVE  Proper(NewCentered(pos, HalfSize))
<1>0. PICK h : h = HalfSize
  OBVIOUS
<1>1. h \in Nat /\ pos[1] \in Int /\ pos[2] \in Int
  BY <1>0, ClientWorldAssumption, VectorIs
<1>2. NewCentered(pos, HalfSize) =
        [min |-> <<pos[1] - h, pos[2] - h>>, max |-> <<pos[1] + h, pos[2] + h>>]
  BY <1>0 DEF NewCentered
<1>3. <<pos[1] - h, pos[2] - h>> \in Vector /\ <<pos[1] + h, pos[2] + h>> \in Vector
  BY <1>1, VectorIs
<1>4. QED
  BY <1>1, <1>2, <1>3 DEF Proper, Box

LEMMA ZeroIs == Proper(ZeroBox)
BY DEF Proper, ZeroBox, ZERO, Box, Vector

LEMMA InitInv == Init => Inv
<1> SUFFICES ASSUME Init PROVE Inv
  OBVIOUS
<1>1. /\ phase = "level" /\ laid = 0 /\ map = EmptyMap /\ tree = EmptyTree /\ todo = {}
      /\ collider = [c \in Collider |-> Unregistered]
      /\ player = [p \in Player |-> Nobody] /\ listed = [p \in Player |-> "none"] /\ slide = AtRest
  BY DEF Init
<1>2. ZERO \in Vector /\ ZeroBox \in Box
  BY DEF ZeroBox, ZERO, Box, Vector
<1>3. Typed
  <2>1. Len(LevelTile) \in Nat
    BY ClientWorldAssumption
  <2>2. Nobody \in [life : {"absent", "alive", "condemned", "gone"},
                    kind : {"none", "owner", "puppet"}, pos : Vector]
    BY <1>2 DEF Nobody
  <2>3. AtRest \in [who : SUBSET Player, steps : Int, delta : Vector]
    BY <1>2 DEF AtRest
  <2>4. QED
    BY <1>1, <2>1, <2>2, <2>3 DEF Typed, Phase
<1>4. \A c \in Collider : collider[c] = Unregistered
  BY <1>1
<1>5. Colliders
  <2>1. Unregistered \in Entry /\ Unregistered.aabb = ZeroBox
    BY <1>2 DEF Unregistered, Entry, NoNode
  <2>2. Player \subseteq Collider
    BY DEF Collider
  <2>3. QED
    BY <1>1, <1>4, <2>1, <2>2, ZeroIs DEF Colliders, Entry
<1>6. BusSound
  <2>1. Tree(tree, {}) /\ Nodes(tree) = {} /\ Leaves(tree) = {} /\ Branches(tree) = {}
    BY <1>1, EmptyIsTree DEF Tree, Shape
  <2>2. Bounds(tree)
    BY <2>1 DEF Bounds, BoundBut
  <2>3. HandlesOf(tree, collider)
    BY <1>4, <2>1 DEF HandlesOf, Unregistered
  <2>4. QED
    BY <2>1, <2>2, <2>3 DEF BusSound, BusSoundOf
<1>7. MapSound(map)
  <2>1. /\ EmptyMap.pos = <<0, 0>> /\ EmptyMap.curr = EmptyChunk /\ DOMAIN EmptyMap.chunks = {}
        /\ EmptyMap = [pos |-> EmptyMap.pos, curr |-> EmptyMap.curr, chunks |-> EmptyMap.chunks]
    BY DEF EmptyMap
  <2>2. <<0, 0>> \in Vector
    BY VectorIs
  <2>3. QED
    BY <1>1, <2>1, <2>2, EmptyIsSound DEF MapSound
<1>8. SlideIs
  BY <1>1 DEF SlideIs, AtRest
<1>9. ASSUME NEW p \in Player PROVE BusOf(p) /\ ListedIs(p) /\ FollowedIs(p)
  <2>1. Life(p) = "absent" /\ listed[p] = "none" /\ ~collider[p].bus
    BY <1>1, <1>4 DEF Life, Nobody, Unregistered, Collider
  <2>2. QED
    BY <1>1, <2>1 DEF BusOf, ListedIs, FollowedIs
<1>10. QED
  BY <1>3, <1>5, <1>6, <1>7, <1>8, <1>9 DEF Inv

\* For the steps that leave the bus alone.
LEMMA BusKept ==
  ASSUME Inv, UNCHANGED <<tree, collider>>
  PROVE  BusSound' /\ Colliders'
BY DEF Inv, BusSound, Colliders

PlayerType == [life : {"absent", "alive", "condemned", "gone"},
               kind : {"none", "owner", "puppet"}, pos : Vector]

LEMMA LevelStep ==
  ASSUME Inv, NEW id \in TileId, LayTile(id)
  PROVE  Inv'
<1>1. /\ laid \in 0..Len(LevelTile) /\ laid < Len(LevelTile) /\ Len(LevelTile) \in Nat
  BY ClientWorldAssumption DEF Inv, Typed, LayTile
<1>2. Typed'
  BY <1>1 DEF Inv, Typed, LayTile, Phase
<1>3. MapSound(map)'
  <2>1. LevelTile[laid + 1] \in Vector
    <3>1. laid + 1 \in 1..Len(LevelTile)
      BY <1>1
    <3>2. LevelTile[laid + 1] \in TilePos
      BY <3>1, ClientWorldAssumption
    <3>3. QED
      BY <3>2, TileMapAssumption DEF Vector
  <2>2. MapSound(Placed(map, LevelTile[laid + 1], id))
    BY <2>1, PlacedChangesOne DEF Inv
  <2>3. QED
    BY <2>2 DEF Inv, LayTile
<1>4. BusSound' /\ Colliders'
  BY BusKept DEF LayTile
<1>5. SlideIs' /\ \A p \in Player : (BusOf(p) /\ ListedIs(p) /\ FollowedIs(p))'
  BY DEF Inv, SlideIs, BusOf, ListedIs, FollowedIs, Life, Body, LayTile
<1>6. QED
  BY <1>2, <1>3, <1>4, <1>5 DEF Inv

LEMMA SetPosStep ==
  ASSUME Inv, NEW p \in Player, NEW at \in Spot, SetPos(p, at)
  PROVE  Inv'
<1>0. player' = [player EXCEPT ![p].pos = at] /\ player \in [Player -> PlayerType] /\ at \in Vector
  BY ClientWorldAssumption DEF SetPos, Inv, Typed, PlayerType
<1>1. /\ player' \in [Player -> PlayerType]
      /\ \A q \in Player : Life(q)' = Life(q)
  BY <1>0 DEF Life, PlayerType
<1>2. Typed'
  BY <1>1 DEF Inv, Typed, SetPos, PlayerType
<1>3. BusSound' /\ Colliders'
  BY BusKept DEF SetPos
<1>4. phase = "rpc" /\ phase' = "rpc" /\ UNCHANGED <<map, slide, listed, collider>>
  BY DEF SetPos
<1>5. SlideIs' /\ \A q \in Player : (BusOf(q) /\ ListedIs(q) /\ FollowedIs(q))'
  BY <1>1, <1>4 DEF Inv, SlideIs, BusOf, ListedIs, FollowedIs
<1>6. QED
  BY <1>2, <1>3, <1>4, <1>5 DEF Inv

LEMMA BindKindStep ==
  ASSUME Inv, NEW p \in Player, NEW kind \in {"owner", "puppet"}, BindKind(p, kind)
  PROVE  Inv'
<1>0. player' = [player EXCEPT ![p].kind = kind] /\ player \in [Player -> PlayerType]
  BY DEF BindKind, Inv, Typed, PlayerType
<1>1. /\ player' \in [Player -> PlayerType]
      /\ \A q \in Player : Life(q)' = Life(q)
  BY <1>0 DEF Life, PlayerType
<1>2. Typed'
  BY <1>1 DEF Inv, Typed, BindKind, PlayerType
<1>3. BusSound' /\ Colliders'
  BY BusKept DEF BindKind
<1>4. phase = "rpc" /\ phase' = "rpc" /\ UNCHANGED <<map, slide, listed, collider>>
  BY DEF BindKind
<1>5. SlideIs' /\ \A q \in Player : (BusOf(q) /\ ListedIs(q) /\ FollowedIs(q))'
  BY <1>1, <1>4 DEF Inv, SlideIs, BusOf, ListedIs, FollowedIs
<1>6. QED
  BY <1>2, <1>3, <1>4, <1>5 DEF Inv

LEMMA RemovePlayerStep ==
  ASSUME Inv, NEW p \in Player, RemovePlayer(p)
  PROVE  Inv'
<1>0. /\ player' = [player EXCEPT ![p].life = "condemned"] /\ player \in [Player -> PlayerType]
      /\ Life(p) = "alive"
  BY DEF RemovePlayer, Inv, Typed, PlayerType
<1>1. /\ player' \in [Player -> PlayerType] /\ Life(p)' = "condemned"
      /\ \A q \in Player : q # p => Life(q)' = Life(q)
  BY <1>0 DEF Life, PlayerType
<1>2. Typed'
  BY <1>1 DEF Inv, Typed, RemovePlayer, PlayerType
<1>3. BusSound' /\ Colliders'
  BY BusKept DEF RemovePlayer
<1>4. phase = "rpc" /\ phase' = "rpc" /\ UNCHANGED <<map, slide, listed, collider>>
  BY DEF RemovePlayer
<1>5. SlideIs' /\ \A q \in Player : (BusOf(q) /\ ListedIs(q) /\ FollowedIs(q))'
  BY <1>0, <1>1, <1>4 DEF Inv, SlideIs, BusOf, ListedIs, FollowedIs
<1>6. QED
  BY <1>2, <1>3, <1>4, <1>5 DEF Inv

LEMMA EndRpcStep ==
  ASSUME Inv, EndRpc
  PROVE  Inv'
<1>2. Typed'
  BY DEF Inv, Typed, EndRpc, Phase
<1>3. BusSound' /\ Colliders'
  BY BusKept DEF EndRpc
<1>4. phase = "rpc" /\ phase' = "kinematics" /\ UNCHANGED <<map, slide, listed, collider, player>>
  BY DEF EndRpc
<1>5. SlideIs' /\ \A q \in Player : (BusOf(q) /\ ListedIs(q) /\ FollowedIs(q))'
  BY <1>4 DEF Inv, SlideIs, BusOf, ListedIs, FollowedIs, Life
<1>6. QED
  BY <1>2, <1>3, <1>4, <1>5 DEF Inv

LEMMA ProbeStep ==
  ASSUME Inv, NEW p \in Player, NEW delta \in Delta, Probe(p, delta)
  PROVE  Inv'
<1>1. Typed'
  BY DEF Inv, Typed, Probe, Phase
<1>2. BusSound' /\ Colliders'
  BY BusKept DEF Probe
<1>3. MapSound(map)'
  <2>1. delta \in Vector
    BY ClientWorldAssumption
  <2>2. MapSound(MapAfterCast(p, delta))
    BY <2>1, MapAfterCastIs DEF Inv
  <2>3. QED
    BY <2>2 DEF Probe
<1>4. UNCHANGED <<phase, slide, listed, collider, player, todo>>
  BY DEF Probe
<1>5. SlideIs' /\ \A q \in Player : (BusOf(q) /\ ListedIs(q) /\ FollowedIs(q))'
  BY <1>4 DEF Inv, SlideIs, BusOf, ListedIs, FollowedIs, Life, Body
<1>6. QED
  BY <1>1, <1>2, <1>3, <1>5 DEF Inv

LEMMA StartMoveStep ==
  ASSUME Inv, NEW p \in Player, NEW delta \in Delta, StartMove(p, delta)
  PROVE  Inv'
<1>0. slide' = [who |-> {p}, steps |-> MaxSteps, delta |-> delta] /\ delta \in Vector /\ MaxSteps \in Int
  BY ClientWorldAssumption DEF StartMove
<1>1. Typed'
  <2>1. slide' \in [who : SUBSET Player, steps : Int, delta : Vector]
    BY <1>0
  <2>2. QED
    BY <2>1 DEF Inv, Typed, StartMove, Phase
<1>2. BusSound' /\ Colliders'
  BY BusKept DEF StartMove
<1>3. phase = "kinematics" /\ UNCHANGED <<phase, map, listed, collider, player>>
  BY DEF StartMove
<1>4. SlideIs' /\ \A q \in Player : (BusOf(q) /\ ListedIs(q) /\ FollowedIs(q))'
  BY <1>3 DEF Inv, SlideIs, BusOf, ListedIs, FollowedIs, Life, Body
<1>5. QED
  BY <1>1, <1>2, <1>3, <1>4 DEF Inv

LEMMA StayStep ==
  ASSUME Inv, NEW p \in Player, Stay(p)
  PROVE  Inv'
<1>1. Typed'
  BY DEF Inv, Typed, Stay, Phase
<1>2. BusSound' /\ Colliders'
  BY BusKept DEF Stay
<1>3. phase = "kinematics" /\ UNCHANGED <<phase, map, listed, collider, player, slide>>
  BY DEF Stay
<1>4. SlideIs' /\ \A q \in Player : (BusOf(q) /\ ListedIs(q) /\ FollowedIs(q))'
  BY <1>3 DEF Inv, SlideIs, BusOf, ListedIs, FollowedIs, Life, Body
<1>5. QED
  BY <1>1, <1>2, <1>3, <1>4 DEF Inv

LEMMA SlideStepStep ==
  ASSUME Inv, NEW p \in Player, SlideStep(p)
  PROVE  Inv'
<1>1. /\ slide \in [who : SUBSET Player, steps : Int, delta : Vector]
      /\ player \in [Player -> PlayerType] /\ slide.who = {p} /\ slide.delta \in Vector
  BY DEF Inv, Typed, PlayerType, SlideStep
<1>2. PICK r \in CastResults(p, slide.delta) :
        /\ player' = [player EXCEPT ![p].pos = Plus(@, Moved(slide.delta, r))]
        /\ slide' = [slide EXCEPT !.steps = @ - 1, !.delta = Slide(@, r)]
  BY DEF SlideStep
<1>3. Moved(slide.delta, r) \in Vector /\ Slide(slide.delta, r) \in Vector
  <2>1. ResultIs(r)
    BY <1>1, CastResultsAre DEF Inv
  <2>2. QED
    BY <1>1, <2>1, MovesAre
<1>4. Plus(player[p].pos, Moved(slide.delta, r)) \in Vector
  <2>1. player[p].pos \in Vector
    BY <1>1 DEF PlayerType
  <2>2. QED
    BY <1>3, <2>1, VectorIs, PlusIs
<1>5. /\ player' \in [Player -> PlayerType]
      /\ \A q \in Player : Life(q)' = Life(q)
  BY <1>1, <1>2, <1>4 DEF Life, PlayerType
<1>6. slide' \in [who : SUBSET Player, steps : Int, delta : Vector] /\ slide'.who = slide.who
  <2>1. PICK v : v = Slide(slide.delta, r)
    OBVIOUS
  <2>2. v \in Vector
    BY <1>3, <2>1
  <2>3. slide' = [slide EXCEPT !.steps = @ - 1, !.delta = v]
    <3>1. slide.delta = [slide EXCEPT !.steps = @ - 1].delta
      BY <1>1
    <3>2. slide' = [slide EXCEPT !.steps = @ - 1, !.delta = Slide(slide.delta, r)]
      BY ONLY <1>2, <3>1, Zenon
    <3>3. QED
      BY ONLY <2>1, <3>2, Zenon
  <2>4. /\ slide = [who |-> slide.who, steps |-> slide.steps, delta |-> slide.delta]
        /\ slide.who \in SUBSET Player /\ slide.steps \in Int
    BY ONLY <1>1
  <2>5. slide' = [who |-> slide.who, steps |-> slide.steps - 1, delta |-> v]
    BY ONLY <2>3, <2>4
  <2>6. QED
    BY ONLY <2>2, <2>4, <2>5
<1>7. UNCHANGED <<phase, laid, tree, collider, listed, todo>>
  BY DEF SlideStep
<1>8. phase = "kinematics"
  BY <1>1 DEF Inv, SlideIs
<1>9. Typed'
  BY <1>5, <1>6, <1>7 DEF Inv, Typed, PlayerType
<1>10. BusSound' /\ Colliders'
  BY <1>7, BusKept
<1>11. MapSound(map)'
  <2>1. MapSound(MapAfterCast(p, slide.delta))
    BY <1>1, MapAfterCastIs DEF Inv
  <2>2. QED
    BY <2>1 DEF SlideStep
<1>12. SlideIs' /\ \A q \in Player : (BusOf(q) /\ ListedIs(q) /\ FollowedIs(q))'
  BY <1>5, <1>6, <1>7, <1>8 DEF Inv, SlideIs, BusOf, ListedIs, FollowedIs
<1>13. QED
  BY <1>9, <1>10, <1>11, <1>12 DEF Inv

LEMMA SlideEndStep ==
  ASSUME Inv, SlideEnd
  PROVE  Inv'
<1>1. Typed'
  <2>1. AtRest \in [who : SUBSET Player, steps : Int, delta : Vector]
    BY VectorIs DEF AtRest, ZERO
  <2>2. QED
    BY <2>1 DEF Inv, Typed, SlideEnd, Phase
<1>2. BusSound' /\ Colliders'
  BY BusKept DEF SlideEnd
<1>3. slide' = AtRest /\ UNCHANGED <<phase, map, listed, collider, player, todo>>
  BY DEF SlideEnd
<1>4. SlideIs' /\ \A q \in Player : (BusOf(q) /\ ListedIs(q) /\ FollowedIs(q))'
  BY <1>3 DEF Inv, SlideIs, BusOf, ListedIs, FollowedIs, Life, Body, AtRest
<1>5. QED
  BY <1>1, <1>2, <1>3, <1>4 DEF Inv

LEMMA EndKinematicsStep ==
  ASSUME Inv, EndKinematics
  PROVE  Inv'
<1>1. Typed'
  BY DEF Inv, Typed, EndKinematics, Phase
<1>2. BusSound' /\ Colliders'
  BY BusKept DEF EndKinematics
<1>3. /\ phase = "kinematics" /\ phase' = "colliders" /\ slide.who = {}
      /\ todo' = {p \in Player : listed[p] # "none"}
      /\ UNCHANGED <<map, listed, collider, player, slide>>
  BY DEF EndKinematics
<1>4. SlideIs' /\ \A q \in Player : (BusOf(q) /\ ListedIs(q) /\ FollowedIs(q))'
  BY <1>3 DEF Inv, SlideIs, BusOf, ListedIs, FollowedIs, Life, Body
<1>5. QED
  BY <1>1, <1>2, <1>3, <1>4 DEF Inv

LEMMA EndFrameStep ==
  ASSUME Inv, EndFrame
  PROVE  Inv'
<1>1. Typed'
  BY DEF Inv, Typed, EndFrame, Phase
<1>2. BusSound' /\ Colliders'
  BY BusKept DEF EndFrame
<1>3. /\ phase = "colliders" /\ phase' = "flush" /\ todo = {}
      /\ UNCHANGED <<map, listed, collider, player, slide, todo>>
  BY DEF EndFrame
<1>4. slide.who = {}
  BY <1>3 DEF Inv, SlideIs
<1>5. SlideIs' /\ \A q \in Player : (BusOf(q) /\ ListedIs(q) /\ FollowedIs(q))'
  BY <1>3, <1>4 DEF Inv, SlideIs, BusOf, ListedIs, FollowedIs, Life, Body
<1>6. QED
  BY <1>1, <1>2, <1>3, <1>5 DEF Inv

----------------------------------------------------------------------------
(* The steps of the bus *)

LEMMA RegisterKeeps ==
  ASSUME Inv, NEW c \in Collider, NEW aabb, Proper(aabb) \/ (c \notin Player /\ aabb \in Box),
         Register(c, aabb)
  PROVE  /\ BusSound' /\ Colliders' /\ ~collider[c].bus
         /\ collider'[c].bus
         /\ \A d \in Collider : d # c => collider'[d] = collider[d]
<1>1. RegisterOn(tree, collider, c, aabb, tree', collider') /\ ~collider[c].bus
  BY Zenon DEF Register, RegisterOn
<1>2. collider \in [Collider -> Entry] /\ BusSoundOf(tree, collider) /\ aabb \in Box
  BY DEF Inv, Colliders, Entry, BusSound, Proper
<1>3. /\ BusSoundOf(tree', collider') /\ collider' \in [Collider -> Entry]
      /\ collider'[c].bus /\ collider'[c].aabb = aabb
      /\ \A d \in Collider : d # c => collider'[d] = collider[d]
  <2>1. BusStep(tree, collider, c, tree', collider') /\ collider'[c].bus /\ collider'[c].aabb = aabb
    BY ONLY <1>1, <1>2, RegisterIs, c \in Collider
  <2>2. QED
    BY <2>1 DEF BusStep
<1>4. \A p \in Player : Proper(collider'[p].aabb)
  <2>1. \A p \in Player : Proper(collider[p].aabb)
    BY DEF Inv, Colliders
  <2>2. Player \subseteq Collider
    BY DEF Collider
  <2>3. QED
    BY <1>3, <2>1, <2>2
<1>5. QED
  BY <1>1, <1>3, <1>4 DEF BusSound, Colliders, Entry

LEMMA RegisterLevelStep ==
  ASSUME Inv, RegisterLevel
  PROVE  Inv'
<1>1. PICK i \in DOMAIN LevelColliders :
        /\ Register(LevelColliders[i], LevelBox(LevelColliders[i]))
        /\ phase' \in {"flush", "level"}
  BY DEF RegisterLevel
<1>2. PICK c : c = LevelColliders[i]
  OBVIOUS
<1>3. c \in Collider /\ c \notin Player /\ LevelBox(c) \in Box /\ Register(c, LevelBox(c))
  BY <1>1, <1>2, LevelIs
<1>4. /\ BusSound' /\ Colliders'
      /\ \A d \in Collider : d # c => collider'[d] = collider[d]
  BY <1>3, RegisterKeeps
<1>5. \A p \in Player : collider'[p] = collider[p]
  BY <1>3, <1>4 DEF Collider
<1>6. phase = "level" /\ UNCHANGED <<laid, map, player, listed, todo, slide>>
  BY DEF RegisterLevel
<1>7. Typed'
  BY <1>1, <1>6 DEF Inv, Typed, Phase
<1>8. slide.who = {}
  BY <1>6 DEF Inv, SlideIs
<1>9. SlideIs' /\ \A q \in Player : (BusOf(q) /\ ListedIs(q) /\ FollowedIs(q))'
  BY <1>1, <1>5, <1>6, <1>8 DEF Inv, SlideIs, BusOf, ListedIs, FollowedIs, Life, Body
<1>10. QED
  BY <1>4, <1>6, <1>7, <1>9 DEF Inv

LEMMA AddPlayerStep ==
  ASSUME Inv, NEW p \in Player, NEW at \in Spot, AddPlayer(p, at)
  PROVE  Inv'
<1>1. /\ phase = "rpc" /\ Life(p) = "absent" /\ Register(p, ZeroBox)
      /\ player' = [player EXCEPT ![p] = [life |-> "alive", kind |-> "none", pos |-> at]]
      /\ UNCHANGED <<phase, laid, map, listed, todo, slide>>
  BY DEF AddPlayer
<1>2. p \in Collider /\ \A q \in Player : q \in Collider
  BY DEF Collider
<1>3. /\ BusSound' /\ Colliders' /\ collider'[p].bus
      /\ \A d \in Collider : d # p => collider'[d] = collider[d]
  BY <1>1, <1>2, ZeroIs, RegisterKeeps
<1>4. player \in [Player -> PlayerType] /\ at \in Vector
  BY ClientWorldAssumption DEF Inv, Typed, PlayerType
<1>5. /\ player' \in [Player -> PlayerType] /\ Life(p)' = "alive"
      /\ \A q \in Player : q # p => Life(q)' = Life(q)
  BY <1>1, <1>4 DEF Life, PlayerType
<1>6. Typed'
  BY <1>1, <1>5 DEF Inv, Typed, PlayerType
<1>7. SlideIs' /\ \A q \in Player : (BusOf(q) /\ ListedIs(q) /\ FollowedIs(q))'
  BY <1>1, <1>2, <1>3, <1>5 DEF Inv, SlideIs, BusOf, ListedIs, FollowedIs
<1>8. QED
  BY <1>1, <1>3, <1>6, <1>7 DEF Inv

LEMMA FlushColliderStep ==
  ASSUME Inv, NEW p \in Player, FlushCollider(p)
  PROVE  Inv'
<1>1. /\ phase = "flush" /\ Life(p) = "condemned" /\ Unregister(p)
      /\ UNCHANGED <<phase, laid, map, player, listed, todo, slide>>
  BY DEF FlushCollider
<1>2. p \in Collider /\ \A q \in Player : q \in Collider
  BY DEF Collider
<1>3. UnregisterOn(tree, collider, p, tree', collider')
  BY <1>1, Zenon DEF Unregister, UnregisterOn
<1>4. collider \in [Collider -> Entry] /\ BusSoundOf(tree, collider)
  BY DEF Inv, Colliders, Entry, BusSound
<1>5. /\ BusSoundOf(tree', collider') /\ collider' \in [Collider -> Entry]
      /\ ~collider'[p].bus /\ collider'[p].aabb = collider[p].aabb
      /\ \A d \in Collider : d # p => collider'[d] = collider[d]
  <2>1. /\ BusStep(tree, collider, p, tree', collider')
        /\ ~collider'[p].bus /\ collider'[p].aabb = collider[p].aabb
    BY ONLY <1>2, <1>3, <1>4, UnregisterIs
  <2>2. QED
    BY <2>1 DEF BusStep
<1>6. BusSound' /\ Colliders'
  <2>1. \A q \in Player : collider'[q].aabb = collider[q].aabb
    BY <1>2, <1>5
  <2>2. QED
    BY <1>5, <2>1 DEF Inv, BusSound, Colliders, Entry
<1>7. Typed'
  BY <1>1 DEF Inv, Typed
<1>8. SlideIs' /\ \A q \in Player : (BusOf(q) /\ ListedIs(q) /\ FollowedIs(q))'
  BY <1>1, <1>2, <1>5 DEF Inv, SlideIs, BusOf, ListedIs, FollowedIs, Life, Body
<1>9. QED
  BY <1>1, <1>6, <1>7, <1>8 DEF Inv

LEMMA UpdateColliderStep ==
  ASSUME Inv, NEW p \in Player, UpdateCollider(p)
  PROVE  Inv'
<1>1. /\ phase = "colliders" /\ p \in todo /\ todo' = todo \ {p} /\ SetAabb(p, Body(p))
      /\ UNCHANGED <<phase, laid, map, player, listed, slide>>
  BY DEF UpdateCollider
<1>2. p \in Collider /\ \A q \in Player : q \in Collider
  BY DEF Collider
<1>3. SetAabbOn(tree, collider, p, Body(p), tree', collider')
  BY <1>1, Zenon DEF SetAabb, SetAabbOn
<1>4. collider \in [Collider -> Entry] /\ BusSoundOf(tree, collider)
  BY DEF Inv, Colliders, Entry, BusSound
<1>5. Proper(Body(p)) /\ Body(p) \in Box
  <2>1. player[p].pos \in Vector
    BY DEF Inv, Typed
  <2>2. QED
    BY <2>1, BodyIs DEF Body, Proper
<1>6. collider[p].bus
  BY <1>1 DEF Inv, FollowedIs, ListedIs, BusOf
<1>7. /\ BusSoundOf(tree', collider') /\ collider' \in [Collider -> Entry]
      /\ collider'[p].bus /\ collider'[p].aabb = Body(p)
      /\ \A d \in Collider : d # p => collider'[d] = collider[d]
  <2>1. /\ BusStep(tree, collider, p, tree', collider')
        /\ collider'[p].bus /\ collider'[p].aabb = Body(p)
    BY ONLY <1>2, <1>3, <1>4, <1>5, <1>6, SetAabbIs
  <2>2. QED
    BY <2>1 DEF BusStep
<1>8. BusSound' /\ Colliders'
  <2>1. \A q \in Player : Proper(collider'[q].aabb)
    BY <1>2, <1>5, <1>7 DEF Inv, Colliders
  <2>2. QED
    BY <1>7, <2>1 DEF BusSound, Colliders, Entry
<1>9. Typed'
  BY <1>1 DEF Inv, Typed
<1>10. \A q \in Player : Body(q)' = Body(q) /\ Life(q)' = Life(q)
  BY <1>1 DEF Body, Life
<1>11. SlideIs' /\ \A q \in Player : (BusOf(q) /\ ListedIs(q) /\ FollowedIs(q))'
  BY <1>1, <1>2, <1>6, <1>7, <1>10 DEF Inv, SlideIs, BusOf, ListedIs, FollowedIs
<1>12. QED
  BY <1>1, <1>8, <1>9, <1>11 DEF Inv

LEMMA FlushEndStep ==
  ASSUME Inv, FlushEnd
  PROVE  Inv'
<1>1. /\ phase = "flush" /\ Flushed /\ phase' = "rpc"
      /\ player' = [p \in Player |-> IF Life(p) = "condemned" THEN Gone ELSE player[p]]
      /\ collider' = [c \in Collider |-> IF c \in Player \ Living THEN Unregistered ELSE collider[c]]
      /\ UNCHANGED <<laid, map, tree, todo, slide>>
  BY DEF FlushEnd
<1>2. \A p \in Player : /\ listed'[p] \in {"none", "following", "moving"}
                        /\ listed'[p] # "none" => p \in Living
  <2> SUFFICES ASSUME NEW p \in Player
               PROVE  /\ listed'[p] \in {"none", "following", "moving"}
                      /\ listed'[p] # "none" => p \in Living
    OBVIOUS
  <2>1. listed'[p] = IF p \notin Living THEN "none"
                 ELSE IF player[p].kind = "owner" THEN "moving" ELSE "following"
    BY DEF FlushEnd
  <2>2. QED
    BY <2>1
<1>3. listed' \in [Player -> {"none", "following", "moving"}]
  <2>1. listed' = [p \in Player |->
         IF p \notin Living THEN "none"
         ELSE IF player[p].kind = "owner" THEN "moving" ELSE "following"]
    BY DEF FlushEnd
  <2>2. QED
    BY <1>2, <2>1
<1>4. player \in [Player -> PlayerType]
  BY DEF Inv, Typed, PlayerType
<1>5. Gone \in PlayerType /\ Gone.life = "gone"
  BY VectorIs DEF Gone, Nobody, PlayerType, ZERO
<1>6. /\ player' \in [Player -> PlayerType]
      /\ \A q \in Player : Life(q)' = IF Life(q) = "condemned" THEN "gone" ELSE Life(q)
  BY <1>1, <1>4, <1>5 DEF Life
<1>7. Typed'
  BY <1>1, <1>3, <1>6 DEF Inv, Typed, Phase, PlayerType
<1>8. Player \subseteq Collider /\ collider \in [Collider -> Entry]
  BY DEF Collider, Inv, Colliders, Entry
<1>9. /\ Unregistered \in Entry /\ Unregistered.aabb = ZeroBox /\ ~Unregistered.bus
      /\ Proper(ZeroBox)
  BY ZeroIs DEF Unregistered, Entry, NoNode, Proper
<1>10. /\ collider' \in [Collider -> Entry]
       /\ \A p \in Player : collider'[p] = IF p \in Living THEN collider[p] ELSE Unregistered
       /\ \A c \in Collider : collider'[c] = collider[c] \/ (collider'[c] = Unregistered /\ c \in Player \ Living)
  BY <1>1, <1>8, <1>9
<1>11. \A p \in Player \ Living : ~collider[p].bus
  <2>1. \A p \in Player : Life(p) \in {"absent", "alive", "condemned", "gone"}
    BY <1>4 DEF Life, PlayerType
  <2>2. QED
    BY <1>1, <2>1 DEF Inv, BusOf, Flushed, Living
<1>12. Colliders'
  BY <1>9, <1>10 DEF Inv, Colliders, Entry
<1>13. BusSound'
  <2>1. Tree(tree, {}) /\ Bounds(tree) /\ HandlesOf(tree, collider)
    BY DEF Inv, BusSound, BusSoundOf
  <2>2. \A c \in Collider : collider'[c].bus => collider'[c] = collider[c]
    BY <1>9, <1>10
  <2>3. \A c \in Collider : collider[c].bus => collider'[c] = collider[c]
    BY <1>10, <1>11
  <2>4. tree.value \in [Leaves(tree) -> Collider]
    BY <2>1 DEF Tree, Shape
  <2>5. HandlesOf(tree, collider')
    BY ONLY <2>1, <2>2, <2>3, <2>4 DEF HandlesOf
  <2>6. QED
    BY <1>1, <2>1, <2>5 DEF BusSound, BusSoundOf
<1>14. slide.who = {}
  BY <1>1 DEF Inv, SlideIs
<1>15. SlideIs' /\ \A q \in Player : (BusOf(q) /\ ListedIs(q) /\ FollowedIs(q))'
  <2>1. SlideIs'
    BY <1>1, <1>14 DEF SlideIs
  <2>2. ASSUME NEW q \in Player PROVE (BusOf(q) /\ ListedIs(q) /\ FollowedIs(q))'
    <3>1. Life(q) = "alive" => collider[q].bus
      BY DEF Inv, BusOf
    <3>2. q \in Living <=> Life(q) = "alive"
      BY DEF Living
    <3>3. BusOf(q)'
      BY <1>6, <1>9, <1>10, <3>1, <3>2 DEF BusOf
    <3>4. ListedIs(q)' /\ FollowedIs(q)'
      BY <1>1, <1>2, <1>6, <3>2 DEF ListedIs, FollowedIs
    <3>5. QED
      BY <3>3, <3>4
  <2>3. QED
    BY <2>1, <2>2
<1>16. QED
  BY <1>1, <1>7, <1>12, <1>13, <1>15 DEF Inv

LEMMA NextInv == Inv /\ [Next]_vars => Inv'
<1>1. ASSUME Inv, Next PROVE Inv'
  <2>1. CASE Level
    BY <1>1, <2>1, LevelStep, RegisterLevelStep DEF Level
  <2>2. CASE \E p \in Player : FlushCollider(p) \/ UpdateCollider(p)
    BY <1>1, <2>2, FlushColliderStep, UpdateColliderStep
  <2>3. CASE FlushEnd
    BY <1>1, <2>3, FlushEndStep
  <2>4. CASE Packets
    BY <1>1, <2>4, AddPlayerStep, SetPosStep, BindKindStep, RemovePlayerStep DEF Packets
  <2>5. CASE EndRpc
    BY <1>1, <2>5, EndRpcStep
  <2>6. CASE Kinematics
    BY <1>1, <2>6, ProbeStep, StartMoveStep, StayStep, SlideStepStep, SlideEndStep DEF Kinematics
  <2>7. CASE EndKinematics
    BY <1>1, <2>7, EndKinematicsStep
  <2>8. CASE EndFrame
    BY <1>1, <2>8, EndFrameStep
  <2>9. QED
    BY ONLY <1>1, <2>1, <2>2, <2>3, <2>4, <2>5, <2>6, <2>7, <2>8 DEF Next
<1>2. ASSUME Inv, UNCHANGED vars PROVE Inv'
  <2>1. UNCHANGED <<phase, laid, map, tree, collider, player, listed, todo, slide>>
    BY <1>2 DEF vars
  <2>2. BusSound' /\ Colliders'
    BY <1>2, <2>1, BusKept
  <2>3. Typed' /\ SlideIs' /\ \A p \in Player : (BusOf(p) /\ ListedIs(p) /\ FollowedIs(p))'
    BY <1>2, <2>1 DEF Inv, Typed, SlideIs, BusOf, ListedIs, FollowedIs, Life, Body
  <2>4. QED
    BY <1>2, <2>1, <2>2, <2>3 DEF Inv
<1>3. QED
  BY <1>1, <1>2

LEMMA SpecInv == Spec => []Inv
BY InitInv, NextInv, PTL DEF Spec

----------------------------------------------------------------------------
(* What the invariant says *)

LEMMA InvTypeOK == Inv => TypeOK
<1> SUFFICES ASSUME Inv PROVE TypeOK
  OBVIOUS
<1>1. Typed /\ Colliders /\ Tree(tree, {}) /\ MapSound(map)
  BY DEF Inv, BusSound, BusSoundOf
<1>2. Shape(tree) /\ Linked(tree, {})
  BY <1>1 DEF Tree
<1>3. tree.root \in Nat /\ Nodes(tree) \subseteq Nat \ {NoNode} /\ \A n \in Nodes(tree) : tree.box[n] \in Box
  BY <1>2 DEF Shape, Linked, NoNode
<1>4. ASSUME NEW chunk, ChunkSound(chunk)
      PROVE  /\ chunk.solid_num \in 0..(ChunkEdge * ChunkEdge)
             /\ \A c \in Cell : chunk.data[c] \in TileId
  BY <1>4, CellsFinite DEF ChunkSound
<1>5. \A chunk \in {map.curr} \cup Range(map.chunks) : ChunkSound(chunk)
  BY <1>1 DEF MapSound, Range
<1>6. map.pos \in Vector
  BY <1>1 DEF MapSound
<1>7. \A c \in Collider : collider[c] \in [bus : BOOLEAN, idx : Nat, aabb : Box]
  BY <1>1 DEF Colliders
<1>8. slide.who \subseteq Player
  BY <1>1 DEF Typed
<1>9. QED
  BY <1>1, <1>3, <1>4, <1>5, <1>6, <1>7, <1>8 DEF Typed, TypeOK

LEMMA KidsRange ==
  ASSUME NEW kids, NEW S, kids \in [1..2 -> S]
  PROVE  Range(kids) = {kids[1], kids[2]}
<1>1. DOMAIN kids = {1, 2}
  OBVIOUS
<1>2. QED
  BY <1>1 DEF Range

LEMMA InvTreeLinked == Inv => TreeLinked
<1> SUFFICES ASSUME Inv PROVE TreeLinked
  OBVIOUS
<1>1. Tree(tree, {})
  BY DEF Inv, BusSound, BusSoundOf
<1>2. Shape(tree) /\ Linked(tree, {})
  BY <1>1 DEF Tree
<1>3. /\ Nodes(tree) = Branches(tree) \cup Leaves(tree) /\ Branches(tree) \cap Leaves(tree) = {}
      /\ Nodes(tree) = DOMAIN tree.parent
  BY <1>2 DEF Shape
<1>4. tree.root = NoNode <=> Nodes(tree) = {}
  BY <1>2 DEF Shape, Linked
<1>5. \A n \in Branches(tree) : tree.kids[n] \in [1..2 -> Nodes(tree)]
  BY <1>2 DEF Shape
<1>6. \A n \in Branches(tree) : Range(tree.kids[n]) = {tree.kids[n][1], tree.kids[n][2]}
  BY <1>5, KidsRange
<1>7. \A n \in Branches(tree) :
        /\ tree.kids[n][1] # tree.kids[n][2]
        /\ \A m \in Range(tree.kids[n]) : m \in Nodes(tree) /\ tree.parent[m] = n
  <2> SUFFICES ASSUME NEW n \in Branches(tree)
               PROVE  /\ tree.kids[n][1] # tree.kids[n][2]
                      /\ \A m \in Range(tree.kids[n]) : m \in Nodes(tree) /\ tree.parent[m] = n
    OBVIOUS
  <2>1. tree.kids[n][1] \in Nodes(tree) /\ tree.kids[n][2] \in Nodes(tree)
    BY <1>5
  <2>2. /\ tree.kids[n][1] # tree.kids[n][2]
        /\ tree.parent[tree.kids[n][1]] = n /\ tree.parent[tree.kids[n][2]] = n
    BY <1>2 DEF Linked
  <2>3. QED
    BY <1>6, <2>1, <2>2
<1>8. ASSUME NEW n \in Nodes(tree) PROVE Last(Line(tree, n)) = tree.root
  <2>1. IsLine(tree, n, Line(tree, n))
    BY <1>1, LineIs
  <2>2. QED
    BY <1>1, <1>2, <2>1 DEF IsLine, Last, Linked
<1>9. ASSUME NEW n \in Nodes(tree), n # tree.root PROVE n \in Range(tree.kids[tree.parent[n]])
  <2>1. tree.parent[n] # NoNode
    BY <1>2, <1>9 DEF Linked
  <2>2. /\ tree.parent[n] \in Branches(tree)
        /\ tree.kids[tree.parent[n]][1] = n \/ tree.kids[tree.parent[n]][2] = n
    BY <1>2, <2>1 DEF Linked
  <2>3. QED
    BY <1>6, <2>2
<1>10. QED
  BY <1>3, <1>4, <1>7, <1>8, <1>9 DEF TreeLinked

LEMMA InvHandlesGood == Inv => HandlesGood
BY DEF Inv, BusSound, BusSoundOf, HandlesOf, HandlesGood

LEMMA InvBoundUnlessRotated == Inv => BoundUnlessRotated
<1> SUFFICES ASSUME Inv, NEW n \in Branches(tree) \ tree.stale, NEW m \in Range(tree.kids[n])
             PROVE  Encloses(tree.box[n], tree.box[m])
  BY DEF BoundUnlessRotated
<1>1. Shape(tree) /\ Bounds(tree)
  BY DEF Inv, BusSound, BusSoundOf, Tree
<1>2. Range(tree.kids[n]) = {tree.kids[n][1], tree.kids[n][2]}
  BY <1>1, KidsRange DEF Shape
<1>3. QED
  BY <1>1, <1>2 DEF Bounds, BoundBut

\* The tree of the bus is one tree and its arena holds nothing else; chunks count their
\* tiles; every handle that a collider keeps leads to its own leaf; and every branch bounds
\* its kids, but for those whose kids a rotation has exchanged since.
THEOREM TreeIsSound == Spec => []TreeSound
<1>1. Inv => TreeSound
  BY InvTypeOK, InvTreeLinked, InvHandlesGood, InvBoundUnlessRotated DEF TreeSound
<1>2. QED
  BY <1>1, SpecInv, PTL

\* Whom a lookup finds is of the level or a player still there, and at the end of a frame
\* the colliders of the listed players are where the players are.
THEOREM CollidersAreCurrent == Spec => []CollidersCurrent
<1>1. Inv => FoundPresent
  <2> SUFFICES ASSUME Inv, NEW leaf \in Leaves(tree)
               PROVE  tree.value[leaf] \in Range(LevelColliders) \cup Present
    BY DEF FoundPresent
  <2>1. PICK c : c = tree.value[leaf]
    OBVIOUS
  <2>2. c \in Collider /\ collider[c].bus
    BY <2>1 DEF Inv, BusSound, BusSoundOf, HandlesOf, Tree, Shape
  <2>3. CASE c \in Player
    <3>1. Life(c) \in {"absent", "alive", "condemned", "gone"}
      BY <2>3 DEF Inv, Typed, Life
    <3>2. BusOf(c)
      BY <2>3 DEF Inv
    <3>3. QED
      BY <2>1, <2>2, <2>3, <3>1, <3>2 DEF BusOf, Present
  <2>4. QED
    BY <2>1, <2>2, <2>3 DEF Collider
<1>2. Inv => CollidersFollowed
  BY DEF Inv, FollowedIs, CollidersFollowed
<1>3. Inv => CollidersCurrent
  BY <1>1, <1>2 DEF CollidersCurrent
<1>4. QED
  BY <1>3, SpecInv, PTL

LEMMA GridInit == Init => Grid!Init
<1> SUFFICES ASSUME Init PROVE Grid!Init
  OBVIOUS
<1>1. Inv /\ map = EmptyMap /\ laid = 0
  BY InitInv DEF Init
<1>2. TilePos \subseteq Vector
  BY TileMapAssumption DEF Vector
<1>3. ASSUME NEW p \in TilePos PROVE Content(map, p) = Air
  <2>1. RelOf(p) \in Cell
    BY <1>2, PlaceOfTile
  <2>2. EmptyChunk.data[RelOf(p)] = Air
    BY <2>1 DEF EmptyChunk
  <2>3. ChunkAt(map, ChunkOf(p)) = EmptyChunk
    BY <1>1 DEF ChunkAt, EmptyMap
  <2>4. QED
    BY <1>1, <1>2, <2>2, <2>3, ContentIs DEF Inv
<1>4. QED
  BY <1>1, <1>3 DEF Grid!Init

\* No step but LayTile is to be noticed.
LEMMA GridStep == Inv /\ [Next]_vars => [Grid!Next]_<<[p \in TilePos |-> Content(map, p)], laid>>
<1> SUFFICES ASSUME Inv, [Next]_vars
             PROVE  [Grid!Next]_<<[p \in TilePos |-> Content(map, p)], laid>>
  OBVIOUS
<1>0. TilePos \subseteq Vector /\ MapSound(map)
  BY TileMapAssumption DEF Vector, Inv
<1>1. ASSUME UNCHANGED <<map, laid>>
      PROVE  UNCHANGED <<[p \in TilePos |-> Content(map, p)], laid>>
  BY <1>1
<1>2. ASSUME NEW p \in Player, NEW delta \in Vector, map' = MapAfterCast(p, delta), laid' = laid
      PROVE  UNCHANGED <<[q \in TilePos |-> Content(map, q)], laid>>
  <2>1. \A q \in Vector : Content(MapAfterCast(p, delta), q) = Content(map, q)
    BY <1>0, MapAfterCastIs DEF Inv
  <2>2. \A q \in TilePos : Content(map', q) = Content(map, q)
    BY <1>0, <1>2, <2>1
  <2>3. [q \in TilePos |-> Content(map, q)]' = [q \in TilePos |-> Content(map', q)]
    OBVIOUS
  <2>4. QED
    BY <1>2, <2>2, <2>3
<1>3. ASSUME NEW id \in TileId, LayTile(id) PROVE Grid!Next
  <2>1. PICK p : p = LevelTile[laid + 1]
    OBVIOUS
  <2>2. p \in TilePos
    <3>1. /\ laid \in 0..Len(LevelTile) /\ laid < Len(LevelTile) /\ Len(LevelTile) \in Nat
      BY <1>3, ClientWorldAssumption DEF Inv, Typed, LayTile
    <3>2. laid + 1 \in 1..Len(LevelTile)
      BY <3>1
    <3>3. QED
      BY <2>1, <3>2, ClientWorldAssumption
  <2>3. PICK new : new = IF id = Air THEN Content(map, p) ELSE id
    OBVIOUS
  <2>4. new \in TileId
    BY <1>0, <2>2, <2>3, ContentIs
  <2>5. \A q \in TilePos : Content(map', q) = IF q = p THEN new ELSE Content(map, q)
    <3>1. CASE id = Air
      <4>1. map' = map
        BY <1>3, <3>1 DEF LayTile
      <4>2. QED
        BY <2>3, <3>1, <4>1
    <3>2. CASE id # Air
      <4>1. map' = Placed(map, p, id)
        BY <1>3, <2>1, <3>2 DEF LayTile
      <4>2. \A q \in Vector : Content(Placed(map, p, id), q) = IF q = p THEN id ELSE Content(map, q)
        BY <1>0, <2>2, PlacedChangesOne
      <4>3. QED
        BY <1>0, <2>3, <3>2, <4>1, <4>2
    <3>3. QED
      BY <3>1, <3>2
  <2>6. [q \in TilePos |-> Content(map, q)]' = [[q \in TilePos |-> Content(map, q)] EXCEPT ![p] = new]
    <3>1. [q \in TilePos |-> Content(map, q)]' = [q \in TilePos |-> Content(map', q)]
      OBVIOUS
    <3>2. QED
      BY <2>2, <2>5, <3>1
  <2>7. laid' = laid + 1
    BY <1>3 DEF LayTile
  <2>8. QED
    BY <2>2, <2>4, <2>6, <2>7 DEF Grid!Next, Grid!Set
<1>4. CASE UNCHANGED vars
  BY <1>1, <1>4 DEF vars
<1>5. CASE Level
  <2>1. RegisterLevel => UNCHANGED <<map, laid>>
    BY DEF RegisterLevel
  <2>2. QED
    BY <1>1, <1>3, <1>5, <2>1 DEF Level
<1>6. CASE \E p \in Player : FlushCollider(p) \/ UpdateCollider(p)
  BY <1>1, <1>6 DEF FlushCollider, UpdateCollider
<1>7. CASE FlushEnd \/ EndRpc \/ EndKinematics \/ EndFrame
  BY <1>1, <1>7 DEF FlushEnd, EndRpc, EndKinematics, EndFrame
<1>8. CASE Packets
  BY <1>1, <1>8 DEF Packets, AddPlayer, SetPos, BindKind, RemovePlayer
<1>9. CASE Kinematics
  <2>1. ASSUME NEW p \in Player, NEW delta \in Delta, Probe(p, delta)
        PROVE  UNCHANGED <<[q \in TilePos |-> Content(map, q)], laid>>
    BY <1>2, <2>1, ClientWorldAssumption DEF Probe
  <2>2. ASSUME NEW p \in Player, NEW delta \in Delta, StartMove(p, delta)
        PROVE  UNCHANGED <<[q \in TilePos |-> Content(map, q)], laid>>
    BY <1>1, <2>2 DEF StartMove
  <2>3. ASSUME NEW p \in Player, Stay(p)
        PROVE  UNCHANGED <<[q \in TilePos |-> Content(map, q)], laid>>
    BY <1>1, <2>3 DEF Stay
  <2>4. ASSUME NEW p \in Player, SlideStep(p)
        PROVE  UNCHANGED <<[q \in TilePos |-> Content(map, q)], laid>>
    <3>1. slide.delta \in Vector /\ map' = MapAfterCast(p, slide.delta) /\ laid' = laid
      BY <2>4 DEF SlideStep, Inv, Typed
    <3>2. QED
      BY <1>2, <3>1
  <2>5. ASSUME SlideEnd
        PROVE  UNCHANGED <<[q \in TilePos |-> Content(map, q)], laid>>
    BY <1>1, <2>5 DEF SlideEnd
  <2>6. QED
    BY <1>9, <2>1, <2>2, <2>3, <2>4, <2>5 DEF Kinematics
<1>10. QED
  BY <1>4, <1>5, <1>6, <1>7, <1>8, <1>9 DEF Next

\* The level's map refines TileGrid: only a call of set changes a tile, and only that one;
\* what the casts read and move between the chunks is not to be noticed.
THEOREM TilesAreKept == Spec => TilesKept
<1>1. Init => Grid!Init
  BY GridInit
<1>2. Inv /\ [Next]_vars => [Grid!Next]_<<[p \in TilePos |-> Content(map, p)], laid>>
  BY GridStep
<1>3. Spec => Grid!Spec
  BY <1>1, <1>2, SpecInv, PTL DEF Spec, Grid!Spec
<1>4. QED
  BY <1>3, Zenon DEF TilesKept

----------------------------------------------------------------------------
(* Results in the order of their fractions *)

Leq(a, b) == a.num * b.den <= b.num * a.den

LEMMA Scaled ==
  ASSUME NEW a \in Int, NEW b \in Int, NEW c \in Nat
  PROVE  /\ a <= b => a * c <= b * c
         /\ c # 0 /\ a * c <= b * c => a <= b
<1>1. ASSUME a <= b PROVE a * c <= b * c
  BY <1>1
<1>2. ASSUME c # 0, b + 1 <= a PROVE ~(a * c <= b * c)
  <2>1. (b + 1) * c <= a * c /\ (b + 1) * c = b * c + c
    BY <1>2
  <2>2. a * c \in Int /\ b * c \in Int
    OBVIOUS
  <2>3. QED
    BY ONLY <1>2, <2>1, <2>2, c \in Nat
<1>3. QED
  BY <1>1, <1>2

LEMMA LeqTransitive ==
  ASSUME NEW a, NEW b, NEW c, ResultIs(a), ResultIs(b), ResultIs(c), Leq(a, b), Leq(b, c)
  PROVE  Leq(a, c)
<1>0. PICK x, y, z, p, q, r : x = a.num /\ y = b.num /\ z = c.num /\ p = a.den /\ q = b.den /\ r = c.den
  OBVIOUS
<1>1. x \in Nat /\ y \in Nat /\ z \in Nat /\ p \in Nat \ {0} /\ q \in Nat \ {0} /\ r \in Nat \ {0}
  BY <1>0 DEF ResultIs
<1>2. x * q <= y * p /\ y * r <= z * q
  BY <1>0 DEF Leq
<1>3. /\ x * q \in Int /\ y * p \in Int /\ y * r \in Int /\ z * q \in Int
      /\ x * r \in Int /\ z * p \in Int
  BY ONLY <1>1
<1>4. (x * q) * r <= (y * p) * r /\ (y * r) * p <= (z * q) * p
  BY ONLY <1>1, <1>2, <1>3, Scaled
<1>5. (x * q) * r = (x * r) * q /\ (y * p) * r = (y * r) * p /\ (z * q) * p = (z * p) * q
  BY ONLY <1>1
<1>6. (x * r) * q \in Int /\ (y * r) * p \in Int /\ (z * p) * q \in Int
  BY ONLY <1>1, <1>3
<1>7. (x * r) * q <= (z * p) * q
  BY ONLY <1>4, <1>5, <1>6
<1>8. x * r <= z * p
  BY ONLY <1>1, <1>3, <1>7, Scaled
<1>9. QED
  BY ONLY <1>0, <1>8 DEF Leq

LEMMA LeqTotal ==
  ASSUME NEW a, NEW b, ResultIs(a), ResultIs(b)
  PROVE  Leq(a, a) /\ (Leq(a, b) \/ Leq(b, a))
<1>1. a.num * b.den \in Int /\ b.num * a.den \in Int /\ a.num * a.den \in Int
  BY DEF ResultIs
<1>2. QED
  BY <1>1 DEF Leq

LEMMA SoonerLeq ==
  ASSUME NEW a, NEW b, ResultIs(a), ResultIs(b)
  PROVE  ResultIs(Sooner(a, b)) /\ Leq(Sooner(a, b), a) /\ Leq(Sooner(a, b), b)
<1>1. a.num * b.den \in Int /\ b.num * a.den \in Int
  BY DEF ResultIs
<1>2. CASE b.num * a.den < a.num * b.den
  <2>1. Sooner(a, b) = b
    BY <1>2 DEF Sooner
  <2>2. Leq(b, a)
    BY <1>1, <1>2 DEF Leq
  <2>3. QED
    BY <2>1, <2>2, LeqTotal
<1>3. CASE ~(b.num * a.den < a.num * b.den)
  <2>1. Sooner(a, b) = a
    BY <1>3 DEF Sooner
  <2>2. Leq(a, b)
    BY <1>1, <1>3 DEF Leq
  <2>3. QED
    BY <2>1, <2>2, LeqTotal
<1>4. QED
  BY <1>2, <1>3

LEMMA ClearLast ==
  ASSUME NEW r, ResultIs(r)
  PROVE  Leq(r, Clear) /\ (~(r.num < r.den) => Leq(Clear, r))
BY ClearIs DEF Leq, ResultIs

\* The results to choose from, as a set that does not name its elements' form.
Least(T, m) == m \in T /\ \A t \in T : Leq(m, t)

LEMMA LeastResult ==
  ASSUME NEW T, IsFiniteSet(T), T # {}, \A t \in T : ResultIs(t)
  PROVE  \E m : Least(T, m)
<1> DEFINE P == {n \in Nat : \A S \in SUBSET T : S # {} /\ Cardinality(S) = n => \E m : Least(S, m)}
<1>0. \A S \in SUBSET T : IsFiniteSet(S) /\ Cardinality(S) \in Nat
  BY FS_Subset, FS_CardinalityType
<1>1. 0 \in P
  BY <1>0, FS_EmptySet
<1>2. \A n \in Nat : n \in P => n + 1 \in P
  <2> SUFFICES ASSUME NEW n \in Nat, n \in P, NEW S \in SUBSET T, S # {}, Cardinality(S) = n + 1
               PROVE  \E m : Least(S, m)
    OBVIOUS
  <2>1. PICK x : x \in S
    OBVIOUS
  <2>2. PICK R : R = S \ {x}
    OBVIOUS
  <2>3. R \in SUBSET T /\ Cardinality(R) = n
    BY <1>0, <2>1, <2>2, FS_RemoveElement
  <2>4. CASE R = {}
    <3>1. Least(S, x)
      BY <2>1, <2>2, <2>4, LeqTotal DEF Least
    <3>2. QED
      BY <3>1
  <2>5. CASE R # {}
    <3>1. PICK m : Least(R, m)
      BY <2>3, <2>5
    <3> HIDE DEF P
    <3>2. ResultIs(m) /\ ResultIs(x) /\ \A t \in S : ResultIs(t)
      BY <2>1, <2>2, <3>1 DEF Least
    <3>3. CASE Leq(m, x)
      <4>1. Least(S, m)
        BY <2>1, <2>2, <3>1, <3>3 DEF Least
      <4>2. QED
        BY <4>1
    <3>4. CASE Leq(x, m)
      <4>1. \A t \in S : Leq(x, t)
        <5>1. Leq(x, x)
          BY <3>2, LeqTotal
        <5>2. \A t \in R : Leq(m, t) /\ ResultIs(t)
          BY <2>2, <3>1, <3>2 DEF Least
        <5>3. \A t \in R : Leq(x, t)
          BY <3>2, <3>4, <5>2, LeqTransitive
        <5>4. QED
          BY <2>2, <5>1, <5>3
      <4>2. Least(S, x)
        BY <2>1, <4>1 DEF Least
      <4>3. QED
        BY <4>2
    <3>5. QED
      BY <3>2, <3>3, <3>4, LeqTotal
  <2>6. QED
    BY <2>4, <2>5
<1> HIDE DEF P
<1>3. Nat \subseteq P
  BY ONLY <1>1, <1>2, NaturalsIn
<1>4. PICK n \in Nat : n = Cardinality(T)
  BY <1>0
<1>5. n \in P
  BY <1>3
<1>6. QED
  BY <1>4, <1>5 DEF P

----------------------------------------------------------------------------
(* A cast along an axis *)

LEMMA FloorBounds ==
  ASSUME NEW x \in Int, NEW d \in Nat \ {0}, NEW n \in Int
  PROVE  /\ x \div d \in Int
         /\ x <= n * d => x \div d <= n
         /\ n * d <= x => n <= x \div d
<1>0. PICK q, r : q = x \div d /\ r = x % d
  OBVIOUS
<1>1. q \in Int /\ r \in 0..(d - 1) /\ x = d * q + r
  BY <1>0, DivMod
<1>2. n * d \in Int /\ d * q \in Int /\ d * q = q * d
  BY <1>1
<1>3. ASSUME x <= n * d, n + 1 <= q PROVE FALSE
  <2>1. (n + 1) * d <= q * d /\ (n + 1) * d = n * d + d
    BY <1>1, <1>3, Scaled
  <2>2. QED
    BY ONLY <1>1, <1>2, <1>3, <2>1, d \in Nat \ {0}, n \in Int
<1>4. ASSUME n * d <= x, q + 1 <= n PROVE FALSE
  <2>1. (q + 1) * d <= n * d /\ (q + 1) * d = q * d + d
    BY <1>1, <1>4, Scaled
  <2>2. QED
    BY ONLY <1>1, <1>2, <1>4, <2>1, d \in Nat \ {0}, n \in Int
<1>5. QED
  BY <1>0, <1>1, <1>3, <1>4

\* P is o, longer along the axis.
PaddedBy(o, axis, mag, P) ==
  /\ P \in Box
  /\ P.min[axis] = Low(o.min[axis], o.min[axis] + mag)
  /\ P.max[axis] = High(o.max[axis], o.max[axis] + mag)
  /\ P.min[3 - axis] = o.min[3 - axis] /\ P.max[3 - axis] = o.max[3 - axis]

LEMMA PaddingIs ==
  ASSUME NEW o \in Box, NEW axis \in 1..2, NEW mag \in Int, NEW P, P = TranslateExtend(o, OnAxis(axis, mag))
  PROVE  PaddedBy(o, axis, mag, P)
<1>1. P \in Box
  BY PaddingBox
<1>2. PICK v, b : v = OnAxis(axis, mag) /\ b = Translated(o, v)
  OBVIOUS
<1>3. \A k \in 1..2 : o.min[k] \in Int /\ o.max[k] \in Int
  BY BoxIs
<1>4. P = Union(o, b)
  BY <1>2 DEF TranslateExtend
<1>5. \A k \in 1..2 : b.min[k] = o.min[k] + v[k] /\ b.max[k] = o.max[k] + v[k]
  BY <1>2 DEF Translated, Plus
<1>6. \A k \in 1..2 : P.min[k] = Low(o.min[k], b.min[k]) /\ P.max[k] = High(o.max[k], b.max[k])
  BY <1>4 DEF Union
<1>7. v[axis] = mag /\ v[3 - axis] = 0 /\ 3 - axis \in 1..2
  BY <1>2, OnAxisIs
<1>8. P.min[3 - axis] = o.min[3 - axis] /\ P.max[3 - axis] = o.max[3 - axis]
  BY <1>3, <1>5, <1>6, <1>7 DEF Low, High
<1>9. QED
  BY <1>1, <1>5, <1>6, <1>7, <1>8 DEF PaddedBy

\* The distance that a part of a move along an axis goes.
LEMMA MovedIs ==
  ASSUME NEW axis \in 1..2, NEW mag \in Int, NEW r, ResultIs(r)
  PROVE  LET v == Moved(OnAxis(axis, mag), r)
         IN v[1] \in Int /\ v[2] \in Int /\ v[axis] = (mag * r.num) \div r.den /\ v[3 - axis] = 0
<1>0. PICK d, v, q : d = OnAxis(axis, mag) /\ v = Moved(d, r) /\ q = 3 - axis
  OBVIOUS
<1>1. d[1] \in Int /\ d[2] \in Int /\ d[axis] = mag /\ d[q] = 0 /\ q \in 1..2
  BY <1>0, OnAxisIs
<1>2. r.num \in Nat /\ r.den \in Nat \ {0}
  BY DEF ResultIs
<1>3. \A k \in 1..2 : v[k] = (d[k] * r.num) \div r.den
  BY <1>0 DEF Moved, Part
<1>4. ASSUME NEW x \in Int PROVE (x * r.num) \div r.den \in Int
  <2>1. PICK y, e : y = x * r.num /\ e = r.den
    OBVIOUS
  <2>2. y \in Int /\ e \in Nat \ {0}
    BY <1>2, <2>1
  <2>3. y \div e \in Int
    BY ONLY <2>2, DivMod
  <2>4. QED
    BY ONLY <2>1, <2>3
<1>5. (0 * r.num) \div r.den = 0
  <2>1. 0 * r.num = 0
    BY <1>2
  <2>2. 0 \div r.den <= 0 /\ 0 <= 0 \div r.den /\ 0 \div r.den \in Int
    <3>1. 0 * r.den = 0
      BY <1>2
    <3>2. QED
      BY <1>2, <3>1, FloorBounds
  <2>3. QED
    BY <2>1, <2>2
<1>6. v[1] \in Int /\ v[2] \in Int
  BY <1>1, <1>3, <1>4
<1>7. v[axis] = (mag * r.num) \div r.den /\ v[q] = 0
  BY <1>1, <1>3, <1>5
<1>8. QED
  BY <1>0, <1>6, <1>7

\* The line along the axis: a box from a to b, what is in its way from c to e, and the
\* safety threshold t.
Clearance(a, b, c, e, t) == b + t <= c \/ e + t <= a

\* How far a part of the move goes: no further than the number n that the cast stops at.
LEMMA MoveBound ==
  ASSUME NEW mag \in Int, NEW r, ResultIs(r), NEW n \in Nat, NEW s, s = IF mag < 0 THEN -mag ELSE mag,
         n <= s => r.num * s <= n * r.den
  PROVE  LET v == (mag * r.num) \div r.den
         IN /\ v \in Int
            /\ mag >= 0 => 0 <= v /\ v <= n
            /\ mag < 0 => -n <= v /\ v <= 0
<1>0. PICK x, d, v, k : x = mag * r.num /\ d = r.den /\ v = x \div d /\ k = r.num
  OBVIOUS
<1>1. d \in Nat \ {0} /\ k \in Nat /\ k <= d /\ x \in Int /\ s \in Nat
  BY <1>0 DEF ResultIs
<1>2. v \in Int
  BY <1>0, <1>1, FloorBounds
<1>3. k * s <= n * d
  <2>1. CASE n <= s
    BY <1>0, <2>1
  <2>2. CASE s < n
    <3>1. k * s <= d * s /\ s * d <= n * d /\ d * s = s * d /\ k * s \in Int /\ d * s \in Int /\ n * d \in Int
      BY <1>1, <2>2, Scaled
    <3>2. QED
      BY ONLY <3>1
  <2>3. QED
    BY <1>1, <2>1, <2>2
<1>4. k * s \in Nat /\ n * d \in Int /\ 0 * d = 0 /\ (-n) * d = -(n * d)
  BY <1>1
<1>5. CASE mag >= 0
  <2>1. x = k * s
    BY <1>0, <1>1, <1>5
  <2>2. x <= n * d /\ 0 * d <= x
    BY ONLY <1>3, <1>4, <2>1
  <2>3. v <= n /\ 0 <= v
    BY <1>0, <1>1, <2>2, FloorBounds
  <2>4. QED
    BY <1>0, <1>2, <1>5, <2>3
<1>6. CASE mag < 0
  <2>1. x = -(k * s)
    BY <1>0, <1>1, <1>6
  <2>2. x <= 0 * d /\ (-n) * d <= x
    BY ONLY <1>3, <1>4, <2>1
  <2>3. v <= 0 /\ -n <= v
    <3>1. PICK w : w = -n
      OBVIOUS
    <3>2. w \in Int /\ 0 \in Int /\ w * d <= x /\ x <= 0 * d
      BY ONLY <2>2, <3>1, n \in Nat
    <3>3. w <= x \div d /\ x \div d <= 0
      BY ONLY <1>1, <3>2, FloorBounds
    <3>4. QED
      BY ONLY <1>0, <3>1, <3>3
  <2>4. QED
    BY <1>0, <1>2, <1>6, <2>3
<1>7. QED
  BY <1>5, <1>6

\* How far it is, in the direction of the move, to where the safety threshold begins.
Distance(start, o, axis, sign) ==
  IF sign = 1 THEN o.min[axis] - SafetyThreshold - start.max[axis]
  ELSE start.min[axis] - (o.max[axis] + SafetyThreshold)

\* What is ahead and in the way stops the cast of its padding there.
LEMMA CastStops ==
  ASSUME NEW start \in Box, NEW o \in Box, NEW axis \in 1..2, NEW mag \in Int,
         NEW sign, sign = OfBiased(mag), NEW delta, delta = OnAxis(axis, mag),
         NEW P, P = TranslateExtend(o, OnAxis(axis, -sign * SafetyThreshold)),
         NEW n \in Nat, n = Distance(start, o, axis, sign),
         NEW s, s = IF mag < 0 THEN -mag ELSE mag, s # 0, n <= s,
         ~ApartBy(1, 3 - axis, start, o),
         NEW h, h = HullCastPadding(start, delta, P, axis, sign)
  PROVE  h.num = n /\ h.den = s
<1>0. PICK t, q, back, push : /\ t = SafetyThreshold /\ q = 3 - axis /\ back = -sign
                              /\ push = -sign * SafetyThreshold
  OBVIOUS
<1>1. /\ t \in Nat \ {0} /\ q \in 1..2 /\ s \in Nat \ {0} /\ push \in Int
      /\ (sign = 1 /\ back = -1 /\ push = -t) \/ (sign = -1 /\ back = 1 /\ push = t)
  <2>1. t \in Nat \ {0} /\ q \in 1..2 /\ s \in Nat \ {0}
    BY <1>0, GeometryAssumption
  <2>2. sign = 1 \/ sign = -1
    BY DEF OfBiased
  <2>3. sign = 1 => back = -1 /\ push = -t
    BY ONLY <1>0, <2>1
  <2>4. sign = -1 => back = 1 /\ push = t
    <3>1. sign \in {-1, 1}
      BY ONLY <2>2
    <3>2. back + sign = 0 /\ back \in Int /\ (sign = -1 => push = t)
      BY ONLY <1>0, <2>1, <3>1
    <3>3. QED
      BY ONLY <3>1, <3>2
  <2>5. QED
    BY ONLY <2>1, <2>2, <2>3, <2>4
<1>2. \A k \in 1..2 : /\ o.min[k] \in Int /\ o.max[k] \in Int
                      /\ start.min[k] \in Int /\ start.max[k] \in Int
  BY BoxIs
<1>3. P = TranslateExtend(o, OnAxis(axis, push))
  BY <1>0
<1>4. /\ P.min[axis] = Low(o.min[axis], o.min[axis] + push)
      /\ P.max[axis] = High(o.max[axis], o.max[axis] + push)
      /\ P.min[q] = o.min[q] /\ P.max[q] = o.max[q]
  <2>1. PaddedBy(o, axis, push, P)
    BY ONLY <1>1, <1>3, PaddingIs, o \in Box, axis \in 1..2
  <2>2. QED
    BY ONLY <1>0, <2>1 DEF PaddedBy
<1>5. delta[axis] = mag /\ delta[q] = 0
  BY <1>0, OnAxisIs
<1>6. o.min[q] <= start.max[q] /\ start.min[q] <= o.max[q]
  BY <1>0, <1>1, <1>2 DEF ApartBy
<1>7. PICK flush, other : /\ flush = sign * (Corner(P, axis, back) - Corner(start, axis, sign))
                          /\ other = sign * (Corner(P, axis, sign) - Corner(start, axis, sign))
  OBVIOUS
<1>8. sign * delta[axis] = s
  BY <1>1, <1>5 DEF OfBiased
<1>9. flush = n
  <2>1. CASE sign = 1
    <3>1. P.min[axis] = o.min[axis] - t
      BY <1>1, <1>2, <1>4, <2>1 DEF Low
    <3>2. Corner(P, axis, back) = P.min[axis] /\ Corner(start, axis, sign) = start.max[axis]
      BY <1>1, <2>1 DEF Corner
    <3>3. n = o.min[axis] - t - start.max[axis]
      BY <1>0, <2>1 DEF Distance
    <3>4. QED
      BY <1>1, <1>2, <1>7, <2>1, <3>1, <3>2, <3>3
  <2>2. CASE sign = -1
    <3>1. P.max[axis] = o.max[axis] + t
      BY <1>1, <1>2, <1>4, <2>2 DEF High
    <3>2. Corner(P, axis, back) = P.max[axis] /\ Corner(start, axis, sign) = start.min[axis]
      BY <1>1, <2>2 DEF Corner
    <3>3. n = start.min[axis] - (o.max[axis] + t)
      BY <1>0, <2>2 DEF Distance
    <3>4. QED
      BY <1>1, <1>2, <1>7, <2>2, <3>1, <3>2, <3>3
  <2>3. QED
    BY <1>1, <2>1, <2>2
<1>10. High(flush, 0) = n
  BY <1>9 DEF High
<1>11. /\ ~(P.min[q] * s > start.max[q] * s + delta[q] * n)
       /\ ~(start.min[q] * s + delta[q] * n > P.max[q] * s)
  <2>1. o.min[q] * s <= start.max[q] * s /\ start.min[q] * s <= o.max[q] * s
    BY <1>1, <1>2, <1>6, Scaled
  <2>2. /\ o.min[q] * s \in Int /\ start.max[q] * s \in Int
        /\ start.min[q] * s \in Int /\ o.max[q] * s \in Int /\ delta[q] * n = 0
    BY <1>1, <1>2, <1>5
  <2>3. QED
    BY <1>4, <2>1, <2>2
<1>12. h = IF \/ s <= 0
              \/ flush < 0 /\ other < 0
              \/ n > s
              \/ P.min[q] * s > start.max[q] * s + delta[q] * n
              \/ start.min[q] * s + delta[q] * n > P.max[q] * s
           THEN Clear ELSE Obstructed(n, s, OnAxis(axis, -sign))
  BY ONLY <1>0, <1>7, <1>8, <1>10, h = HullCastPadding(start, delta, P, axis, sign), Zenon DEF HullCastPadding
<1>13. h = Obstructed(n, s, OnAxis(axis, -sign))
  BY <1>1, <1>9, <1>11, <1>12
<1>14. QED
  BY <1>13 DEF Obstructed

\* The cast of a hull is no later than that of the padding along the axis.
LEMMA CastLeq ==
  ASSUME NEW start \in Box, NEW o \in Box, NEW axis \in 1..2, NEW mag \in Int,
         NEW sign, sign = OfBiased(mag), NEW delta, delta = OnAxis(axis, mag),
         NEW P, P = TranslateExtend(o, OnAxis(axis, -sign * SafetyThreshold)),
         ApartBy(SafetyThreshold, axis, start, o)
  PROVE  Leq(HullCast(start, delta, o), HullCastPadding(start, delta, P, axis, sign))
<1>1. delta[1] \in Int /\ delta[2] \in Int /\ delta[axis] = mag /\ delta[3 - axis] = 0
  BY OnAxisIs
<1>2. PICK s1, s2 : s1 = OfBiased(delta[1]) /\ s2 = OfBiased(delta[2])
  OBVIOUS
<1>3. PICK P1, P2 : /\ P1 = TranslateExtend(o, OnAxis(1, -s1 * SafetyThreshold))
                    /\ P2 = TranslateExtend(o, OnAxis(2, -s2 * SafetyThreshold))
  OBVIOUS
<1>4. PICK h1, h2 : /\ h1 = HullCastPadding(start, delta, P1, 1, s1)
                    /\ h2 = HullCastPadding(start, delta, P2, 2, s2)
  OBVIOUS
<1>5. PICK f, h : f = Sooner(Clear, h1) /\ h = HullCast(start, delta, o)
  OBVIOUS
<1>6. h = IF Intersects(P1, start) THEN f ELSE Sooner(f, h2)
  BY <1>2, <1>3, <1>4, <1>5, Zenon DEF HullCast, AXES
<1>7. s1 \in {-1, 1} /\ s2 \in {-1, 1} /\ -s1 * SafetyThreshold \in Int /\ -s2 * SafetyThreshold \in Int
  BY <1>1, <1>2, GeometryAssumption DEF OfBiased
<1>8. P1 \in Box /\ P2 \in Box
  BY <1>3, <1>7, PaddingBox
<1>9. ResultIs(h1) /\ ResultIs(h2)
  BY <1>1, <1>4, <1>7, <1>8, PaddingType
<1>10. ResultIs(f) /\ Leq(f, h1)
  BY <1>5, <1>9, ClearIs, SoonerLeq
<1>11. ResultIs(Sooner(f, h2)) /\ Leq(Sooner(f, h2), f) /\ Leq(Sooner(f, h2), h2)
  BY <1>9, <1>10, SoonerLeq
<1>12. CASE axis = 1
  <2>1. s1 = sign /\ P1 = P
    BY <1>1, <1>2, <1>3, <1>12
  <2>2. Leq(Sooner(f, h2), h1)
    BY <1>9, <1>10, <1>11, LeqTransitive
  <2>3. Leq(h, h1)
    BY <1>6, <1>10, <2>2
  <2>4. QED
    BY <1>4, <1>5, <1>12, <2>1, <2>3
<1>13. CASE axis = 2
  <2>1. s2 = sign /\ P2 = P
    BY <1>1, <1>2, <1>3, <1>13
  <2>2. ~Intersects(P1, start)
    <3>1. P1.min[2] = o.min[2] /\ P1.max[2] = o.max[2]
      <4>1. P1.min[3 - 1] = o.min[3 - 1] /\ P1.max[3 - 1] = o.max[3 - 1]
        <5>1. 1 \in 1..2
          OBVIOUS
        <5>2. PICK m : m = -s1 * SafetyThreshold
          OBVIOUS
        <5>3. m \in Int /\ P1 = TranslateExtend(o, OnAxis(1, m))
          BY <1>3, <1>7, <5>2
        <5>4. PaddedBy(o, 1, m, P1)
          BY ONLY <5>1, <5>3, PaddingIs, o \in Box
        <5>5. QED
          BY ONLY <5>4 DEF PaddedBy
      <4>2. 3 - 1 = 2
        OBVIOUS
      <4>3. QED
        BY ONLY <4>1, <4>2
    <3>2. /\ o.min[2] \in Int /\ o.max[2] \in Int /\ start.min[2] \in Int /\ start.max[2] \in Int
          /\ SafetyThreshold \in Nat \ {0}
      BY BoxIs, GeometryAssumption
    <3>3. start.max[2] + SafetyThreshold <= o.min[2] \/ o.max[2] + SafetyThreshold <= start.min[2]
      BY <1>13 DEF ApartBy
    <3>4. ~(o.min[2] <= start.max[2] /\ start.min[2] <= o.max[2])
      BY ONLY <3>2, <3>3
    <3>5. QED
      BY <3>1, <3>4 DEF Intersects
  <2>3. Leq(h, h2)
    BY <1>6, <1>11, <2>2
  <2>4. QED
    BY <1>4, <1>5, <1>13, <2>1, <2>3
<1>14. QED
  BY <1>12, <1>13

\* A move that stops no later than the cast against o says keeps the distance to o.
LEMMA MoveKeepsApart ==
  ASSUME NEW start \in Box, NEW o \in Box, NEW axis \in 1..2, NEW mag \in Int,
         NEW delta, delta = OnAxis(axis, mag), NEW r, ResultIs(r),
         Leq(r, HullCast(start, delta, o)),
         ~ApartBy(1, 3 - axis, start, o), ApartBy(SafetyThreshold, axis, start, o)
  PROVE  ApartBy(SafetyThreshold, axis, Translated(start, Moved(delta, r)), o)
<1>0. PICK t, s, sign, v : /\ t = SafetyThreshold /\ s = (IF mag < 0 THEN -mag ELSE mag)
                           /\ sign = OfBiased(mag) /\ v = (mag * r.num) \div r.den
  OBVIOUS
<1>1. t \in Nat \ {0} /\ s \in Nat
  BY <1>0, GeometryAssumption
<1>2. PICK a, b, c, e : /\ a = start.min[axis] /\ b = start.max[axis]
                        /\ c = o.min[axis] /\ e = o.max[axis]
  OBVIOUS
<1>3. a \in Int /\ b \in Int /\ c \in Int /\ e \in Int
  BY <1>2, BoxIs
<1>4. b + t <= c \/ e + t <= a
  BY <1>0, <1>2 DEF ApartBy
<1>5. Moved(delta, r)[axis] = v
  BY <1>0, MovedIs
<1>6. PICK P, h : /\ P = TranslateExtend(o, OnAxis(axis, -sign * SafetyThreshold))
                  /\ h = HullCastPadding(start, delta, P, axis, sign)
  OBVIOUS
<1>7. delta[1] \in Int /\ delta[2] \in Int /\ sign \in {-1, 1} /\ -sign * SafetyThreshold \in Int
  BY <1>0, OnAxisIs, GeometryAssumption DEF OfBiased
<1>8. ResultIs(h) /\ ResultIs(HullCast(start, delta, o))
  <2>1. P \in Box
    BY <1>6, <1>7, PaddingBox
  <2>2. QED
    BY <1>6, <1>7, <2>1, PaddingType, HullCastIs
<1>9. Leq(r, h)
  <2>1. Leq(HullCast(start, delta, o), h)
    BY <1>0, <1>6, CastLeq
  <2>2. QED
    BY <1>8, <2>1, LeqTransitive
\* Whatever is ahead: the move does not come closer than the threshold.
<1>10. ASSUME NEW n \in Nat, n = Distance(start, o, axis, sign)
       PROVE  /\ mag >= 0 => v <= n
              /\ mag < 0 => -n <= v
  <2>1. n <= s => r.num * s <= n * r.den
    <3>1. CASE s = 0
      <4>1. r.num \in Nat /\ r.den \in Nat /\ r.num * 0 = 0 /\ n * r.den \in Nat
        BY DEF ResultIs
      <4>2. QED
        BY <3>1, <4>1
    <3>2. CASE s # 0 /\ n <= s
      <4>1. h.num = n /\ h.den = s
        BY <1>0, <1>6, <1>10, <3>2, CastStops
      <4>2. QED
        BY <1>9, <4>1 DEF Leq
    <3>3. QED
      BY <3>1, <3>2
  <2>2. QED
    BY <1>0, <2>1, MoveBound
\* Whatever is behind: the move does not come closer at all.
<1>11. v \in Int /\ (mag >= 0 => 0 <= v) /\ (mag < 0 => v <= 0)
  <2>1. s + 1 \in Nat /\ ~(s + 1 <= s)
    BY <1>1
  <2>2. QED
    BY ONLY <1>0, <2>1, MoveBound, mag \in Int, ResultIs(r)
<1>12. b + v + t <= c \/ e + t <= a + v
  <2>1. CASE mag >= 0
    <3>1. sign = 1
      BY <1>0, <2>1 DEF OfBiased
    <3>2. CASE b + t <= c
      <4>1. PICK n : n = c - t - b
        OBVIOUS
      <4>2. n \in Nat /\ n = Distance(start, o, axis, sign)
        BY <1>0, <1>1, <1>2, <1>3, <3>1, <3>2, <4>1 DEF Distance
      <4>3. v <= n
        BY <1>10, <2>1, <4>2
      <4>4. QED
        BY <1>1, <1>3, <1>11, <4>1, <4>3
    <3>3. CASE e + t <= a
      BY <1>1, <1>3, <1>11, <2>1, <3>3
    <3>4. QED
      BY <1>4, <3>2, <3>3
  <2>2. CASE mag < 0
    <3>1. sign = -1
      BY <1>0, <2>2 DEF OfBiased
    <3>2. CASE e + t <= a
      <4>1. PICK n : n = a - (e + t)
        OBVIOUS
      <4>2. n \in Nat /\ n = Distance(start, o, axis, sign)
        BY <1>0, <1>1, <1>2, <1>3, <3>1, <3>2, <4>1 DEF Distance
      <4>3. -n <= v
        BY <1>10, <2>2, <4>2
      <4>4. QED
        BY <1>1, <1>3, <1>11, <4>1, <4>3
    <3>3. CASE b + t <= c
      BY <1>1, <1>3, <1>11, <2>2, <3>3
    <3>4. QED
      BY <1>4, <3>2, <3>3
  <2>3. QED
    BY <2>1, <2>2
<1>13. QED
  <2>1. Translated(start, Moved(delta, r)).min[axis] = a + v
    BY <1>2, <1>5 DEF Translated, Plus
  <2>2. Translated(start, Moved(delta, r)).max[axis] = b + v
    BY <1>2, <1>5 DEF Translated, Plus
  <2>3. QED
    BY <1>0, <1>2, <1>12, <2>1, <2>2 DEF ApartBy

\* The cast against the tiles stops no later than any of the tiles below would have it.
LEMMA TilesLeq ==
  ASSUME NEW m, MapSound(m), NEW start, Proper(start),
         NEW delta, delta[1] \in Int, delta[2] \in Int,
         NEW tile \in Range(TilesBelow(CandidateAabb(start, delta))), Content(m, tile) # Air
  PROVE  /\ tile \in Vector
         /\ Leq(CastTiles(m, start, delta).result, HullCast(start, delta, TileBox(tile)))
<1>0. PICK list : list = TilesBelow(CandidateAabb(start, delta))
  OBVIOUS
<1>1. PICK n : TilesIs(list, n)
  BY <1>0, CandidateProper, TilesBelowIs
<1>2. n \in Nat /\ DOMAIN list = 1..n /\ \A k \in 1..n : list[k] \in Vector
  BY <1>1 DEF TilesIs
<1>3. PICK h : /\ h[0] = [map |-> m, result |-> Clear]
               /\ \A k \in 1..n : h[k] = Visit(start, delta, h[k - 1], list[k])
               /\ CastTiles(m, start, delta) = h[n]
  BY <1>0, <1>2, CastStages
<1>4. PICK i \in 1..n : list[i] = tile
  BY <1>0, <1>2 DEF Range
<1>5. start \in Box /\ tile \in Vector
  BY <1>2, <1>4 DEF Proper
<1>6. PICK hull : hull = HullCast(start, delta, TileBox(tile))
  OBVIOUS
<1>7. ResultIs(hull)
  BY <1>5, <1>6, TileBoxIs, HullCastIs
<1> DEFINE P == {k \in Nat : k <= n => CastIs(m, h[k]) /\ (i <= k => Leq(h[k].result, hull))}
<1>8. 0 \in P
  BY <1>3, ClearIs DEF CastIs
<1>9. \A k \in Nat : k \in P => k + 1 \in P
  <2> SUFFICES ASSUME NEW k \in Nat, k \in P, k + 1 <= n
               PROVE  CastIs(m, h[k + 1]) /\ (i <= k + 1 => Leq(h[k + 1].result, hull))
    OBVIOUS
  <2>1. k + 1 \in 1..n /\ (k + 1) - 1 = k /\ k <= n
    BY <1>2
  <2>2. CastIs(m, h[k]) /\ (i <= k => Leq(h[k].result, hull))
    BY <2>1
  <2> HIDE DEF P
  <2>3. h[k + 1] = Visit(start, delta, h[k], list[k + 1]) /\ list[k + 1] \in Vector
    BY <1>2, <1>3, <2>1
  <2>4. CastIs(m, h[k + 1])
    BY <1>5, <2>2, <2>3, VisitIs
  <2>5. PICK p, next : p = list[k + 1] /\ next = HullCast(start, delta, TileBox(p))
    OBVIOUS
  <2>6. /\ h[k + 1].result = IF Content(h[k].map, p) = Air THEN h[k].result
                             ELSE Sooner(h[k].result, next)
        /\ Content(h[k].map, p) = Content(m, p)
    BY <2>2, <2>3, <2>5 DEF Visit, CastIs
  <2>7. ResultIs(next) /\ ResultIs(h[k].result) /\ ResultIs(h[k + 1].result)
    BY <1>5, <2>2, <2>3, <2>4, <2>5, TileBoxIs, HullCastIs DEF CastIs
  <2>8. CASE i = k + 1
    <3>1. p = tile /\ next = hull
      BY <1>4, <1>6, <2>5, <2>8
    <3>2. h[k + 1].result = Sooner(h[k].result, hull)
      BY <2>6, <3>1
    <3>3. QED
      BY <1>7, <2>4, <2>7, <3>2, SoonerLeq
  <2>9. CASE i <= k
    <3>1. Leq(h[k + 1].result, h[k].result)
      BY <2>6, <2>7, SoonerLeq, LeqTotal
    <3>2. Leq(h[k + 1].result, hull)
      BY <1>7, <2>2, <2>7, <2>9, <3>1, LeqTransitive
    <3>3. QED
      BY <2>4, <3>2
  <2>10. QED
    BY <2>4, <2>8, <2>9
<1> HIDE DEF P
<1>10. Nat \subseteq P
  BY ONLY <1>8, <1>9, NaturalsIn
<1>11. n \in P /\ n <= n /\ i <= n
  BY <1>2, <1>10
<1>12. Leq(h[n].result, hull)
  BY <1>11 DEF P
<1>13. QED
  BY <1>3, <1>5, <1>6, <1>12

\* What the casts of a player come to is no later than any one of them.
LEMMA ResultsLeq ==
  ASSUME Inv, NEW p \in Player, NEW delta \in Vector, NEW r \in CastResults(p, delta),
         NEW c \in Candidates(p, delta)
  PROVE  ResultIs(r) /\ Leq(r, CastAgainst(c, collider[p].aabb, delta))
<1>0. PICK start, box : start = collider[p].aabb /\ box = CandidateAabb(start, delta)
  OBVIOUS
<1>1. Colliders /\ BusSound /\ MapSound(map) /\ Proper(start)
  BY <1>0 DEF Inv, Colliders
<1>2. PICK T : T = {CastAgainst(d, start, delta) : d \in Candidates(p, delta)}
  OBVIOUS
<1>3. PICK F : F = {s \in T : s.num < s.den /\ \A u \in T : s.num * u.den <= u.num * s.den}
  OBVIOUS
<1>4. r \in IF F = {} THEN {Clear} ELSE F
  BY <1>0, <1>2, <1>3, Zenon DEF CastResults
<1>5. \A s \in T : ResultIs(s)
  BY <1>1, <1>2, CastAgainstIs, FoundAre DEF Candidates
<1>6. IsFiniteSet(T)
  <2>1. IsFiniteSet(Leaves(tree))
    <3>1. Shape(tree)
      BY <1>1 DEF BusSound, BusSoundOf, Tree
    <3>2. QED
      BY <3>1, FS_Subset DEF Shape
  <2>2. PICK f : f = [leaf \in Leaves(tree) |-> CastAgainst(tree.value[leaf], start, delta)]
    OBVIOUS
  <2>3. T \subseteq {f[leaf] : leaf \in Leaves(tree)}
    BY <1>2, <2>2 DEF Candidates, Found, Reached
  <2>4. PICK I : I = {f[leaf] : leaf \in Leaves(tree)}
    OBVIOUS
  <2>5. f \in Surjection(Leaves(tree), I)
    BY <2>2, <2>4 DEF Surjection
  <2>6. IsFiniteSet(I)
    BY ONLY <2>1, <2>5, FS_Surjection
  <2>7. QED
    BY <2>3, <2>4, <2>6, FS_Subset
<1>7. PICK s : s = CastAgainst(c, start, delta)
  OBVIOUS
<1>8. s \in T
  BY <1>2, <1>7
<1>9. CASE F # {}
  <2>1. r \in F
    BY <1>4, <1>9
  <2>2. Leq(r, s) /\ r \in T
    BY <1>3, <1>8, <2>1 DEF Leq
  <2>3. QED
    BY <1>0, <1>5, <1>7, <2>2
<1>10. CASE F = {}
  <2>1. r = Clear
    BY <1>4, <1>10
  <2>2. PICK m : Least(T, m)
    BY <1>5, <1>6, <1>8, LeastResult
  <2>3. m \in T /\ ResultIs(m) /\ \A u \in T : Leq(m, u)
    BY <1>5, <2>2 DEF Least
  <2>4. ~(m.num < m.den)
    <3>1. \A u \in T : m.num * u.den <= u.num * m.den
      BY <2>3 DEF Leq
    <3>2. QED
      BY <1>3, <1>10, <2>3, <3>1
  <2>5. Leq(Clear, m)
    BY <2>3, <2>4, ClearLast
  <2>6. Leq(Clear, s)
    BY <1>5, <1>8, <2>3, <2>5, ClearIs, LeqTransitive
  <2>7. QED
    BY <1>0, <1>7, <2>1, <2>6, ClearIs
<1>11. QED
  BY <1>9, <1>10

LEMMA InvCastsKeepApart == Inv => CastsKeepApart
<1> SUFFICES ASSUME Inv, NEW p \in Player, NEW d \in Delta, NEW axis \in 1..2,
                    NEW delta, delta = OnAxis(axis, d[axis]), NEW start, start = collider[p].aabb,
                    NEW r \in CastResults(p, delta), NEW o \in Obstacles(p, delta),
                    ~ApartBy(1, 3 - axis, start, o), ApartBy(SafetyThreshold, axis, start, o)
             PROVE  ApartBy(SafetyThreshold, axis, Translated(start, Moved(delta, r)), o)
  BY Zenon DEF CastsKeepApart, Living
<1>1. d[axis] \in Int
  BY VectorIs, ClientWorldAssumption
<1>2. delta \in Vector /\ delta[1] \in Int /\ delta[2] \in Int
  <2>1. delta = <<delta[1], delta[2]>>
    BY DEF OnAxis
  <2>2. delta[1] \in Int /\ delta[2] \in Int
    BY <1>1, OnAxisIs
  <2>3. QED
    BY <2>1, <2>2, VectorIs
<1>3. Colliders /\ BusSound /\ MapSound(map) /\ Proper(start) /\ start \in Box
  BY DEF Inv, Colliders, Proper
<1>4. PICK found : found = Candidates(p, delta)
  OBVIOUS
<1>5. found \subseteq Collider
  BY <1>3, <1>4, FoundAre DEF Candidates
<1>6. \A c \in found : ResultIs(r) /\ Leq(r, CastAgainst(c, start, delta))
  BY <1>2, <1>4, ResultsLeq
<1>7. ASSUME o \in Box, ResultIs(r), Leq(r, HullCast(start, delta, o))
      PROVE  ApartBy(SafetyThreshold, axis, Translated(start, Moved(delta, r)), o)
  BY <1>1, <1>3, <1>7, MoveKeepsApart
<1>8. ASSUME NEW c \in found, c # Ground, o = collider[c].aabb
      PROVE  o \in Box /\ ResultIs(r) /\ Leq(r, HullCast(start, delta, o))
  <2>1. PICK h : h = HullCast(start, delta, o)
    OBVIOUS
  <2>2. o \in Box
    BY <1>3, <1>5, <1>8 DEF Colliders
  <2>3. CastAgainst(c, start, delta) = Sooner(Clear, h)
    BY <1>8, <2>1 DEF CastAgainst
  <2>4. ResultIs(h)
    BY <1>2, <1>3, <2>1, <2>2, HullCastIs
  <2>5. ResultIs(Sooner(Clear, h)) /\ Leq(Sooner(Clear, h), h)
    BY <2>4, ClearIs, SoonerLeq
  <2>6. ResultIs(r) /\ Leq(r, Sooner(Clear, h))
    BY <1>6, <2>3
  <2>7. QED
    BY <2>1, <2>2, <2>4, <2>5, <2>6, LeqTransitive
<1>9. ASSUME Ground \in found,
             NEW tile \in Range(TilesBelow(CandidateAabb(start, delta))), Content(map, tile) # Air,
             o = TileBox(tile)
      PROVE  o \in Box /\ ResultIs(r) /\ Leq(r, HullCast(start, delta, o))
  <2>1. PICK h, s : h = HullCast(start, delta, o) /\ s = CastTiles(map, start, delta).result
    OBVIOUS
  <2>2. tile \in Vector /\ Leq(s, h)
    BY <1>2, <1>3, <1>9, <2>1, TilesLeq
  <2>3. o \in Box
    BY <1>9, <2>2, TileBoxIs
  <2>4. ResultIs(h)
    BY <1>2, <1>3, <2>1, <2>3, HullCastIs
  <2>5. ResultIs(s)
    BY <1>2, <1>3, <2>1, CastTilesIs DEF CastIs
  <2>6. ResultIs(r) /\ Leq(r, s)
    BY <1>6, <1>9, <2>1 DEF CastAgainst
  <2>7. QED
    BY <2>1, <2>2, <2>3, <2>4, <2>5, <2>6, LeqTransitive
<1>10. QED
  <2>1. \/ \E c \in found \ {Ground} : o = collider[c].aabb
        \/ /\ Ground \in found
           /\ \E tile \in Range(TilesBelow(CandidateAabb(start, delta))) :
                Content(map, tile) # Air /\ o = TileBox(tile)
    BY <1>4 DEF Obstacles
  <2>2. QED
    BY <1>7, <1>8, <1>9, <2>1

\* A cast along an axis stops at the safety threshold or before, of everything in its way that
\* the player kept that distance to.
THEOREM CastsKeepTheDistance == Spec => []CastsKeepApart
BY InvCastsKeepApart, SpecInv, PTL
=============================================================================
