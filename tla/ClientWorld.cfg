SPECIFICATION Spec
SYMMETRY Sym
CONSTANTS
  SafetyThreshold = 1
  Inf = 100000
  NegativeNan = TRUE
  ChunkEdge = 2
  TileId = {air, stone}
  Air = air
  TilePos <- MCTilePos
  Player = {p1, p2}
  Ground = ground
  Wall <- MCWall
  LevelTile <- MCLevelTile
  TileSize = 4
  HalfSize = 1
  Spot <- MCSpot
  Delta <- MCDelta
  Window <- MCWindow
  MaxSteps = 10
INVARIANTS
  TreeSound
  BestSiblingLeast
  CollidersCurrent
  CastsKeepApart
PROPERTY
  TilesKept
