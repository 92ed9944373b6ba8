\* Two brushes, two transforms, five calls and three frames, with chunks that hold one draw and a half.
CONSTANTS
  ChunkSize = 3
  Count = {2}
  b1 = b1
  b2 = b2
  Brush = {b1, b2}
  Xf = {identity, turned}
  Identity = identity
  State = {plain, clipped}
  Plain = plain
  MaxCalls = 5
  MaxFrames = 3
SPECIFICATION Spec
SYMMETRY BrushSymmetry
INVARIANTS
  DrawnAsCalled
  PaintersOrder
  BuffersKept
\* The bounds stop the frames.
CHECK_DEADLOCK FALSE
