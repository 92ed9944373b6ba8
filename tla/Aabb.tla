-------------------------------- MODULE Aabb --------------------------------
(***************************************************************************)
(* The geometry of the client (utils/math: aabb.rs, glam.rs, hull.rs,      *)
(* physics.rs) on a grid of integers: boxes, their union and overlap, and  *)
(* the cast of a moving box against a still one.  A vector is <<x, y>>.    *)
(* Fractions of a move stay exact: a result holds the numerator and the    *)
(* denominator of its percent.                                             *)
(***************************************************************************)
EXTENDS Integers

CONSTANTS
  SafetyThreshold,  \* the distance that a cast keeps from what it runs into
  Inf               \* stands for f32::INFINITY: more than any coordinate or cost

ASSUME GeometryAssumption == SafetyThreshold \in Nat \ {0} /\ Inf \in Nat \ {0}

AXES == <<1, 2>>   \* X, then Y
ZERO == <<0, 0>>

Low(a, b) == IF a <= b THEN a ELSE b
High(a, b) == IF a <= b THEN b ELSE a
Plus(u, v) == <<u[1] + v[1], u[2] + v[2]>>
OnAxis(axis, mag) == [k \in 1..2 |-> IF k = axis THEN mag ELSE 0]

-----------------------------------------------------------------------------
(* Boxes. *)

ZeroBox == [min |-> ZERO, max |-> ZERO]
EVERYWHERE == [min |-> <<-Inf, -Inf>>, max |-> <<Inf, Inf>>]

NewCentered(center, half) ==
  [min |-> <<center[1] - half, center[2] - half>>, max |-> <<center[1] + half, center[2] + half>>]

Translated(a, rel) == [min |-> Plus(a.min, rel), max |-> Plus(a.max, rel)]

Union(a, b) ==
  [min |-> <<Low(a.min[1], b.min[1]), Low(a.min[2], b.min[2])>>,
   max |-> <<High(a.max[1], b.max[1]), High(a.max[2], b.max[2])>>]

TranslateExtend(a, rel) == Union(a, Translated(a, rel))

\* grow(splat(2 * by)): the size is split evenly between the two sides.
Grow(a, by) == [min |-> Plus(a.min, <<-by, -by>>), max |-> Plus(a.max, <<by, by>>)]

Intersects(a, b) == \A k \in 1..2 : a.min[k] <= b.max[k] /\ b.min[k] <= a.max[k]

Encloses(a, b) == \A k \in 1..2 : a.min[k] <= b.min[k] /\ b.max[k] <= a.max[k]

\* (w + h) * 2; the box of everything has no size that a number could hold.
SurfaceArea(a) ==
  IF a = EVERYWHERE THEN Inf
  ELSE 2 * ((a.max[1] - a.min[1]) + (a.max[2] - a.min[2]))

Corner(a, axis, sign) == IF sign = 1 THEN a.max[axis] ELSE a.min[axis]

-----------------------------------------------------------------------------
(* Hull casts.  A face is its axis and its sign. *)

OfBiased(v) == IF v < 0 THEN -1 ELSE 1

Clear == [num |-> 1, den |-> 1, normal |-> ZERO]
Obstructed(num, den, normal) == [num |-> num, den |-> den, normal |-> normal]

\* The first of two results unless the second one stops the move earlier.
Sooner(a, b) == IF b.num * a.den < a.num * b.den THEN b ELSE a

\* The signs of the padding's edges exchanged.
HullCastPaddingFar(start, delta, aabb, axis, sign) ==
  LET perp == 3 - axis
      den == sign * delta[axis]
      toFlush == sign * (Corner(aabb, axis, sign) - Corner(start, axis, sign))
      num == High(toFlush, 0)
  IN IF \/ den <= 0 \/ toFlush < 0 \/ num > den
        \/ aabb.min[perp] * den > start.max[perp] * den + delta[perp] * num
        \/ start.min[perp] * den + delta[perp] * num > aabb.max[perp] * den
     THEN Clear
     ELSE Obstructed(num, den, OnAxis(axis, -sign))

\* How far `start` may go along delta before it enters the padding `aabb`, which only
\* stops what moves in the direction of the face.
HullCastPadding(start, delta, aabb, axis, sign) ==
  LET perp == 3 - axis
      den == sign * delta[axis]
      hull == Corner(start, axis, sign)
      toFlush == sign * (Corner(aabb, axis, -sign) - hull)
      toOther == sign * (Corner(aabb, axis, sign) - hull)
      num == High(toFlush, 0)
      endMin == start.min[perp] * den + delta[perp] * num
      endMax == start.max[perp] * den + delta[perp] * num
  IN IF \/ den <= 0
        \/ toFlush < 0 /\ toOther < 0
        \/ num > den
        \/ aabb.min[perp] * den > endMax
        \/ endMin > aabb.max[perp] * den
     THEN Clear
     ELSE Obstructed(num, den, OnAxis(axis, -sign))

\* The X face first; a hull that starts in the padding of X is not cast against Y.
HullCast(start, delta, occluder) ==
  LET sign(axis) == OfBiased(delta[axis])
      padding(axis) == TranslateExtend(occluder, OnAxis(axis, -sign(axis) * SafetyThreshold))
      cast(axis) == HullCastPadding(start, delta, padding(axis), axis, sign(axis))
      first == Sooner(Clear, cast(AXES[1]))
  IN IF Intersects(padding(AXES[1]), start) THEN first ELSE Sooner(first, cast(AXES[2]))

CandidateAabb(start, delta) == Grow(TranslateExtend(start, delta), SafetyThreshold)

-----------------------------------------------------------------------------
(* Sliding along what was hit. *)

Part(delta, num, den) == <<(delta[1] * num) \div den, (delta[2] * num) \div den>>

Moved(delta, result) == Part(delta, result.num, result.den)

CancelNormal(vel, normal) ==
  LET k == High(-(vel[1] * normal[1] + vel[2] * normal[2]), 0)
  IN <<vel[1] + k * normal[1], vel[2] + k * normal[2]>>

\* What is left of the move after a result (MoveAndSlide.update).
Slide(delta, result) ==
  CancelNormal(Part(delta, result.den - result.num, result.den), result.normal)

ShouldStep(steps, delta) ==
  steps > 0 /\ delta[1] * delta[1] + delta[2] * delta[2] > SafetyThreshold * SafetyThreshold
=============================================================================
