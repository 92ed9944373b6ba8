\* The root and two more entities, which all may have two kinds of components: enough for a
\* list with two dead entities on either side of a living one.
CONSTANTS
  r = r
  e1 = e1
  e2 = e2
  c1 = c1
  c2 = c2
  Entity = {r, e1, e2}
  Root = r
  None = None
  Comp = {c1, c2}
  Reckless = FALSE
SPECIFICATION Spec
SYMMETRY Symmetry
INVARIANTS
  StoreWellFormed
  ListsKept
  QueriesExact
  DeadOwnNothing
PROPERTY
  Announced
