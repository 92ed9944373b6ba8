\* One guard is enough for the first wait that sleeps; the others do not hide it.
CONSTANTS
  t1 = t1
  t2 = t2
  t3 = t3
  Task = {t1, t2, t3}
  Size = {0, 1, 2}
  Capacity = 1
SPECIFICATION Spec
INVARIANT
  VtableSeen
\* The task ends when its connection closes.
CHECK_DEADLOCK FALSE
