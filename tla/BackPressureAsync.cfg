\* Three guards of sizes 0 to 2 against a capacity of 1: the counter crosses zero in
\* one drop or two, and crosses again while an earlier drop is still waking.
CONSTANTS
  t1 = t1
  t2 = t2
  t3 = t3
  Task = {t1, t2, t3}
  Size = {0, 1, 2}
  Capacity = 1
SPECIFICATION FairSpec
INVARIANTS
  NoLostWakeup
  WakersAccounted
PROPERTY
  WaitEnds
\* The task ends when its connection closes.
CHECK_DEADLOCK FALSE
