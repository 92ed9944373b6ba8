-------------------------- MODULE BackPressureAsync --------------------------
(***************************************************************************)
(* BackPressureAsync (net/back_pressure.rs): a counter of what may still   *)
(* be queued, raised by the drop of task guards on any thread, and one     *)
(* tokio task that sleeps on it while it is negative.  The waker of that   *)
(* task is handed over through two separate atomics, with no lock.         *)
(*                                                                         *)
(* One step per atomic operation.  The two SeqCst fences order each side's *)
(* write before its read of the other side's variable, and every other     *)
(* read takes an exclusive swap, so interleaving the operations is exact.  *)
(*                                                                         *)
(* The vtable is null until the first wait stores it, and a drop that      *)
(* loads it before and takes the waker after that dereferences null.       *)
(***************************************************************************)
EXTENDS Integers, FiniteSets

CONSTANTS
  Task,      \* slots for the task guards that are alive at a time
  Size,      \* the sizes that start is called with
  Capacity   \* the argument of new

ASSUME BackPressureAssumption ==
  /\ Size \subseteq Nat
  /\ Capacity \in Nat

VARIABLES
  pressure,     \* BackPressureAsyncInner::pressure
  waker_data,   \* whether a waker is published
  waker_vtable, \* whether a vtable is: that of the waker or an earlier one, tokio's are the same
  wait_pc,      \* where the waiting task is; "run" is its caller's loop
  guarded,      \* waker_destroy_guard
  notified,     \* tokio's mark that the task must be polled again
  clones,       \* clones of the waker that nobody has dropped or woken yet
  task_pc,      \* where each guard is in its drop
  size,         \* BackPressureAsyncTask::size
  seen,         \* the vtable that the drop has loaded, not null
  crashed       \* whether a null vtable was used: the process is gone

vars == <<pressure, waker_data, waker_vtable, wait_pc, guarded, notified, clones,
          task_pc, size, seen, crashed>>
waitVars == <<wait_pc, guarded, notified, clones, waker_data, waker_vtable>>
taskVars == <<task_pc, size, seen>>

\* "cancel" drops the future because the connection closed, "finish" because it is ready.
WaitPc == {"run", "poll", "renew", "vtable", "data", "recheck", "parked",
           "finish", "cancel", "closed"}
TaskPc == {"free", "held", "crossed", "loaded", "waking"}

Init ==
  /\ pressure = Capacity
  /\ waker_data = FALSE
  /\ waker_vtable = FALSE
  /\ wait_pc = "run"
  /\ guarded = FALSE
  /\ notified = FALSE
  /\ clones = 0
  /\ task_pc = [t \in Task |-> "free"]
  /\ size = [t \in Task |-> 0]
  /\ seen = [t \in Task |-> FALSE]
  /\ crashed = FALSE

----------------------------------------------------------------------------
(* The task that starts and waits: run_listen_inner and the two run_conn_rx / run_rx. *)

\* start(size), then wait().  A wake-up meant for an earlier wait may have been consumed
\* while the task slept on something else.
Start(t, s) ==
  /\ wait_pc = "run"
  /\ task_pc[t] = "free"
  /\ pressure' = pressure - s
  /\ task_pc' = [task_pc EXCEPT ![t] = "held"]
  /\ size' = [size EXCEPT ![t] = s]
  /\ wait_pc' = "poll"
  /\ notified' \in {notified, FALSE}
  /\ UNCHANGED <<guarded, clones, waker_data, waker_vtable, seen>>

\* The hot-path check.
Poll ==
  /\ wait_pc = "poll"
  /\ wait_pc' = IF pressure >= 0 THEN "finish" ELSE "renew"
  /\ UNCHANGED <<pressure, guarded, notified, clones, waker_data, waker_vtable>>
  /\ UNCHANGED taskVars

\* The guard takes the waker back, unless somebody else has taken it.
\* Mutations: the guard forgets to swap, or to look at what it swapped out.
DropGuardKeeps == guarded' = FALSE /\ UNCHANGED <<clones, waker_data>>
DropGuardBlind ==
  /\ guarded' = FALSE
  /\ waker_data' = (waker_data /\ ~guarded)
  /\ clones' = IF guarded THEN clones - 1 ELSE clones
DropGuard ==
  /\ guarded' = FALSE
  /\ waker_data' = (waker_data /\ ~guarded)
  /\ clones' = IF guarded /\ waker_data THEN clones - 1 ELSE clones

Renew ==
  /\ wait_pc = "renew"
  /\ DropGuard
  /\ wait_pc' = "vtable"
  /\ UNCHANGED <<pressure, notified, waker_vtable>>
  /\ UNCHANGED taskVars

StoreVtable ==
  /\ wait_pc = "vtable"
  /\ waker_vtable' = TRUE
  /\ clones' = clones + 1
  /\ wait_pc' = "data"
  /\ UNCHANGED <<pressure, guarded, notified, waker_data>>
  /\ UNCHANGED taskVars

StoreData ==
  /\ wait_pc = "data"
  /\ waker_data' = TRUE
  /\ guarded' = TRUE
  /\ wait_pc' = "recheck"
  /\ UNCHANGED <<pressure, notified, clones, waker_vtable>>
  /\ UNCHANGED taskVars

\* Mutation: the check after publishing is left out.
AfterPublishPark == "parked"
AfterPublish == IF pressure < 0 THEN "parked" ELSE "finish"

Recheck ==
  /\ wait_pc = "recheck"
  /\ wait_pc' = AfterPublish
  /\ UNCHANGED <<pressure, guarded, notified, clones, waker_data, waker_vtable>>
  /\ UNCHANGED taskVars

\* tokio polls the task again after a wake, also one that came during the poll.
Resume ==
  /\ wait_pc = "parked" /\ notified
  /\ notified' = FALSE
  /\ wait_pc' = "poll"
  /\ UNCHANGED <<pressure, guarded, clones, waker_data, waker_vtable>>
  /\ UNCHANGED taskVars

\* The select sees conn.closed() while the wait is pending, and drops the wait.
ConnClosed ==
  /\ wait_pc = "parked"
  /\ wait_pc' = "cancel"
  /\ UNCHANGED <<pressure, guarded, notified, clones, waker_data, waker_vtable>>
  /\ UNCHANGED taskVars

EndWait ==
  /\ \/ wait_pc = "finish" /\ wait_pc' = "run"
     \/ wait_pc = "cancel" /\ wait_pc' = "closed"
  /\ DropGuard
  /\ UNCHANGED <<pressure, notified, waker_vtable>>
  /\ UNCHANGED taskVars

----------------------------------------------------------------------------
(* Drop for BackPressureAsyncTask, on any thread. *)

\* Mutation: only a drop that leaves room to spare wakes.
MustWakeLate(old, new) == old < 0 /\ new > 0
MustWake(old, new) == old < 0 /\ new >= 0

Release(t) ==
  LET new == pressure + size[t]
  IN /\ task_pc[t] = "held"
     /\ pressure' = new
     /\ task_pc' = [task_pc EXCEPT ![t] = IF MustWake(pressure, new) THEN "crossed"
                                                                    ELSE "free"]
     /\ UNCHANGED <<size, seen>>
     /\ UNCHANGED waitVars

LoadVtable(t) ==
  /\ task_pc[t] = "crossed"
  /\ seen' = [seen EXCEPT ![t] = waker_vtable]
  /\ task_pc' = [task_pc EXCEPT ![t] = "loaded"]
  /\ UNCHANGED <<pressure, size>>
  /\ UNCHANGED waitVars

\* Mutation: the waker is read but left in place for others.
LeftBehindAll == waker_data
LeftBehind == FALSE

SwapData(t) ==
  /\ task_pc[t] = "loaded"
  /\ task_pc' = [task_pc EXCEPT ![t] = IF waker_data THEN "waking" ELSE "free"]
  /\ waker_data' = LeftBehind
  /\ UNCHANGED <<pressure, waker_vtable, wait_pc, guarded, notified, clones, size, seen>>

\* Waker::wake consumes the clone.
Wake(t) ==
  /\ task_pc[t] = "waking" /\ seen[t]
  /\ notified' = TRUE
  /\ clones' = clones - 1
  /\ task_pc' = [task_pc EXCEPT ![t] = "free"]
  /\ UNCHANGED <<pressure, wait_pc, guarded, waker_data, waker_vtable, size, seen>>

\* &* of the null pointer is undefined behaviour: the build reads the address of wake from
\* the page at zero, and the process is killed.
WakeNull(t) ==
  /\ task_pc[t] = "waking" /\ ~seen[t]
  /\ crashed' = TRUE
  /\ UNCHANGED <<pressure, waitVars, taskVars>>

----------------------------------------------------------------------------
Waiter ==
  \/ Poll
  \/ Renew
  \/ StoreVtable
  \/ StoreData
  \/ Recheck
  \/ Resume
  \/ EndWait

Alive == ~crashed /\ UNCHANGED crashed

WaiterStep == Alive /\ Waiter

TaskStep(t) ==
  \/ Alive /\ (Release(t) \/ LoadVtable(t) \/ SwapData(t) \/ Wake(t))
  \/ ~crashed /\ WakeNull(t)

Next ==
  \/ WaiterStep
  \/ Alive /\ ConnClosed
  \/ Alive /\ \E t \in Task, s \in Size : Start(t, s)
  \/ \E t \in Task : TaskStep(t)

Spec == Init /\ [][Next]_vars

\* tokio runs a task that is ready, and the main loop drains the event queue, which drops
\* every guard; the connection need not ever close.
Fairness ==
  /\ WF_vars(WaiterStep)
  /\ \A t \in Task : WF_vars(TaskStep(t))

FairSpec == Spec /\ Fairness

----------------------------------------------------------------------------
TypeOK ==
  /\ pressure \in Int
  /\ waker_data \in BOOLEAN
  /\ waker_vtable \in BOOLEAN
  /\ wait_pc \in WaitPc
  /\ guarded \in BOOLEAN
  /\ notified \in BOOLEAN
  /\ clones \in Nat
  /\ task_pc \in [Task -> TaskPc]
  /\ size \in [Task -> Size \cup {0}]
  /\ seen \in [Task -> BOOLEAN]
  /\ crashed \in BOOLEAN

InDrop == {t \in Task : task_pc[t] \in {"crossed", "loaded", "waking"}}
Waking == {t \in Task : task_pc[t] = "waking"}

\* The waiter never sleeps through the return of capacity: while it is parked on a
\* counter that is not negative, a wake-up has been marked or is on its way.
NoLostWakeup ==
  wait_pc = "parked" /\ ~notified /\ pressure >= 0 => InDrop # {}

\* A parked waiter can be reached: its waker is published, or has just been taken by
\* somebody who will wake it.  (A step towards NoLostWakeup.)
Reachable == wait_pc = "parked" /\ ~notified => waker_data \/ Waking # {}

\* Every clone of the waker is owned by exactly one place, so that none is dropped twice
\* (a use after free) and none leaks, whichever side wins the race for it.
ClonesOwned ==
  clones = Cardinality(Waking) + (IF waker_data THEN 1 ELSE 0)
             + (IF wait_pc = "data" THEN 1 ELSE 0)

\* Outside wait() no waker is published: a task guard dropped after the connection has
\* closed finds nothing of the finished task.
PublishedOnlyInWait == waker_data => guarded

\* The comment in drop: whoever obtains the waker has the vtable it was published with.
\* (The code breaks it in the first wait that sleeps.)
VtableSeen == \A t \in Task : task_pc[t] = "waking" => seen[t]

\* Back-pressure never becomes a hang, from the first wait on: a wait ends, unless a null
\* vtable kills the process, which happens to no wait after the first one that slept.
FirstSleep == ~waker_vtable \/ \E t \in Task : task_pc[t] \in {"loaded", "waking"} /\ ~seen[t]
WaitEnds ==
  /\ wait_pc = "poll" ~> wait_pc \in {"run", "closed"} \/ crashed
  /\ (wait_pc = "poll" /\ ~FirstSleep) ~> wait_pc \in {"run", "closed"}

\* Every clone of the waker has one owner, and none stays published after the wait.
WakersAccounted == TypeOK /\ ClonesOwned /\ PublishedOnlyInWait
=============================================================================
