----------------------- MODULE BackPressureAsyncProofs -----------------------
(***************************************************************************)
(* The hand-over of the waker in BackPressureAsync, for every number of    *)
(* task guards, every set of sizes and every capacity.                     *)
(***************************************************************************)
EXTENDS BackPressureAsync, FiniteSetTheorems, TLAPS

\* Where the guard of wait() exists.
GuardPlaced ==
  /\ wait_pc \in {"run", "vtable", "data", "closed"} => ~guarded
  /\ wait_pc \in {"recheck", "parked"} => guarded

\* From publication on, the waker is in the slot, with a waking drop, or already used.
WakerSomewhere ==
  wait_pc \in {"recheck", "parked"} /\ ~notified => waker_data \/ Waking # {}

IInv ==
  /\ TypeOK
  /\ GuardPlaced
  /\ PublishedOnlyInWait
  /\ WakerSomewhere
  /\ NoLostWakeup
  /\ IsFiniteSet(Waking)
  /\ ClonesOwned

\* A step that moves no guard into or out of the waking state leaves the set alone.
LEMMA WakingSame ==
  ASSUME taskVars' = taskVars
  PROVE Waking' = Waking /\ InDrop' = InDrop
  BY DEF taskVars, Waking, InDrop

\* What DropGuard does to the books: the clone in the slot, and no other, goes.
LEMMA DropGuardBooks ==
  ASSUME IInv, DropGuard, taskVars' = taskVars, wait_pc # "data", wait_pc' # "data"
  PROVE /\ ~guarded' /\ ~waker_data'
        /\ guarded' \in BOOLEAN /\ waker_data' \in BOOLEAN
        /\ clones' \in Nat
        /\ IsFiniteSet(Waking')
        /\ ClonesOwned'
<1>1. Waking' = Waking
  BY WakingSame
<1>2. Cardinality(Waking) \in Nat
  BY FS_CardinalityType DEF IInv
<1>3. ~guarded' /\ ~waker_data'
  BY DEF IInv, PublishedOnlyInWait, DropGuard, TypeOK
<1>4. clones' = Cardinality(Waking)
  BY <1>2 DEF IInv, TypeOK, ClonesOwned, PublishedOnlyInWait, DropGuard
<1>5. guarded' \in BOOLEAN /\ waker_data' \in BOOLEAN
  BY DEF IInv, TypeOK, DropGuard
<1> QED
  BY <1>1, <1>2, <1>3, <1>4, <1>5 DEF IInv, ClonesOwned

LEMMA InitIInv == Init => IInv
<1> SUFFICES ASSUME Init PROVE IInv
  OBVIOUS
<1>1. Waking = {}
  BY DEF Init, Waking
<1>2. IsFiniteSet(Waking) /\ Cardinality(Waking) = 0
  BY <1>1, FS_EmptySet
<1>3. TypeOK
  <2>1. pressure \in Int /\ clones \in Nat
    BY BackPressureAssumption DEF Init
  <2>2. /\ waker_vtable \in BOOLEAN /\ waker_data \in BOOLEAN
        /\ guarded \in BOOLEAN /\ notified \in BOOLEAN /\ crashed \in BOOLEAN
    BY Zenon DEF Init
  <2>3. /\ wait_pc \in WaitPc
        /\ task_pc \in [Task -> TaskPc]
        /\ size \in [Task -> Size \cup {0}]
        /\ seen \in [Task -> BOOLEAN]
    BY DEF Init, WaitPc, TaskPc
  <2> QED
    BY <2>1, <2>2, <2>3 DEF TypeOK
<1>4. ClonesOwned
  BY <1>2 DEF Init, ClonesOwned
<1> QED
  BY <1>2, <1>3, <1>4
  DEF Init, IInv, GuardPlaced, PublishedOnlyInWait, WakerSomewhere, NoLostWakeup

\* The waiting task's own steps.
LEMMA WaiterKeeps == ASSUME IInv, UNCHANGED crashed, Waiter \/ ConnClosed PROVE IInv'
<1>1. taskVars' = taskVars
  BY DEF Waiter, ConnClosed, Poll, Renew, StoreVtable, StoreData, Recheck, Resume,
         EndWait, taskVars
<1>2. Waking' = Waking /\ InDrop' = InDrop
  BY <1>1, WakingSame
<1>3. Cardinality(Waking) \in Nat
  BY FS_CardinalityType DEF IInv
<1>4. CASE Poll
  BY <1>1, <1>2, <1>3, <1>4
  DEF Poll, IInv, TypeOK, taskVars, WaitPc, GuardPlaced, PublishedOnlyInWait,
      WakerSomewhere, NoLostWakeup, ClonesOwned
<1>5. CASE Renew
  <2>1. /\ ~guarded' /\ guarded' \in BOOLEAN
        /\ ~waker_data' /\ waker_data' \in BOOLEAN
        /\ clones' \in Nat /\ IsFiniteSet(Waking') /\ ClonesOwned'
    BY <1>1, <1>5, DropGuardBooks DEF Renew
  <2> QED
    BY <1>1, <1>5, <2>1
    DEF Renew, IInv, TypeOK, taskVars, WaitPc, GuardPlaced, PublishedOnlyInWait,
        WakerSomewhere, NoLostWakeup
<1>6. CASE StoreVtable
  BY <1>1, <1>2, <1>3, <1>6
  DEF StoreVtable, IInv, TypeOK, taskVars, WaitPc, GuardPlaced, PublishedOnlyInWait,
      WakerSomewhere, NoLostWakeup, ClonesOwned
<1>7. CASE StoreData
  BY <1>1, <1>2, <1>3, <1>7
  DEF StoreData, IInv, TypeOK, taskVars, WaitPc, GuardPlaced, PublishedOnlyInWait,
      WakerSomewhere, NoLostWakeup, ClonesOwned
<1>8. CASE Recheck
  BY <1>1, <1>2, <1>3, <1>8
  DEF Recheck, AfterPublish, IInv, TypeOK, taskVars, WaitPc, GuardPlaced,
      PublishedOnlyInWait, WakerSomewhere, NoLostWakeup, ClonesOwned
<1>9. CASE Resume
  BY <1>1, <1>2, <1>3, <1>9
  DEF Resume, IInv, TypeOK, taskVars, WaitPc, GuardPlaced, PublishedOnlyInWait,
      WakerSomewhere, NoLostWakeup, ClonesOwned
<1>10. CASE EndWait
  <2>1. /\ ~guarded' /\ guarded' \in BOOLEAN
        /\ ~waker_data' /\ waker_data' \in BOOLEAN
        /\ clones' \in Nat /\ IsFiniteSet(Waking') /\ ClonesOwned'
    BY <1>1, <1>10, DropGuardBooks DEF EndWait
  <2> QED
    BY <1>1, <1>10, <2>1
    DEF EndWait, IInv, TypeOK, taskVars, WaitPc, GuardPlaced, PublishedOnlyInWait,
        WakerSomewhere, NoLostWakeup
<1>11. CASE ConnClosed
  BY <1>1, <1>2, <1>3, <1>11
  DEF ConnClosed, IInv, TypeOK, taskVars, WaitPc, GuardPlaced, PublishedOnlyInWait,
      WakerSomewhere, NoLostWakeup, ClonesOwned
<1> QED
  BY <1>4, <1>5, <1>6, <1>7, <1>8, <1>9, <1>10, <1>11 DEF Waiter

LEMMA StartKeeps ==
  ASSUME IInv, NEW t \in Task, NEW s \in Size, Start(t, s), UNCHANGED crashed
  PROVE IInv'
<1>1. Waking' = Waking /\ InDrop \subseteq InDrop'
  BY DEF Start, Waking, InDrop, IInv, TypeOK
<1>2. TypeOK'
  <2>1. s \in Int /\ pressure \in Int
    BY BackPressureAssumption DEF IInv, TypeOK
  <2>2. notified' \in BOOLEAN
    BY Zenon DEF Start, IInv, TypeOK
  <2> QED
    BY <2>1, <2>2 DEF Start, IInv, TypeOK, WaitPc, TaskPc
<1> QED
  BY <1>1, <1>2
  DEF Start, IInv, GuardPlaced, PublishedOnlyInWait, WakerSomewhere, NoLostWakeup,
      ClonesOwned

\* A drop that brings the counter back to zero or more joins InDrop.
LEMMA ReleaseKeeps == ASSUME IInv, NEW t \in Task, Release(t), UNCHANGED crashed PROVE IInv'
<1>1. Waking' = Waking /\ InDrop \subseteq InDrop'
  BY DEF Release, Waking, InDrop, IInv, TypeOK
<1>2. pressure < 0 /\ pressure' >= 0 => InDrop' # {}
  <2>1. pressure \in Int /\ size[t] \in Int
    <3>1. size[t] \in Size \cup {0}
      BY DEF IInv, TypeOK
    <3>2. CASE size[t] \in Size
      <4>1. size[t] \in Nat
        BY <3>2, BackPressureAssumption, Zenon
      <4> QED
        BY <4>1 DEF IInv, TypeOK
    <3>3. CASE size[t] = 0
      BY <3>3 DEF IInv, TypeOK
    <3> QED
      BY <3>1, <3>2, <3>3
  <2>2. pressure < 0 /\ pressure' >= 0 => task_pc'[t] = "crossed"
    BY <2>1 DEF Release, MustWake, IInv, TypeOK
  <2> QED
    BY <2>2 DEF InDrop
<1>3. TypeOK'
  BY BackPressureAssumption DEF Release, waitVars, IInv, TypeOK, TaskPc
<1>4. NoLostWakeup'
  BY <1>1, <1>2, <1>3 DEF Release, waitVars, IInv, TypeOK, NoLostWakeup
<1> QED
  BY <1>1, <1>3, <1>4
  DEF Release, waitVars, IInv, GuardPlaced, PublishedOnlyInWait, WakerSomewhere, ClonesOwned

LEMMA LoadVtableKeeps == ASSUME IInv, NEW t \in Task, LoadVtable(t), UNCHANGED crashed PROVE IInv'
<1>1. Waking' = Waking /\ InDrop' = InDrop
  BY DEF LoadVtable, Waking, InDrop, IInv, TypeOK
<1>2. TypeOK'
  BY DEF LoadVtable, waitVars, IInv, TypeOK, TaskPc
<1> QED
  BY <1>1, <1>2
  DEF LoadVtable, waitVars, IInv, GuardPlaced, PublishedOnlyInWait, WakerSomewhere,
      NoLostWakeup, ClonesOwned

\* The clone in the slot, if there is one, moves to the drop that swaps it out.
LEMMA SwapDataKeeps == ASSUME IInv, NEW t \in Task, SwapData(t), UNCHANGED crashed PROVE IInv'
<1>1. TypeOK'
  BY DEF SwapData, LeftBehind, IInv, TypeOK, TaskPc
<1>2. CASE waker_data
  <2>1. t \notin Waking /\ Waking' = Waking \cup {t}
    BY <1>2 DEF SwapData, Waking, IInv, TypeOK
  <2>2. IsFiniteSet(Waking') /\ Cardinality(Waking') = Cardinality(Waking) + 1
    BY <2>1, FS_AddElement DEF IInv
  <2>3. t \in InDrop'
    BY <2>1 DEF Waking, InDrop
  <2> QED
    BY <1>1, <1>2, <2>1, <2>2, <2>3, FS_CardinalityType
    DEF SwapData, LeftBehind, IInv, TypeOK, GuardPlaced, PublishedOnlyInWait,
        WakerSomewhere, NoLostWakeup, ClonesOwned
<1>3. CASE ~waker_data
  <2>1. Waking' = Waking /\ Waking \subseteq InDrop'
    BY <1>3 DEF SwapData, Waking, InDrop, IInv, TypeOK
  <2> QED
    BY <1>1, <1>3, <2>1
    DEF SwapData, LeftBehind, IInv, TypeOK, GuardPlaced, PublishedOnlyInWait,
        WakerSomewhere, NoLostWakeup, ClonesOwned
<1> QED
  BY <1>2, <1>3

LEMMA WakeKeeps == ASSUME IInv, NEW t \in Task, Wake(t), UNCHANGED crashed PROVE IInv'
<1>1. t \in Waking /\ Waking' = Waking \ {t}
  BY DEF Wake, Waking, IInv, TypeOK
<1>2. /\ IsFiniteSet(Waking')
      /\ Cardinality(Waking') = Cardinality(Waking) - 1
      /\ Cardinality(Waking) \in Nat /\ Cardinality(Waking') \in Nat
  BY <1>1, FS_RemoveElement, FS_CardinalityType DEF IInv
<1>3. ClonesOwned' /\ clones' \in Nat
  BY <1>2 DEF Wake, IInv, TypeOK, ClonesOwned
<1>4. TypeOK'
  BY <1>3 DEF Wake, IInv, TypeOK, TaskPc
<1> QED
  BY <1>2, <1>3, <1>4
  DEF Wake, IInv, GuardPlaced, PublishedOnlyInWait, WakerSomewhere, NoLostWakeup

\* The process dies with everything where it was.
LEMMA WakeNullKeeps == ASSUME IInv, NEW t \in Task, WakeNull(t) PROVE IInv'
<1>1. Waking' = Waking /\ InDrop' = InDrop
  BY WakingSame DEF WakeNull
<1>2. TypeOK'
  BY DEF WakeNull, waitVars, taskVars, IInv, TypeOK
<1> QED
  BY <1>1, <1>2
  DEF WakeNull, waitVars, IInv, GuardPlaced, PublishedOnlyInWait, WakerSomewhere,
      NoLostWakeup, ClonesOwned

LEMMA StepIInv == IInv /\ [Next]_vars => IInv'
<1> SUFFICES ASSUME IInv, [Next]_vars PROVE IInv'
  OBVIOUS
<1>1. CASE WaiterStep \/ (Alive /\ ConnClosed)
  BY <1>1, WaiterKeeps DEF WaiterStep, Alive
<1>2. CASE Alive /\ \E t \in Task, s \in Size : Start(t, s)
  BY <1>2, StartKeeps DEF Alive
<1>3. CASE \E t \in Task : TaskStep(t)
  BY <1>3, ReleaseKeeps, LoadVtableKeeps, SwapDataKeeps, WakeKeeps, WakeNullKeeps
  DEF TaskStep, Alive
<1>4. CASE UNCHANGED vars
  BY <1>4
  DEF vars, IInv, TypeOK, GuardPlaced, PublishedOnlyInWait, WakerSomewhere, NoLostWakeup,
      ClonesOwned, Waking, InDrop
<1> QED
  BY <1>1, <1>2, <1>3, <1>4 DEF Next

LEMMA Inductive == Spec => []IInv
  BY InitIInv, StepIInv, PTL DEF Spec

\* Types, among them that no clone of the waker is ever freed that does not exist.
THEOREM TypeCorrect == Spec => []TypeOK
<1>1. IInv => TypeOK
  BY DEF IInv
<1> QED
  BY <1>1, Inductive, PTL

\* wait() never sleeps through the drop that makes room: see BackPressureAsync.
THEOREM WakeupNotLost == Spec => []NoLostWakeup
<1>1. IInv => NoLostWakeup
  BY DEF IInv
<1> QED
  BY <1>1, Inductive, PTL

\* Every clone of the waker has one owner, however the swap of a drop races with the
\* swap of the waiter's own guard.
THEOREM WakersOwned == Spec => []ClonesOwned
<1>1. IInv => ClonesOwned
  BY DEF IInv
<1> QED
  BY <1>1, Inductive, PTL

\* Nothing of the waiting task stays published when it leaves wait().
THEOREM NothingLeftPublished == Spec => []PublishedOnlyInWait
<1>1. IInv => PublishedOnlyInWait
  BY DEF IInv
<1> QED
  BY <1>1, Inductive, PTL

\* The three together: the waker is never dropped twice, leaked or left behind.
THEOREM WakersCounted == Spec => []WakersAccounted
<1>1. TypeOK /\ ClonesOwned /\ PublishedOnlyInWait => WakersAccounted
  BY DEF WakersAccounted
<1> QED
  BY <1>1, TypeCorrect, WakersOwned, NothingLeftPublished, PTL
=============================================================================
