-------------------------- MODULE WorkerPoolProofs --------------------------
(***************************************************************************)
(* The pool's books and the finality of Shutdown, for every number of      *)
(* workers, callers and sizes.                                             *)
(***************************************************************************)
EXTENDS WorkerPool, FiniteSetTheorems, TLAPS

(* Who may hold pool.mu in which phase, and when workers are being stopped. *)
LockInv ==
    /\ holder = NoOne <=> phase = "free"
    /\ phase \notin {"stop", "wait"} => doomed = {}
    /\ phase = "wait" => \A h \in doomed : pc[h] # "none" => h \in stopped

(* Every worker that exists is on the books, and only those are. *)
BooksInv ==
    /\ roster \cap quarantine = {}
    /\ (roster \cup quarantine) \cap (doomed \cup stopped) = {}
    /\ \A h \in roster \cup quarantine \cup stopped : pc[h] # "none"
    /\ \A h \in Handles :
         pc[h] # "none" => h \in roster \cup quarantine \cup doomed \cup stopped

(* How far Shutdown is, against Start and the lock. *)
ClosingInv ==
    /\ holder = "start" <=> starting = "spawning"
    /\ holder = "shutdown" <=> closing = "stopping"
    /\ closing # "open" => starting \in {"supervise", "done"}
    /\ starting \in {"supervise", "done"} /\ closing \in {"open", "joining", "unpublish"}
         => published
    /\ closing \in {"stopping", "closed"} =>
         shutdown /\ roster = {} /\ quarantine = {}
    /\ closing = "stopping" => phase \in {"stop", "wait"}
    /\ closing = "closed" => phase = "free"

(* Every variable keeps its type: the counters and sizes of a pool stay      *)
(* natural numbers and its lists hold workers, whatever the interleaving.    *)
THEOREM TypeCorrect == Spec => []TypeOK
<1> USE PoolAssumption DEF Callers
<1>1. Init => TypeOK
  <2>1. Init => ValuesOK
    BY DEF Init, ValuesOK
  <2>2. Init => FlagsOK
    BY Zenon DEF Init, FlagsOK
  <2> QED BY <2>1, <2>2 DEF TypeOK
<1>2. TypeOK /\ [Next]_vars => ValuesOK'
  <2> SUFFICES ASSUME ValuesOK, [Next]_vars PROVE ValuesOK'
    BY DEF TypeOK
  <2> USE DEF ValuesOK
  <2>1. ASSUME NEW h \in Handles, WorkerStep(h) PROVE ValuesOK'
    BY <2>1 DEF WorkerStep, TakeJob, Overrun, HandlerAbandoned, CountCompleted,
                ClearBusy, DispatcherExits, workerVars, poolVars, lockVars, serverVars
  <2>2. CASE HandlerReturnedLate
    BY <2>2 DEF HandlerReturnedLate, workerVars, poolVars, lockVars, serverVars
  <2>3. CASE HolderStep
    <3>1. CASE QuarantineStuck
      BY <3>1 DEF QuarantineStuck, serverVars
    <3>2. CASE ReinstateProvenLive
      BY <3>2 DEF ReinstateProvenLive, ClearProtection, serverVars
    <3>3. CASE AdjustStopAll
      BY <3>3 DEF AdjustStopAll, workerVars, serverVars
    <3>4. CASE AdjustGrow
      BY <3>4 DEF AdjustGrow, Spawned, serverVars
    <3>5. CASE AdjustSpawnFails
      BY <3>5 DEF AdjustSpawnFails, Spawned, poolVars, serverVars
    <3>6. CASE AdjustShrink
      <4>1. PICK v \in SUBSET roster : roster' = roster \ v /\ doomed' = v
        BY <3>6 DEF AdjustShrink, Removals
      <4> QED BY <3>6, <4>1 DEF AdjustShrink, workerVars, serverVars
    <3>7. CASE StopHandles
      BY <3>7 DEF StopHandles, poolVars, serverVars
    <3>8. CASE StopsReturn
      BY <3>8 DEF StopsReturn, Continue, workerVars
    <3> QED BY <2>3, <3>1, <3>2, <3>3, <3>4, <3>5, <3>6, <3>7, <3>8 DEF HolderStep
  <2>4. CASE StartStep
    BY <2>4 DEF StartStep, StartPool, Publish, StartSupervisor, Acquire, RequestSize,
                workerVars, poolVars, lockVars
  <2>5. CASE SuperviseStep
    BY <2>5 DEF SuperviseStep, SuperviseTick, SuperviseExits, SuperviseReconciles,
                Acquire, workerVars, poolVars, lockVars
  <2>6. ASSUME NEW r \in Resizers, ResizerStep(r) PROVE ValuesOK'
    <3>1. CASE \E n \in Sizes : ResizeCapture(r, n)
      BY <3>1 DEF ResizeCapture, workerVars, poolVars, lockVars
    <3>2. CASE ResizeLocked(r)
      <4>1. calls[r] \in Sizes
        BY <3>2 DEF ResizeLocked
      <4>2. calls[r] \in Nat
        BY <4>1, Zenon
      <4>3. CASE shutdown
        BY <3>2, <4>3 DEF ResizeLocked, workerVars, lockVars
      <4>4. CASE ~ shutdown
        BY <3>2, <4>2, <4>4 DEF ResizeLocked, Acquire, RequestSize, workerVars
      <4> QED BY <4>3, <4>4
    <3> QED BY <2>6, <3>1, <3>2 DEF ResizerStep
  <2>7. CASE ShutdownStep
    BY <2>7 DEF ShutdownStep, StopSupervisor, JoinSupervisor, Unpublish,
                ShutdownLocked, Acquire, workerVars, poolVars, lockVars
  <2>8. CASE UNCHANGED vars
    BY <2>8 DEF vars, workerVars, poolVars, lockVars, serverVars
  <2> QED BY <2>1, <2>2, <2>3, <2>4, <2>5, <2>6, <2>7, <2>8 DEF Next
<1>3. TypeOK /\ [Next]_vars => FlagsOK'
  <2> SUFFICES ASSUME FlagsOK, [Next]_vars PROVE FlagsOK'
    BY DEF TypeOK
  <2> USE DEF FlagsOK
  <2>1. ASSUME NEW h \in Handles, WorkerStep(h) PROVE FlagsOK'
    BY <2>1, Zenon DEF WorkerStep, TakeJob, Overrun, HandlerAbandoned, CountCompleted,
                ClearBusy, DispatcherExits, workerVars, poolVars, lockVars, serverVars
  <2>2. CASE HandlerReturnedLate
    BY <2>2, Zenon DEF HandlerReturnedLate, workerVars, poolVars, lockVars, serverVars
  <2>3. CASE HolderStep
    <3>1. CASE QuarantineStuck
      BY <3>1, Zenon DEF QuarantineStuck, serverVars
    <3>2. CASE ReinstateProvenLive
      BY <3>2, Zenon DEF ReinstateProvenLive, ClearProtection, serverVars
    <3>3. CASE AdjustStopAll
      BY <3>3, Zenon DEF AdjustStopAll, workerVars, serverVars
    <3>4. CASE AdjustGrow
      BY <3>4, Zenon DEF AdjustGrow, Spawned, serverVars
    <3>5. CASE AdjustSpawnFails
      BY <3>5, Zenon DEF AdjustSpawnFails, Spawned, poolVars, serverVars
    <3>6. CASE AdjustShrink
      BY <3>6, Zenon DEF AdjustShrink, workerVars, serverVars
    <3>7. CASE StopHandles
      BY <3>7, Zenon DEF StopHandles, poolVars, serverVars
    <3>8. CASE StopsReturn
      BY <3>8, Zenon DEF StopsReturn, Continue, workerVars
    <3> QED BY <2>3, <3>1, <3>2, <3>3, <3>4, <3>5, <3>6, <3>7, <3>8 DEF HolderStep
  <2>4. CASE StartStep
    BY <2>4, Zenon DEF StartStep, StartPool, Publish, StartSupervisor, Acquire, RequestSize,
                workerVars, poolVars, lockVars
  <2>5. CASE SuperviseStep
    BY <2>5, Zenon DEF SuperviseStep, SuperviseTick, SuperviseExits, SuperviseReconciles,
                Acquire, workerVars, poolVars, lockVars
  <2>6. ASSUME NEW r \in Resizers, ResizerStep(r) PROVE FlagsOK'
    BY <2>6, Zenon DEF ResizerStep, ResizeCapture, ResizeLocked, Acquire, RequestSize,
                workerVars, poolVars, lockVars
  <2>7. CASE ShutdownStep
    BY <2>7, Zenon DEF ShutdownStep, StopSupervisor, JoinSupervisor, Unpublish,
                ShutdownLocked, Acquire, workerVars, poolVars, lockVars
  <2>8. CASE UNCHANGED vars
    BY <2>8, Zenon DEF vars, workerVars, poolVars, lockVars, serverVars
  <2> QED BY <2>1, <2>2, <2>3, <2>4, <2>5, <2>6, <2>7, <2>8 DEF Next
<1> QED BY <1>1, <1>2, <1>3, PTL DEF Spec, TypeOK

(* A step keeps the lock's phases and the books in order. *)
LEMMA BooksStep ==
    ASSUME ValuesOK, LockInv, BooksInv, [Next]_vars
    PROVE  LockInv' /\ BooksInv'
<1> USE PoolAssumption DEF ValuesOK, LockInv, BooksInv, Callers
<1>1. ASSUME NEW h \in Handles, WorkerStep(h) PROVE LockInv' /\ BooksInv'
  <2>1. CASE TakeJob(h)
    BY <2>1 DEF TakeJob, poolVars, lockVars
  <2>2. CASE Overrun(h)
    BY <2>2 DEF Overrun, poolVars, lockVars
  <2>3. CASE HandlerAbandoned(h)
    BY <2>3 DEF HandlerAbandoned, poolVars, lockVars
  <2>4. CASE CountCompleted(h)
    BY <2>4 DEF CountCompleted, poolVars, lockVars
  <2>5. CASE ClearBusy(h)
    BY <2>5 DEF ClearBusy, poolVars, lockVars
  <2>6. CASE DispatcherExits(h)
    BY <2>6 DEF DispatcherExits, lockVars
  <2> QED BY <1>1, <2>1, <2>2, <2>3, <2>4, <2>5, <2>6 DEF WorkerStep
<1>2. CASE HandlerReturnedLate
  BY <1>2 DEF HandlerReturnedLate, workerVars, poolVars, lockVars
<1>3. CASE HolderStep
  <2>1. CASE QuarantineStuck
    BY <2>1 DEF QuarantineStuck
  <2>2. CASE ReinstateProvenLive
    BY <2>2 DEF ReinstateProvenLive
  <2>3. CASE AdjustStopAll
    BY <2>3 DEF AdjustStopAll, workerVars
  <2>4. CASE AdjustGrow
    <3>1. PICK new \in SUBSET Handles : Spawned(new) /\ roster' = roster \cup new
      BY <2>4 DEF AdjustGrow
    <3> QED BY <2>4, <3>1 DEF AdjustGrow, Spawned
  <2>5. CASE AdjustSpawnFails
    <3>1. PICK new \in SUBSET Handles : Spawned(new) /\ doomed' = new
      BY <2>5 DEF AdjustSpawnFails
    <3> QED BY <2>5, <3>1 DEF AdjustSpawnFails, Spawned, poolVars
  <2>6. CASE AdjustShrink
    <3>1. PICK v \in SUBSET roster : roster' = roster \ v /\ doomed' = v
      BY <2>6 DEF AdjustShrink, Removals
    <3> QED BY <2>6, <3>1 DEF AdjustShrink, workerVars
  <2>7. CASE StopHandles
    BY <2>7 DEF StopHandles, poolVars
  <2>8. CASE StopsReturn
    BY <2>8 DEF StopsReturn, Continue, workerVars
  <2> QED BY <1>3, <2>1, <2>2, <2>3, <2>4, <2>5, <2>6, <2>7, <2>8 DEF HolderStep
<1>4. CASE StartStep
  BY <1>4 DEF StartStep, StartPool, Publish, StartSupervisor, Acquire, RequestSize,
              workerVars, poolVars, lockVars
<1>5. CASE SuperviseStep
  BY <1>5 DEF SuperviseStep, SuperviseTick, SuperviseExits, SuperviseReconciles,
              Acquire, workerVars, poolVars, lockVars
<1>6. ASSUME NEW r \in Resizers, ResizerStep(r) PROVE LockInv' /\ BooksInv'
  BY <1>6 DEF ResizerStep, ResizeCapture, ResizeLocked, Acquire, RequestSize,
              workerVars, poolVars, lockVars
<1>7. CASE ShutdownStep
  BY <1>7 DEF ShutdownStep, StopSupervisor, JoinSupervisor, Unpublish,
              ShutdownLocked, Acquire, workerVars, poolVars, lockVars
<1>8. CASE UNCHANGED vars
  BY <1>8 DEF vars, workerVars, poolVars, lockVars
<1> QED BY <1>1, <1>2, <1>3, <1>4, <1>5, <1>6, <1>7, <1>8 DEF Next

(* No dispatcher goroutine is ever outside the pool's books: it is in roster *)
(* or quarantine, not both, or is being stopped, or has been told to stop.   *)
THEOREM Books == Spec => []NoOrphanDispatcher
<1>1. Init => LockInv /\ BooksInv
  BY DEF Init, LockInv, BooksInv
<1>2. TypeOK /\ LockInv /\ BooksInv /\ [Next]_vars => LockInv' /\ BooksInv'
  BY BooksStep DEF TypeOK
<1>3. LockInv /\ BooksInv => NoOrphanDispatcher
  BY DEF LockInv, BooksInv, NoOrphanDispatcher, Exists
<1> QED BY <1>1, <1>2, <1>3, TypeCorrect, PTL DEF Spec

(* A step keeps Shutdown's progress, Start's and the lock's in line, if      *)
(* Shutdown is not called before Start has published the pools.              *)
LEMMA ClosingStep ==
    ASSUME ValuesOK, LockInv, ClosingInv, [Next]_vars, ShutdownWhen # "any"
    PROVE  ClosingInv'
<1> USE PoolAssumption DEF ValuesOK, LockInv, ClosingInv, Callers
<1>1. ASSUME NEW h \in Handles, WorkerStep(h) PROVE ClosingInv'
  BY <1>1 DEF WorkerStep, TakeJob, Overrun, HandlerAbandoned, CountCompleted,
              ClearBusy, DispatcherExits, poolVars, lockVars, serverVars
<1>2. CASE HandlerReturnedLate
  BY <1>2 DEF HandlerReturnedLate, poolVars, lockVars, serverVars
<1>3. CASE HolderStep
  <2>1. CASE QuarantineStuck
    BY <2>1 DEF QuarantineStuck, serverVars
  <2>2. CASE ReinstateProvenLive
    BY <2>2 DEF ReinstateProvenLive, serverVars
  <2>3. CASE AdjustStopAll
    BY <2>3 DEF AdjustStopAll, serverVars
  <2>4. CASE AdjustGrow
    BY <2>4 DEF AdjustGrow, serverVars
  <2>5. CASE AdjustSpawnFails
    BY <2>5 DEF AdjustSpawnFails, poolVars, serverVars
  <2>6. CASE AdjustShrink
    BY <2>6 DEF AdjustShrink, serverVars
  <2>7. CASE StopHandles
    BY <2>7 DEF StopHandles, poolVars, serverVars
  <2>8. CASE StopsReturn
    BY <2>8 DEF StopsReturn, Continue
  <2> QED BY <1>3, <2>1, <2>2, <2>3, <2>4, <2>5, <2>6, <2>7, <2>8 DEF HolderStep
<1>4. CASE StartStep
  BY <1>4 DEF StartStep, StartPool, Publish, StartSupervisor, Acquire, RequestSize,
              poolVars, lockVars
<1>5. CASE SuperviseStep
  BY <1>5 DEF SuperviseStep, SuperviseTick, SuperviseExits, SuperviseReconciles,
              Acquire, poolVars, lockVars
<1>6. ASSUME NEW r \in Resizers, ResizerStep(r) PROVE ClosingInv'
  BY <1>6 DEF ResizerStep, ResizeCapture, ResizeLocked, Acquire, RequestSize,
              poolVars, lockVars
<1>7. CASE ShutdownStep
  BY <1>7 DEF ShutdownStep, StopSupervisor, JoinSupervisor, Unpublish,
              ShutdownLocked, Acquire, poolVars, lockVars
<1>8. CASE UNCHANGED vars
  BY <1>8 DEF vars, poolVars, lockVars, serverVars
<1> QED BY <1>1, <1>2, <1>3, <1>4, <1>5, <1>6, <1>7, <1>8 DEF Next

(* Once Shutdown has returned the pool stays empty and every dispatcher that *)
(* still exists has been told to stop, whatever a Resize or the supervisor   *)
(* captured before; Shutdown must not overtake Start.                        *)
THEOREM Finality == ShutdownWhen # "any" /\ Spec => []ShutdownIsFinal
<1> SUFFICES ASSUME ShutdownWhen # "any" PROVE Spec => []ShutdownIsFinal
  OBVIOUS
<1>1. Init => LockInv /\ BooksInv /\ ClosingInv
  BY PoolAssumption DEF Init, LockInv, BooksInv, ClosingInv
<1>2. TypeOK /\ LockInv /\ BooksInv /\ ClosingInv /\ [Next]_vars
        => LockInv' /\ BooksInv' /\ ClosingInv'
  BY BooksStep, ClosingStep DEF TypeOK
<1>3. LockInv /\ BooksInv /\ ClosingInv => ShutdownIsFinal
  BY DEF LockInv, BooksInv, ClosingInv, ShutdownIsFinal, Exists
<1> QED BY <1>1, <1>2, <1>3, TypeCorrect, PTL DEF Spec

-----------------------------------------------------------------------------
(* The budget.  Eviction and reinstatement only move workers between roster  *)
(* and quarantine, so all but one action shrink their union or leave it; the *)
(* spawn of replacements is the one to look at.                              *)
BudgetInv == Cardinality(roster \cup quarantine) <= peakDesired + Headroom

LEMMA DisjointUnion ==
    ASSUME NEW A \in SUBSET Handles, NEW B \in SUBSET Handles, A \cap B = {}
    PROVE  /\ Cardinality(A) \in Nat
           /\ Cardinality(B) \in Nat
           /\ Cardinality(A \cup B) = Cardinality(A) + Cardinality(B)
<1>1. IsFiniteSet(A) /\ IsFiniteSet(B)
  BY PoolAssumption, FS_Subset
<1>2. Cardinality(A) \in Nat /\ Cardinality(B) \in Nat
  BY <1>1, FS_CardinalityType
<1>3. Cardinality(A \cap B) = 0
  BY FS_EmptySet
<1>4. Cardinality(A \cup B) = Cardinality(A) + Cardinality(B) - Cardinality(A \cap B)
  BY <1>1, FS_Union
<1> QED BY <1>2, <1>3, <1>4

LEMMA CountType == ASSUME NEW A \in SUBSET Handles PROVE Cardinality(A) \in Nat
BY PoolAssumption, FS_Subset, FS_CardinalityType

LEMMA HeadroomType == Headroom \in Nat
BY PoolAssumption DEF Headroom

(* A pool that does not grow stays within a budget that does not shrink. *)
LEMMA NoGrowth ==
    ASSUME ValuesOK, ValuesOK', BudgetInv, peakDesired <= peakDesired',
           roster' \cup quarantine' \subseteq roster \cup quarantine
    PROVE  BudgetInv'
<1>1. IsFiniteSet(roster \cup quarantine)
  <2>1. roster \cup quarantine \in SUBSET Handles
    BY DEF ValuesOK
  <2> QED BY <2>1, PoolAssumption, FS_Subset
<1>2. Cardinality(roster' \cup quarantine') <= Cardinality(roster \cup quarantine)
  BY <1>1, FS_Subset
<1>3. /\ Cardinality(roster \cup quarantine) \in Nat
      /\ Cardinality(roster' \cup quarantine') \in Nat
  BY <1>1, FS_Subset, FS_CardinalityType
<1>4. Headroom' = Headroom
  BY DEF Headroom
<1> QED BY <1>2, <1>3, <1>4, HeadroomType DEF BudgetInv, ValuesOK

(* The replacements a reconcile spawns fit into what the leak leaves. *)
LEMMA GrowthWithinBudget ==
    ASSUME ValuesOK, BooksInv, BudgetInv, AdjustGrow
    PROVE  BudgetInv'
<1> DEFINE q == Cardinality(quarantine)
           r == Cardinality(roster)
<1>1. PICK new \in SUBSET Handles :
        /\ Cardinality(new) = AllowedRoster - r
        /\ Spawned(new)
        /\ roster' = roster \cup new
  BY DEF AdjustGrow
<1>2. new \cap roster = {} /\ (roster \cup new) \cap quarantine = {}
  BY <1>1 DEF Spawned, BooksInv
<1>3. quarantine' = quarantine /\ peakDesired' = peakDesired
  BY DEF AdjustGrow
<1>4. /\ r \in Nat /\ q \in Nat
      /\ Cardinality(roster \cup new) = r + Cardinality(new)
      /\ Cardinality(roster' \cup quarantine') = Cardinality(roster \cup new) + q
      /\ Cardinality(roster \cup quarantine) = r + q
      /\ Cardinality(new) \in Nat
  BY <1>1, <1>2, <1>3, DisjointUnion DEF ValuesOK, BooksInv
<1>5. q <= peakDesired + Headroom
  BY <1>4, HeadroomType DEF BudgetInv, ValuesOK
<1>6. AllowedRoster <= Ceiling /\ AllowedRoster \in Int /\ Ceiling \in Int
  BY <1>4, HeadroomType DEF AllowedRoster, Ceiling, Leaked, ValuesOK
<1>7. Ceiling + q <= peakDesired + Headroom
  BY <1>4, <1>5, HeadroomType DEF Ceiling, Leaked, ValuesOK
<1>8. Cardinality(roster' \cup quarantine') = AllowedRoster + q
  BY <1>1, <1>4, <1>6
<1>9. Headroom' = Headroom
  BY DEF Headroom
<1> QED BY <1>3, <1>4, <1>6, <1>7, <1>8, <1>9, HeadroomType DEF BudgetInv, ValuesOK

(* Roster and quarantine together never exceed the peak size asked for plus  *)
(* the headroom, for every number of workers, size and headroom: the Redis   *)
(* connections reserved for the queue suffice.                               *)
THEOREM Budget == Spec => []PoolWithinBudget
<1>1. Init => BudgetInv
  BY FS_EmptySet, HeadroomType DEF Init, BudgetInv
<1>2. ASSUME ValuesOK, ValuesOK', BooksInv, BudgetInv, [Next]_vars PROVE BudgetInv'
  <2> USE <1>2 DEF ValuesOK
  <2>1. CASE AdjustGrow
    BY <2>1, GrowthWithinBudget
  <2>2. CASE ~ AdjustGrow
    <3>1. /\ roster' \cup quarantine' \subseteq roster \cup quarantine
          /\ peakDesired <= peakDesired'
      <4>1. ASSUME NEW h \in Handles, WorkerStep(h) PROVE <3>1
        BY <4>1 DEF WorkerStep, TakeJob, Overrun, HandlerAbandoned, CountCompleted,
                    ClearBusy, DispatcherExits, poolVars
      <4>2. CASE HandlerReturnedLate
        BY <4>2 DEF HandlerReturnedLate, poolVars
      <4>3. CASE HolderStep
        <5>1. CASE QuarantineStuck BY <5>1 DEF QuarantineStuck
        <5>2. CASE ReinstateProvenLive BY <5>2 DEF ReinstateProvenLive
        <5>3. CASE AdjustStopAll BY <5>3 DEF AdjustStopAll
        <5>4. CASE AdjustSpawnFails BY <5>4 DEF AdjustSpawnFails, poolVars
        <5>5. CASE AdjustShrink BY <5>5 DEF AdjustShrink
        <5>6. CASE StopHandles BY <5>6 DEF StopHandles, poolVars
        <5>7. CASE StopsReturn BY <5>7 DEF StopsReturn
        <5> QED BY <2>2, <4>3, <5>1, <5>2, <5>3, <5>4, <5>5, <5>6, <5>7 DEF HolderStep
      <4>4. CASE StartStep
        BY <4>4, PoolAssumption DEF StartStep, StartPool, Publish, StartSupervisor,
                                    RequestSize, poolVars
      <4>5. CASE SuperviseStep
        BY <4>5 DEF SuperviseStep, SuperviseTick, SuperviseExits, SuperviseReconciles,
                    poolVars
      <4>6. ASSUME NEW r \in Resizers, ResizerStep(r) PROVE <3>1
        BY <4>6 DEF ResizerStep, ResizeCapture, ResizeLocked, RequestSize, poolVars
      <4>7. CASE ShutdownStep
        BY <4>7 DEF ShutdownStep, StopSupervisor, JoinSupervisor, Unpublish,
                    ShutdownLocked, poolVars
      <4>8. CASE UNCHANGED vars
        BY <4>8 DEF vars, poolVars
      <4> QED BY <4>1, <4>2, <4>3, <4>4, <4>5, <4>6, <4>7, <4>8 DEF Next
    <3> QED BY <3>1, NoGrowth
  <2> QED BY <2>1, <2>2
<1>3. TypeOK /\ TypeOK' /\ LockInv /\ BooksInv /\ BudgetInv /\ [Next]_vars
        => LockInv' /\ BooksInv' /\ BudgetInv'
  BY <1>2, BooksStep DEF TypeOK
<1>4. TypeOK /\ BooksInv /\ BudgetInv => PoolWithinBudget
  BY DisjointUnion DEF TypeOK, ValuesOK, BooksInv, BudgetInv, PoolWithinBudget
<1>5. Init => LockInv /\ BooksInv
  BY DEF Init, LockInv, BooksInv
<1> QED BY <1>1, <1>3, <1>4, <1>5, TypeCorrect, PTL DEF Spec

-----------------------------------------------------------------------------
(* Refinement.  A reconcile only runs in a pool that is open, and a pool     *)
(* whose first fill fails has nothing in it when it is closed.               *)
OpenInv ==
    /\ holder = "start" <=> starting = "spawning"
    /\ published \/ closing \in {"locking", "stopping"} => starting \in {"supervise", "done"}
    /\ starting \in {"init", "spawning"} => ~ shutdown
    /\ phase \in {"quarantine", "reinstate", "adjust"} => ~ shutdown
    /\ phase \in {"free", "quarantine", "reinstate", "adjust"} => ~ failed
    /\ starting = "init" => roster = {} /\ quarantine = {} /\ phase = "free"
    /\ supervisor # "off" => starting = "done"
    /\ holder = "supervisor" => supervisor = "working"
    /\ \A r \in Resizers : calls[r] # NotCalling => starting \in {"supervise", "done"}
    /\ holder = "start" /\ (failed \/ phase \in {"quarantine", "reinstate", "adjust"})
         => roster = {} /\ quarantine = {}

LEMMA OpenStep ==
    ASSUME ValuesOK, LockInv, OpenInv, [Next]_vars
    PROVE  OpenInv'
<1> USE PoolAssumption DEF ValuesOK, LockInv, OpenInv, Callers
<1>1. ASSUME NEW h \in Handles, WorkerStep(h) PROVE OpenInv'
  BY <1>1 DEF WorkerStep, TakeJob, Overrun, HandlerAbandoned, CountCompleted,
              ClearBusy, DispatcherExits, poolVars, lockVars, serverVars
<1>2. CASE HandlerReturnedLate
  BY <1>2 DEF HandlerReturnedLate, poolVars, lockVars, serverVars
<1>3. CASE HolderStep
  <2>1. CASE QuarantineStuck
    BY <2>1 DEF QuarantineStuck, serverVars
  <2>2. CASE ReinstateProvenLive
    BY <2>2 DEF ReinstateProvenLive, serverVars
  <2>3. CASE AdjustStopAll
    BY <2>3 DEF AdjustStopAll, serverVars
  <2>4. CASE AdjustGrow
    BY <2>4 DEF AdjustGrow, serverVars
  <2>5. CASE AdjustSpawnFails
    BY <2>5 DEF AdjustSpawnFails, poolVars, serverVars
  <2>6. CASE AdjustShrink
    BY <2>6 DEF AdjustShrink, serverVars
  <2>7. CASE StopHandles
    BY <2>7 DEF StopHandles, poolVars, serverVars
  <2>8. CASE StopsReturn
    <3>1. /\ phase = "wait" /\ holder' = NoOne /\ phase' = "free" /\ failed' = FALSE
          /\ UNCHANGED <<roster, quarantine, published>>
      BY <2>8 DEF StopsReturn
    <3>2. CASE holder = "start"
      <4>1. /\ starting' = IF failed THEN "failed" ELSE "publish"
            /\ UNCHANGED <<supervisor, closing, calls>>
        BY <2>8, <3>2 DEF StopsReturn, Continue
      <4>2. starting' \in {"failed", "publish"}
        BY <4>1
      <4> QED BY <3>1, <3>2, <4>1, <4>2
    <3>3. CASE holder # "start"
      <4>1. /\ UNCHANGED <<shutdown, starting>>
            /\ supervisor' = supervisor \/ holder = "supervisor"
            /\ closing' = closing \/ closing' = "closed"
            /\ calls' = calls \/ calls' = [calls EXCEPT ![holder] = NotCalling]
        BY <2>8, <3>3 DEF StopsReturn, Continue
      <4> QED BY <3>1, <3>3, <4>1
    <3> QED BY <3>2, <3>3
  <2> QED BY <1>3, <2>1, <2>2, <2>3, <2>4, <2>5, <2>6, <2>7, <2>8 DEF HolderStep
<1>4. CASE StartStep
  BY <1>4 DEF StartStep, StartPool, Publish, StartSupervisor, Acquire, RequestSize,
              poolVars, lockVars
<1>5. CASE SuperviseStep
  BY <1>5 DEF SuperviseStep, SuperviseTick, SuperviseExits, SuperviseReconciles,
              Acquire, poolVars, lockVars
<1>6. ASSUME NEW r \in Resizers, ResizerStep(r) PROVE OpenInv'
  BY <1>6 DEF ResizerStep, ResizeCapture, ResizeLocked, Acquire, RequestSize,
              poolVars, lockVars
<1>7. CASE ShutdownStep
  BY <1>7 DEF ShutdownStep, StopSupervisor, JoinSupervisor, Unpublish,
              ShutdownLocked, Acquire, poolVars, lockVars
<1>8. CASE UNCHANGED vars
  BY <1>8 DEF vars, poolVars, lockVars, serverVars
<1> QED BY <1>1, <1>2, <1>3, <1>4, <1>5, <1>6, <1>7, <1>8 DEF Next

LEMMA SameCount == ASSUME NEW S PROVE Promise!Cardinality(S) = Cardinality(S)
BY DEF Promise!Cardinality, Cardinality

(* The goal of the abstract pool is the roster size reconcile allows. *)
LEMMA GoalIsAllowed == Promise!Goal = AllowedRoster
BY SameCount DEF Promise!Goal, AllowedRoster, Ceiling, Leaked

LEMMA GrowFills ==
    ASSUME ValuesOK, BooksInv, OpenInv, AdjustGrow
    PROVE  Promise!Fill
<1>1. PICK new \in SUBSET Handles :
        /\ Cardinality(new) = AllowedRoster - Cardinality(roster)
        /\ Spawned(new)
        /\ roster' = roster \cup new
  BY DEF AdjustGrow
<1>2. roster' \ roster = new
  BY <1>1 DEF Spawned, BooksInv
<1>3. ~ shutdown
  BY DEF AdjustGrow, OpenInv
<1>4. roster \subseteq roster' /\ roster' \subseteq Handles
  BY <1>1 DEF ValuesOK
<1> QED BY <1>1, <1>2, <1>3, <1>4, GoalIsAllowed, SameCount DEF AdjustGrow, Promise!Fill

LEMMA AllowedType == ValuesOK => AllowedRoster \in Nat
<1> SUFFICES ASSUME ValuesOK PROVE AllowedRoster \in Nat
  OBVIOUS
<1>1. Cardinality(quarantine) \in Nat
  BY CountType DEF ValuesOK
<1> QED BY <1>1, HeadroomType DEF AllowedRoster, Ceiling, Leaked, ValuesOK

(* splitForRemoval never picks more victims than it was asked for. *)
LEMMA RemovalsBounded ==
    ASSUME ValuesOK, NEW k \in Nat, NEW m \in Nat, NEW b \in BOOLEAN,
           NEW v \in Removals(k, m, b)
    PROVE  v \subseteq roster /\ Cardinality(v) <= k
<1> DEFINE cands == {h \in roster : ~ (Busy(h) /\ h \in protected /\ b)}
           busy  == {h \in cands : Busy(h)}
           idles == AtMost(k, Cardinality(cands \ busy))
<1>1. /\ v \subseteq cands
      /\ Cardinality(v \ busy) = idles
      /\ Cardinality(v \cap busy) = AtMost(AtMost(k - idles, m), Cardinality(busy))
  BY DEF Removals
<1>2. /\ v \ busy \in SUBSET Handles /\ v \cap busy \in SUBSET Handles
      /\ busy \in SUBSET Handles /\ cands \ busy \in SUBSET Handles
      /\ (v \ busy) \cap (v \cap busy) = {}
      /\ (v \ busy) \cup (v \cap busy) = v
      /\ busy \cap (cands \ busy) = {}
      /\ v \subseteq roster
  BY <1>1 DEF ValuesOK
<1> HIDE DEF cands, busy
<1>3. /\ Cardinality(v) = Cardinality(v \ busy) + Cardinality(v \cap busy)
      /\ Cardinality(busy) \in Nat /\ Cardinality(cands \ busy) \in Nat
  BY <1>2, DisjointUnion
<1>4. idles \in Nat /\ idles <= k
  BY <1>3 DEF AtMost
<1>5. AtMost(AtMost(k - idles, m), Cardinality(busy)) <= k - idles
  BY <1>3, <1>4 DEF AtMost
<1>6. AtMost(AtMost(k - idles, m), Cardinality(busy)) \in Nat
  BY <1>3, <1>4 DEF AtMost
<1> HIDE DEF idles
<1> QED BY <1>1, <1>2, <1>3, <1>4, <1>5, <1>6

LEMMA ShrinkReleases ==
    ASSUME ValuesOK, OpenInv, AdjustShrink
    PROVE  Promise!Release
<1> DEFINE surplus == Cardinality(roster) - AllowedRoster
           honour == AllowedRoster >= desired
           protectedBusy == Cardinality({h \in roster : h \in protected /\ Busy(h)})
           spared == IF honour THEN AtMost(protectedBusy, surplus) ELSE 0
<1>1. PICK v \in Removals(surplus, surplus - spared, honour) : roster' = roster \ v
  BY DEF AdjustShrink
<1>2. Cardinality(roster) \in Nat /\ protectedBusy \in Nat
  <2>1. {h \in roster : h \in protected /\ Busy(h)} \in SUBSET Handles
    BY DEF ValuesOK
  <2> QED BY <2>1, CountType DEF ValuesOK
<1>3. surplus \in Nat /\ surplus > 0 /\ honour \in BOOLEAN
  BY <1>2, AllowedType DEF AdjustShrink, ValuesOK
<1>4. surplus - spared \in Nat
  <2> HIDE DEF surplus, protectedBusy, honour
  <2> QED BY <1>2, <1>3 DEF AtMost
<1>5. v \subseteq roster /\ Cardinality(v) <= surplus
  BY <1>1, <1>3, <1>4, RemovalsBounded
<1>6. roster \ roster' = v /\ roster' \subseteq roster
  BY <1>1, <1>5
<1>7. ~ shutdown
  BY DEF AdjustShrink, OpenInv
<1> QED BY <1>5, <1>6, <1>7, GoalIsAllowed, SameCount DEF AdjustShrink, Promise!Release

(* The server's pool implements the abstract pool for every number of        *)
(* workers, callers, sizes and every headroom, also when Shutdown is called  *)
(* while Start is under way.                                                 *)
THEOREM Refinement == Spec => ImplementsPool
<1>1. Init => Promise!Init
  BY DEF Init, Promise!Init
<1>2. Init => LockInv /\ BooksInv /\ OpenInv
  BY PoolAssumption DEF Init, LockInv, BooksInv, OpenInv
<1>3. ASSUME ValuesOK, FlagsOK, ValuesOK', LockInv, BooksInv, OpenInv, [Next]_vars
      PROVE  [Promise!Next]_Promise!vars
  <2> USE <1>3 DEF Promise!vars
  <2>1. ASSUME NEW h \in Handles, HandlerAbandoned(h) PROVE Promise!Lose
    BY <2>1 DEF HandlerAbandoned, poolVars, ValuesOK, Promise!Lose
  <2>2. ASSUME NEW h \in Handles, WorkerStep(h), ~ HandlerAbandoned(h)
        PROVE  UNCHANGED Promise!vars
    BY <2>2 DEF WorkerStep, TakeJob, Overrun, CountCompleted, ClearBusy,
                DispatcherExits, poolVars
  <2>3. CASE HandlerReturnedLate
    <3>1. Promise!Lose
      BY <2>3 DEF HandlerReturnedLate, poolVars, ValuesOK, Promise!Lose
    <3> QED BY <3>1 DEF Promise!Next
  <2>4. CASE HolderStep
    <3>1. CASE QuarantineStuck
      <4>1. Promise!SetAside
        BY <3>1 DEF QuarantineStuck, OpenInv, Promise!SetAside
      <4> QED BY <4>1 DEF Promise!Next
    <3>2. CASE ReinstateProvenLive
      <4>1. Promise!TakeBack
        BY <3>2 DEF ReinstateProvenLive, OpenInv, Promise!TakeBack
      <4> QED BY <4>1 DEF Promise!Next
    <3>3. CASE AdjustStopAll
      <4>1. Promise!Pause
        BY <3>3 DEF AdjustStopAll, OpenInv, Promise!Pause, Promise!Empty
      <4> QED BY <4>1 DEF Promise!Next
    <3>4. CASE AdjustGrow
      BY <3>4, GrowFills DEF Promise!Next
    <3>5. CASE AdjustShrink
      BY <3>5, ShrinkReleases DEF Promise!Next
    <3>6. CASE AdjustSpawnFails \/ StopHandles
      BY <3>6 DEF AdjustSpawnFails, StopHandles, poolVars
    <3>7. CASE StopsReturn
      <4>1. CASE holder = "start" /\ failed
        <5>1. Promise!Close
          BY <3>7, <4>1, PoolAssumption
             DEF StopsReturn, Continue, OpenInv, Promise!Close, Promise!Empty
        <5> QED BY <5>1 DEF Promise!Next
      <4>2. CASE ~ (holder = "start" /\ failed)
        <5>1. CASE holder = "start"
          <6>1. shutdown' = failed /\ ~ failed /\ ~ shutdown
            BY <3>7, <4>2, <5>1, PoolAssumption DEF StopsReturn, Continue, OpenInv
          <6>2. failed = FALSE /\ shutdown = FALSE
            BY <6>1, Zenon DEF FlagsOK
          <6> QED BY <3>7, <6>1, <6>2 DEF StopsReturn
        <5>2. CASE holder # "start"
          BY <3>7, <5>2 DEF StopsReturn, Continue
        <5> QED BY <5>1, <5>2
      <4> QED BY <4>1, <4>2
    <3> QED BY <2>4, <3>1, <3>2, <3>3, <3>4, <3>5, <3>6, <3>7 DEF HolderStep
  <2>5. CASE StartPool
    <3>1. Promise!Ask
      BY <2>5, PoolAssumption DEF StartPool, RequestSize, OpenInv, Promise!Ask
    <3> QED BY <3>1 DEF Promise!Next
  <2>6. CASE Publish \/ StartSupervisor
    BY <2>6 DEF Publish, StartSupervisor, poolVars
  <2>7. CASE SuperviseStep
    BY <2>7 DEF SuperviseStep, SuperviseTick, SuperviseExits, SuperviseReconciles,
                poolVars
  <2>8. ASSUME NEW r \in Resizers, ResizerStep(r)
        PROVE  [Promise!Next]_Promise!vars
    <3>1. CASE ResizeLocked(r) /\ ~ shutdown
      <4>1. calls[r] \in Nat
        BY <3>1, PoolAssumption DEF ResizeLocked, ValuesOK
      <4>2. Promise!Ask
        BY <3>1, <4>1 DEF ResizeLocked, RequestSize, Promise!Ask
      <4> QED BY <4>2 DEF Promise!Next
    <3>2. CASE ~ (ResizeLocked(r) /\ ~ shutdown)
      BY <2>8, <3>2 DEF ResizerStep, ResizeCapture, ResizeLocked, poolVars
    <3> QED BY <3>1, <3>2
  <2>9. CASE ShutdownLocked
    <3>1. Promise!Close
      BY <2>9 DEF ShutdownLocked, Promise!Close, Promise!Empty
    <3> QED BY <3>1 DEF Promise!Next
  <2>10. CASE StopSupervisor \/ JoinSupervisor \/ Unpublish
    BY <2>10 DEF StopSupervisor, JoinSupervisor, Unpublish, poolVars
  <2>11. CASE UNCHANGED vars
    BY <2>11 DEF vars, poolVars
  <2> QED BY <2>1, <2>2, <2>3, <2>4, <2>5, <2>6, <2>7, <2>8, <2>9, <2>10, <2>11
          DEF Next, StartStep, ShutdownStep, Promise!Next
<1>4. TypeOK /\ LockInv /\ BooksInv /\ OpenInv /\ [Next]_vars
        => LockInv' /\ BooksInv' /\ OpenInv'
  BY BooksStep, OpenStep DEF TypeOK
<1>5. TypeOK /\ TypeOK' /\ LockInv /\ BooksInv /\ OpenInv /\ [Next]_vars
        => [Promise!Next]_Promise!vars
  BY <1>3 DEF TypeOK
<1> QED BY <1>1, <1>2, <1>4, <1>5, TypeCorrect, PTL DEF Spec, ImplementsPool, Promise!Spec

-----------------------------------------------------------------------------
(* A worker still in the job it was reinstated with is inside its handler,   *)
(* protected, and has not returned since the snapshot that protects it: so   *)
(* clearProtectionLocked leaves its protection alone.                        *)
HeldInv ==
    \A h \in held : pc[h] \in {"busy", "gaveup"} /\ h \in protected /\ h \notin returned

LEMMA HeldStep ==
    ASSUME ValuesOK, HeldInv, [Next]_vars
    PROVE  HeldInv'
<1> USE DEF ValuesOK, HeldInv
<1>1. ASSUME NEW h \in Handles, WorkerStep(h) PROVE HeldInv'
  BY <1>1 DEF WorkerStep, TakeJob, Overrun, HandlerAbandoned, CountCompleted,
              ClearBusy, DispatcherExits, poolVars
<1>2. CASE HandlerReturnedLate
  BY <1>2 DEF HandlerReturnedLate, workerVars, poolVars
<1>3. CASE HolderStep
  <2>1. CASE QuarantineStuck
    BY <2>1 DEF QuarantineStuck
  <2>2. CASE ReinstateProvenLive
    BY <2>2 DEF ReinstateProvenLive, ClearProtection
  <2>3. CASE AdjustStopAll
    BY <2>3 DEF AdjustStopAll, workerVars
  <2>4. CASE AdjustGrow
    BY <2>4 DEF AdjustGrow, Spawned
  <2>5. CASE AdjustSpawnFails
    BY <2>5 DEF AdjustSpawnFails, Spawned, poolVars
  <2>6. CASE AdjustShrink
    BY <2>6 DEF AdjustShrink, workerVars
  <2>7. CASE StopHandles
    BY <2>7 DEF StopHandles, poolVars
  <2>8. CASE StopsReturn
    BY <2>8 DEF StopsReturn, workerVars
  <2> QED BY <1>3, <2>1, <2>2, <2>3, <2>4, <2>5, <2>6, <2>7, <2>8 DEF HolderStep
<1>4. CASE StartStep
  BY <1>4 DEF StartStep, StartPool, Publish, StartSupervisor, workerVars, poolVars
<1>5. CASE SuperviseStep
  BY <1>5 DEF SuperviseStep, SuperviseTick, SuperviseExits, SuperviseReconciles,
              workerVars, poolVars
<1>6. ASSUME NEW r \in Resizers, ResizerStep(r) PROVE HeldInv'
  BY <1>6 DEF ResizerStep, ResizeCapture, ResizeLocked, workerVars, poolVars
<1>7. CASE ShutdownStep
  BY <1>7 DEF ShutdownStep, StopSupervisor, JoinSupervisor, Unpublish,
              ShutdownLocked, workerVars, poolVars
<1>8. CASE UNCHANGED vars
  BY <1>8 DEF vars, workerVars, poolVars
<1> QED BY <1>1, <1>2, <1>3, <1>4, <1>5, <1>6, <1>7, <1>8 DEF Next

(* While the leak budget leaves room for the size asked for, splitForRemoval *)
(* does not pick a worker that holds such a job.                             *)
LEMMA ShrinkSparesHeld ==
    ASSUME ValuesOK, HeldInv, AdjustShrink, NEW h \in held, h \in doomed'
    PROVE  AllowedRoster < desired
<1> DEFINE surplus == Cardinality(roster) - AllowedRoster
           honour == AllowedRoster >= desired
           protectedBusy == Cardinality({g \in roster : g \in protected /\ Busy(g)})
           spared == IF honour THEN AtMost(protectedBusy, surplus) ELSE 0
<1>1. PICK v \in Removals(surplus, surplus - spared, honour) : doomed' = v
  BY DEF AdjustShrink
<1>2. v \subseteq {g \in roster : ~ (Busy(g) /\ g \in protected /\ honour)}
  BY <1>1 DEF Removals
<1>3. Busy(h) /\ h \in protected
  BY DEF HeldInv, Busy
<1>4. ~ honour
  BY <1>1, <1>2, <1>3
<1> QED BY <1>4, AllowedType DEF ValuesOK

(* However workers, supervisor, Resize and Shutdown interleave, the job a    *)
(* worker held when it was reinstated is cancelled only when the leak        *)
(* budget, Resize(0) or Shutdown forces it.                                  *)
THEOREM HeldJobs == Spec => HeldJobSurvives
<1>1. Init => HeldInv
  BY DEF Init, HeldInv
<1>2. TypeOK /\ HeldInv /\ [Next]_vars => HeldInv'
  BY HeldStep DEF TypeOK
<1>3. ASSUME ValuesOK, HeldInv, [Next]_vars
      PROVE  [\A h \in held \cap (doomed' \ doomed) :
                desired = 0 \/ shutdown' \/ AllowedRoster < desired]_vars
  <2> SUFFICES ASSUME NEW h \in held, h \in doomed', h \notin doomed, Next
               PROVE  desired = 0 \/ shutdown' \/ AllowedRoster < desired
    BY <1>3
  <2> USE <1>3
  <2>1. CASE AdjustStopAll
    BY <2>1 DEF AdjustStopAll
  <2>2. CASE AdjustSpawnFails
    BY <2>2 DEF AdjustSpawnFails, Spawned, HeldInv
  <2>3. CASE AdjustShrink
    BY <2>3, ShrinkSparesHeld
  <2>4. CASE ShutdownLocked
    BY <2>4 DEF ShutdownLocked
  <2>5. CASE ~ (AdjustStopAll \/ AdjustSpawnFails \/ AdjustShrink \/ ShutdownLocked)
    <3>1. doomed' = doomed \/ doomed' = {}
      BY <2>5 DEF Next, WorkerStep, TakeJob, Overrun, HandlerAbandoned, CountCompleted,
                  ClearBusy, DispatcherExits, HandlerReturnedLate, HolderStep,
                  QuarantineStuck, ReinstateProvenLive, AdjustGrow, StopHandles,
                  StopsReturn, StartStep, StartPool, Publish, StartSupervisor,
                  SuperviseStep, SuperviseTick, SuperviseExits, SuperviseReconciles,
                  ResizerStep, ResizeCapture, ResizeLocked, ShutdownStep,
                  StopSupervisor, JoinSupervisor, Unpublish, lockVars
    <3> QED BY <3>1
  <2> QED BY <2>1, <2>2, <2>3, <2>4, <2>5
<1>4. TypeOK /\ HeldInv /\ [Next]_vars
        => [\A h \in held \cap (doomed' \ doomed) :
              desired = 0 \/ shutdown' \/ AllowedRoster < desired]_vars
  BY <1>3 DEF TypeOK
<1> QED BY <1>1, <1>2, <1>4, TypeCorrect, PTL DEF Spec, HeldJobSurvives
=============================================================================
