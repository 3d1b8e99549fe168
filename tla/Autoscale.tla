------------------------------ MODULE Autoscale ------------------------------
(***************************************************************************)
(* The worker autoscaler: one AIMD controller and one ticker goroutine per *)
(* managed queue (internal/queue/autoscale/aimd.go), tied together by the  *)
(* ledger autoscaleRunner.workerCounts, which enforces maxWorkersGlobal    *)
(* across queues (internal/server/autoscale_wiring.go).                    *)
(*                                                                         *)
(* A tick reads the worker count and the depth, decides, books the target  *)
(* in the ledger, calls Resize and books what Resize achieved: four steps  *)
(* that interleave with the ticks of every other queue.                    *)
(*                                                                         *)
(* The driver is seen through Resize and WorkerCount only: a pool has the  *)
(* size it was last asked for and the number of live workers.  What module *)
(* WorkerPool shows in detail is summed up here: a Resize that must spawn  *)
(* may fail and leaves the new size asked for, or may fall short because   *)
(* of the leak budget; workers get stuck; the supervisor brings the live   *)
(* workers back to the size asked for.  Time is reduced to whether the     *)
(* cool-down has passed.                                                   *)
(***************************************************************************)
EXTENDS Integers, FiniteSets, FiniteSetsExt

CONSTANTS
    Queues,        \* the auto-scaled queues
    MinWorkers,    \* bounds per queue (resolveAutoScaleBounds)
    MaxWorkers,
    GlobalCap,     \* maxWorkersGlobal, 0 for none
    UpMultiplier,  \* UpThresholdMultiplier (4 in the code)
    IdleCycles,    \* SustainedIdleCycles (5 in the code)
    Initial,       \* workers per queue when startAutoScale is called
    Depths,        \* bound: the queue depths considered
    Faults,        \* which faults happen: "fail" (Resize cannot spawn),
                   \* "short" (Resize falls short), "stick" (a worker hangs,
                   \* or is still in the job it hung in), "depth" (reading
                   \* the depth fails)
    MaxFaults,     \* bound: how many of them
    QuickStart,    \* startAutoScale ends before the first ticker fires
    StopCalled     \* "never", "patient" (no deadline), "deadline"

ASSUME AutoscaleAssumption ==
    /\ IsFiniteSet(Queues)
    /\ MinWorkers \in Nat \ {0} /\ MaxWorkers \in Nat /\ MinWorkers <= MaxWorkers
    /\ Initial \in Nat \ {0} /\ Initial <= MaxWorkers
    /\ GlobalCap \in Nat
    /\ GlobalCap > 0 => MinWorkers * Cardinality(Queues) <= GlobalCap
    /\ UpMultiplier \in Nat \ {0} /\ IdleCycles \in Nat \ {0}
    /\ Depths \subseteq Nat /\ MaxFaults \in Nat
    /\ Faults \subseteq {"fail", "short", "stick", "depth"}
    /\ QuickStart \in BOOLEAN
    /\ StopCalled \in {"never", "patient", "deadline"}

VARIABLES
    depth,     \* dispatchable jobs per queue
    asked,     \* workerPool.desired per queue
    live,      \* what WorkerCount returns per queue
    slipped,   \* history: queues that have had fewer workers than asked for
               \* since their last Resize that achieved its size
    spared,    \* history: queues whose last Resize left more than asked for
    ledger,    \* autoscaleRunner.workerCounts; 0 also for "no entry"
    pc,        \* where each queue's goroutine is
    cooling,   \* queues less than CooldownDuration after lastScaleAt
    idle,      \* AIMDController.idleCycleCount
    current,   \* the tick's locals: worker count read ...
    kind,      \* ... and the action decided, "noop", "up" or "down" ...
    target,    \* ... with its TargetWorkers
    zeros,     \* history: consecutive zero depths observed, up to IdleCycles
    stopping,  \* "no", "cancelled", "drained" or "expired"
    faults     \* faults so far

driverVars == <<asked, live, slipped, spared>>
ctrlVars == <<cooling, idle, current, kind, target, zeros>>
vars == <<depth, asked, live, slipped, spared, ledger, pc, cooling, idle, current, kind,
          target, zeros, stopping, faults>>

ValuesOK ==
    /\ depth \in [Queues -> Depths]
    /\ asked \in [Queues -> 0..MaxWorkers]
    /\ live \in [Queues -> 0..MaxWorkers]
    /\ ledger \in [Queues -> 0..MaxWorkers]
    /\ idle \in [Queues -> 0..(IdleCycles - 1)]
    /\ current \in [Queues -> 0..MaxWorkers]
    /\ target \in [Queues -> 0..MaxWorkers]
    /\ zeros \in [Queues -> 0..IdleCycles]
    /\ faults \in 0..MaxFaults

TypeOK ==
    /\ ValuesOK
    /\ pc \in [Queues -> {"new", "starting", "wait", "decided", "resize",
                          "resized", "failed", "done"}]
    /\ cooling \subseteq Queues
    /\ slipped \subseteq Queues /\ spared \subseteq Queues
    /\ kind \in [Queues -> {"noop", "up", "down"}]
    /\ stopping \in {"no", "cancelled", "drained", "expired"}

Init ==
    /\ depth \in [Queues -> Depths]
    /\ asked = [q \in Queues |-> Initial]
    /\ live = [q \in Queues |-> Initial]
    /\ slipped = {} /\ spared = {}
    /\ ledger = [q \in Queues |-> 0]
    /\ pc = [q \in Queues |-> "new"]
    /\ cooling = {}
    /\ idle = [q \in Queues |-> 0]
    /\ current = [q \in Queues |-> 0]
    /\ kind = [q \in Queues |-> "noop"]
    /\ target = [q \in Queues |-> 0]
    /\ zeros = [q \in Queues |-> 0]
    /\ stopping = "no"
    /\ faults = 0

Fault(f) == f \in Faults /\ faults < MaxFaults /\ faults' = faults + 1

-----------------------------------------------------------------------------
(* The driver. *)

(* Resize in a pool that has its workers: the live ones become n. *)
ResizeDone(q, n) ==
    /\ live' = [live EXCEPT ![q] = n]
    /\ asked' = [asked EXCEPT ![q] = n]
    /\ slipped' = slipped \ {q} /\ spared' = spared \ {q}
    /\ UNCHANGED faults

(* A worker that was set aside in a long job and has come back is not        *)
(* stopped before the job ends: a pool shrinks by fewer than it was asked.   *)
ResizeSpares(q, n) ==
    /\ Fault("stick")
    /\ \E k \in (n + 1)..live[q] : live' = [live EXCEPT ![q] = k]
    /\ asked' = [asked EXCEPT ![q] = n]
    /\ slipped' = slipped \ {q} /\ spared' = spared \cup {q}

(* The leak budget leaves no room for all the replacements. *)
ResizeShort(q, n) ==
    /\ Fault("short")
    /\ live[q] < n
    /\ \E k \in live[q]..(n - 1) : live' = [live EXCEPT ![q] = k]
    /\ asked' = [asked EXCEPT ![q] = n]
    /\ slipped' = slipped \cup {q} /\ spared' = spared \ {q}

(* mkq.Process returns an error: only a growing pool calls it, the workers   *)
(* it spawned are stopped again, and desired keeps the new value.            *)
ResizeFails(q, n) ==
    /\ Fault("fail")
    /\ live[q] < n
    /\ asked' = [asked EXCEPT ![q] = n]
    /\ slipped' = slipped \cup {q}
    /\ UNCHANGED <<live, spared>>

(* A handler overruns StuckWorkerAfter: WorkerCount no longer counts it. *)
WorkerSticks(q) ==
    /\ Fault("stick")
    /\ live[q] > 0
    /\ live' = [live EXCEPT ![q] = @ - 1]
    /\ slipped' = slipped \cup {q}
    /\ UNCHANGED <<depth, asked, spared, ledger, pc, ctrlVars, stopping>>

(* The supervisor's reconcileLocked. *)
Reconcile(q) ==
    /\ live[q] # asked[q]
    /\ live' = [live EXCEPT ![q] = asked[q]]
    /\ UNCHANGED <<depth, asked, slipped, spared, ledger, pc, ctrlVars, stopping, faults>>

DepthChanges(q) ==
    /\ \E d \in Depths \ {depth[q]} : depth' = [depth EXCEPT ![q] = d]
    /\ UNCHANGED <<driverVars, ledger, pc, ctrlVars, stopping, faults>>

CooldownElapses(q) ==
    /\ q \in cooling
    /\ cooling' = cooling \ {q}
    /\ UNCHANGED <<depth, driverVars, ledger, pc, idle, current, kind, target,
                   zeros, stopping, faults>>

-----------------------------------------------------------------------------
(* AIMDController.Observe past the cool-down gate: the action for cur live   *)
(* workers, depth d and n idle cycles so far, and the new idle cycle count.  *)

NoOp(n) == [kind |-> "noop", target |-> 0, idle |-> n]
ScaleUp(t) == [kind |-> "up", target |-> t, idle |-> 0]
ScaleDown(t) == [kind |-> "down", target |-> t, idle |-> 0]

\* Mutant: the step of a small pool rounds down to nothing.
IncreasedRoundedDown(cur) == Min({cur + cur \div 4, MaxWorkers})

\* Mutant: halving may take the pool below its floor.
DecreasedNoFloor(cur) == cur \div 2

Increased(cur) == Min({cur + Max({cur \div 4, 1}), MaxWorkers})
Decreased(cur) == Max({cur \div 2, MinWorkers})

\* Mutant: only reaching a bound resets the idle counter.
ObserveForgetsReset(cur, d, n) ==
    CASE cur < MinWorkers -> ScaleUp(MinWorkers)
      [] cur >= MinWorkers /\ d > UpMultiplier * cur ->
            IF cur >= MaxWorkers THEN NoOp(0) ELSE ScaleUp(Increased(cur))
      [] cur > MinWorkers /\ d = 0 ->
            IF n + 1 >= IdleCycles THEN ScaleDown(Decreased(cur)) ELSE NoOp(n + 1)
      [] OTHER -> NoOp(n)

Observe(cur, d, n) ==
    CASE cur < MinWorkers -> ScaleUp(MinWorkers)
      [] cur >= MinWorkers /\ d > UpMultiplier * cur ->
            IF cur >= MaxWorkers THEN NoOp(0) ELSE ScaleUp(Increased(cur))
      [] cur > MinWorkers /\ d = 0 ->
            IF n + 1 >= IdleCycles THEN ScaleDown(Decreased(cur)) ELSE NoOp(n + 1)
      [] OTHER -> NoOp(0)

-----------------------------------------------------------------------------
(* startAutoScale: one queue after the other, Resize to the floor, book what *)
(* the driver then has, start the ticker.                                    *)

StartResize(q) ==
    /\ pc[q] = "new"
    /\ \A o \in Queues : pc[o] # "starting"
    /\ \/ ResizeDone(q, MinWorkers) /\ pc' = [pc EXCEPT ![q] = "starting"]
       \/ ResizeSpares(q, MinWorkers) /\ pc' = [pc EXCEPT ![q] = "starting"]
       \/ ResizeShort(q, MinWorkers) /\ pc' = [pc EXCEPT ![q] = "starting"]
       \/ ResizeFails(q, MinWorkers) /\ pc' = [pc EXCEPT ![q] = "wait"]
    /\ UNCHANGED <<depth, ledger, ctrlVars, stopping>>

StartBook(q) ==
    /\ pc[q] = "starting"
    /\ ledger' = [ledger EXCEPT ![q] = live[q]]
    /\ pc' = [pc EXCEPT ![q] = "wait"]
    /\ UNCHANGED <<depth, driverVars, ctrlVars, stopping, faults>>

-----------------------------------------------------------------------------
(* tick. *)

Started == \A q \in Queues : pc[q] \notin {"new", "starting"}

(* Reading the depth may fail, which counts as an empty queue. *)
ReadDepth(q, d) ==
    \/ d = depth[q] /\ UNCHANGED faults
    \/ d = 0 /\ Fault("depth")

(* The controller's decision on what the ticker read; a decision to scale    *)
(* starts the cool-down even if the cap then refuses it.                     *)
Decide(q) ==
    /\ pc[q] = "wait"
    /\ QuickStart => Started
    /\ q \notin cooling
    /\ \E d \in Depths \cup {0} :
          LET a == Observe(live[q], d, idle[q]) IN
          /\ ReadDepth(q, d)
          /\ current' = [current EXCEPT ![q] = live[q]]
          /\ kind' = [kind EXCEPT ![q] = a.kind]
          /\ target' = [target EXCEPT ![q] = a.target]
          /\ idle' = [idle EXCEPT ![q] = a.idle]
          /\ zeros' = [zeros EXCEPT ![q] =
                         IF d # 0 THEN 0 ELSE Min({@ + 1, IdleCycles})]
          /\ pc' = [pc EXCEPT ![q] = IF a.kind = "noop" THEN "wait" ELSE "decided"]
          /\ cooling' = IF a.kind = "noop" THEN cooling ELSE cooling \cup {q}
    /\ UNCHANGED <<depth, driverVars, ledger, stopping>>

Total(f) == MapThenSumSet(LAMBDA q : f[q], Queues)

\* Mutant: the check before Resize, the booking only after it (#1290).
ReserveLater(q) ==
    /\ UNCHANGED ledger
    /\ pc' = [pc EXCEPT ![q] =
                IF Total([ledger EXCEPT ![q] = target[q]]) <= GlobalCap
                THEN "resize" ELSE "wait"]

(* reserveIfWithinCap: the check and the booking are one critical section. *)
Reserve(q) ==
    IF Total([ledger EXCEPT ![q] = target[q]]) <= GlobalCap
    THEN /\ ledger' = [ledger EXCEPT ![q] = target[q]]
         /\ pc' = [pc EXCEPT ![q] = "resize"]
    ELSE /\ UNCHANGED ledger
         /\ pc' = [pc EXCEPT ![q] = "wait"]

Book(q) ==
    /\ pc[q] = "decided"
    /\ IF kind[q] = "up" /\ GlobalCap > 0
       THEN Reserve(q)
       ELSE /\ ledger' = [ledger EXCEPT ![q] = target[q]]
            /\ pc' = [pc EXCEPT ![q] = "resize"]
    /\ UNCHANGED <<depth, driverVars, ctrlVars, stopping, faults>>

Resize(q) ==
    /\ pc[q] = "resize"
    /\ \/ ResizeDone(q, target[q]) /\ pc' = [pc EXCEPT ![q] = "resized"]
       \/ ResizeSpares(q, target[q]) /\ pc' = [pc EXCEPT ![q] = "resized"]
       \/ ResizeShort(q, target[q]) /\ pc' = [pc EXCEPT ![q] = "resized"]
       \/ ResizeFails(q, target[q]) /\ pc' = [pc EXCEPT ![q] = "failed"]
    /\ UNCHANGED <<depth, ledger, ctrlVars, stopping>>

\* Mutant: leave the target booked, whatever Resize achieved (#2657).
CommitTarget(q) ==
    /\ pc[q] = "resized"
    /\ pc' = [pc EXCEPT ![q] = "wait"]
    /\ UNCHANGED <<depth, driverVars, ledger, ctrlVars, stopping, faults>>

(* Resize succeeded: book the workers there really are. *)
Commit(q) ==
    /\ pc[q] = "resized"
    /\ ledger' = [ledger EXCEPT ![q] = live[q]]
    /\ pc' = [pc EXCEPT ![q] = "wait"]
    /\ UNCHANGED <<depth, driverVars, ctrlVars, stopping, faults>>

(* Resize failed: book the count read at the beginning of the tick. *)
Rollback(q) ==
    /\ pc[q] = "failed"
    /\ ledger' = [ledger EXCEPT ![q] = current[q]]
    /\ pc' = [pc EXCEPT ![q] = "wait"]
    /\ UNCHANGED <<depth, driverVars, ctrlVars, stopping, faults>>

-----------------------------------------------------------------------------
(* Stop: cancel the tickers, wait for them, give up when ctx expires. *)

Cancel ==
    /\ StopCalled # "never" /\ stopping = "no" /\ Started
    /\ stopping' = "cancelled"
    /\ UNCHANGED <<depth, driverVars, ledger, pc, ctrlVars, faults>>

TickerExits(q) ==
    /\ pc[q] = "wait" /\ stopping # "no"
    /\ pc' = [pc EXCEPT ![q] = "done"]
    /\ UNCHANGED <<depth, driverVars, ledger, ctrlVars, stopping, faults>>

StopReturns ==
    /\ stopping = "cancelled"
    /\ \/ (\A q \in Queues : pc[q] = "done") /\ stopping' = "drained"
       \/ StopCalled = "deadline" /\ stopping' = "expired"
    /\ UNCHANGED <<depth, driverVars, ledger, pc, ctrlVars, faults>>

-----------------------------------------------------------------------------
TickStep(q) == Decide(q) \/ Book(q) \/ Resize(q) \/ Commit(q) \/ Rollback(q)

Next ==
    \/ \E q \in Queues :
          \/ StartResize(q) \/ StartBook(q) \/ TickStep(q) \/ TickerExits(q)
          \/ WorkerSticks(q) \/ Reconcile(q) \/ DepthChanges(q) \/ CooldownElapses(q)
    \/ Cancel \/ StopReturns

Spec == Init /\ [][Next]_vars

(* Goroutines and tickers run on, the supervisor reconciles every            *)
(* superviseInterval and time passes.  Faults, the load and Stop are not     *)
(* fair.                                                                     *)
Fairness ==
    \A q \in Queues :
        /\ WF_vars(StartResize(q)) /\ WF_vars(StartBook(q)) /\ WF_vars(TickStep(q))
        /\ WF_vars(Reconcile(q)) /\ WF_vars(CooldownElapses(q))

FairSpec == Spec /\ Fairness

-----------------------------------------------------------------------------
(* Properties. *)

(* What a controller proposes respects the bounds of its queue and has the   *)
(* direction it claims (ControlAction's guarantees), whatever faults moved   *)
(* the worker count it saw.                                                  *)
ProposalSound ==
    \A q \in Queues : pc[q] = "decided" =>
        /\ target[q] \in MinWorkers..MaxWorkers
        /\ kind[q] = "up" => target[q] > current[q]
        /\ kind[q] = "down" => target[q] < current[q]

(* A pool is only shrunk after IdleCycles observations in a row found the    *)
(* queue empty: one job seen in between starts the count again.              *)
ShrinksOnlyWhenIdle ==
    \A q \in Queues : pc[q] = "decided" /\ kind[q] = "down" => zeros[q] = IdleCycles

(* Between two ticks a queue holds no slot of the global cap that its pool   *)
(* does not use, although Resize may have failed or fallen short: neither    *)
(* path leaves a reservation that would block the other queues.              *)
NoSlotLeaked ==
    \A q \in Queues : pc[q] = "wait" => ledger[q] <= live[q]

Shrinking(q) == pc[q] = "resize" /\ target[q] < asked[q]

(* What the queue may have running: the size its pool was asked for, counted *)
(* as shrunk when it is about to be.                                         *)
Promised(q) == IF Shrinking(q) THEN target[q] ELSE asked[q]

(* No interleaving of tickers overbooks the cap (#1290).  The pools stay      *)
(* within maxWorkersGlobal as long as every Resize achieved its size; a queue *)
(* that has had fewer workers than it asked for is booked with those it had,  *)
(* so only such a queue can take the pools past the cap when the supervisor   *)
(* fills it up (reserveIfWithinCap, and the booking after Resize).            *)
PromisedWithinCap ==
    Started =>
        Total([q \in Queues |-> IF q \in slipped THEN ledger[q] ELSE Promised(q)])
            <= GlobalCap

(* A queue with a lasting backlog gets all its workers once the other queues *)
(* have gone idle: the idle pools shrink to their floor and give their slots *)
(* of the cap back, through failed, short and stuck workers.  Left open is a *)
(* pool whose last shrink spared a worker: when the supervisor stops that    *)
(* worker later, nobody takes its slot out of the ledger, and a pool at its  *)
(* floor is not resized again (the comment at autoscale_wiring.go:258 warns  *)
(* of just such a booking).                                                  *)
BacklogGetsWorkers ==
    \A q \in Queues :
        <>[](/\ depth[q] > UpMultiplier * MaxWorkers
             /\ \A o \in Queues \ {q} : depth[o] = 0 /\ o \notin spared
             /\ stopping = "no")
            => <>[](live[q] = MaxWorkers)
=============================================================================
