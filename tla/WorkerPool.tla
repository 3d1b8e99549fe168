------------------------------ MODULE WorkerPool ------------------------------
(***************************************************************************)
(* One queue's pool of job workers: the mkq driver's Server and workerPool *)
(* (internal/queue/driver/mkqdriver/server.go).                            *)
(*                                                                         *)
(* A worker is one dispatcher goroutine that runs one job handler at a     *)
(* time.  Start, Resize, the supervisor and Shutdown all change the pool   *)
(* under pool.mu; the workers themselves never take that lock, they only   *)
(* publish when they entered the handler and how often they returned.      *)
(* Every step of a worker interleaves with every step of the lock's        *)
(* holder.                                                                 *)
(*                                                                         *)
(* Abstractions.  The roster and the quarantine are sets: the order in     *)
(* which equally ranked victims are stopped is a nondeterministic choice.  *)
(* The two snapshots of a worker's completion counter are one flag, "has   *)
(* returned since the last snapshot": reconcile reads the quarantine's     *)
(* snapshot only of a quarantined worker and the reinstatement's only of a *)
(* protected one in the roster, and each is then the last one taken.  Time *)
(* is reduced to whether a job has run for stuckAfter; that and the        *)
(* handler's deadline may pass at any moment, in either order.  Identities *)
(* of workers are reused once their goroutine is gone.                     *)
(***************************************************************************)
EXTENDS Integers, FiniteSets

CONSTANTS
    Handles,          \* identities of workers
    Resizers,         \* goroutines that call Resize
    Sizes,            \* the sizes they may ask for
    Base,             \* baseConcurrency: the queue's configured worker count
    HeadroomFloor,    \* quarantineHeadroom (4 in the code)
    StuckTracking,    \* stuckAfter > 0 for this queue
    Deadlines,        \* handlerDeadline >= 0
    ShutdownWhen,     \* Shutdown is called "never", once Start has "published"
                      \* the pools, or at "any" time a signal arrives
    MaxAbandoned,     \* bound: abandoned handlers that exist at once
    NoOne             \* pool.mu is free

ASSUME PoolAssumption ==
    /\ IsFiniteSet(Handles)
    /\ Base \in Nat \ {0}
    /\ HeadroomFloor \in Nat
    /\ Sizes \subseteq Nat
    /\ StuckTracking \in BOOLEAN
    /\ Deadlines \in BOOLEAN
    /\ ShutdownWhen \in {"never", "published", "any"}
    /\ MaxAbandoned \in Nat
    /\ NoOne \notin Resizers \cup {"start", "supervisor", "shutdown"}
    /\ Resizers \cap {"start", "supervisor", "shutdown"} = {}

VARIABLES
    pc,           \* where each worker's dispatcher is
    over,         \* workers whose current job has run for stuckAfter
    returned,     \* workers that completed a job since their last snapshot
    held,         \* history: workers in the job they had when reinstated
    stopped,      \* workers whose Stop was called and that still exist
    roster,       \* workerPool.workers
    quarantine,   \* workerPool.quarantine
    protected,    \* workers with workerHandle.protected set
    desired,      \* workerPool.desired
    peakDesired,  \* workerPool.peakDesired
    shutdown,     \* workerPool.shutdown
    abandoned,    \* abandonCounters.current of this queue
    holder,       \* who holds pool.mu
    phase,        \* what the holder does next
    doomed,       \* the workers the holder is stopping
    failed,       \* the holder's reconcile ran into a spawn error
    published,    \* s.pools holds the pool
    starting,     \* progress of Start
    supervisor,   \* the supervisor goroutine
    cancelled,    \* superviseCancel was called
    closing,      \* progress of Shutdown
    calls         \* the size each resizer that has captured the pool asks for

workerVars == <<pc, over, returned, held, stopped>>
poolVars   == <<roster, quarantine, protected, desired, peakDesired, shutdown>>
lockVars   == <<holder, phase, doomed, failed>>
serverVars == <<published, starting, supervisor, cancelled, closing, calls>>
vars == <<workerVars, poolVars, abandoned, lockVars, serverVars>>

Callers == Resizers \cup {"start", "supervisor", "shutdown"}
NotCalling == -1

ValuesOK ==
    /\ pc \in [Handles -> {"none", "idle", "busy", "gaveup", "counted"}]
    /\ over \subseteq Handles
    /\ returned \subseteq Handles
    /\ held \subseteq Handles
    /\ stopped \subseteq Handles
    /\ roster \subseteq Handles
    /\ quarantine \subseteq Handles
    /\ protected \subseteq Handles
    /\ desired \in Nat
    /\ peakDesired \in Nat
    /\ abandoned \in Nat
    /\ holder \in Callers \cup {NoOne}
    /\ phase \in {"free", "quarantine", "reinstate", "adjust", "stop", "wait"}
    /\ doomed \subseteq Handles
    /\ starting \in {"init", "spawning", "publish", "supervise", "done", "failed"}
    /\ supervisor \in {"off", "ticking", "locking", "working"}
    /\ closing \in {"open", "joining", "unpublish", "locking", "stopping", "closed"}
    /\ calls \in [Resizers -> Sizes \cup {NotCalling}]

FlagsOK ==
    /\ shutdown \in BOOLEAN
    /\ failed \in BOOLEAN
    /\ published \in BOOLEAN
    /\ cancelled \in BOOLEAN

(* What every variable may hold; in particular the sizes and the counter of  *)
(* abandoned handlers stay natural numbers.                                  *)
TypeOK == ValuesOK /\ FlagsOK

Init ==
    /\ pc = [h \in Handles |-> "none"]
    /\ over = {}
    /\ returned = {} /\ held = {} /\ stopped = {}
    /\ roster = {} /\ quarantine = {} /\ protected = {}
    /\ desired = 0 /\ peakDesired = 0
    /\ shutdown = FALSE
    /\ abandoned = 0
    /\ holder = NoOne /\ phase = "free" /\ doomed = {} /\ failed = FALSE
    /\ published = FALSE
    /\ starting = "init"
    /\ supervisor = "off" /\ cancelled = FALSE
    /\ closing = "open"
    /\ calls = [r \in Resizers |-> NotCalling]

-----------------------------------------------------------------------------
(* A worker. *)

(* busySinceNanos # 0 *)
Busy(h) == pc[h] \in {"busy", "gaveup", "counted"}
BusyOver(h) == Busy(h) /\ h \in over

(* mkq hands the dispatcher a job: busySinceNanos is stored on entry.  A    *)
(* worker chosen as a victim but not yet stopped still takes jobs.          *)
TakeJob(h) ==
    /\ pc[h] = "idle"
    /\ h \notin stopped
    /\ pc' = [pc EXCEPT ![h] = "busy"]
    /\ UNCHANGED <<over, returned, held, stopped, poolVars, abandoned, lockVars, serverVars>>

(* The job has been running for stuckAfter, which is only asked of workers  *)
(* in the roster.                                                           *)
Overrun(h) ==
    /\ pc[h] = "busy"
    /\ h \in roster \ over
    /\ over' = over \cup {h}
    /\ UNCHANGED <<pc, returned, held, stopped, poolVars, abandoned, lockVars, serverVars>>

(* runBounded: the deadline and the grace have passed, the dispatcher stops *)
(* waiting and the handler's goroutine leaks.                               *)
HandlerAbandoned(h) ==
    /\ Deadlines
    /\ pc[h] = "busy"
    /\ abandoned < MaxAbandoned
    /\ pc' = [pc EXCEPT ![h] = "gaveup"]
    /\ abandoned' = abandoned + 1
    /\ UNCHANGED <<over, returned, held, stopped, poolVars, lockVars, serverVars>>

(* The deferred function of trackedHandler counts the return first (it only *)
(* matters once a snapshot exists) ...                                      *)
CountCompleted(h) ==
    /\ pc[h] \in {"busy", "gaveup"}
    /\ pc' = [pc EXCEPT ![h] = "counted"]
    /\ returned' = returned \cup ({h} \cap (quarantine \cup protected))
    /\ held' = held \ {h}
    /\ UNCHANGED <<over, stopped, poolVars, abandoned, lockVars, serverVars>>

(* ... and clears busySinceNanos in a second atomic store.                  *)
ClearBusy(h) ==
    /\ pc[h] = "counted"
    /\ pc' = [pc EXCEPT ![h] = "idle"]
    /\ over' = over \ {h}
    /\ UNCHANGED <<returned, held, stopped, poolVars, abandoned, lockVars, serverVars>>

(* mkq: a dispatcher whose Stop was called ends once it is out of its       *)
(* handler.                                                                 *)
DispatcherExits(h) ==
    /\ h \in stopped
    /\ pc[h] = "idle"
    /\ pc' = [pc EXCEPT ![h] = "none"]
    /\ stopped' = stopped \ {h}
    /\ returned' = returned \ {h}
    /\ protected' = protected \ {h}
    /\ UNCHANGED <<over, held, roster, quarantine, desired, peakDesired, shutdown,
                   abandoned, lockVars, serverVars>>

(* The leaked goroutine of an abandoned handler ends after all. *)
HandlerReturnedLate ==
    /\ abandoned > 0
    /\ abandoned' = abandoned - 1
    /\ UNCHANGED <<workerVars, poolVars, lockVars, serverVars>>

-----------------------------------------------------------------------------
(* reconcileLocked: the holder of pool.mu takes these steps in turn. *)

Acquire(c) ==
    /\ holder = NoOne
    /\ holder' = c

(* Mutant: only abandoned handlers count as leaked. *)
LeakedWithoutQuarantine == abandoned

Leaked == Cardinality(quarantine) + abandoned
Headroom == IF Base >= HeadroomFloor THEN Base ELSE HeadroomFloor
(* Mutant: no headroom. *)
CeilingWithoutHeadroom ==
    LET c == peakDesired - Leaked IN IF c < 0 THEN 0 ELSE c

Ceiling == LET c == peakDesired + Headroom - Leaked IN IF c < 0 THEN 0 ELSE c
AllowedRoster == IF desired <= Ceiling THEN desired ELSE Ceiling

(* Mutant: no more workers are evicted than the headroom has room for. *)
QuarantineStuckCapped ==
    LET stuck == {h \in roster : BusyOver(h)}
        moved == IF StuckTracking /\ Cardinality(quarantine \cup stuck) < Headroom
                 THEN stuck ELSE {} IN
    /\ phase = "quarantine"
    /\ roster' = roster \ moved
    /\ quarantine' = quarantine \cup moved
    /\ returned' = returned \ moved
    /\ phase' = "reinstate"
    /\ UNCHANGED <<pc, over, held, stopped, protected, desired, peakDesired, shutdown,
                   abandoned, holder, doomed, failed, serverVars>>

(* Workers over the threshold leave the roster without being stopped.  The  *)
(* snapshot is taken now, so a return counted a moment ago is in it.        *)
QuarantineStuck ==
    LET moved == IF StuckTracking THEN {h \in roster : BusyOver(h)} ELSE {} IN
    /\ phase = "quarantine"
    /\ roster' = roster \ moved
    /\ quarantine' = quarantine \cup moved
    /\ returned' = returned \ moved
    /\ phase' = "reinstate"
    /\ UNCHANGED <<pc, over, held, stopped, protected, desired, peakDesired, shutdown,
                   abandoned, holder, doomed, failed, serverVars>>

(* Mutant: a quarantined worker is released when it is seen idle. *)
SeenIdle(h) == pc[h] = "idle"

ProvenLive(h) == h \in returned

(* Protection ends with the job the worker came back with. *)
ClearProtection == protected \ (roster \cap returned)

(* Mutant: reinstating takes no new snapshot of the completion counter. *)
ReinstateWithoutSnapshot ==
    LET back == {h \in quarantine : ProvenLive(h)} IN
    /\ phase = "reinstate"
    /\ quarantine' = quarantine \ back
    /\ roster' = roster \cup back
    /\ held' = held \cup {h \in back : pc[h] = "busy"}
    /\ protected' = ClearProtection \cup back
    /\ phase' = "adjust"
    /\ UNCHANGED <<pc, over, returned, stopped, desired, peakDesired, shutdown,
                   abandoned, holder, doomed, failed, serverVars>>

(* reinstateProvenLiveLocked, then clearProtectionLocked.  The workers just *)
(* reinstated have a new snapshot, so they keep their protection.           *)
ReinstateProvenLive ==
    LET back == {h \in quarantine : ProvenLive(h)} IN
    /\ phase = "reinstate"
    /\ quarantine' = quarantine \ back
    /\ roster' = roster \cup back
    /\ returned' = returned \ back
    /\ held' = held \cup {h \in back : pc[h] = "busy"}
    /\ protected' = ClearProtection \cup back
    /\ phase' = "adjust"
    /\ UNCHANGED <<pc, over, stopped, desired, peakDesired, shutdown,
                   abandoned, holder, doomed, failed, serverVars>>

(* adjustLocked, desired = 0: the queue is paused, quarantine included. *)
AdjustStopAll ==
    /\ phase = "adjust"
    /\ desired = 0
    /\ doomed' = roster \cup quarantine
    /\ roster' = {} /\ quarantine' = {}
    /\ phase' = "stop"
    /\ UNCHANGED <<workerVars, protected, desired, peakDesired, shutdown,
                   abandoned, holder, failed, serverVars>>

Spawned(new) ==
    /\ new \subseteq {h \in Handles : pc[h] = "none"}
    /\ pc' = [h \in Handles |-> IF h \in new THEN "idle" ELSE pc[h]]

(* Mutant: the pool is filled to the size asked for, whatever has leaked. *)
AdjustGrowToDesired ==
    /\ phase = "adjust"
    /\ desired # 0
    /\ desired >= Cardinality(roster)
    /\ \E new \in SUBSET Handles :
         /\ Cardinality(new) = desired - Cardinality(roster)
         /\ Spawned(new)
         /\ roster' = roster \cup new
    /\ phase' = "wait"
    /\ UNCHANGED <<over, returned, held, stopped, quarantine, protected, desired,
                   peakDesired, shutdown, abandoned, holder, doomed, failed,
                   serverVars>>

(* n >= current: the missing workers are spawned and join the roster.       *)
AdjustGrow ==
    /\ phase = "adjust"
    /\ desired # 0
    /\ AllowedRoster >= Cardinality(roster)
    /\ \E new \in SUBSET Handles :
         /\ Cardinality(new) = AllowedRoster - Cardinality(roster)
         /\ Spawned(new)
         /\ roster' = roster \cup new
    /\ phase' = "wait"
    /\ UNCHANGED <<over, returned, held, stopped, quarantine, protected, desired,
                   peakDesired, shutdown, abandoned, holder, doomed, failed,
                   serverVars>>

(* Mutant: the workers spawned before the error are forgotten. *)
AdjustSpawnFailsForgets ==
    /\ phase = "adjust"
    /\ desired # 0
    /\ AllowedRoster > Cardinality(roster)
    /\ \E new \in SUBSET Handles :
         /\ Cardinality(new) < AllowedRoster - Cardinality(roster)
         /\ Spawned(new)
    /\ failed' = TRUE
    /\ phase' = "stop"
    /\ UNCHANGED <<over, returned, held, stopped, poolVars, abandoned, holder,
                   doomed, serverVars>>

(* mkq.Process fails after some spawns: those are stopped again and the     *)
(* roster stays as it was, desired does not.                                *)
AdjustSpawnFails ==
    /\ phase = "adjust"
    /\ desired # 0
    /\ AllowedRoster > Cardinality(roster)
    /\ \E new \in SUBSET Handles :
         /\ Cardinality(new) < AllowedRoster - Cardinality(roster)
         /\ Spawned(new)
         /\ doomed' = new
    /\ failed' = TRUE
    /\ phase' = "stop"
    /\ UNCHANGED <<over, returned, held, stopped, poolVars, abandoned, holder, serverVars>>

AtMost(m, n) == IF m <= n THEN m ELSE n

(* splitForRemoval: idle workers first, then at most maxBusy busy ones;     *)
(* protected busy ones only when the leak budget forces the shrink.         *)
Removals(k, maxBusy, honourProtection) ==
    LET cands == {h \in roster : ~ (Busy(h) /\ h \in protected /\ honourProtection)}
        busy  == {h \in cands : Busy(h)}
        idles == AtMost(k, Cardinality(cands \ busy))
    IN  {v \in SUBSET cands :
            /\ Cardinality(v \ busy) = idles
            /\ Cardinality(v \cap busy)
                 = AtMost(AtMost(k - idles, maxBusy), Cardinality(busy))}

(* Mutant: protection is honoured although the leak budget is exhausted. *)
AdjustShrinkAlwaysProtects ==
    LET surplus == Cardinality(roster) - AllowedRoster
        protectedBusy == Cardinality({h \in roster : h \in protected /\ Busy(h)})
    IN
    /\ phase = "adjust"
    /\ desired # 0
    /\ surplus > 0
    /\ \E v \in Removals(surplus, surplus - AtMost(protectedBusy, surplus), TRUE) :
         /\ roster' = roster \ v
         /\ doomed' = v
    /\ phase' = "stop"
    /\ UNCHANGED <<workerVars, quarantine, protected, desired, peakDesired,
                   shutdown, abandoned, holder, failed, serverVars>>

(* n < current.  A shrink that autoscale asked for spares the job a         *)
(* reinstated worker holds and takes no other job in its place.             *)
AdjustShrink ==
    LET surplus == Cardinality(roster) - AllowedRoster
        honourProtection == AllowedRoster >= desired
        protectedBusy == Cardinality({h \in roster : h \in protected /\ Busy(h)})
        spared == IF honourProtection THEN AtMost(protectedBusy, surplus) ELSE 0
    IN
    /\ phase = "adjust"
    /\ desired # 0
    /\ surplus > 0
    /\ \E v \in Removals(surplus, surplus - spared, honourProtection) :
         /\ roster' = roster \ v
         /\ doomed' = v
    /\ phase' = "stop"
    /\ UNCHANGED <<workerVars, quarantine, protected, desired, peakDesired,
                   shutdown, abandoned, holder, failed, serverVars>>

(* stopHandles: Stop is called on every victim in parallel, which cancels   *)
(* the context of the job it is in.                                         *)
StopHandles ==
    /\ phase = "stop"
    /\ stopped' = stopped \cup {h \in doomed : pc[h] # "none"}
    /\ phase' = "wait"
    /\ UNCHANGED <<pc, over, returned, held, poolVars, abandoned, holder, doomed,
                   failed, serverVars>>

(* What the caller does once it has given pool.mu back. *)
Continue ==
    \/ /\ holder = "start"
       /\ starting' = IF failed THEN "failed" ELSE "publish"
       /\ shutdown' = failed
       /\ UNCHANGED <<supervisor, closing, calls>>
    \/ /\ holder = "supervisor"
       /\ supervisor' = "ticking"
       /\ UNCHANGED <<shutdown, starting, closing, calls>>
    \/ /\ holder = "shutdown"
       /\ closing' = "closed"
       /\ UNCHANGED <<shutdown, starting, supervisor, calls>>
    \/ /\ holder \in Resizers
       /\ calls' = [calls EXCEPT ![holder] = NotCalling]
       /\ UNCHANGED <<shutdown, starting, supervisor, closing>>

(* Mutant: Stop waits for its worker without a timeout. *)
StopsReturnUnbounded ==
    /\ phase = "wait"
    /\ \A h \in doomed : pc[h] = "none"
    /\ Continue
    /\ holder' = NoOne
    /\ phase' = "free"
    /\ doomed' = {}
    /\ failed' = FALSE
    /\ UNCHANGED <<workerVars, roster, quarantine, protected, desired,
                   peakDesired, abandoned, published, cancelled>>

(* Every Stop has returned, or its context ran out after stopWorkerTimeout  *)
(* and the worker is left to end by itself; pool.mu is released.            *)
StopsReturn ==
    /\ phase = "wait"
    /\ Continue
    /\ holder' = NoOne
    /\ phase' = "free"
    /\ doomed' = {}
    /\ failed' = FALSE
    /\ UNCHANGED <<workerVars, roster, quarantine, protected, desired,
                   peakDesired, abandoned, published, cancelled>>

-----------------------------------------------------------------------------
(* Start, Resize, the supervisor and Shutdown. *)

(* resizeLocked, past its guard. *)
RequestSize(n) ==
    /\ desired' = n
    /\ peakDesired' = IF n > peakDesired THEN n ELSE peakDesired
    /\ phase' = "quarantine"

(* Start builds the pool and fills it before anyone else can see it. *)
StartPool ==
    /\ starting = "init"
    /\ Acquire("start")
    /\ RequestSize(Base)
    /\ starting' = "spawning"
    /\ UNCHANGED <<doomed, failed, workerVars, roster, quarantine, protected, shutdown, abandoned,
                   published, supervisor, cancelled, closing, calls>>

Publish ==
    /\ starting = "publish"
    /\ published' = TRUE
    /\ starting' = "supervise"
    /\ UNCHANGED <<workerVars, poolVars, abandoned, lockVars, supervisor,
                   cancelled, closing, calls>>

(* startSupervisor: gives up when a Shutdown has taken the pools away, and  *)
(* when nothing would need supervision.                                     *)
StartSupervisor ==
    /\ starting = "supervise"
    /\ starting' = "done"
    /\ supervisor' = IF published /\ (Deadlines \/ StuckTracking)
                     THEN "ticking" ELSE "off"
    /\ UNCHANGED <<workerVars, poolVars, abandoned, lockVars, published,
                   cancelled, closing, calls>>

(* supervise: a tick copies s.pools and looks at the context before it goes *)
(* on to a pool ...                                                         *)
SuperviseTick ==
    /\ supervisor = "ticking"
    /\ published
    /\ ~ cancelled
    /\ supervisor' = "locking"
    /\ UNCHANGED <<workerVars, poolVars, abandoned, lockVars, published, starting,
                   cancelled, closing, calls>>

SuperviseExits ==
    /\ supervisor = "ticking"
    /\ cancelled
    /\ supervisor' = "off"
    /\ UNCHANGED <<workerVars, poolVars, abandoned, lockVars, published, starting,
                   cancelled, closing, calls>>

(* ... and reconciles it even if cancelled meanwhile, but not once the pool  *)
(* was shut down.                                                           *)
SuperviseReconciles ==
    /\ supervisor = "locking"
    /\ holder = NoOne
    /\ IF shutdown
       THEN /\ supervisor' = "ticking"
            /\ UNCHANGED lockVars
       ELSE /\ Acquire("supervisor")
            /\ supervisor' = "working"
            /\ phase' = "quarantine"
            /\ UNCHANGED <<doomed, failed>>
    /\ UNCHANGED <<workerVars, poolVars, abandoned, published, starting, cancelled,
                   closing, calls>>

(* Resize looks the pool up under s.mu, and only then takes pool.mu; with   *)
(* the pools gone it returns an error.                                      *)
ResizeCapture(r, n) ==
    /\ calls[r] = NotCalling
    /\ published
    /\ calls' = [calls EXCEPT ![r] = n]
    /\ UNCHANGED <<workerVars, poolVars, abandoned, lockVars, published, starting,
                   supervisor, cancelled, closing>>

(* Mutant: resizeLocked does not look at the shutdown flag. *)
ResizeLockedUnguarded(r) ==
    /\ calls[r] # NotCalling
    /\ Acquire(r)
    /\ RequestSize(calls[r])
    /\ UNCHANGED <<doomed, failed, calls, workerVars, roster, quarantine, protected,
                   shutdown, abandoned, published, starting, supervisor, cancelled,
                   closing>>

(* resizeLocked on the captured pool: ErrResizeAfterShutdown if it is gone. *)
ResizeLocked(r) ==
    /\ calls[r] # NotCalling
    /\ holder = NoOne
    /\ IF shutdown
       THEN /\ calls' = [calls EXCEPT ![r] = NotCalling]
            /\ UNCHANGED <<lockVars, desired, peakDesired>>
       ELSE /\ Acquire(r)
            /\ RequestSize(calls[r])
            /\ UNCHANGED <<doomed, failed, calls>>
    /\ UNCHANGED <<workerVars, roster, quarantine, protected, shutdown, abandoned,
                   published, starting, supervisor, cancelled, closing>>

(* Shutdown: stopSupervisor cancels the supervisor if one was started ... *)
StopSupervisor ==
    /\ closing = "open"
    /\ \/ ShutdownWhen = "any"
       \/ ShutdownWhen = "published" /\ starting \in {"supervise", "done"}
    /\ cancelled' = (supervisor # "off")
    /\ closing' = IF supervisor # "off" THEN "joining" ELSE "unpublish"
    /\ UNCHANGED <<workerVars, poolVars, abandoned, lockVars, published, starting,
                   supervisor, calls>>

(* ... and waits for it to end. *)
JoinSupervisor ==
    /\ closing = "joining"
    /\ supervisor = "off"
    /\ closing' = "unpublish"
    /\ UNCHANGED <<workerVars, poolVars, abandoned, lockVars, published, starting,
                   supervisor, cancelled, calls>>

(* The pools are taken away under s.mu; without any there is nothing to stop. *)
Unpublish ==
    /\ closing = "unpublish"
    /\ published' = FALSE
    /\ closing' = IF published THEN "locking" ELSE "closed"
    /\ UNCHANGED <<workerVars, poolVars, abandoned, lockVars, starting, supervisor,
                   cancelled, calls>>

(* shutdownLocked: the pool accepts no Resize any more, and every worker of  *)
(* the roster and of the quarantine is stopped.                             *)
ShutdownLocked ==
    /\ closing = "locking"
    /\ Acquire("shutdown")
    /\ shutdown' = TRUE
    /\ doomed' = roster \cup quarantine
    /\ roster' = {} /\ quarantine' = {}
    /\ phase' = "stop"
    /\ closing' = "stopping"
    /\ UNCHANGED <<workerVars, protected, desired, peakDesired, abandoned, failed,
                   published, starting, supervisor, cancelled, calls>>

-----------------------------------------------------------------------------
WorkerStep(h) ==
    \/ TakeJob(h)
    \/ Overrun(h)
    \/ HandlerAbandoned(h)
    \/ CountCompleted(h)
    \/ ClearBusy(h)
    \/ DispatcherExits(h)

HolderStep ==
    \/ QuarantineStuck
    \/ ReinstateProvenLive
    \/ AdjustStopAll
    \/ AdjustGrow
    \/ AdjustSpawnFails
    \/ AdjustShrink
    \/ StopHandles
    \/ StopsReturn

SuperviseStep ==
    \/ SuperviseTick
    \/ SuperviseExits
    \/ SuperviseReconciles

ResizerStep(r) ==
    \/ \E n \in Sizes : ResizeCapture(r, n)
    \/ ResizeLocked(r)

StartStep == StartPool \/ Publish \/ StartSupervisor

ShutdownStep == StopSupervisor \/ JoinSupervisor \/ Unpublish \/ ShutdownLocked

Next ==
    \/ \E h \in Handles : WorkerStep(h)
    \/ HandlerReturnedLate
    \/ HolderStep
    \/ StartStep
    \/ SuperviseStep
    \/ \E r \in Resizers : ResizerStep(r)
    \/ ShutdownStep

Spec == Init /\ [][Next]_vars

(* Goroutines that are runnable run.  pool.mu is fair to its waiters (Go's   *)
(* mutex goes into starvation mode after 1 ms), mkq.Process does not fail    *)
(* for ever, and every Stop returns within stopWorkerTimeout.  Nothing is    *)
(* assumed of a handler: it may never return, its deadline may be exempt,    *)
(* and no further job need ever arrive.                                      *)
Fairness ==
    /\ WF_vars(StartStep)
    /\ WF_vars(SuperviseTick \/ SuperviseExits)
    /\ SF_vars(SuperviseReconciles)
    /\ WF_vars(JoinSupervisor \/ Unpublish)
    /\ SF_vars(ShutdownLocked)
    /\ \A r \in Resizers : SF_vars(ResizeLocked(r))
    /\ WF_vars(HolderStep)
    /\ SF_vars(AdjustGrow)
    /\ \A h \in Handles :
         /\ WF_vars(pc[h] = "gaveup" /\ CountCompleted(h))
         /\ WF_vars(ClearBusy(h))
         /\ WF_vars(DispatcherExits(h))

FairSpec == Spec /\ Fairness

-----------------------------------------------------------------------------
(* Safety. *)

Exists(h) == pc[h] # "none"

(* No dispatcher goroutine escapes the pool's books: each one that exists is  *)
(* in exactly one of roster and quarantine, or is being stopped by whoever   *)
(* holds pool.mu, or has been told to stop.  Spawn errors, Resize(0), scale- *)
(* down and Shutdown must all keep it (adjustLocked, shutdownLocked).        *)
NoOrphanDispatcher ==
    /\ roster \cap quarantine = {}
    /\ \A h \in Handles : Exists(h) => h \in roster \cup quarantine \cup doomed \cup stopped
    /\ phase = "free" => doomed = {}

(* Once Shutdown has returned, no worker is left that was not told to stop   *)
(* and none comes back: neither through a Resize that captured the pool      *)
(* before it was taken away nor through the supervisor (the captured-pool    *)
(* race resizeLocked guards against).                                        *)
ShutdownIsFinal ==
    closing = "closed" =>
        /\ roster = {} /\ quarantine = {}
        /\ \A h \in Handles : Exists(h) => h \in stopped

(* The pool never runs more workers, replaced ones included, than its peak    *)
(* size plus the headroom: the number of Redis connections workerPoolSize     *)
(* reserves for it.  Every way into roster and quarantine must respect it     *)
(* (allowedRosterLocked, quarantineStuckLocked, reinstateProvenLiveLocked).   *)
PoolWithinBudget ==
    Cardinality(roster) + Cardinality(quarantine) <= peakDesired + Headroom

(* The job a worker was holding when it was reinstated is cancelled only     *)
(* when the leak budget, Resize(0) or Shutdown forces it: being proved alive *)
(* does not cost it that job (protected, clearProtectionLocked).             *)
HeldJobSurvives ==
    [][\A h \in held \cap (doomed' \ doomed) :
         desired = 0 \/ shutdown' \/ AllowedRoster < desired]_vars

-----------------------------------------------------------------------------
(* Refinement. *)

(* The pool as its callers see it: the roster is the capacity and shutdown   *)
(* closes it.                                                                *)
Promise == INSTANCE Pool WITH
    Workers <- Handles,
    Spare   <- Headroom,
    asked   <- desired,
    peak    <- peakDesired,
    serving <- roster,
    aside   <- quarantine,
    lost    <- abandoned,
    open    <- ~ shutdown

(* The server implements the abstract pool.  Every interleaving of workers,  *)
(* Resize, supervisor and Shutdown changes the pool only the way Pool.tla    *)
(* allows: capacity grows exactly to the goal, no worker the goal needs is   *)
(* released, and a pool that was shut down neither grows nor accepts a size  *)
(* (resizeLocked, reconcileLocked, adjustLocked, shutdownLocked).            *)
ImplementsPool == Promise!Spec

-----------------------------------------------------------------------------
(* Liveness, under FairSpec. *)

(* Shutdown returns although handlers may ignore their context for ever:     *)
(* neither the join with the supervisor nor pool.mu blocks it.               *)
ShutdownCompletes == closing # "open" ~> closing = "closed"

(* A worker stuck in its handler does not keep counting as capacity, with    *)
(* autoscale off too: the supervisor takes it out of the roster.             *)
StuckLeavesRoster ==
    \A h \in Handles :
        (h \in roster /\ BusyOver(h)) ~> ~ (h \in roster /\ BusyOver(h))

(* A quarantined worker that completed a job comes back, however rarely it   *)
(* is caught idle between two jobs.                                          *)
ProvenLiveReturns ==
    \A h \in Handles : (h \in quarantine /\ h \in returned) ~> h \notin quarantine

(* When abandoned handlers alone exhaust the budget, the roster is wound     *)
(* down for good: reinstatement and protection cannot keep it alive.         *)
WindsDown ==
    <>[](starting = "done" /\ abandoned >= peakDesired + Headroom)
        => <>[](roster = {})

(* As long as the leak stays within the headroom, no stopped worker is still *)
(* in its handler and nobody shuts the server down, the pool gets back to    *)
(* the size asked for, whatever was quarantined or failed to spawn before.   *)
CapacityRestored ==
    <>[](starting = "done" /\ closing = "open" /\ Leaked <= Headroom /\ stopped = {})
        => []<>(Cardinality(roster) >= desired)
=============================================================================
