--------------------------- MODULE AutoscaleProofs ---------------------------
(* Proofs about Autoscale for every set of queues, bounds, cap and faults. *)
EXTENDS Autoscale, FiniteSetTheorems, SetInduction, TLAPS

LEMMA MaxOfTwo ==
    ASSUME NEW a \in Int, NEW b \in Int
    PROVE  Max({a, b}) = IF a >= b THEN a ELSE b
<1>1. CASE a >= b
  BY <1>1 DEF Max
<1>2. CASE ~ (a >= b)
  BY <1>2 DEF Max
<1> QED BY <1>1, <1>2

LEMMA MinOfTwo ==
    ASSUME NEW a \in Int, NEW b \in Int
    PROVE  Min({a, b}) = IF a <= b THEN a ELSE b
<1>1. CASE a <= b
  BY <1>1 DEF Min
<1>2. CASE ~ (a <= b)
  BY <1>2 DEF Min
<1> QED BY <1>1, <1>2

(* The additive increase and the multiplicative decrease move strictly and   *)
(* stay within the bounds.                                                   *)
LEMMA IncreasedBounds ==
    ASSUME NEW cur \in MinWorkers..MaxWorkers, cur < MaxWorkers
    PROVE  Increased(cur) \in MinWorkers..MaxWorkers /\ Increased(cur) > cur
<1> USE AutoscaleAssumption
<1>1. cur \in Nat /\ cur \div 4 \in Nat
  OBVIOUS
<1> DEFINE step == Max({cur \div 4, 1})
<1>2. step \in Nat /\ step >= 1
  BY <1>1, MaxOfTwo
<1> HIDE DEF step
<1>3. Min({cur + step, MaxWorkers})
        = IF cur + step <= MaxWorkers THEN cur + step ELSE MaxWorkers
  BY <1>1, <1>2, MinOfTwo
<1>4. Increased(cur) = Min({cur + step, MaxWorkers})
  BY Zenon DEF Increased, step
<1> QED BY <1>1, <1>2, <1>3, <1>4

LEMMA DecreasedBounds ==
    ASSUME NEW cur \in MinWorkers..MaxWorkers, cur > MinWorkers
    PROVE  Decreased(cur) \in MinWorkers..MaxWorkers /\ Decreased(cur) < cur
<1> USE AutoscaleAssumption
<1>1. cur \in Nat /\ cur > 0
  OBVIOUS
<1>2. cur \div 2 \in Nat /\ cur \div 2 < cur
  BY <1>1
<1>3. Decreased(cur) = IF cur \div 2 >= MinWorkers THEN cur \div 2 ELSE MinWorkers
  BY <1>2, MaxOfTwo DEF Decreased
<1> QED BY <1>1, <1>2, <1>3

(* What Observe proposes for any worker count a pool can have. *)
LEMMA ObserveSound ==
    ASSUME NEW cur \in 0..MaxWorkers, NEW d \in Nat, NEW n \in 0..(IdleCycles - 1)
    PROVE  LET a == Observe(cur, d, n) IN
           /\ a.kind \in {"noop", "up", "down"}
           /\ a.target \in 0..MaxWorkers
           /\ a.idle \in 0..(IdleCycles - 1)
           /\ a.kind # "noop" => a.target \in MinWorkers..MaxWorkers
           /\ a.kind = "up" => a.target > cur
           /\ a.kind = "down" => a.target < cur
<1> USE AutoscaleAssumption
<1>0. UpMultiplier * cur \in Nat
  OBVIOUS
<1>1. CASE cur < MinWorkers
  <2>1. Observe(cur, d, n) = ScaleUp(MinWorkers)
    BY <1>1, <1>0 DEF Observe
  <2> QED BY <1>1, <2>1 DEF ScaleUp
<1>2. CASE cur >= MinWorkers /\ d > UpMultiplier * cur
  <2>1. Observe(cur, d, n) =
          IF cur >= MaxWorkers THEN NoOp(0) ELSE ScaleUp(Increased(cur))
    BY <1>2, <1>0 DEF Observe
  <2>2. CASE cur >= MaxWorkers
    BY <2>1, <2>2 DEF NoOp
  <2>3. CASE ~ (cur >= MaxWorkers)
    BY <1>2, <2>1, <2>3, IncreasedBounds DEF ScaleUp
  <2> QED BY <2>2, <2>3
<1>3. CASE cur > MinWorkers /\ d = 0
  <2>1. Observe(cur, d, n) =
          IF n + 1 >= IdleCycles THEN ScaleDown(Decreased(cur)) ELSE NoOp(n + 1)
    BY <1>3, <1>0 DEF Observe
  <2>2. CASE n + 1 >= IdleCycles
    BY <1>3, <2>1, <2>2, DecreasedBounds DEF ScaleDown
  <2>3. CASE ~ (n + 1 >= IdleCycles)
    BY <2>1, <2>3 DEF NoOp
  <2> QED BY <2>2, <2>3
<1>4. CASE /\ ~ (cur < MinWorkers)
           /\ ~ (cur >= MinWorkers /\ d > UpMultiplier * cur)
           /\ ~ (cur > MinWorkers /\ d = 0)
  <2>1. Observe(cur, d, n) = NoOp(0)
    BY <1>4, <1>0 DEF Observe
  <2> QED BY <2>1 DEF NoOp
<1> QED BY <1>1, <1>2, <1>3, <1>4
-----------------------------------------------------------------------------
(* The decision of a tick, with the controller's guarantees. *)
LEMMA Decision ==
    ASSUME TypeOK, NEW q \in Queues, Decide(q)
    PROVE  \E a \in [kind : {"noop", "up", "down"}, target : 0..MaxWorkers,
                     idle : 0..(IdleCycles - 1)], z \in 0..IdleCycles :
             /\ current' = [current EXCEPT ![q] = live[q]]
             /\ kind' = [kind EXCEPT ![q] = a.kind]
             /\ target' = [target EXCEPT ![q] = a.target]
             /\ idle' = [idle EXCEPT ![q] = a.idle]
             /\ zeros' = [zeros EXCEPT ![q] = z]
             /\ pc' = [pc EXCEPT ![q] = IF a.kind = "noop" THEN "wait" ELSE "decided"]
             /\ cooling' = IF a.kind = "noop" THEN cooling ELSE cooling \cup {q}
             /\ faults' \in 0..MaxFaults
             /\ a.kind # "noop" => a.target \in MinWorkers..MaxWorkers
             /\ a.kind = "up" => a.target > live[q]
             /\ a.kind = "down" => a.target < live[q]
<1> USE AutoscaleAssumption
<1>1. PICK d \in Depths \cup {0} :
        LET a == Observe(live[q], d, idle[q]) IN
        /\ ReadDepth(q, d)
        /\ current' = [current EXCEPT ![q] = live[q]]
        /\ kind' = [kind EXCEPT ![q] = a.kind]
        /\ target' = [target EXCEPT ![q] = a.target]
        /\ idle' = [idle EXCEPT ![q] = a.idle]
        /\ zeros' = [zeros EXCEPT ![q] = IF d # 0 THEN 0 ELSE Min({@ + 1, IdleCycles})]
        /\ pc' = [pc EXCEPT ![q] = IF a.kind = "noop" THEN "wait" ELSE "decided"]
        /\ cooling' = IF a.kind = "noop" THEN cooling ELSE cooling \cup {q}
  BY Zenon DEF Decide
<1> DEFINE a == Observe(live[q], d, idle[q])
           z == IF d # 0 THEN 0 ELSE Min({zeros[q] + 1, IdleCycles})
<1>2. /\ live[q] \in 0..MaxWorkers /\ d \in Nat
      /\ idle[q] \in 0..(IdleCycles - 1) /\ zeros[q] \in 0..IdleCycles
  BY DEF TypeOK, ValuesOK
<1>3. a \in [kind : {"noop", "up", "down"}, target : 0..MaxWorkers,
             idle : 0..(IdleCycles - 1)]
  <2>1. a = [kind |-> a.kind, target |-> a.target, idle |-> a.idle]
    BY DEF Observe, NoOp, ScaleUp, ScaleDown
  <2> HIDE DEF a
  <2>2. a.kind \in {"noop", "up", "down"} /\ a.target \in 0..MaxWorkers
        /\ a.idle \in 0..(IdleCycles - 1)
    BY <1>2, ObserveSound DEF a
  <2> QED BY <2>1, <2>2
<1>4. /\ a.kind # "noop" => a.target \in MinWorkers..MaxWorkers
      /\ a.kind = "up" => a.target > live[q]
      /\ a.kind = "down" => a.target < live[q]
  BY <1>2, ObserveSound
<1>5. z \in 0..IdleCycles
  BY <1>2, MinOfTwo
<1>6. faults' \in 0..MaxFaults
  BY <1>1 DEF ReadDepth, Fault, TypeOK, ValuesOK
<1>7. zeros' = [zeros EXCEPT ![q] = z]
  BY <1>1
<1> HIDE DEF a, z
<1>8. /\ current' = [current EXCEPT ![q] = live[q]]
      /\ kind' = [kind EXCEPT ![q] = a.kind]
      /\ target' = [target EXCEPT ![q] = a.target]
      /\ idle' = [idle EXCEPT ![q] = a.idle]
      /\ pc' = [pc EXCEPT ![q] = IF a.kind = "noop" THEN "wait" ELSE "decided"]
      /\ cooling' = IF a.kind = "noop" THEN cooling ELSE cooling \cup {q}
  BY <1>1, Zenon DEF a
<1> QED BY <1>3, <1>4, <1>5, <1>6, <1>7, <1>8

(* The outcomes of a Resize. *)
LEMMA ResizeType ==
    ASSUME TypeOK, NEW q \in Queues, NEW n \in 0..MaxWorkers,
           ResizeDone(q, n) \/ ResizeSpares(q, n) \/ ResizeShort(q, n) \/ ResizeFails(q, n)
    PROVE  /\ asked' \in [Queues -> 0..MaxWorkers]
           /\ live' \in [Queues -> 0..MaxWorkers]
           /\ slipped' \subseteq Queues /\ spared' \subseteq Queues
           /\ faults' \in 0..MaxFaults
<1> USE AutoscaleAssumption DEF TypeOK, ValuesOK
<1>1. CASE ResizeDone(q, n)
  BY <1>1 DEF ResizeDone
<1>2. CASE ResizeShort(q, n)
  <2>1. PICK k \in live[q]..(n - 1) : live' = [live EXCEPT ![q] = k]
    BY <1>2 DEF ResizeShort
  <2>2. k \in 0..MaxWorkers
    OBVIOUS
  <2> QED BY <1>2, <2>1, <2>2 DEF ResizeShort, Fault
<1>3. CASE ResizeFails(q, n)
  BY <1>3 DEF ResizeFails, Fault
<1>4. CASE ResizeSpares(q, n)
  <2>1. PICK k \in (n + 1)..live[q] : live' = [live EXCEPT ![q] = k]
    BY <1>4 DEF ResizeSpares
  <2>2. k \in 0..MaxWorkers
    OBVIOUS
  <2> QED BY <1>4, <2>1, <2>2 DEF ResizeSpares, Fault
<1> QED BY <1>1, <1>2, <1>3, <1>4

ProposalInv ==
    \A q \in Queues : pc[q] \in {"decided", "resize"} =>
        /\ target[q] \in MinWorkers..MaxWorkers
        /\ kind[q] = "up" => target[q] > current[q]
        /\ kind[q] = "down" => target[q] < current[q]

(* Every step keeps the types and the soundness of the pending proposals. *)
LEMMA ProposalStep == TypeOK /\ ProposalInv /\ [Next]_vars => TypeOK' /\ ProposalInv'
<1> SUFFICES ASSUME TypeOK, ProposalInv, [Next]_vars PROVE TypeOK' /\ ProposalInv'
  OBVIOUS
<1> USE AutoscaleAssumption DEF TypeOK, ValuesOK, ProposalInv, driverVars, ctrlVars
<1>1. ASSUME NEW q \in Queues, StartResize(q) PROVE TypeOK' /\ ProposalInv'
  <2>1. MinWorkers \in 0..MaxWorkers
    OBVIOUS
  <2>2. \/ ResizeDone(q, MinWorkers) \/ ResizeSpares(q, MinWorkers)
        \/ ResizeShort(q, MinWorkers) \/ ResizeFails(q, MinWorkers)
    BY <1>1 DEF StartResize
  <2>3. /\ asked' \in [Queues -> 0..MaxWorkers]
        /\ live' \in [Queues -> 0..MaxWorkers]
        /\ slipped' \subseteq Queues /\ spared' \subseteq Queues
        /\ faults' \in 0..MaxFaults
    BY <2>1, <2>2, ResizeType
  <2>4. pc' = [pc EXCEPT ![q] = "starting"] \/ pc' = [pc EXCEPT ![q] = "wait"]
    BY <1>1 DEF StartResize
  <2> QED BY <1>1, <2>3, <2>4 DEF StartResize
<1>2. ASSUME NEW q \in Queues, StartBook(q) PROVE TypeOK' /\ ProposalInv'
  BY <1>2 DEF StartBook
<1>3. ASSUME NEW q \in Queues, Decide(q) PROVE TypeOK' /\ ProposalInv'
  <2>1. PICK a \in [kind : {"noop", "up", "down"}, target : 0..MaxWorkers,
                    idle : 0..(IdleCycles - 1)], z \in 0..IdleCycles :
          /\ current' = [current EXCEPT ![q] = live[q]]
          /\ kind' = [kind EXCEPT ![q] = a.kind]
          /\ target' = [target EXCEPT ![q] = a.target]
          /\ idle' = [idle EXCEPT ![q] = a.idle]
          /\ zeros' = [zeros EXCEPT ![q] = z]
          /\ pc' = [pc EXCEPT ![q] = IF a.kind = "noop" THEN "wait" ELSE "decided"]
          /\ cooling' = IF a.kind = "noop" THEN cooling ELSE cooling \cup {q}
          /\ faults' \in 0..MaxFaults
          /\ a.kind # "noop" => a.target \in MinWorkers..MaxWorkers
          /\ a.kind = "up" => a.target > live[q]
          /\ a.kind = "down" => a.target < live[q]
    BY <1>3, Decision
  <2>2. UNCHANGED <<depth, asked, live, slipped, spared, ledger, stopping>>
    BY <1>3 DEF Decide
  <2>3. TypeOK'
    BY <2>1, <2>2
  <2>4. ProposalInv'
    BY <2>1, <2>2
  <2> QED BY <2>3, <2>4
<1>4. ASSUME NEW q \in Queues, Book(q) PROVE TypeOK' /\ ProposalInv'
  <2>1. /\ ledger' = ledger \/ ledger' = [ledger EXCEPT ![q] = target[q]]
        /\ pc' = [pc EXCEPT ![q] = "resize"] \/ pc' = [pc EXCEPT ![q] = "wait"]
    BY <1>4 DEF Book, Reserve
  <2> QED BY <1>4, <2>1 DEF Book
<1>5. ASSUME NEW q \in Queues, Resize(q) PROVE TypeOK' /\ ProposalInv'
  <2>1. target[q] \in 0..MaxWorkers
    OBVIOUS
  <2>2. \/ ResizeDone(q, target[q]) \/ ResizeSpares(q, target[q])
        \/ ResizeShort(q, target[q]) \/ ResizeFails(q, target[q])
    BY <1>5 DEF Resize
  <2>3. /\ asked' \in [Queues -> 0..MaxWorkers]
        /\ live' \in [Queues -> 0..MaxWorkers]
        /\ slipped' \subseteq Queues /\ spared' \subseteq Queues
        /\ faults' \in 0..MaxFaults
    BY <2>1, <2>2, ResizeType
  <2>4. pc' = [pc EXCEPT ![q] = "resized"] \/ pc' = [pc EXCEPT ![q] = "failed"]
    BY <1>5 DEF Resize
  <2> QED BY <1>5, <2>3, <2>4 DEF Resize
<1>6. ASSUME NEW q \in Queues, Commit(q) \/ Rollback(q) PROVE TypeOK' /\ ProposalInv'
  BY <1>6 DEF Commit, Rollback
<1>7. ASSUME NEW q \in Queues, TickerExits(q) PROVE TypeOK' /\ ProposalInv'
  BY <1>7 DEF TickerExits
<1>8. ASSUME NEW q \in Queues, WorkerSticks(q) PROVE TypeOK' /\ ProposalInv'
  <2>1. live' \in [Queues -> 0..MaxWorkers] /\ faults' \in 0..MaxFaults
    BY <1>8 DEF WorkerSticks, Fault
  <2> QED BY <1>8, <2>1 DEF WorkerSticks
<1>9. ASSUME NEW q \in Queues, Reconcile(q) \/ DepthChanges(q) \/ CooldownElapses(q)
      PROVE  TypeOK' /\ ProposalInv'
  BY <1>9 DEF Reconcile, DepthChanges, CooldownElapses
<1>10. CASE Cancel \/ StopReturns
  BY <1>10 DEF Cancel, StopReturns
<1>11. CASE UNCHANGED vars
  BY <1>11 DEF vars
<1> QED BY <1>1, <1>2, <1>3, <1>4, <1>5, <1>6, <1>7, <1>8, <1>9, <1>10, <1>11
        DEF Next, TickStep

LEMMA ProposalInit == Init => TypeOK /\ ProposalInv
BY AutoscaleAssumption DEF Init, TypeOK, ValuesOK, ProposalInv

(* The worker counts, the ledger, the proposals and the counters stay within *)
(* the bounds of the configuration, whatever faults happen.                  *)
THEOREM TypeCorrect == Spec => []TypeOK
<1> QED BY ProposalInit, ProposalStep, PTL DEF Spec

(* For every configuration and every fault: what a controller proposes lies  *)
(* in [MinWorkers, MaxWorkers] and goes in the direction it names.           *)
THEOREM ProposalsSound == Spec => []ProposalSound
<1>1. ProposalInv => ProposalSound
  BY DEF ProposalInv, ProposalSound
<1> QED BY <1>1, ProposalInit, ProposalStep, PTL DEF Spec

-----------------------------------------------------------------------------
(* Idleness.  The controller's counter never runs ahead of the empty         *)
(* observations there really were, so when it is full there were enough.     *)
IdleInv ==
    \A q \in Queues :
        /\ idle[q] <= zeros[q]
        /\ pc[q] = "decided" /\ kind[q] = "down" => zeros[q] = IdleCycles

LEMMA ObserveIdle ==
    ASSUME NEW cur \in 0..MaxWorkers, NEW d \in Nat, NEW n \in 0..(IdleCycles - 1)
    PROVE  LET a == Observe(cur, d, n) IN
           /\ d # 0 => a.idle = 0 /\ a.kind # "down"
           /\ a.idle <= n + 1
           /\ a.kind = "down" => n + 1 >= IdleCycles
           /\ a.kind = "down" => a.idle = 0
<1> USE AutoscaleAssumption DEF NoOp, ScaleUp, ScaleDown
<1>1. CASE cur < MinWorkers
  BY <1>1 DEF Observe
<1>2. CASE cur >= MinWorkers /\ d > UpMultiplier * cur
  <2>1. d # 0
    BY <1>2
  <2> QED BY <1>2, <2>1 DEF Observe
<1>3. CASE cur >= MinWorkers /\ ~ (d > UpMultiplier * cur) /\ cur > MinWorkers /\ d = 0
  BY <1>3 DEF Observe
<1>4. CASE cur >= MinWorkers /\ ~ (d > UpMultiplier * cur) /\ ~ (cur > MinWorkers /\ d = 0)
  BY <1>4 DEF Observe
<1> QED BY <1>1, <1>2, <1>3, <1>4

LEMMA DecisionIdle ==
    ASSUME TypeOK, IdleInv, NEW q \in Queues, Decide(q)
    PROVE  /\ idle'[q] <= zeros'[q]
           /\ kind'[q] = "down" => zeros'[q] = IdleCycles
           /\ \A o \in Queues \ {q} :
                /\ idle'[o] = idle[o] /\ zeros'[o] = zeros[o]
                /\ pc'[o] = pc[o] /\ kind'[o] = kind[o]
<1> USE AutoscaleAssumption
<1>1. PICK d \in Depths \cup {0} :
        LET a == Observe(live[q], d, idle[q]) IN
        /\ kind' = [kind EXCEPT ![q] = a.kind]
        /\ idle' = [idle EXCEPT ![q] = a.idle]
        /\ zeros' = [zeros EXCEPT ![q] = IF d # 0 THEN 0 ELSE Min({@ + 1, IdleCycles})]
        /\ pc' = [pc EXCEPT ![q] = IF a.kind = "noop" THEN "wait" ELSE "decided"]
  BY Zenon DEF Decide
<1> DEFINE a == Observe(live[q], d, idle[q])
           z == IF d # 0 THEN 0 ELSE Min({zeros[q] + 1, IdleCycles})
<1>2. /\ live[q] \in 0..MaxWorkers /\ d \in Nat /\ idle[q] <= zeros[q]
      /\ idle[q] \in 0..(IdleCycles - 1) /\ zeros[q] \in 0..IdleCycles
  BY DEF TypeOK, ValuesOK, IdleInv
<1>3. /\ d # 0 => a.idle = 0 /\ a.kind # "down"
      /\ a.idle <= idle[q] + 1
      /\ a.kind = "down" => idle[q] + 1 >= IdleCycles
      /\ a.idle \in 0..(IdleCycles - 1)
  <2>1. /\ d # 0 => a.idle = 0 /\ a.kind # "down"
        /\ a.idle <= idle[q] + 1
        /\ a.kind = "down" => idle[q] + 1 >= IdleCycles
    BY <1>2, ObserveIdle, Zenon
  <2>2. a.idle \in 0..(IdleCycles - 1)
    BY <1>2, ObserveSound, Zenon
  <2>3. QED
    BY <2>1, <2>2
<1>4. z = IF d # 0 THEN 0 ELSE IF zeros[q] + 1 <= IdleCycles THEN zeros[q] + 1 ELSE IdleCycles
  BY <1>2, MinOfTwo
<1>5. a.idle <= z /\ (a.kind = "down" => z = IdleCycles)
  <2> HIDE DEF a, z
  <2> QED BY <1>2, <1>3, <1>4
<1>6. zeros' = [zeros EXCEPT ![q] = z]
  BY <1>1
<1> HIDE DEF a, z
<1>7. /\ kind' = [kind EXCEPT ![q] = a.kind]
      /\ idle' = [idle EXCEPT ![q] = a.idle]
      /\ pc' = [pc EXCEPT ![q] = IF a.kind = "noop" THEN "wait" ELSE "decided"]
  BY <1>1, Zenon DEF a
<1> QED BY <1>5, <1>6, <1>7 DEF TypeOK, ValuesOK

(* Pools shrink only after IdleCycles empty observations in a row, for every *)
(* configuration and whatever faults and other queues do in between.         *)
THEOREM ShrinksWhenIdle == Spec => []ShrinksOnlyWhenIdle
<1>1. Init => IdleInv
  BY AutoscaleAssumption DEF Init, IdleInv
<1>2. ASSUME TypeOK, IdleInv, [Next]_vars PROVE IdleInv'
  <2> USE <1>2 DEF IdleInv, driverVars, ctrlVars
  <2>1. ASSUME NEW q \in Queues, Decide(q) PROVE IdleInv'
    BY <2>1, DecisionIdle
  <2>2. ASSUME NEW q \in Queues,
               \/ StartResize(q) \/ StartBook(q) \/ Book(q) \/ Resize(q) \/ Commit(q)
               \/ Rollback(q) \/ TickerExits(q)
        PROVE  IdleInv'
    <3>1. /\ UNCHANGED <<idle, zeros, kind>>
          /\ \E w \in {"starting", "wait", "resize", "resized", "failed", "done"} :
                pc' = [pc EXCEPT ![q] = w]
      BY <2>2 DEF StartResize, StartBook, Book, Reserve, Resize, Commit, Rollback, TickerExits
    <3> QED BY <3>1 DEF TypeOK
  <2>3. ASSUME NEW q \in Queues,
               WorkerSticks(q) \/ Reconcile(q) \/ DepthChanges(q) \/ CooldownElapses(q)
        PROVE  IdleInv'
    BY <2>3 DEF WorkerSticks, Reconcile, DepthChanges, CooldownElapses
  <2>4. CASE Cancel \/ StopReturns
    BY <2>4 DEF Cancel, StopReturns
  <2>5. CASE UNCHANGED vars
    BY <2>5 DEF vars
  <2> QED BY <2>1, <2>2, <2>3, <2>4, <2>5 DEF Next, TickStep
<1>3. IdleInv => ShrinksOnlyWhenIdle
  BY DEF IdleInv, ShrinksOnlyWhenIdle
<1> QED BY <1>1, <1>2, <1>3, TypeCorrect, PTL DEF Spec

-----------------------------------------------------------------------------
(* Reservations.  A slot is held for a target only between booking and the   *)
(* end of the tick; to give it back correctly the count the tick read must   *)
(* not exceed the live workers until then, which holds while the pool has no *)
(* more live workers than it was asked for.                                  *)
SlotInv ==
    \A q \in Queues :
        /\ live[q] <= asked[q]
        /\ pc[q] = "new" => ledger[q] = 0
        /\ pc[q] \in {"wait", "decided"} => ledger[q] <= live[q]
        /\ pc[q] \in {"decided", "resize", "failed"} => current[q] <= live[q]

(* Without hanging workers a shrink has none to spare. *)
LEMMA NoneSpared ==
    ASSUME "stick" \notin Faults, NEW q, NEW n
    PROVE  ~ ResizeSpares(q, n)
BY DEF ResizeSpares, Fault

LEMMA SlotStep ==
    ASSUME "stick" \notin Faults, TypeOK, SlotInv, [Next]_vars
    PROVE  SlotInv'
<1> USE AutoscaleAssumption DEF ValuesOK, TypeOK, SlotInv, driverVars, ctrlVars
<1>1. ASSUME NEW q \in Queues, StartResize(q) PROVE SlotInv'
  <2>1. CASE ResizeDone(q, MinWorkers) /\ pc' = [pc EXCEPT ![q] = "starting"]
    BY <1>1, <2>1 DEF StartResize, ResizeDone
  <2>2. CASE ResizeShort(q, MinWorkers) /\ pc' = [pc EXCEPT ![q] = "starting"]
    <3>1. PICK k \in live[q]..(MinWorkers - 1) : live' = [live EXCEPT ![q] = k]
      BY <2>2 DEF ResizeShort
    <3> QED BY <1>1, <2>2, <3>1 DEF StartResize, ResizeShort
  <2>3. CASE ResizeFails(q, MinWorkers) /\ pc' = [pc EXCEPT ![q] = "wait"]
    BY <1>1, <2>3 DEF StartResize, ResizeFails
  <2> QED BY <1>1, <2>1, <2>2, <2>3, NoneSpared DEF StartResize
<1>2. ASSUME NEW q \in Queues, StartBook(q) PROVE SlotInv'
  BY <1>2 DEF StartBook
<1>3. ASSUME NEW q \in Queues, Decide(q) PROVE SlotInv'
  <2>1. /\ pc' = [pc EXCEPT ![q] = "wait"] \/ pc' = [pc EXCEPT ![q] = "decided"]
        /\ current' = [current EXCEPT ![q] = live[q]]
    BY <1>3, Decision
  <2> QED BY <1>3, <2>1 DEF Decide
<1>4. ASSUME NEW q \in Queues, Book(q) PROVE SlotInv'
  <2>1. \/ ledger' = ledger /\ pc' = [pc EXCEPT ![q] = "wait"]
        \/ ledger' = [ledger EXCEPT ![q] = target[q]] /\ pc' = [pc EXCEPT ![q] = "resize"]
    BY <1>4 DEF Book, Reserve
  <2> QED BY <1>4, <2>1 DEF Book
<1>5. ASSUME NEW q \in Queues, Resize(q) PROVE SlotInv'
  <2>1. CASE ResizeDone(q, target[q]) /\ pc' = [pc EXCEPT ![q] = "resized"]
    BY <1>5, <2>1 DEF Resize, ResizeDone
  <2>2. CASE ResizeShort(q, target[q]) /\ pc' = [pc EXCEPT ![q] = "resized"]
    <3>1. PICK k \in live[q]..(target[q] - 1) : live' = [live EXCEPT ![q] = k]
      BY <2>2 DEF ResizeShort
    <3> QED BY <1>5, <2>2, <3>1 DEF Resize, ResizeShort
  <2>3. CASE ResizeFails(q, target[q]) /\ pc' = [pc EXCEPT ![q] = "failed"]
    BY <1>5, <2>3 DEF Resize, ResizeFails
  <2> QED BY <1>5, <2>1, <2>2, <2>3, NoneSpared DEF Resize
<1>6. ASSUME NEW q \in Queues, Commit(q) \/ Rollback(q) PROVE SlotInv'
  BY <1>6 DEF Commit, Rollback
<1>7. ASSUME NEW q \in Queues, TickerExits(q) PROVE SlotInv'
  BY <1>7 DEF TickerExits
<1>8. ASSUME NEW q \in Queues, WorkerSticks(q) PROVE FALSE
  BY <1>8 DEF WorkerSticks, Fault
<1>9. ASSUME NEW q \in Queues, Reconcile(q) \/ DepthChanges(q) \/ CooldownElapses(q)
      PROVE  SlotInv'
  BY <1>9 DEF Reconcile, DepthChanges, CooldownElapses
<1>10. CASE Cancel \/ StopReturns
  BY <1>10 DEF Cancel, StopReturns
<1>11. CASE UNCHANGED vars
  BY <1>11 DEF vars
<1> QED BY <1>1, <1>2, <1>3, <1>4, <1>5, <1>6, <1>7, <1>8, <1>9, <1>10, <1>11
        DEF Next, TickStep

(* As long as no worker hangs, failed and short Resizes leave no slot of the *)
(* cap reserved that the queue does not use, for every number of queues and  *)
(* every interleaving of their ticks.                                        *)
THEOREM SlotsReleased == "stick" \notin Faults /\ Spec => []NoSlotLeaked
<1> SUFFICES ASSUME "stick" \notin Faults PROVE Spec => []NoSlotLeaked
  OBVIOUS
<1>1. Init => SlotInv
  BY AutoscaleAssumption DEF Init, SlotInv
<1>2. TypeOK /\ SlotInv /\ [Next]_vars => SlotInv'
  BY SlotStep
<1>3. SlotInv => NoSlotLeaked
  BY DEF SlotInv, NoSlotLeaked
<1> QED BY <1>1, <1>2, <1>3, TypeCorrect, PTL DEF Spec

-----------------------------------------------------------------------------
(* Sums.  Total adds the entries of a table one queue at a time, in whatever *)
(* order CHOOSE takes them.                                                  *)
Pick(s) == CHOOSE x \in s : TRUE
AddsUp(f, D, g) == g = [s \in D |-> IF s = {} THEN 0 ELSE f[Pick(s)] + g[s \ {Pick(s)}]]
Small(n) == {s \in SUBSET Queues : Cardinality(s) <= n}
Sums(f) == CHOOSE g : AddsUp(f, SUBSET Queues, g)

LEMMA PickOne ==
    ASSUME NEW s \in SUBSET Queues, s # {}
    PROVE  /\ Pick(s) \in s /\ Pick(s) \in Queues
           /\ s \ {Pick(s)} \in SUBSET Queues
           /\ Cardinality(s) \in Nat
           /\ Cardinality(s \ {Pick(s)}) = Cardinality(s) - 1
<1>1. Pick(s) \in s
  BY DEF Pick
<1>2. IsFiniteSet(s)
  BY AutoscaleAssumption, FS_Subset
<1> QED BY <1>1, <1>2, FS_RemoveElement, FS_CardinalityType

LEMMA SumsExist ==
    ASSUME NEW f
    PROVE  AddsUp(f, SUBSET Queues, Sums(f))
<1> DEFINE Ok == {n \in Nat : \E g : AddsUp(f, Small(n), g)}
<1>1. 0 \in Ok
  <2> DEFINE g == [s \in Small(0) |-> 0]
  <2>1. \A s \in Small(0) : s = {}
    <3> SUFFICES ASSUME NEW s \in Small(0), s # {} PROVE FALSE
      OBVIOUS
    <3>1. s \in SUBSET Queues /\ Cardinality(s) <= 0
      BY DEF Small
    <3>2. IsFiniteSet(s)
      BY <3>1, AutoscaleAssumption, FS_Subset
    <3>3. Cardinality(s) = 0
      BY <3>1, <3>2, FS_CardinalityType
    <3> QED BY <3>2, <3>3, FS_EmptySet
  <2>2. AddsUp(f, Small(0), g)
    BY <2>1 DEF AddsUp
  <2> QED BY <2>2
<1>2. ASSUME NEW n \in Nat, n \in Ok PROVE n + 1 \in Ok
  <2>1. PICK g : AddsUp(f, Small(n), g)
    BY <1>2
  <2> DEFINE h == [s \in Small(n + 1) |->
                     IF s = {} THEN 0 ELSE f[Pick(s)] + g[s \ {Pick(s)}]]
  <2>2. ASSUME NEW s \in Small(n + 1), s # {}
        PROVE  h[s \ {Pick(s)}] = g[s \ {Pick(s)}]
    <3> DEFINE t == s \ {Pick(s)}
    <3>1. s \in SUBSET Queues /\ Cardinality(s) <= n + 1
      BY <2>2 DEF Small
    <3>2. t \in SUBSET Queues /\ Cardinality(t) <= n /\ Cardinality(t) \in Int
      BY <2>2, <3>1, PickOne
    <3>3. t \in Small(n) /\ t \in Small(n + 1)
      BY <3>2 DEF Small
    <3> HIDE DEF t
    <3>4. g[t] = IF t = {} THEN 0 ELSE f[Pick(t)] + g[t \ {Pick(t)}]
      BY <2>1, <3>3 DEF AddsUp
    <3>5. h[t] = IF t = {} THEN 0 ELSE f[Pick(t)] + g[t \ {Pick(t)}]
      BY <3>3
    <3> QED BY <3>4, <3>5 DEF t
  <2>3. h = [s \in Small(n + 1) |-> IF s = {} THEN 0 ELSE f[Pick(s)] + h[s \ {Pick(s)}]]
    BY <2>2
  <2>4. AddsUp(f, Small(n + 1), h)
    BY <2>3 DEF AddsUp
  <2> QED BY <2>4
<1> HIDE DEF Ok
<1>3. Cardinality(Queues) \in Ok
  BY <1>1, <1>2, InductionOnNat, AutoscaleAssumption, FS_CardinalityType
<1>4. Small(Cardinality(Queues)) = SUBSET Queues
  <2> SUFFICES ASSUME NEW s \in SUBSET Queues PROVE Cardinality(s) <= Cardinality(Queues)
    BY DEF Small
  <2> QED BY AutoscaleAssumption, FS_Subset
<1>5. \E g : AddsUp(f, SUBSET Queues, g)
  BY <1>3, <1>4 DEF Ok
<1> QED BY <1>5, Zenon DEF Sums

LEMMA SumsStep ==
    ASSUME NEW f, NEW s \in SUBSET Queues
    PROVE  Sums(f)[s] = IF s = {} THEN 0 ELSE f[Pick(s)] + Sums(f)[s \ {Pick(s)}]
BY SumsExist, Zenon DEF AddsUp

LEMMA TotalIsSum == ASSUME NEW f PROVE Total(f) = Sums(f)[Queues]
BY Zenon DEF Total, MapThenSumSet, MapThenFoldSet, Sums, AddsUp, Pick

(* A table that is nowhere larger adds up to no more. *)
LEMMA TotalMonotone ==
    ASSUME NEW f \in [Queues -> Nat], NEW g \in [Queues -> Nat],
           \A q \in Queues : f[q] <= g[q]
    PROVE  Total(f) \in Nat /\ Total(g) \in Nat /\ Total(f) <= Total(g)
<1> DEFINE F == Sums(f)
           G == Sums(g)
           Ok == {n \in Nat : \A s \in SUBSET Queues :
                    Cardinality(s) = n => F[s] \in Nat /\ G[s] \in Nat /\ F[s] <= G[s]}
<1>1. 0 \in Ok
  <2> SUFFICES ASSUME NEW s \in SUBSET Queues, Cardinality(s) = 0
               PROVE  F[s] = 0 /\ G[s] = 0
    OBVIOUS
  <2>1. s = {}
    BY AutoscaleAssumption, FS_Subset, FS_EmptySet
  <2> QED BY <2>1, SumsStep
<1>2. ASSUME NEW n \in Nat, n \in Ok PROVE n + 1 \in Ok
  <2> SUFFICES ASSUME NEW s \in SUBSET Queues, Cardinality(s) = n + 1
               PROVE  F[s] \in Nat /\ G[s] \in Nat /\ F[s] <= G[s]
    OBVIOUS
  <2> DEFINE x == Pick(s)
             t == s \ {x}
  <2>1. s # {}
    BY FS_EmptySet
  <2>2. x \in Queues /\ t \in SUBSET Queues /\ Cardinality(t) = n
    BY <2>1, PickOne
  <2>3. F[t] \in Nat /\ G[t] \in Nat /\ F[t] <= G[t]
    BY <1>2, <2>2
  <2>4. F[s] = f[x] + F[t] /\ G[s] = g[x] + G[t]
    BY <2>1, SumsStep
  <2> HIDE DEF F, G, x, t
  <2> QED BY <2>2, <2>3, <2>4
<1> HIDE DEF Ok
<1>3. Cardinality(Queues) \in Ok
  BY <1>1, <1>2, InductionOnNat, AutoscaleAssumption, FS_CardinalityType
<1>4. F[Queues] \in Nat /\ G[Queues] \in Nat /\ F[Queues] <= G[Queues]
  BY <1>3 DEF Ok
<1> QED BY <1>4, TotalIsSum

(* A table whose entries are at most k adds up to at most k per queue. *)
LEMMA TotalBounded ==
    ASSUME NEW f \in [Queues -> Nat], NEW k \in Nat, \A q \in Queues : f[q] <= k
    PROVE  Total(f) <= k * Cardinality(Queues)
<1> DEFINE F == Sums(f)
           Ok == {n \in Nat : \A s \in SUBSET Queues :
                    Cardinality(s) = n => F[s] \in Nat /\ F[s] <= k * n}
<1>1. 0 \in Ok
  <2> SUFFICES ASSUME NEW s \in SUBSET Queues, Cardinality(s) = 0 PROVE F[s] = 0
    OBVIOUS
  <2>1. s = {}
    BY AutoscaleAssumption, FS_Subset, FS_EmptySet
  <2> QED BY <2>1, SumsStep
<1>2. ASSUME NEW n \in Nat, n \in Ok PROVE n + 1 \in Ok
  <2> SUFFICES ASSUME NEW s \in SUBSET Queues, Cardinality(s) = n + 1
               PROVE  F[s] \in Nat /\ F[s] <= k * (n + 1)
    OBVIOUS
  <2> DEFINE x == Pick(s)
             t == s \ {x}
  <2>1. s # {}
    BY FS_EmptySet
  <2>2. x \in Queues /\ t \in SUBSET Queues /\ Cardinality(t) = n
    BY <2>1, PickOne
  <2>3. F[t] \in Nat /\ F[t] <= k * n
    BY <1>2, <2>2
  <2>4. F[s] = f[x] + F[t]
    BY <2>1, SumsStep
  <2>5. k * (n + 1) = k * n + k /\ k * n \in Nat
    OBVIOUS
  <2> HIDE DEF F, x, t
  <2> QED BY <2>2, <2>3, <2>4, <2>5
<1> HIDE DEF Ok
<1>3. Cardinality(Queues) \in Ok
  BY <1>1, <1>2, InductionOnNat, AutoscaleAssumption, FS_CardinalityType
<1> QED BY <1>3, TotalIsSum DEF Ok

-----------------------------------------------------------------------------
(* The cap.  Once every queue is booked, the ledger only grows through       *)
(* reserveIfWithinCap: every other booking lowers it.  For a shrink this     *)
(* needs that a queue whose Resize did not achieve its size is booked with   *)
(* at least half of what it asked for (one increase at most doubles a pool), *)
(* so that half of its live workers are no more than its booking.            *)
CapOf(q) ==
    /\ q \notin slipped => live[q] = asked[q]
    /\ pc[q] = "starting" => asked[q] = MinWorkers
    /\ pc[q] \in {"wait", "decided", "done"} =>
          /\ q \notin slipped => ledger[q] = asked[q]
          /\ asked[q] > MinWorkers => ledger[q] >= MinWorkers /\ asked[q] <= 2 * ledger[q]
    /\ pc[q] \in {"decided", "resize", "resized", "failed"} =>
          /\ kind[q] \in {"up", "down"}
          /\ kind[q] = "up" /\ target[q] > MinWorkers =>
                current[q] >= MinWorkers /\ target[q] <= 2 * current[q]
    /\ pc[q] = "decided" /\ kind[q] = "down" => target[q] <= ledger[q]
    /\ pc[q] \in {"resize", "resized", "failed"} => ledger[q] = target[q]
    /\ pc[q] \in {"resized", "failed"} => asked[q] = target[q]
    /\ pc[q] = "resized" /\ q \in slipped => kind[q] = "up" /\ current[q] <= live[q]
    /\ pc[q] = "failed" => kind[q] = "up" /\ q \in slipped /\ current[q] < target[q]

(* Before startAutoScale is through, nobody has more than its floor. *)
FloorInv ==
    ~ Started => /\ stopping = "no"
                 /\ \A q \in Queues : /\ pc[q] \in {"new", "starting", "wait"}
                                      /\ ledger[q] <= MinWorkers

QueuesInv == \A q \in Queues : CapOf(q)
CapInv == QueuesInv /\ FloorInv /\ (Started => Total(ledger) <= GlobalCap)

(* One increase at most doubles the workers, and never from below the floor  *)
(* to above it; a decrease at most halves them.                              *)
LEMMA ObserveSteps ==
    ASSUME NEW cur \in 0..MaxWorkers, NEW d \in Nat, NEW n \in 0..(IdleCycles - 1)
    PROVE  LET a == Observe(cur, d, n) IN
           /\ a.kind = "up" /\ a.target > MinWorkers =>
                 cur >= MinWorkers /\ a.target <= 2 * cur
           /\ a.kind = "down" =>
                 cur > MinWorkers /\ (a.target = MinWorkers \/ 2 * a.target <= cur)
<1> USE AutoscaleAssumption DEF NoOp, ScaleUp, ScaleDown
<1>0. UpMultiplier * cur \in Nat
  OBVIOUS
<1>1. CASE cur < MinWorkers
  BY <1>0, <1>1 DEF Observe
<1>2. CASE cur >= MinWorkers /\ d > UpMultiplier * cur
  <2>1. Observe(cur, d, n) =
          IF cur >= MaxWorkers THEN NoOp(0) ELSE ScaleUp(Increased(cur))
    BY <1>0, <1>2 DEF Observe
  <2>2. Increased(cur) <= 2 * cur
    <3> DEFINE step == Max({cur \div 4, 1})
    <3>1. cur \div 4 \in Nat /\ cur \div 4 <= cur /\ cur >= 1
      BY <1>2
    <3>2. step \in Nat /\ step <= cur
      BY <3>1, MaxOfTwo
    <3> HIDE DEF step
    <3>3. Min({cur + step, MaxWorkers})
            = IF cur + step <= MaxWorkers THEN cur + step ELSE MaxWorkers
      BY <3>2, MinOfTwo
    <3>4. Increased(cur) = Min({cur + step, MaxWorkers})
      BY Zenon DEF Increased, step
    <3> QED BY <3>2, <3>3, <3>4
  <2>3. CASE cur >= MaxWorkers
    BY <2>1, <2>3
  <2>4. CASE ~ (cur >= MaxWorkers)
    BY <1>2, <2>1, <2>2, <2>4
  <2> QED BY <2>3, <2>4
<1>3. CASE cur > MinWorkers /\ d = 0
  <2>1. Observe(cur, d, n) =
          IF n + 1 >= IdleCycles THEN ScaleDown(Decreased(cur)) ELSE NoOp(n + 1)
    BY <1>0, <1>3 DEF Observe
  <2>2. Decreased(cur) = MinWorkers \/ 2 * Decreased(cur) <= cur
    <3>1. cur \div 2 \in Nat /\ 2 * (cur \div 2) <= cur
      OBVIOUS
    <3> QED BY <3>1, MaxOfTwo DEF Decreased
  <2>3. CASE n + 1 >= IdleCycles
    BY <1>3, <2>1, <2>2, <2>3
  <2>4. CASE ~ (n + 1 >= IdleCycles)
    BY <2>1, <2>4
  <2> QED BY <2>3, <2>4
<1>4. CASE /\ ~ (cur < MinWorkers)
           /\ ~ (cur >= MinWorkers /\ d > UpMultiplier * cur)
           /\ ~ (cur > MinWorkers /\ d = 0)
  <2>1. Observe(cur, d, n) = NoOp(0)
    BY <1>0, <1>4 DEF Observe
  <2> QED BY <2>1
<1> QED BY <1>1, <1>2, <1>3, <1>4

(* What a decision leaves behind, as far as the cap is concerned. *)
LEMMA DecisionSteps ==
    ASSUME TypeOK, NEW q \in Queues, Decide(q)
    PROVE  /\ current' = [current EXCEPT ![q] = live[q]]
           /\ \E k \in {"noop", "up", "down"}, t \in 0..MaxWorkers :
                /\ kind' = [kind EXCEPT ![q] = k]
                /\ target' = [target EXCEPT ![q] = t]
                /\ pc' = [pc EXCEPT ![q] = IF k = "noop" THEN "wait" ELSE "decided"]
                /\ k = "up" /\ t > MinWorkers => live[q] >= MinWorkers /\ t <= 2 * live[q]
                /\ k = "down" => /\ live[q] > MinWorkers
                                 /\ t = MinWorkers \/ 2 * t <= live[q]
<1> USE AutoscaleAssumption
<1>1. PICK d \in Depths \cup {0} :
        LET a == Observe(live[q], d, idle[q]) IN
        /\ current' = [current EXCEPT ![q] = live[q]]
        /\ kind' = [kind EXCEPT ![q] = a.kind]
        /\ target' = [target EXCEPT ![q] = a.target]
        /\ pc' = [pc EXCEPT ![q] = IF a.kind = "noop" THEN "wait" ELSE "decided"]
  BY Zenon DEF Decide
<1> DEFINE a == Observe(live[q], d, idle[q])
<1>2. live[q] \in 0..MaxWorkers /\ d \in Nat /\ idle[q] \in 0..(IdleCycles - 1)
  BY DEF TypeOK, ValuesOK
<1>3. /\ a.kind = "up" /\ a.target > MinWorkers =>
            live[q] >= MinWorkers /\ a.target <= 2 * live[q]
      /\ a.kind = "down" => /\ live[q] > MinWorkers
                            /\ a.target = MinWorkers \/ 2 * a.target <= live[q]
  BY <1>2, ObserveSteps, Zenon
<1>4. a.kind \in {"noop", "up", "down"} /\ a.target \in 0..MaxWorkers
  BY <1>2, ObserveSound, Zenon
<1>5. /\ current' = [current EXCEPT ![q] = live[q]]
      /\ kind' = [kind EXCEPT ![q] = a.kind]
      /\ target' = [target EXCEPT ![q] = a.target]
      /\ pc' = [pc EXCEPT ![q] = IF a.kind = "noop" THEN "wait" ELSE "decided"]
  BY <1>1, Zenon
<1> HIDE DEF a
<1> QED BY <1>3, <1>4, <1>5

LEMMA QueuesStep ==
    ASSUME "stick" \notin Faults, TypeOK, SlotInv, ProposalInv, QueuesInv, [Next]_vars
    PROVE  QueuesInv'
<1> USE AutoscaleAssumption DEF ValuesOK, TypeOK, QueuesInv, driverVars, ctrlVars
<1>0. \A q \in Queues : /\ live[q] \in Int /\ asked[q] \in Int /\ ledger[q] \in Int
                        /\ target[q] \in Int /\ current[q] \in Int /\ live[q] <= asked[q]
  BY DEF SlotInv
<1>o. ASSUME NEW q \in Queues, NEW o \in Queues \ {q},
             \/ StartResize(q) \/ StartBook(q) \/ TickStep(q) \/ TickerExits(q)
             \/ Reconcile(q) \/ DepthChanges(q) \/ CooldownElapses(q)
      PROVE  CapOf(o)'
  <2>1. /\ live'[o] = live[o] /\ asked'[o] = asked[o] /\ (o \in slipped' <=> o \in slipped)
        /\ ledger'[o] = ledger[o] /\ pc'[o] = pc[o] /\ kind'[o] = kind[o]
        /\ target'[o] = target[o] /\ current'[o] = current[o]
    <3>1. CASE Decide(q)
      BY <1>o, <3>1, DecisionSteps DEF Decide
    <3>2. CASE StartResize(q) \/ StartBook(q) \/ TickerExits(q) \/ Reconcile(q)
                \/ DepthChanges(q) \/ CooldownElapses(q)
      BY <3>2, NoneSpared DEF StartResize, StartBook, TickerExits, Reconcile, DepthChanges,
                  CooldownElapses, ResizeDone, ResizeShort, ResizeFails
    <3>3. CASE Book(q)
      BY <3>3 DEF Book, Reserve
    <3>4. CASE Resize(q) \/ Commit(q) \/ Rollback(q)
      BY <3>4, NoneSpared DEF Resize, Commit, Rollback, ResizeDone, ResizeShort, ResizeFails
    <3> QED BY <1>o, <3>1, <3>2, <3>3, <3>4 DEF TickStep
  <2> QED BY <2>1 DEF CapOf
<1>1. ASSUME NEW q \in Queues, StartResize(q) PROVE CapOf(q)'
  BY <1>1, <1>0, NoneSpared DEF StartResize, ResizeDone, ResizeShort, ResizeFails, CapOf
<1>2. ASSUME NEW q \in Queues, StartBook(q) PROVE CapOf(q)'
  BY <1>2, <1>0 DEF StartBook, CapOf
<1>3. ASSUME NEW q \in Queues, Decide(q) PROVE CapOf(q)'
  <2>1. PICK k \in {"noop", "up", "down"}, t \in 0..MaxWorkers :
          /\ kind' = [kind EXCEPT ![q] = k]
          /\ target' = [target EXCEPT ![q] = t]
          /\ pc' = [pc EXCEPT ![q] = IF k = "noop" THEN "wait" ELSE "decided"]
          /\ k = "up" /\ t > MinWorkers => live[q] >= MinWorkers /\ t <= 2 * live[q]
          /\ k = "down" => live[q] > MinWorkers /\ (t = MinWorkers \/ 2 * t <= live[q])
    BY <1>3, DecisionSteps
  <2>2. current' = [current EXCEPT ![q] = live[q]]
    BY <1>3, DecisionSteps
  <2>3. /\ UNCHANGED <<asked, live, slipped, ledger>> /\ pc[q] = "wait"
    BY <1>3 DEF Decide
  <2>4. k = "down" => t <= ledger[q]
    BY <1>0, <2>1, <2>3 DEF CapOf
  <2> QED BY <1>0, <2>1, <2>2, <2>3, <2>4 DEF CapOf
<1>4. ASSUME NEW q \in Queues, Book(q) PROVE CapOf(q)'
  <2>1. \/ ledger' = ledger /\ pc' = [pc EXCEPT ![q] = "wait"]
        \/ ledger' = [ledger EXCEPT ![q] = target[q]] /\ pc' = [pc EXCEPT ![q] = "resize"]
    BY <1>4 DEF Book, Reserve
  <2> QED BY <1>4, <2>1 DEF Book, CapOf
<1>5. ASSUME NEW q \in Queues, Resize(q) PROVE CapOf(q)'
  <2>1. CASE ResizeDone(q, target[q]) /\ pc' = [pc EXCEPT ![q] = "resized"]
    BY <1>5, <2>1 DEF Resize, ResizeDone, CapOf
  <2>2. CASE ResizeShort(q, target[q]) /\ pc' = [pc EXCEPT ![q] = "resized"]
    <3>1. PICK k \in live[q]..(target[q] - 1) : live' = [live EXCEPT ![q] = k]
      BY <2>2 DEF ResizeShort
    <3>2. current[q] <= live[q] /\ live[q] < target[q] /\ pc[q] = "resize"
      BY <1>5, <2>2 DEF Resize, ResizeShort, SlotInv
    <3>3. kind[q] = "up"
      BY <1>0, <3>2 DEF CapOf, ProposalInv
    <3> QED BY <1>0, <1>5, <2>2, <3>1, <3>2, <3>3 DEF Resize, ResizeShort, CapOf
  <2>3. CASE ResizeFails(q, target[q]) /\ pc' = [pc EXCEPT ![q] = "failed"]
    <3>2. current[q] <= live[q] /\ live[q] < target[q] /\ pc[q] = "resize"
      BY <1>5, <2>3 DEF Resize, ResizeFails, SlotInv
    <3>3. kind[q] = "up"
      BY <1>0, <3>2 DEF CapOf, ProposalInv
    <3> QED BY <1>0, <1>5, <2>3, <3>2, <3>3 DEF Resize, ResizeFails, CapOf
  <2> QED BY <1>5, <2>1, <2>2, <2>3, NoneSpared DEF Resize
<1>6. ASSUME NEW q \in Queues, Commit(q) PROVE CapOf(q)'
  BY <1>0, <1>6 DEF Commit, CapOf
<1>7. ASSUME NEW q \in Queues, Rollback(q) PROVE CapOf(q)'
  BY <1>0, <1>7 DEF Rollback, CapOf
<1>8. ASSUME NEW q \in Queues, TickerExits(q) PROVE CapOf(q)'
  BY <1>8 DEF TickerExits, CapOf
<1>9. ASSUME NEW q \in Queues, WorkerSticks(q) PROVE FALSE
  BY <1>9 DEF WorkerSticks, Fault
<1>10. ASSUME NEW q \in Queues, Reconcile(q) PROVE CapOf(q)'
  BY <1>0, <1>10 DEF Reconcile, CapOf
<1>11. ASSUME NEW q \in Queues, DepthChanges(q) \/ CooldownElapses(q) PROVE CapOf(q)'
  BY <1>11 DEF DepthChanges, CooldownElapses, CapOf
<1>12. CASE Cancel \/ StopReturns
  BY <1>12 DEF Cancel, StopReturns, CapOf
<1>13. CASE UNCHANGED vars
  BY <1>13 DEF vars, CapOf
<1> QED BY <1>o, <1>1, <1>2, <1>3, <1>4, <1>5, <1>6, <1>7, <1>8, <1>9, <1>10, <1>11,
           <1>12, <1>13 DEF Next, TickStep

LEMMA FloorStep ==
    ASSUME QuickStart, TypeOK, SlotInv, QueuesInv, FloorInv, [Next]_vars
    PROVE  FloorInv' /\ (~ Started => \A q \in Queues : ledger'[q] <= MinWorkers)
<1> USE AutoscaleAssumption DEF driverVars, ctrlVars
<1>1. CASE Started
  <2>1. ASSUME NEW q \in Queues,
               \/ StartResize(q) \/ StartBook(q) \/ TickStep(q) \/ TickerExits(q)
               \/ WorkerSticks(q) \/ Reconcile(q) \/ DepthChanges(q) \/ CooldownElapses(q)
        PROVE  Started'
    <3>1. pc' = pc \/ \E w \in {"wait", "decided", "resize", "resized", "failed", "done"} :
                         pc' = [pc EXCEPT ![q] = w]
      <4>1. CASE Decide(q)
        BY <4>1, DecisionSteps
      <4>2. CASE Book(q)
        BY <4>2 DEF Book, Reserve
      <4>3. CASE StartResize(q) \/ StartBook(q)
        BY <1>1, <4>3 DEF StartResize, StartBook, Started
      <4>4. CASE Resize(q) \/ Commit(q) \/ Rollback(q) \/ TickerExits(q)
        BY <4>4 DEF Resize, Commit, Rollback, TickerExits
      <4>5. CASE WorkerSticks(q) \/ Reconcile(q) \/ DepthChanges(q) \/ CooldownElapses(q)
        BY <4>5 DEF WorkerSticks, Reconcile, DepthChanges, CooldownElapses
      <4> QED BY <2>1, <4>1, <4>2, <4>3, <4>4, <4>5 DEF TickStep
    <3> QED BY <1>1, <3>1 DEF Started, TypeOK
  <2>2. ASSUME Cancel \/ StopReturns \/ UNCHANGED vars PROVE Started'
    BY <1>1, <2>2 DEF Cancel, StopReturns, vars, Started
  <2>3. Started'
    BY <2>1, <2>2 DEF Next
  <2> QED BY <1>1, <2>3 DEF FloorInv
<1>2. CASE ~ Started
  <2>0. /\ stopping = "no"
        /\ \A q \in Queues : pc[q] \in {"new", "starting", "wait"} /\ ledger[q] <= MinWorkers
    BY <1>2 DEF FloorInv
  <2> SUFFICES /\ stopping' = "no"
               /\ \A o \in Queues : /\ pc'[o] \in {"new", "starting", "wait"}
                                    /\ ledger'[o] <= MinWorkers
    BY DEF FloorInv
  <2>1. ASSUME NEW q \in Queues, StartResize(q)
        PROVE  /\ stopping' = "no"
               /\ \A o \in Queues : /\ pc'[o] \in {"new", "starting", "wait"}
                                    /\ ledger'[o] <= MinWorkers
    BY <2>0, <2>1 DEF StartResize, TypeOK
  <2>2. ASSUME NEW q \in Queues, StartBook(q)
        PROVE  /\ stopping' = "no"
               /\ \A o \in Queues : /\ pc'[o] \in {"new", "starting", "wait"}
                                    /\ ledger'[o] <= MinWorkers
    <3>1. live[q] <= MinWorkers
      BY <2>2 DEF StartBook, SlotInv, QueuesInv, CapOf
    <3> QED BY <2>0, <2>2, <3>1 DEF StartBook, TypeOK, ValuesOK
  <2>3. ASSUME NEW q \in Queues, TickStep(q) \/ TickerExits(q) PROVE FALSE
    BY <1>2, <2>0, <2>3 DEF TickStep, Decide, Book, Resize, Commit, Rollback, TickerExits
  <2>4. ASSUME NEW q \in Queues,
               WorkerSticks(q) \/ Reconcile(q) \/ DepthChanges(q) \/ CooldownElapses(q)
        PROVE  UNCHANGED <<pc, ledger, stopping>>
    BY <2>4 DEF WorkerSticks, Reconcile, DepthChanges, CooldownElapses
  <2>5. ~ Cancel /\ ~ StopReturns
    BY <1>2, <2>0 DEF Cancel, StopReturns
  <2> QED BY <2>0, <2>1, <2>2, <2>3, <2>4, <2>5 DEF Next, vars
<1> QED BY <1>1, <1>2

(* Once all queues are booked, a step lowers the ledger or was admitted by   *)
(* reserveIfWithinCap.                                                       *)
LEMMA LedgerStep ==
    ASSUME "stick" \notin Faults, GlobalCap > 0, TypeOK, SlotInv, QueuesInv, Started, [Next]_vars
    PROVE  (\A q \in Queues : ledger'[q] <= ledger[q]) \/ Total(ledger') <= GlobalCap
<1> USE DEF driverVars, ctrlVars
<1>0. \A q \in Queues : /\ live[q] \in Int /\ asked[q] \in Int /\ ledger[q] \in Int
                        /\ target[q] \in Int /\ current[q] \in Int /\ live[q] <= asked[q]
  BY AutoscaleAssumption DEF SlotInv, TypeOK, ValuesOK
<1>1. CASE ledger' = ledger
  BY <1>0, <1>1
<1>2. ASSUME NEW q \in Queues, Commit(q)
      PROVE  \A o \in Queues : ledger'[o] <= ledger[o]
  <2>1. live[q] <= ledger[q] /\ ledger' = [ledger EXCEPT ![q] = live[q]]
    BY <1>0, <1>2 DEF Commit, QueuesInv, CapOf
  <2> QED BY <1>0, <2>1 DEF TypeOK, ValuesOK
<1>3. ASSUME NEW q \in Queues, Rollback(q)
      PROVE  \A o \in Queues : ledger'[o] <= ledger[o]
  <2>1. current[q] <= ledger[q] /\ ledger' = [ledger EXCEPT ![q] = current[q]]
    BY <1>0, <1>3 DEF Rollback, QueuesInv, CapOf
  <2> QED BY <1>0, <2>1 DEF TypeOK, ValuesOK
<1>4. ASSUME NEW q \in Queues, Book(q)
      PROVE  (\A o \in Queues : ledger'[o] <= ledger[o]) \/ Total(ledger') <= GlobalCap
  <2>1. CASE kind[q] = "up"
    <3>1. Reserve(q)
      BY <1>4, <2>1 DEF Book
    <3> QED BY <1>1, <3>1, Zenon DEF Reserve
  <2>2. CASE kind[q] # "up"
    <3>1. ledger' = [ledger EXCEPT ![q] = target[q]] /\ pc[q] = "decided"
      BY <1>4, <2>2 DEF Book
    <3>2. target[q] <= ledger[q]
      BY <2>2, <3>1 DEF QueuesInv, CapOf
    <3> QED BY <1>0, <3>1, <3>2 DEF TypeOK, ValuesOK
  <2> QED BY <2>1, <2>2
<1>5. ASSUME NEW q \in Queues, StartResize(q) \/ StartBook(q) PROVE FALSE
  BY <1>5 DEF StartResize, StartBook, Started
<1>6. ASSUME NEW q \in Queues, Decide(q) \/ Resize(q) \/ TickerExits(q) PROVE ledger' = ledger
  BY <1>6 DEF Decide, Resize, TickerExits
<1>7. ASSUME NEW q \in Queues,
             WorkerSticks(q) \/ Reconcile(q) \/ DepthChanges(q) \/ CooldownElapses(q)
      PROVE  ledger' = ledger
  BY <1>7 DEF WorkerSticks, Reconcile, DepthChanges, CooldownElapses
<1>8. CASE Cancel \/ StopReturns \/ UNCHANGED vars
  BY <1>1, <1>8 DEF Cancel, StopReturns, vars
<1> QED BY <1>1, <1>2, <1>3, <1>4, <1>5, <1>6, <1>7, <1>8 DEF Next, TickStep

LEMMA CapStep ==
    ASSUME "stick" \notin Faults, QuickStart, GlobalCap > 0,
           TypeOK, TypeOK', SlotInv, ProposalInv, CapInv, [Next]_vars
    PROVE  CapInv'
<1>1. ledger \in [Queues -> Nat] /\ ledger' \in [Queues -> Nat]
  BY AutoscaleAssumption DEF TypeOK, ValuesOK
<1>2. QueuesInv' /\ FloorInv'
  BY QueuesStep, FloorStep DEF CapInv
<1>3. Total(ledger') <= GlobalCap
  <2>1. CASE ~ Started
    <3>1. \A q \in Queues : ledger'[q] <= MinWorkers
      BY <2>1, FloorStep DEF CapInv
    <3>2. Total(ledger') <= MinWorkers * Cardinality(Queues)
      BY <1>1, <3>1, TotalBounded, AutoscaleAssumption
    <3>3. Total(ledger') \in Nat /\ MinWorkers * Cardinality(Queues) \in Nat
      <4>1. Cardinality(Queues) \in Nat
        BY AutoscaleAssumption, FS_CardinalityType
      <4>2. \A q \in Queues : ledger'[q] <= ledger'[q]
        BY <1>1
      <4>3. Total(ledger') \in Nat
        BY <1>1, <4>2, TotalMonotone
      <4> QED BY <4>1, <4>3, AutoscaleAssumption
    <3> QED BY <3>2, <3>3, AutoscaleAssumption
  <2>2. CASE Started
    <3>1. Total(ledger) <= GlobalCap
      BY <2>2 DEF CapInv
    <3>2. CASE \A q \in Queues : ledger'[q] <= ledger[q]
      <4>1. Total(ledger') \in Nat /\ Total(ledger) \in Nat /\ Total(ledger') <= Total(ledger)
        BY <1>1, <3>2, TotalMonotone
      <4> QED BY <3>1, <4>1, AutoscaleAssumption
    <3> QED BY <2>2, <3>2, LedgerStep DEF CapInv
  <2> QED BY <2>1, <2>2
<1>4. Total(ledger)' <= GlobalCap
  <2>1. Total(ledger)' = Total(ledger')
    BY Zenon DEF Total, MapThenSumSet, MapThenFoldSet
  <2> QED BY <1>3, <2>1
<1> QED BY <1>2, <1>4 DEF CapInv

(* What the pools were promised is at most what is booked for them. *)
LEMMA PromisedIsBooked ==
    ASSUME TypeOK, SlotInv, CapInv, Started, NEW q \in Queues, q \notin slipped
    PROVE  Promised(q) \in Nat /\ Promised(q) <= ledger[q]
<1>1. /\ asked[q] \in Nat /\ target[q] \in Nat /\ ledger[q] \in Nat
  BY AutoscaleAssumption DEF TypeOK, ValuesOK
<1>2. pc[q] \in {"wait", "decided", "resize", "resized", "failed", "done"}
  BY DEF Started, TypeOK
<1>3. CASE pc[q] = "resize"
  BY <1>1, <1>3 DEF CapInv, QueuesInv, CapOf, Promised, Shrinking
<1>4. CASE pc[q] # "resize"
  BY <1>1, <1>2, <1>4 DEF CapInv, QueuesInv, CapOf, Promised, Shrinking
<1> QED BY <1>3, <1>4

(* For every number of queues, every bounds and every interleaving of their  *)
(* ticks, with Resizes that fail or fall short and depths that cannot be     *)
(* read, the pools whose last Resize reached its size and what the ledger    *)
(* books for the others add up to no more than maxWorkersGlobal.  The pools  *)
(* of the others can take the sum past it, when the supervisor fills them    *)
(* up.  It takes that no worker hangs (a rollback then books a count read    *)
(* before others took its slots) and that startAutoScale is through before   *)
(* the first tick.                                                           *)
THEOREM CapHolds ==
    "stick" \notin Faults /\ QuickStart /\ GlobalCap > 0 /\ Spec => []PromisedWithinCap
<1> SUFFICES ASSUME "stick" \notin Faults, QuickStart, GlobalCap > 0
             PROVE  Spec => []PromisedWithinCap
  OBVIOUS
<1>1. Init => SlotInv /\ CapInv
  <2> SUFFICES ASSUME Init PROVE SlotInv /\ CapInv
    OBVIOUS
  <2>1. SlotInv /\ QueuesInv /\ FloorInv
    BY AutoscaleAssumption DEF Init, SlotInv, QueuesInv, CapOf, FloorInv
  <2>2. Total(ledger) <= GlobalCap
    <3>1. ledger \in [Queues -> Nat] /\ \A q \in Queues : ledger[q] <= 0
      BY DEF Init
    <3>2. Total(ledger) <= 0 * Cardinality(Queues) /\ Total(ledger) \in Nat
      BY <3>1, TotalBounded, TotalMonotone
    <3>3. Cardinality(Queues) \in Nat
      BY AutoscaleAssumption, FS_CardinalityType
    <3> QED BY <3>2, <3>3, AutoscaleAssumption
  <2> QED BY <2>1, <2>2 DEF CapInv
<1>2. TypeOK /\ TypeOK' /\ ProposalInv /\ SlotInv /\ CapInv /\ [Next]_vars
        => SlotInv' /\ CapInv'
  BY SlotStep, CapStep
<1>3. TypeOK /\ SlotInv /\ CapInv => PromisedWithinCap
  <2> SUFFICES ASSUME TypeOK, SlotInv, CapInv, Started
               PROVE  Total([q \in Queues |-> IF q \in slipped THEN ledger[q] ELSE Promised(q)])
                        <= GlobalCap
    BY DEF PromisedWithinCap
  <2> DEFINE f == [q \in Queues |-> IF q \in slipped THEN ledger[q] ELSE Promised(q)]
  <2>1. ledger \in [Queues -> Nat]
    BY AutoscaleAssumption DEF TypeOK, ValuesOK
  <2>2. f \in [Queues -> Nat] /\ \A q \in Queues : f[q] <= ledger[q]
    BY <2>1, PromisedIsBooked
  <2> HIDE DEF f
  <2>3. Total(f) \in Nat /\ Total(ledger) \in Nat /\ Total(f) <= Total(ledger)
    BY <2>1, <2>2, TotalMonotone
  <2>4. Total(ledger) <= GlobalCap
    BY DEF CapInv
  <2>5. Total(f) <= GlobalCap
    BY <2>3, <2>4, AutoscaleAssumption
  <2> QED BY <2>5 DEF f
<1> QED BY <1>1, <1>2, <1>3, ProposalInit, ProposalStep, PTL DEF Spec
=============================================================================
