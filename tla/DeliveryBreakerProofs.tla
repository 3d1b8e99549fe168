------------------------ MODULE DeliveryBreakerProofs ------------------------
(* Proofs about DeliveryBreaker for every number of jobs, threshold,         *)
(* intervals and throttle time.                                              *)
EXTENDS DeliveryBreaker, FiniteSetTheorems, TLAPS

LEMMA MaxOfTwo ==
    ASSUME NEW a \in Int, NEW b \in Int
    PROVE  Max({a, b}) = IF a >= b THEN a ELSE b
<1>1. CASE a >= b
  BY <1>1 DEF Max
<1>2. CASE ~ (a >= b)
  BY <1>2 DEF Max
<1> QED BY <1>1, <1>2

LEMMA MinOfTwo ==
    ASSUME NEW a \in Int, NEW b \in Int
    PROVE  Min({a, b}) = IF a <= b THEN a ELSE b
<1>1. CASE a <= b
  BY <1>1 DEF Min
<1>2. CASE ~ (a <= b)
  BY <1>2 DEF Min
<1> QED BY <1>1, <1>2

-----------------------------------------------------------------------------
(* The locals of the jobs. *)

LEMMA LeaveType ==
    ASSUME JobsOK, NEW j \in Jobs,
           NEW where \in {"waiting", "sending", "throttling", "done"}, Leave(j, where)
    PROVE  JobsOK'
BY BreakerAssumption DEF JobsOK, Leave, Tokens

LEMMA HoldType ==
    ASSUME JobsOK, NEW j \in Jobs, Hold(j)
    PROVE  JobsOK'
<1> DEFINE where == IF j \in Deadlined THEN "done" ELSE "waiting"
<1>1. where \in {"waiting", "sending", "throttling", "done"}
  OBVIOUS
<1>2. Leave(j, where)
  BY DEF Hold
<1> HIDE DEF where
<1> QED BY <1>1, <1>2, LeaveType

LEMMA RetryType ==
    ASSUME JobsOK, NEW j \in Jobs, Retry(j)
    PROVE  JobsOK'
<1>1. CASE Leave(j, "waiting")
  BY <1>1, LeaveType
<1>2. CASE Leave(j, "done")
  BY <1>2, LeaveType
<1> QED BY <1>1, <1>2 DEF Retry

LEMMA SendType ==
    ASSUME JobsOK, NEW j \in Jobs, NEW tok \in Tokens, NEW seen, Send(j, tok, seen)
    PROVE  JobsOK'
BY BreakerAssumption DEF JobsOK, Send, Tokens

LEMMA FaultType == ASSUME EnvOK, Fault PROVE faults' \in 0..MaxFaults
BY BreakerAssumption DEF EnvOK, Fault

-----------------------------------------------------------------------------
(* A probe lock exists only while the breaker is open and its time to probe  *)
(* has come: closing deletes it, and only failures with the lock's token     *)
(* move that time.                                                           *)
LockInv == lock # NoToken => open /\ probeIn = 0

Inv == TypeOK /\ LockInv

(* What closeScript leaves of the keys. *)
LEMMA CloseInv ==
    ASSUME Inv, NEW all \in BOOLEAN, Close(all)
    PROVE  StoreOK' /\ ShapeOK' /\ FlagsOK' /\ LockInv'
<1> USE BreakerAssumption DEF Inv, TypeOK, Close, Unlocked
<1>1. FlagsOK'
  BY Zenon DEF FlagsOK, indexVars, Indexed, holdVars
<1>2. \/ throttle' = throttle /\ slot' = slot /\ resv' = resv /\ slotKey' = slotKey
      \/ throttle' = 0 /\ slot' = 0 /\ resv' = [j \in Jobs |-> 0] /\ slotKey' = FALSE
  BY DEF holdVars
<1>3. StoreOK'
  BY <1>2 DEF StoreOK, Tokens
<1>4. ShapeOK' /\ LockInv'
  BY <1>2 DEF ShapeOK, LockInv
<1> QED BY <1>1, <1>3, <1>4

LEMMA SuccessInv ==
    ASSUME Inv, NEW j \in Jobs, RecordSuccess(j)
    PROVE  StoreOK' /\ ShapeOK' /\ FlagsOK' /\ LockInv'
<1>1. CASE j \in hasState
  BY <1>1, CloseInv DEF RecordSuccess
<1>2. CASE j \notin hasState
  BY <1>2 DEF RecordSuccess, Inv, TypeOK, StoreOK, ShapeOK, FlagsOK, indexVars, Indexed, LockInv, hashVars,
              lockVars, holdVars
<1> QED BY <1>1, <1>2

(* A step that leaves the keys alone. *)
LEMMA KeysUnchanged ==
    ASSUME Inv, UNCHANGED <<hashVars, lockVars, holdVars, indexVars>>
    PROVE  StoreOK' /\ ShapeOK' /\ FlagsOK' /\ LockInv'
BY DEF Inv, TypeOK, StoreOK, ShapeOK, FlagsOK, indexVars, Indexed, LockInv, hashVars, lockVars, holdVars

LEMMA ReserveInv ==
    ASSUME Inv, NEW j \in Jobs, Reserve(j), UNCHANGED <<hashVars, indexVars>>
    PROVE  StoreOK' /\ ShapeOK' /\ FlagsOK' /\ LockInv'
<1> USE BreakerAssumption DEF Inv, TypeOK
<1> DEFINE s == IF slot > 0 THEN Max({throttle, slot + Spacing}) ELSE throttle
<1>1. s \in Nat /\ s >= slot /\ s > 0
  BY MaxOfTwo DEF StoreOK, Reserve
<1>2. slot' = s /\ resv' = [resv EXCEPT ![j] = s] /\ slotKey' = TRUE
  BY DEF Reserve
<1> HIDE DEF s
<1>3. StoreOK'
  BY <1>1, <1>2 DEF StoreOK, Reserve, hashVars, lockVars
<1>4. ShapeOK' /\ LockInv'
  BY <1>2 DEF ShapeOK, LockInv, Reserve, hashVars, lockVars
<1>5. FlagsOK'
  BY <1>2, Zenon DEF FlagsOK, indexVars, Indexed, hashVars
<1> QED BY <1>3, <1>4, <1>5

LEMMA TakeProbeInv ==
    ASSUME Inv, NEW j \in Jobs, TakeProbe(j), UNCHANGED <<hashVars, indexVars>>
    PROVE  StoreOK' /\ ShapeOK' /\ FlagsOK' /\ LockInv'
<1> USE BreakerAssumption DEF Inv, TypeOK, TakeProbe, hashVars, holdVars
<1>1. StoreOK' /\ ShapeOK' /\ LockInv'
  BY DEF StoreOK, ShapeOK, LockInv, Tokens
<1>2. FlagsOK'
  BY DEF FlagsOK, indexVars, Indexed
<1> QED BY <1>1, <1>2

LEMMA CheckInv == ASSUME Inv, NEW j \in Jobs, Check(j) PROVE Inv'
<1> USE BreakerAssumption DEF Inv, TypeOK
<1>0. UNCHANGED <<hashVars, indexVars>> /\ EnvOK'
  BY DEF Check, EnvOK
<1>1. CASE Hold(j) /\ UNCHANGED <<lockVars, holdVars>>
  BY <1>0, <1>1, HoldType, KeysUnchanged
<1>2. CASE Reserve(j) /\ Hold(j)
  BY <1>0, <1>2, HoldType, ReserveInv
<1>3. CASE TakeProbe(j) /\ Send(j, j, TRUE)
  <2>1. JobsOK'
    BY <1>3, SendType DEF Tokens
  <2> QED BY <1>0, <1>3, <2>1, TakeProbeInv
<1>4. CASE Send(j, NoToken, HashExists) /\ UNCHANGED <<lockVars, holdVars>>
  <2>1. JobsOK'
    BY <1>4, SendType DEF Tokens
  <2> QED BY <1>0, <1>4, <2>1, KeysUnchanged
<1> QED BY <1>1, <1>2, <1>3, <1>4 DEF Check

(* failureScript: its three branches. *)
LEMMA FailedInv == ASSUME Inv, NEW j \in Jobs, Failed(j) PROVE Inv'
<1> USE BreakerAssumption DEF Inv, TypeOK
<1>0. EnvOK'
  BY DEF Failed, EnvOK
<1>1. CASE FailOpen(j)
  <2>1. JobsOK'
    BY <1>1, HoldType DEF FailOpen
  <2>2. FlagsOK'
    BY <1>1, Zenon DEF FailOpen, Failed, FlagsOK, indexVars, Indexed, holdVars
  <2>3. CASE IsProbe(j)
    <3>1. /\ interval' = IF interval * 2 <= MaxInterval THEN interval * 2 ELSE MaxInterval
          /\ probeIn' = interval'
          /\ lock' = NoToken /\ lockLeft' = 0
      <4>1. interval \in Int /\ interval * 2 \in Int /\ MaxInterval \in Int
        BY DEF StoreOK
      <4> QED BY <1>1, <2>3, <4>1, MinOfTwo DEF FailOpen, Unlocked
    <3>2. StoreOK' /\ ShapeOK' /\ LockInv'
      BY <1>1, <2>3, <3>1 DEF FailOpen, Failed, StoreOK, ShapeOK, LockInv, holdVars, Tokens
    <3> QED BY <1>0, <2>1, <2>2, <3>2
  <2>4. CASE ~ IsProbe(j)
    <3>1. StoreOK' /\ ShapeOK' /\ LockInv'
      BY <1>1, <2>4 DEF FailOpen, Failed, StoreOK, ShapeOK, LockInv, lockVars, holdVars
    <3> QED BY <1>0, <2>1, <2>2, <3>1
  <2> QED BY <2>3, <2>4
<1>2. CASE FailOpens(j)
  <2>1. JobsOK'
    BY <1>2, HoldType DEF FailOpens
  <2>2. FlagsOK'
    BY <1>2, Zenon DEF FailOpens, Failed, FlagsOK, indexVars, Indexed, holdVars
  <2>3. StoreOK' /\ ShapeOK' /\ LockInv'
    BY <1>2 DEF FailOpens, Failed, StoreOK, ShapeOK, LockInv, lockVars, holdVars
  <2> QED BY <1>0, <2>1, <2>2, <2>3
<1>3. CASE FailCounts(j)
  <2>1. JobsOK'
    BY <1>3, RetryType DEF FailCounts
  <2>2. FlagsOK'
    BY <1>3, Zenon DEF FailCounts, Failed, FlagsOK, indexVars, Indexed, holdVars
  <2>3. StoreOK' /\ ShapeOK' /\ LockInv'
    BY <1>3 DEF FailCounts, Failed, StoreOK, ShapeOK, LockInv, lockVars, holdVars
  <2> QED BY <1>0, <2>1, <2>2, <2>3
<1> QED BY <1>1, <1>2, <1>3 DEF Failed

LEMMA TickInv == ASSUME Inv, Tick PROVE Inv'
<1> USE BreakerAssumption DEF Inv, TypeOK, Tick
<1>1. JobsOK' /\ EnvOK'
  BY DEF JobsOK, EnvOK
<1>2. StoreOK'
  BY DEF StoreOK, Less, Tokens
<1>3. ShapeOK' /\ LockInv'
  BY DEF StoreOK, ShapeOK, LockInv, Less
<1>4. FlagsOK'
  BY Zenon DEF FlagsOK, indexVars, Indexed
<1> QED BY <1>1, <1>2, <1>3, <1>4

LEMMA InvStep == Inv /\ [Next]_vars => Inv'
<1> SUFFICES ASSUME Inv, [Next]_vars PROVE Inv'
  OBVIOUS
<1> USE BreakerAssumption
<1>1. ASSUME NEW j \in Jobs, Check(j) PROVE Inv'
  BY <1>1, CheckInv
<1>2. ASSUME NEW j \in Jobs, CheckUnavailable(j) PROVE Inv'
  <2>1. JobsOK'
    BY <1>2, SendType DEF CheckUnavailable, Tokens, Inv, TypeOK
  <2>2. EnvOK'
    BY <1>2, FaultType DEF CheckUnavailable, EnvOK, Inv, TypeOK
  <2>3. UNCHANGED <<hashVars, indexVars>>
    BY <1>2 DEF CheckUnavailable
  <2>4. CASE Reserve(j)
    BY <2>1, <2>2, <2>3, <2>4, ReserveInv DEF Inv, TypeOK
  <2>5. CASE TakeProbe(j)
    BY <2>1, <2>2, <2>3, <2>5, TakeProbeInv DEF Inv, TypeOK
  <2>6. CASE UNCHANGED <<lockVars, holdVars>>
    BY <2>1, <2>2, <2>3, <2>6, KeysUnchanged DEF Inv, TypeOK
  <2> QED BY <1>2, <2>4, <2>5, <2>6 DEF CheckUnavailable
<1>3. ASSUME NEW j \in Jobs, Answered(j) PROVE Inv'
  <2>1. JobsOK' /\ EnvOK'
    BY <1>3, LeaveType DEF Answered, EnvOK, Inv, TypeOK
  <2> QED BY <1>3, <2>1, SuccessInv DEF Answered, Inv, TypeOK
<1>4. ASSUME NEW j \in Jobs, RateLimited(j) PROVE Inv'
  <2>1. JobsOK' /\ EnvOK'
    BY <1>4, LeaveType DEF RateLimited, EnvOK, Inv, TypeOK
  <2> QED BY <1>4, <2>1, SuccessInv DEF RateLimited, Inv, TypeOK
<1>5. ASSUME NEW j \in Jobs, Throttle(j) PROVE Inv'
  <2>1. JobsOK' /\ EnvOK'
    BY <1>5, RetryType DEF Throttle, EnvOK, Inv, TypeOK
  <2>2. StoreOK' /\ ShapeOK' /\ LockInv'
    BY <1>5 DEF Throttle, StoreOK, ShapeOK, LockInv, Inv, TypeOK, hashVars, lockVars
  <2>3. FlagsOK'
    BY <1>5, Zenon DEF Throttle, FlagsOK, indexVars, Indexed, Inv, TypeOK, hashVars
  <2> QED BY <2>1, <2>2, <2>3 DEF Inv, TypeOK
<1>6. ASSUME NEW j \in Jobs, Failed(j) PROVE Inv'
  BY <1>6, FailedInv
<1>7. ASSUME NEW j \in Jobs, LocalError(j) PROVE Inv'
  <2>1. JobsOK' /\ EnvOK'
    BY <1>7, RetryType, FaultType DEF LocalError, EnvOK, Inv, TypeOK
  <2>2. \/ lock' = NoToken /\ lockLeft' = 0
        \/ lock' = lock /\ lockLeft' = lockLeft
    BY <1>7 DEF LocalError, Unlocked, lockVars
  <2>3. StoreOK' /\ ShapeOK' /\ LockInv'
    BY <1>7, <2>2 DEF LocalError, StoreOK, ShapeOK, LockInv, Inv, TypeOK, hashVars,
                      holdVars, Tokens
  <2>4. FlagsOK'
    BY <1>7, Zenon DEF LocalError, FlagsOK, indexVars, Indexed, Inv, TypeOK, hashVars, holdVars
  <2> QED BY <2>1, <2>3, <2>4 DEF Inv, TypeOK
<1>8. ASSUME NEW j \in Jobs, ReportLost(j) PROVE Inv'
  <2>1. JobsOK' /\ EnvOK'
    BY <1>8, RetryType, FaultType DEF ReportLost, EnvOK, Inv, TypeOK
  <2> QED BY <1>8, <2>1, KeysUnchanged DEF ReportLost, Inv, TypeOK
<1>9. CASE Tick
  BY <1>9, TickInv
<1>10. CASE StateForgotten
  <2>1. JobsOK' /\ EnvOK'
    BY <1>10 DEF StateForgotten, JobsOK, EnvOK, Inv, TypeOK, jobVars
  <2>2. StoreOK' /\ ShapeOK' /\ LockInv'
    BY <1>10 DEF StateForgotten, HashExists, StoreOK, ShapeOK, LockInv, Inv, TypeOK,
                 lockVars, holdVars
  <2>3. FlagsOK'
    BY <1>10, Zenon DEF StateForgotten, FlagsOK, indexVars, Indexed, Inv, TypeOK, holdVars
  <2> QED BY <2>1, <2>2, <2>3 DEF Inv, TypeOK
<1>11. CASE SlotKeyExpires
  <2>1. JobsOK' /\ EnvOK'
    BY <1>11 DEF SlotKeyExpires, JobsOK, EnvOK, Inv, TypeOK, jobVars
  <2>2. StoreOK' /\ ShapeOK' /\ LockInv'
    BY <1>11 DEF SlotKeyExpires, StoreOK, ShapeOK, LockInv, Inv, TypeOK, lockVars, hashVars
  <2>3. FlagsOK'
    BY <1>11, Zenon DEF SlotKeyExpires, FlagsOK, indexVars, Indexed, Inv, TypeOK, hashVars
  <2> QED BY <2>1, <2>2, <2>3 DEF Inv, TypeOK
<1>12. CASE AdminCloses
  <2>1. JobsOK' /\ EnvOK'
    BY <1>12 DEF AdminCloses, JobsOK, EnvOK, Inv, TypeOK, jobVars
  <2> QED BY <1>12, <2>1, CloseInv DEF AdminCloses, Inv, TypeOK
<1>13. CASE ListReads \/ HostChanges
  <2>1. JobsOK' /\ EnvOK'
    BY <1>13 DEF ListReads, HostChanges, JobsOK, EnvOK, Inv, TypeOK, jobVars
  <2> QED BY <1>13, <2>1, KeysUnchanged DEF ListReads, HostChanges, Inv, TypeOK
<1>14. CASE ListDropsStale
  <2>1. JobsOK' /\ EnvOK'
    BY <1>14 DEF ListDropsStale, JobsOK, EnvOK, Inv, TypeOK, jobVars
  <2>2. StoreOK' /\ ShapeOK' /\ LockInv'
    BY <1>14 DEF ListDropsStale, StoreOK, ShapeOK, LockInv, Inv, TypeOK, hashVars,
                 lockVars, holdVars
  <2>3. FlagsOK'
    BY <1>14, Zenon DEF ListDropsStale, FlagsOK, indexVars, Indexed, Inv, TypeOK, hashVars, holdVars
  <2> QED BY <2>1, <2>2, <2>3 DEF Inv, TypeOK
<1>15. CASE UNCHANGED vars
  <2>1. JobsOK' /\ EnvOK'
    BY <1>15 DEF vars, JobsOK, EnvOK, Inv, TypeOK
  <2> QED BY <1>15, <2>1, KeysUnchanged DEF vars, hashVars, lockVars, holdVars, indexVars, Inv, TypeOK
<1> QED BY <1>1, <1>2, <1>3, <1>4, <1>5, <1>6, <1>7, <1>8, <1>9, <1>10, <1>11, <1>12,
           <1>13, <1>14, <1>15 DEF Next, Respond

LEMMA InvInit == Init => Inv
<1> SUFFICES ASSUME Init PROVE Inv
  OBVIOUS
<1>1. FlagsOK
  BY Zenon DEF Init, FlagsOK, indexVars, Indexed
<1>2. StoreOK /\ JobsOK /\ EnvOK /\ ShapeOK /\ LockInv
  BY BreakerAssumption DEF Init, StoreOK, JobsOK, EnvOK, ShapeOK, LockInv, Tokens
<1> QED BY <1>1, <1>2 DEF Inv, TypeOK

(* The keys of a host stay consistent with each other whatever jobs, the     *)
(* administrator, time and faults do.                                        *)
THEOREM TypeCorrect == Spec => []TypeOK
<1>1. Inv => TypeOK
  BY DEF Inv
<1> QED BY <1>1, InvInit, InvStep, PTL DEF Spec

(* The interval of an open breaker is doubled only when its probe is due, at *)
(* most once per interval: the probe that holds the lock is the only one     *)
(* whose failure does it, and LockInv says when there is a lock.             *)
THEOREM Backoff == Spec => BackoffRespected
<1>1. Inv /\ [Next]_vars => [open /\ open' /\ interval' > interval => probeIn = 0]_vars
  <2> SUFFICES ASSUME Inv, [Next]_vars, open, interval' > interval
               PROVE  open' => probeIn = 0
    OBVIOUS
  <2> USE BreakerAssumption DEF Inv, TypeOK, StoreOK, LockInv
  <2>1. ASSUME NEW j \in Jobs, Failed(j) PROVE probeIn = 0
    <3>1. FailOpen(j)
      BY <2>1 DEF Failed, FailOpens, FailCounts
    <3>2. IsProbe(j)
      BY <3>1 DEF FailOpen
    <3> QED BY <3>2 DEF IsProbe
  <2>2. ASSUME NEW j \in Jobs, Check(j) \/ CheckUnavailable(j) \/ LocalError(j)
                               \/ ReportLost(j) \/ Throttle(j)
        PROVE  FALSE
    <3>1. interval' = interval
      BY <2>2 DEF Check, CheckUnavailable, LocalError, ReportLost, Throttle, hashVars
    <3> QED BY <3>1
  <2>3. ASSUME NEW j \in Jobs, Answered(j) \/ RateLimited(j) PROVE FALSE
    <3>1. interval' = 0 \/ interval' = interval
      BY <2>3 DEF Answered, RateLimited, RecordSuccess, Close, hashVars
    <3> QED BY <3>1
  <2>4. CASE \/ Tick \/ StateForgotten \/ SlotKeyExpires \/ AdminCloses \/ ListReads
             \/ ListDropsStale \/ HostChanges \/ UNCHANGED vars
    BY <2>4 DEF Tick, StateForgotten, SlotKeyExpires, AdminCloses, Close, ListReads,
                ListDropsStale, HostChanges, hashVars, vars
  <2> QED BY <2>1, <2>2, <2>3, <2>4 DEF Next, Respond
<1> QED BY <1>1, InvInit, InvStep, PTL DEF Spec, BackoffRespected

-----------------------------------------------------------------------------
(* Reservations.  TypeOK keeps every reservation at or before the last slot, *)
(* so one behind the last slot keeps its distance from all of them.          *)
LEMMA SpacedStep == Inv /\ ReservationsSpaced /\ [Next]_vars => ReservationsSpaced'
<1> SUFFICES ASSUME Inv, ReservationsSpaced, [Next]_vars PROVE ReservationsSpaced'
  OBVIOUS
<1> USE BreakerAssumption DEF Inv, TypeOK, StoreOK, ReservationsSpaced
<1>1. ASSUME NEW j \in Jobs, Check(j) \/ CheckUnavailable(j) PROVE ReservationsSpaced'
  <2>1. CASE Reserve(j)
    <3> DEFINE s == IF slot > 0 THEN Max({throttle, slot + Spacing}) ELSE throttle
    <3>1. s \in Nat /\ (slot > 0 => s >= slot + Spacing)
      BY MaxOfTwo
    <3>2. resv' = [resv EXCEPT ![j] = s]
      BY <2>1 DEF Reserve
    <3> HIDE DEF s
    <3>3. \A k \in Jobs \ {j} : resv[k] > 0 => s - resv[k] >= Spacing
      BY <3>1
    <3> QED BY <3>1, <3>2, <3>3
  <2>2. CASE ~ Reserve(j)
    BY <1>1, <2>2 DEF Check, CheckUnavailable, TakeProbe, holdVars
  <2> QED BY <2>1, <2>2
<1>2. ASSUME NEW j \in Jobs, Failed(j) \/ LocalError(j) \/ ReportLost(j) \/ Throttle(j)
      PROVE  ReservationsSpaced'
  BY <1>2 DEF Failed, LocalError, ReportLost, Throttle, holdVars
<1>3. ASSUME NEW j \in Jobs, Answered(j) \/ RateLimited(j) PROVE ReservationsSpaced'
  <2>1. resv' = resv
    BY <1>3 DEF Answered, RateLimited, RecordSuccess, Close, holdVars
  <2> QED BY <2>1
<1>4. CASE Tick
  BY <1>4 DEF Tick, Less
<1>5. CASE AdminCloses
  BY <1>5 DEF AdminCloses, Close
<1>6. CASE \/ StateForgotten \/ SlotKeyExpires \/ ListReads \/ ListDropsStale
           \/ HostChanges \/ UNCHANGED vars
  BY <1>6 DEF StateForgotten, SlotKeyExpires, ListReads, ListDropsStale, HostChanges,
              holdVars, vars
<1> QED BY <1>1, <1>2, <1>3, <1>4, <1>5, <1>6 DEF Next, Respond

(* However many 429s arrive, and in whatever order jobs come back, no two    *)
(* held jobs are given send times closer than Spacing.                       *)
THEOREM Spaced == Spec => []ReservationsSpaced
<1>1. Init => ReservationsSpaced
  BY DEF Init, ReservationsSpaced
<1> QED BY <1>1, SpacedStep, InvInit, InvStep, PTL DEF Spec

-----------------------------------------------------------------------------
(* The index. *)

LEMMA IndexStep == Inv /\ IndexComplete /\ [Next]_vars => IndexComplete'
<1> SUFFICES ASSUME Inv, IndexComplete, [Next]_vars PROVE IndexComplete'
  OBVIOUS
<1> USE BreakerAssumption DEF Inv, TypeOK, ShapeOK, StoreOK, IndexComplete, Listable,
                              indexVars, Indexed
<1>1. ASSUME NEW j \in Jobs, Check(j) \/ CheckUnavailable(j) PROVE IndexComplete'
  BY <1>1 DEF Check, CheckUnavailable, Reserve, TakeProbe, hashVars, holdVars
<1>2. ASSUME NEW j \in Jobs, LocalError(j) \/ ReportLost(j) PROVE IndexComplete'
  <2>1. open' = open /\ throttle' = throttle /\ slot' = slot
    BY <1>2 DEF LocalError, ReportLost, hashVars, holdVars
  <2>2. indexed' = indexed /\ dropped' = dropped
    BY <1>2 DEF LocalError, ReportLost
  <2> QED BY <2>1, <2>2
<1>3. ASSUME NEW j \in Jobs, Answered(j) \/ RateLimited(j) PROVE IndexComplete'
  BY <1>3 DEF Answered, RateLimited, RecordSuccess, Close, hashVars, holdVars
<1>4. ASSUME NEW j \in Jobs, Throttle(j) PROVE IndexComplete'
  BY <1>4 DEF Throttle
<1>5. ASSUME NEW j \in Jobs, Failed(j) PROVE IndexComplete'
  BY <1>5 DEF Failed, FailOpen, FailOpens, FailCounts, holdVars
<1>6. CASE Tick
  BY <1>6 DEF Tick, Less
<1>7. CASE AdminCloses
  <2>1. open' = FALSE /\ throttle' = 0 /\ slot' = 0
    BY <1>7 DEF AdminCloses, Close
  <2> QED BY <2>1
<1>8. CASE ListDropsStale
  BY <1>8 DEF ListDropsStale, hashVars, holdVars
<1>9. CASE \/ StateForgotten \/ SlotKeyExpires \/ ListReads \/ HostChanges
           \/ UNCHANGED vars
  BY <1>9 DEF StateForgotten, SlotKeyExpires, ListReads, HostChanges, hashVars, holdVars,
              vars
<1> QED BY <1>1, <1>2, <1>3, <1>4, <1>5, <1>6, <1>7, <1>8, <1>9 DEF Next, Respond

(* Opening, holding and closing keep a held host in the index, for any       *)
(* number of deliveries; only List, which reads and removes in two steps,    *)
(* can drop one.                                                             *)
THEOREM HeldIsListed == Spec => []IndexComplete
<1>1. Init => IndexComplete
  BY DEF Init, IndexComplete, Listable
<1> QED BY <1>1, IndexStep, InvInit, InvStep, PTL DEF Spec

-----------------------------------------------------------------------------
(* Probes under way. *)

Probing(j) == pc[j] = "sending" /\ token[j] # NoToken

(* A probe holds the lock, whose time is longer than a send; or the breaker  *)
(* was closed under it; or it was opened again since, and the first interval *)
(* is longer than a send too.                                                *)
Alone(j) ==
    /\ token[j] = j
    /\ \/ lock = j /\ lockLeft + sent[j] >= LockTTL
       \/ ~ open
       \/ probeIn + sent[j] >= InitialInterval

ProbeInv ==
    /\ \A j \in Jobs : Probing(j) => Alone(j)
    /\ \A j, k \in Jobs : Probing(j) /\ Probing(k) => j = k

(* A job that reports or gives up is no probe any more. *)
LEMMA LeaveEnds ==
    ASSUME Inv, NEW j \in Jobs,
           Hold(j) \/ Retry(j) \/ \E where \in {"waiting", "throttling", "done"} : Leave(j, where)
    PROVE  /\ ~ Probing(j)'
           /\ \A k \in Jobs \ {j} : pc'[k] = pc[k] /\ sent'[k] = sent[k] /\ token'[k] = token[k]
<1>1. PICK where : Leave(j, where)
  BY DEF Hold, Retry
<1> QED BY <1>1 DEF Leave, Probing, Inv, TypeOK, JobsOK

(* Nor is one that goes out without a token. *)
LEMMA SendOthers ==
    ASSUME Inv, NEW j \in Jobs, NEW tok, NEW seen, Send(j, tok, seen)
    PROVE  /\ pc'[j] = "sending" /\ sent'[j] = 0 /\ token'[j] = tok
           /\ \A k \in Jobs \ {j} : pc'[k] = pc[k] /\ sent'[k] = sent[k] /\ token'[k] = token[k]
BY DEF Send, Inv, TypeOK, JobsOK

(* No probe begins, and those under way stay alone. *)
LEMMA ProbesKept ==
    ASSUME ProbeInv,
           \A k \in Jobs : Probing(k)' => Probing(k) /\ Alone(k)'
    PROVE  ProbeInv'
BY DEF ProbeInv, Probing, Alone

(* When the lock can be taken, no probe is under way. *)
LEMMA NoProbe ==
    ASSUME Inv, ProbeInv, NEW j \in Jobs, TakeProbe(j)
    PROVE  \A k \in Jobs : ~ Probing(k)
<1> SUFFICES ASSUME NEW k \in Jobs, Probing(k) PROVE FALSE
  OBVIOUS
<1>1. open /\ probeIn = 0 /\ lock = NoToken
  BY DEF TakeProbe
<1>2. Alone(k) /\ sent[k] \in 0..LongestSend
  BY DEF ProbeInv, Inv, TypeOK, JobsOK
<1> QED BY <1>1, <1>2, BreakerAssumption DEF Alone

LEMMA ProbeStep == Inv /\ ProbeInv /\ [Next]_vars => ProbeInv'
<1> SUFFICES ASSUME Inv, ProbeInv, [Next]_vars PROVE ProbeInv'
  OBVIOUS
<1> USE BreakerAssumption
<1>0. ASSUME NEW j \in Jobs, ~ Probing(j)',
             \A k \in Jobs \ {j} : pc'[k] = pc[k] /\ sent'[k] = sent[k] /\ token'[k] = token[k],
             \A k \in Jobs \ {j} : Probing(k) => Alone(k)'
      PROVE  ProbeInv'
  <2>1. ASSUME NEW k \in Jobs, Probing(k)' PROVE Probing(k) /\ Alone(k)'
    BY <1>0, <2>1 DEF Probing
  <2> QED BY <2>1, ProbesKept
<1>1. ASSUME NEW j \in Jobs, Check(j) PROVE ProbeInv'
  <2>1. CASE TakeProbe(j) /\ Send(j, j, TRUE)
    <3>1. \A k \in Jobs : ~ Probing(k)
      BY <2>1, NoProbe
    <3>2. /\ pc'[j] = "sending" /\ sent'[j] = 0 /\ token'[j] = j
          /\ \A k \in Jobs \ {j} : pc'[k] = pc[k] /\ token'[k] = token[k]
      BY <2>1, SendOthers
    <3>3. Alone(j)'
      BY <2>1, <3>2 DEF TakeProbe, Alone
    <3>4. \A k \in Jobs : Probing(k)' => k = j
      BY <3>1, <3>2 DEF Probing
    <3> QED BY <3>3, <3>4 DEF ProbeInv
  <2>2. CASE Hold(j) /\ UNCHANGED lockVars
    <3>1. \A k \in Jobs \ {j} : Probing(k) => Alone(k)'
      BY <1>1, <2>2, LeaveEnds DEF Check, Alone, ProbeInv, hashVars, lockVars
    <3> QED BY <1>0, <2>2, <3>1, LeaveEnds
  <2>3. CASE Send(j, NoToken, HashExists) /\ UNCHANGED lockVars
    <3>1. \A k \in Jobs \ {j} : Probing(k) => Alone(k)'
      BY <1>1, <2>3, SendOthers DEF Check, Alone, ProbeInv, hashVars, lockVars
    <3>2. ~ Probing(j)'
      BY <2>3, SendOthers DEF Probing
    <3> QED BY <1>0, <2>3, <3>1, <3>2, SendOthers
  <2>4. CASE Reserve(j) /\ Hold(j)
    BY <2>2, <2>4 DEF Reserve
  <2> QED BY <1>1, <2>1, <2>2, <2>3, <2>4 DEF Check
<1>2. ASSUME NEW j \in Jobs, CheckUnavailable(j) PROVE ProbeInv'
  <2>1. Send(j, NoToken, FALSE) /\ UNCHANGED hashVars
    BY <1>2 DEF CheckUnavailable
  <2>2. \A k \in Jobs \ {j} : Probing(k) => Alone(k)'
    <3>1. CASE TakeProbe(j)
      BY <3>1, NoProbe
    <3>2. CASE ~ TakeProbe(j)
      <4>1. UNCHANGED lockVars
        BY <1>2, <3>2 DEF CheckUnavailable, Reserve
      <4> QED BY <2>1, <4>1, SendOthers DEF Alone, ProbeInv, hashVars, lockVars
    <3> QED BY <3>1, <3>2
  <2>3. ~ Probing(j)'
    BY <2>1, SendOthers DEF Probing
  <2> QED BY <1>0, <2>1, <2>2, <2>3, SendOthers
<1>3. ASSUME NEW j \in Jobs, Answered(j) \/ RateLimited(j) PROVE ProbeInv'
  <2>1. Leave(j, "done") \/ Leave(j, "throttling")
    BY <1>3 DEF Answered, RateLimited
  <2>2. open' = FALSE \/ UNCHANGED <<hashVars, lockVars>>
    BY <1>3 DEF Answered, RateLimited, RecordSuccess, Close
  <2>3. \A k \in Jobs \ {j} : Probing(k) => Alone(k)'
    BY <2>1, <2>2, LeaveEnds DEF Alone, ProbeInv, hashVars, lockVars
  <2> QED BY <1>0, <2>1, <2>3, LeaveEnds
<1>4. ASSUME NEW j \in Jobs, Throttle(j) \/ ReportLost(j) PROVE ProbeInv'
  <2>1. Retry(j) /\ UNCHANGED <<hashVars, lockVars>>
    BY <1>4 DEF Throttle, ReportLost
  <2>2. \A k \in Jobs \ {j} : Probing(k) => Alone(k)'
    BY <2>1, LeaveEnds DEF Alone, ProbeInv, hashVars, lockVars
  <2> QED BY <1>0, <2>1, <2>2, LeaveEnds
<1>5. ASSUME NEW j \in Jobs, LocalError(j) PROVE ProbeInv'
  <2>1. Retry(j) /\ UNCHANGED hashVars /\ pc[j] = "sending"
    BY <1>5 DEF LocalError
  <2>2. (IsProbe(j) /\ Probing(j) /\ lock = j) \/ UNCHANGED lockVars
    BY <1>5, <2>1 DEF LocalError, IsProbe, Probing, Alone, ProbeInv
  <2>3. \A k \in Jobs \ {j} : Probing(k) => Alone(k)'
    BY <2>1, <2>2, LeaveEnds DEF Alone, ProbeInv, hashVars, lockVars
  <2> QED BY <1>0, <2>1, <2>3, LeaveEnds
<1>6. ASSUME NEW j \in Jobs, Failed(j) PROVE ProbeInv'
  <2>1. Hold(j) \/ Retry(j)
    BY <1>6 DEF Failed, FailOpen, FailOpens, FailCounts
  <2>2. probeIn' >= InitialInterval \/ ~ open' \/ UNCHANGED <<open, probeIn, lockVars>>
    <3>1. CASE FailOpen(j) /\ IsProbe(j)
      <4>1. interval \in Int /\ interval * 2 \in Int /\ MaxInterval \in Int
            /\ interval >= InitialInterval
        BY <3>1 DEF FailOpen, Inv, TypeOK, StoreOK, ShapeOK
      <4>2. probeIn' = IF interval * 2 <= MaxInterval THEN interval * 2 ELSE MaxInterval
        BY <3>1, <4>1, MinOfTwo DEF FailOpen
      <4> QED BY <4>1, <4>2
    <3>2. CASE FailOpen(j) /\ ~ IsProbe(j)
      BY <3>2 DEF FailOpen
    <3>3. CASE FailOpens(j)
      BY <3>3 DEF FailOpens
    <3>4. CASE FailCounts(j)
      BY <3>4 DEF FailCounts
    <3> QED BY <1>6, <3>1, <3>2, <3>3, <3>4 DEF Failed
  <2>3. \A k \in Jobs \ {j} : Probing(k) => Alone(k)'
    <3> SUFFICES ASSUME NEW k \in Jobs \ {j}, Probing(k) PROVE Alone(k)'
      OBVIOUS
    <3>1. sent'[k] = sent[k] /\ token'[k] = token[k] /\ Alone(k) /\ sent[k] \in Nat
      BY <2>1, LeaveEnds DEF ProbeInv, Inv, TypeOK, JobsOK
    <3>2. probeIn' \in Int
      BY <1>6, FailedInv DEF Inv, TypeOK, StoreOK
    <3> QED BY <2>2, <3>1, <3>2 DEF Alone, lockVars
  <2> QED BY <1>0, <2>1, <2>3, LeaveEnds
<1>7. CASE Tick
  <2>1. ASSUME NEW k \in Jobs, Probing(k)' PROVE Probing(k) /\ Alone(k)'
    <3>1. Probing(k) /\ token'[k] = token[k]
      BY <1>7, <2>1 DEF Tick, Probing
    <3>2. sent[k] < LongestSend /\ sent'[k] = sent[k] + 1 /\ sent[k] \in Nat
      BY <1>7, <3>1 DEF Tick, Probing, Inv, TypeOK, JobsOK
    <3>3. lockLeft \in Nat /\ probeIn \in Nat
      BY DEF Inv, TypeOK, StoreOK
    <3>4. Alone(k)
      BY <3>1 DEF ProbeInv
    <3>5. CASE lock = k /\ lockLeft + sent[k] >= LockTTL
      <4>1. lockLeft > 1
        BY <3>2, <3>3, <3>5
      <4>2. lock' = k /\ lockLeft' = lockLeft - 1
        BY <1>7, <3>3, <3>5, <4>1 DEF Tick, Less
      <4> QED BY <3>1, <3>2, <3>3, <3>4, <3>5, <4>2 DEF Alone
    <3>6. CASE ~ open
      BY <1>7, <3>1, <3>4, <3>6 DEF Tick, Alone
    <3>7. CASE probeIn + sent[k] >= InitialInterval
      BY <1>7, <3>1, <3>2, <3>3, <3>4, <3>7 DEF Tick, Less, Alone
    <3> QED BY <3>1, <3>4, <3>5, <3>6, <3>7 DEF Alone
  <2> QED BY <2>1, ProbesKept
<1>8. CASE \/ StateForgotten \/ SlotKeyExpires \/ AdminCloses \/ ListReads
           \/ ListDropsStale \/ HostChanges \/ UNCHANGED vars
  <2>1. UNCHANGED jobVars
    BY <1>8 DEF StateForgotten, SlotKeyExpires, AdminCloses, ListReads, ListDropsStale,
                HostChanges, vars, jobVars
  <2>2. open' = FALSE \/ UNCHANGED <<hashVars, lockVars>>
    BY <1>8 DEF StateForgotten, SlotKeyExpires, AdminCloses, Close, ListReads,
                ListDropsStale, HostChanges, vars, hashVars, lockVars
  <2>3. \A k \in Jobs : Probing(k)' => Probing(k) /\ Alone(k)'
    BY <2>1, <2>2 DEF Probing, Alone, ProbeInv, jobVars, hashVars, lockVars
  <2> QED BY <2>3, ProbesKept
<1> QED BY <1>1, <1>2, <1>3, <1>4, <1>5, <1>6, <1>7, <1>8 DEF Next, Respond

(* For any number of jobs and any times with a send shorter than the lock's  *)
(* TTL and than the first interval: never two probes on their way, whoever   *)
(* closes the breaker under the first, or dies with it.                      *)
THEOREM ProbesAlone == Spec => []OneProbe
<1>1. Init => ProbeInv
  BY DEF Init, ProbeInv, Probing
<1>2. ProbeInv => OneProbe
  <2> SUFFICES ASSUME ProbeInv PROVE OneProbe
    OBVIOUS
  <2> DEFINE P == {j \in Jobs : Probing(j)}
  <2>1. CASE P = {}
    BY <2>1, FS_EmptySet DEF OneProbe, Probing
  <2>2. CASE P # {}
    <3>1. PICK j \in Jobs : P = {j}
      BY <2>2 DEF ProbeInv
    <3>2. Cardinality(P) = 1
      BY <3>1, FS_Singleton
    <3> QED BY <3>2 DEF OneProbe, Probing
  <2> QED BY <2>1, <2>2
<1> QED BY <1>1, <1>2, ProbeStep, InvInit, InvStep, PTL DEF Spec
=============================================================================
