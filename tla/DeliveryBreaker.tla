--------------------------- MODULE DeliveryBreaker ---------------------------
(***************************************************************************)
(* The circuit breaker and 429 throttle of outbound ActivityPub delivery   *)
(* for one host: the Redis state and Lua scripts of                        *)
(* internal/core/deliveryhealth/breaker.go, driven by the delivery jobs of *)
(* internal/queue/processors/deliver.go on any number of queue nodes.      *)
(*                                                                         *)
(* A job checks the breaker, sends, and reports the outcome: three steps   *)
(* between which every other job, the administrator and time may act.  A   *)
(* Lua script is one atomic step.                                          *)
(*                                                                         *)
(* Times are kept relative to now: a timer counts down to 0, which stands  *)
(* for "passed" and for "not set".  A job that is told to wait is a        *)
(* waiting job that checks again; waking too early changes nothing, so the *)
(* lengths of the waits (breakerHoldCap, breakerProbeWait, jitter) are not *)
(* modelled.  The Ed25519 retry is part of one send.  The suspension gates *)
(* in front of Check are left out.  Failure counts above the threshold are *)
(* not told apart.                                                         *)
(***************************************************************************)
EXTENDS Integers, FiniteSets, FiniteSetsExt

CONSTANTS
    Jobs,             \* delivery jobs for the host
    Threshold,        \* BreakerThreshold
    InitialInterval,  \* BreakerInitialInterval
    MaxInterval,      \* BreakerMaxInterval
    LockTTL,          \* breakerProbeLockTTL
    LongestSend,      \* HTTP timeout of one delivery
    ThrottleTime,     \* the longest time a 429 asks for
    Spacing,          \* throttleSpacing
    Deadlined,        \* jobs with NotAfter set: dropped instead of held
    MaxFaults,        \* bound: crashes, lost reports, local errors, Redis errors
    NoToken           \* no probe token, no lock

ASSUME BreakerAssumption ==
    /\ Threshold \in Nat \ {0} /\ InitialInterval \in Nat \ {0}
    /\ MaxInterval \in Nat /\ InitialInterval <= MaxInterval
    /\ LockTTL \in Nat /\ LongestSend \in Nat \ {0}
    /\ LongestSend < InitialInterval /\ LongestSend < LockTTL
    /\ ThrottleTime \in Nat \ {0} /\ Spacing \in Nat \ {0}
    /\ Deadlined \subseteq Jobs /\ MaxFaults \in Nat
    /\ NoToken \notin Jobs

VARIABLES
    failures,   \* field f of the host's hash, up to Threshold
    open,       \* field o is set
    interval,   \* field i
    probeIn,    \* field p, relative
    lock,       \* value of the probe key: the token of the probe, or NoToken
    lockLeft,   \* its TTL
    throttle,   \* TTL of the throttle key
    slot,       \* last reserved send time, relative
    slotKey,    \* whether the slot key exists (it outlives its time a little)
    resv,       \* reserved send time per job, relative
    indexed,    \* the host is in the index
    dropped,    \* history: List removed it since, when it had become listable
    pc,         \* per job: "waiting", "sending", "throttling", "done"
    sent,       \* how long the job has been sending
    token,      \* attempt.probeToken; a job's attempts follow each other, so
                \* the job stands for the random token of its attempt
    hasState,   \* jobs with attempt.breakerState set
    host,       \* external: "up", "down" or "limiting"
    listing,    \* List: "idle" or "stale", the state it read was not listable
    faults

hashVars == <<failures, open, interval, probeIn>>
lockVars == <<lock, lockLeft>>
holdVars == <<throttle, slot, slotKey, resv>>
indexVars == <<indexed, dropped>>
jobVars == <<pc, sent, token, hasState>>
vars == <<failures, open, interval, probeIn, lock, lockLeft, throttle, slot, slotKey,
          resv, indexed, dropped, pc, sent, token, hasState, host, listing, faults>>

Tokens == Jobs \cup {NoToken}

StoreOK ==
    /\ failures \in 0..Threshold
    /\ interval \in 0..MaxInterval
    /\ probeIn \in 0..interval
    /\ lock \in Tokens
    /\ lockLeft \in 0..LockTTL
    /\ throttle \in 0..ThrottleTime
    /\ slot \in Nat
    /\ resv \in [Jobs -> Nat]
    /\ \A j \in Jobs : resv[j] <= slot

JobsOK ==
    /\ pc \in [Jobs -> {"waiting", "sending", "throttling", "done"}]
    /\ sent \in [Jobs -> 0..LongestSend]
    /\ token \in [Jobs -> Tokens]
    /\ hasState \subseteq Jobs

EnvOK ==
    /\ host \in {"up", "down", "limiting"}
    /\ listing \in {"idle", "stale"}
    /\ faults \in 0..MaxFaults

FlagsOK == open \in BOOLEAN /\ slotKey \in BOOLEAN /\ indexed \in BOOLEAN
           /\ dropped \in BOOLEAN

(* The fields of the hash appear and vanish together, and a lock has time    *)
(* left.                                                                     *)
ShapeOK ==
    /\ open => failures = Threshold /\ interval >= InitialInterval
    /\ ~ open => interval = 0 /\ failures < Threshold
    /\ lock = NoToken <=> lockLeft = 0
    /\ slot > 0 => slotKey

TypeOK == StoreOK /\ JobsOK /\ EnvOK /\ FlagsOK /\ ShapeOK

Init ==
    /\ failures = 0 /\ open = FALSE /\ interval = 0 /\ probeIn = 0
    /\ lock = NoToken /\ lockLeft = 0
    /\ throttle = 0 /\ slot = 0 /\ slotKey = FALSE
    /\ resv = [j \in Jobs |-> 0]
    /\ indexed = FALSE /\ dropped = FALSE
    /\ pc = [j \in Jobs |-> "waiting"]
    /\ sent = [j \in Jobs |-> 0]
    /\ token = [j \in Jobs |-> NoToken]
    /\ hasState = {}
    /\ host \in {"up", "down", "limiting"}
    /\ listing = "idle"
    /\ faults = 0

Fault == faults < MaxFaults /\ faults' = faults + 1

HashExists == open \/ failures > 0

Indexed == indexed' = TRUE /\ dropped' = FALSE

-----------------------------------------------------------------------------
(* checkScript *)

(* The job goes out; tok is its probe token, seen whether Check reported     *)
(* state.                                                                    *)
Send(j, tok, seen) ==
    /\ pc' = [pc EXCEPT ![j] = "sending"]
    /\ sent' = [sent EXCEPT ![j] = 0]
    /\ token' = [token EXCEPT ![j] = tok]
    /\ hasState' = IF seen THEN hasState \cup {j} ELSE hasState \ {j}

(* Handle returns: its locals are gone. *)
Leave(j, where) ==
    /\ pc' = [pc EXCEPT ![j] = where]
    /\ sent' = [sent EXCEPT ![j] = 0]
    /\ token' = [token EXCEPT ![j] = NoToken]
    /\ hasState' = hasState \ {j}

(* holdOrDrop *)
Hold(j) == Leave(j, IF j \in Deadlined THEN "done" ELSE "waiting")

\* Mutant: the next reservation starts where the last one ends up.
ReserveUnspaced(j) ==
    /\ throttle > 0
    /\ slot' = Max({throttle, slot})
    /\ resv' = [resv EXCEPT ![j] = slot']
    /\ slotKey' = TRUE
    /\ UNCHANGED <<lockVars, throttle>>

(* A 429 is in force: reserve a send time behind all earlier ones. *)
Reserve(j) ==
    /\ throttle > 0
    /\ LET s == IF slot > 0 THEN Max({throttle, slot + Spacing}) ELSE throttle IN
       /\ slot' = s
       /\ resv' = [resv EXCEPT ![j] = s]
    /\ slotKey' = TRUE
    /\ UNCHANGED <<lockVars, throttle>>

\* Mutant: a SET without NX.
TakeProbeAnyway(j) ==
    /\ throttle = 0 /\ open /\ probeIn = 0
    /\ lock' = j /\ lockLeft' = LockTTL
    /\ UNCHANGED holdVars

(* Half-open: the first job to set the lock is the probe. *)
TakeProbe(j) ==
    /\ throttle = 0 /\ open /\ probeIn = 0
    /\ lock = NoToken
    /\ lock' = j /\ lockLeft' = LockTTL
    /\ UNCHANGED holdVars

Check(j) ==
    /\ pc[j] = "waiting"
    /\ \/ resv[j] > 0 /\ Hold(j) /\ UNCHANGED <<lockVars, holdVars>>
       \/ resv[j] = 0 /\ Reserve(j) /\ Hold(j)
       \/ resv[j] = 0 /\ TakeProbe(j) /\ Send(j, j, TRUE)
       \/ /\ resv[j] = 0 /\ throttle = 0
          /\ open /\ (probeIn > 0 \/ lock # NoToken)
          /\ Hold(j) /\ UNCHANGED <<lockVars, holdVars>>
       \/ /\ resv[j] = 0 /\ throttle = 0 /\ ~ open
          /\ Send(j, NoToken, HashExists) /\ UNCHANGED <<lockVars, holdVars>>
    /\ UNCHANGED <<hashVars, indexVars, host, listing, faults>>

(* Redis does not answer Check and the delivery goes out.  The script may    *)
(* have run all the same: then a send time is reserved for a job that does   *)
(* not wait for it, or the probe's lock is held by a token nobody has.       *)
CheckUnavailable(j) ==
    /\ Fault
    /\ pc[j] = "waiting"
    /\ \/ resv[j] = 0 /\ (Reserve(j) \/ TakeProbe(j))
       \/ UNCHANGED <<lockVars, holdVars>>
    /\ Send(j, NoToken, FALSE)
    /\ UNCHANGED <<hashVars, indexVars, host, listing>>

-----------------------------------------------------------------------------
(* The outcome of a delivery: recordAttempt. *)

Unlocked == lock' = NoToken /\ lockLeft' = 0

\* Mutant: the index entry goes although a 429 still holds the host.
CloseUnindexes(all) ==
    /\ failures' = 0 /\ open' = FALSE /\ interval' = 0 /\ probeIn' = 0
    /\ Unlocked
    /\ IF all
       THEN throttle' = 0 /\ slot' = 0 /\ slotKey' = FALSE /\ resv' = [j \in Jobs |-> 0]
       ELSE UNCHANGED holdVars
    /\ indexed' = FALSE
    /\ UNCHANGED dropped

(* closeScript *)
Close(all) ==
    /\ failures' = 0 /\ open' = FALSE /\ interval' = 0 /\ probeIn' = 0
    /\ Unlocked
    /\ IF all
       THEN throttle' = 0 /\ slot' = 0 /\ slotKey' = FALSE /\ resv' = [j \in Jobs |-> 0]
       ELSE UNCHANGED holdVars
    /\ indexed' = (indexed /\ (throttle' > 0 \/ slotKey'))
    /\ UNCHANGED dropped

(* RecordSuccess, skipped when Check saw no state. *)
RecordSuccess(j) ==
    IF j \in hasState
    THEN Close(FALSE)
    ELSE UNCHANGED <<hashVars, lockVars, holdVars, indexVars>>

(* A retry, or the last attempt is used up. *)
Retry(j) == Leave(j, "waiting") \/ Leave(j, "done")

(* 2xx, and 4xx other than 429: the host is up and the job is over. *)
Answered(j) ==
    /\ pc[j] = "sending" /\ host = "up"
    /\ RecordSuccess(j)
    /\ Leave(j, "done")
    /\ UNCHANGED <<host, listing, faults>>

RateLimited(j) ==
    /\ pc[j] = "sending" /\ host = "limiting"
    /\ RecordSuccess(j)
    /\ Leave(j, "throttling")
    /\ UNCHANGED <<host, listing, faults>>

(* Throttle: sets the hold anew, leaves the reservations alone. *)
Throttle(j) ==
    /\ pc[j] = "throttling"
    /\ throttle' \in 1..ThrottleTime
    /\ Indexed
    /\ Retry(j)
    /\ UNCHANGED <<hashVars, lockVars, slot, slotKey, resv, host, listing, faults>>

\* Mutant: any failure that carries a token counts as the probe's.
IsProbeStale(j) == token[j] # NoToken

(* The failing delivery is the probe that holds the lock now. *)
IsProbe(j) == token[j] # NoToken /\ lock = token[j]

(* failureScript on an open breaker: only the probe's failure doubles the    *)
(* interval and frees the slot.                                              *)
FailOpen(j) ==
    /\ open
    /\ IF IsProbe(j)
       THEN /\ interval' = Min({interval * 2, MaxInterval})
            /\ probeIn' = interval'
            /\ Unlocked
            /\ Indexed
       ELSE UNCHANGED <<interval, probeIn, lockVars, indexVars>>
    /\ UNCHANGED <<open, failures>>
    /\ Hold(j)

(* ... that reaches the threshold, *)
FailOpens(j) ==
    /\ ~ open /\ failures + 1 >= Threshold
    /\ open' = TRUE /\ failures' = Threshold
    /\ interval' = InitialInterval /\ probeIn' = InitialInterval
    /\ Indexed
    /\ UNCHANGED lockVars
    /\ Hold(j)

(* ... or only counts. *)
FailCounts(j) ==
    /\ ~ open /\ failures + 1 < Threshold
    /\ failures' = failures + 1
    /\ UNCHANGED <<open, interval, probeIn, lockVars, indexVars>>
    /\ Retry(j)

(* No connection, or 5xx. *)
Failed(j) ==
    /\ pc[j] = "sending" /\ host = "down"
    /\ FailOpen(j) \/ FailOpens(j) \/ FailCounts(j)
    /\ UNCHANGED <<holdVars, host, listing, faults>>

(* ReleaseProbe: the send failed on our side. *)
LocalError(j) ==
    /\ Fault
    /\ pc[j] = "sending"
    /\ IF IsProbe(j) THEN Unlocked ELSE UNCHANGED lockVars
    /\ Retry(j)
    /\ UNCHANGED <<hashVars, holdVars, indexVars, host, listing>>

(* The worker dies while it sends, or Redis loses its report. *)
ReportLost(j) ==
    /\ Fault
    /\ pc[j] = "sending"
    /\ Retry(j)
    /\ UNCHANGED <<hashVars, lockVars, holdVars, indexVars, host, listing>>

-----------------------------------------------------------------------------
(* Time, the administrator and the host. *)

Less(n) == IF n = 0 THEN 0 ELSE n - 1

\* Mutant: the probe lock has no TTL.
TickKeepsLock ==
    /\ \A j \in Jobs : pc[j] = "sending" => sent[j] < LongestSend
    /\ sent' = [j \in Jobs |-> IF pc[j] = "sending" THEN sent[j] + 1 ELSE sent[j]]
    /\ probeIn' = Less(probeIn)
    /\ throttle' = Less(throttle) /\ slot' = Less(slot)
    /\ resv' = [j \in Jobs |-> Less(resv[j])]
    /\ UNCHANGED <<failures, open, interval, lockVars, slotKey, indexVars, pc, token,
                   hasState, host, listing, faults>>

Tick ==
    /\ \A j \in Jobs : pc[j] = "sending" => sent[j] < LongestSend
    /\ sent' = [j \in Jobs |-> IF pc[j] = "sending" THEN sent[j] + 1 ELSE sent[j]]
    /\ probeIn' = Less(probeIn)
    /\ lockLeft' = Less(lockLeft)
    /\ lock' = IF lockLeft <= 1 THEN NoToken ELSE lock
    /\ throttle' = Less(throttle) /\ slot' = Less(slot)
    /\ resv' = [j \in Jobs |-> Less(resv[j])]
    /\ UNCHANGED <<failures, open, interval, slotKey, indexVars, pc, token,
                   hasState, host, listing, faults>>

(* breakerFailureWindow passes for a count; breakerStateTTL, eight days, for *)
(* an open breaker that no failure was reported to meanwhile.  That it is up *)
(* within the five minutes of a probe's lock is left out.                    *)
StateForgotten ==
    /\ HashExists /\ (open => lock = NoToken)
    /\ failures' = 0 /\ open' = FALSE /\ interval' = 0 /\ probeIn' = 0
    /\ UNCHANGED <<lockVars, holdVars, indexVars, jobVars, host, listing, faults>>

SlotKeyExpires ==
    /\ slotKey /\ slot = 0
    /\ slotKey' = FALSE
    /\ UNCHANGED <<hashVars, lockVars, throttle, slot, resv, indexVars, jobVars, host,
                   listing, faults>>

AdminCloses ==
    /\ HashExists \/ throttle > 0 \/ slotKey
    /\ Close(TRUE)
    /\ UNCHANGED <<jobVars, host, listing, faults>>

(* state: what List shows *)
Listable == open \/ throttle > 0 \/ slot > 0

(* List reads a listed host's state ... *)
ListReads ==
    /\ listing = "idle" /\ indexed /\ ~ Listable
    /\ listing' = "stale"
    /\ UNCHANGED <<hashVars, lockVars, holdVars, indexVars, jobVars, host, faults>>

(* ... and later removes it if there was nothing to show. *)
ListDropsStale ==
    /\ listing = "stale"
    /\ listing' = "idle"
    /\ indexed' = FALSE
    /\ dropped' = (dropped \/ Listable)
    /\ UNCHANGED <<hashVars, lockVars, holdVars, jobVars, host, faults>>

HostChanges ==
    /\ \E h \in {"up", "down", "limiting"} \ {host} : host' = h
    /\ UNCHANGED <<hashVars, lockVars, holdVars, indexVars, jobVars, listing, faults>>

-----------------------------------------------------------------------------
Respond(j) == Answered(j) \/ RateLimited(j) \/ Throttle(j) \/ Failed(j)

Next ==
    \/ \E j \in Jobs : Check(j) \/ CheckUnavailable(j) \/ Respond(j) \/ LocalError(j)
                       \/ ReportLost(j)
    \/ Tick \/ StateForgotten \/ SlotKeyExpires
    \/ AdminCloses \/ ListReads \/ ListDropsStale \/ HostChanges

Spec == Init /\ [][Next]_vars

(* A held job is put back by its delay and checks again, a send ends by its  *)
(* timeout, and time passes.  The host, the administrator and faults are not *)
(* fair.                                                                     *)
Fairness ==
    /\ WF_vars(Tick)
    /\ \A j \in Jobs : WF_vars(Check(j)) /\ WF_vars(Respond(j))

FairSpec == Spec /\ Fairness

-----------------------------------------------------------------------------
(* Properties. *)

(* Never two half-open probes on their way to the host: not after another    *)
(* delivery's success or an administrator closed the breaker under the       *)
(* probe's feet, not after its worker died.                                  *)
OneProbe ==
    Cardinality({j \in Jobs : pc[j] = "sending" /\ token[j] # NoToken}) <= 1

(* The interval of an open breaker grows only once its time to probe has     *)
(* come: a burst of failures, or a probe from before the breaker was closed  *)
(* and opened again, cannot push the next probe away.                        *)
BackoffRespected ==
    [][open /\ open' /\ interval' > interval => probeIn = 0]_vars

(* The send times reserved by jobs that a 429 holds back never coincide,     *)
(* however many 429s arrive and whatever succeeds meanwhile.                 *)
ReservationsSpaced ==
    \A j, k \in Jobs :
        j # k /\ resv[j] > 0 /\ resv[k] > 0
            => resv[j] - resv[k] >= Spacing \/ resv[k] - resv[j] >= Spacing

(* A host that is held back, by an open breaker, a 429 or a reservation, can *)
(* be seen and closed by an administrator: closing the breaker never hides a *)
(* host that a 429 still holds.  List alone hides one, a host that became    *)
(* listable between its read and its removal, until it is entered again.     *)
IndexComplete == Listable => indexed \/ dropped

(* When the host comes back for good, every delivery is made or given up:    *)
(* neither a dead probe's lock nor the reservations hold one for ever.       *)
AllDelivered ==
    <>[](host = "up") => <>(\A j \in Jobs : pc[j] = "done")
=============================================================================
