---------------------------- MODULE BubbleVersus ----------------------------
(***************************************************************************)
(* One 1:1 match of the bubble game: internal/core/bubbleversus/service.go *)
(* and the match records of internal/repository/bubble_game_versus.go.     *)
(*                                                                         *)
(* The match is one JSON value in Redis.  Every change of it is an         *)
(* optimistic transaction (update, remove): WATCH and read, decide on what *)
(* was read, EXEC, which fails when the key was written in between and is  *)
(* then tried again from the read.  What follows a successful EXEC (touch, *)
(* publish, the two upserts of the database record) are steps of their     *)
(* own, which other requests overtake and which a crash or an error skips. *)
(*                                                                         *)
(* Side 0 invited side 1.  The module follows one match id: inviting again *)
(* with another game mode withdraws this match and creates another one.    *)
(* Time is relative to the agreed start: since = now - StartAt, held at    *)
(* Limit + Disconnect, after which no comparison changes.  The TTL of a    *)
(* running match (30 min) is longer than that, so a running match expires  *)
(* only at that point.  Times of the record, seed, game mode, frames and   *)
(* logs are left out; a report's stones are what garbageInLogs counts.     *)
(***************************************************************************)
EXTENDS Integers, FiniteSets

CONSTANTS
    Reqs,         \* requests in flight
    Slots,        \* the requests each side may use
    Limit,        \* TimeLimit
    Countdown,    \* Countdown
    Disconnect,   \* DisconnectAfter
    Skew,         \* TimeUpSkew
    Reports,      \* the reports clients may send
    MaxSent,      \* bound: counts of stones above it are not told apart
    MaxFaults,    \* bound: crashes and failed calls
    Patient,      \* sides that keep claiming and whose claims are served
                  \* before a running match expires
    None          \* nil

Sides == {0, 1}
Late == Limit + Disconnect
Reasons == {"gameOver", "surrender", "timeUp", "opponentEnded"}

Stored == Reasons \cup {"invalidReport"}
Results == [score : Nat, reason : Stored, garbage : Nat]
Outcomes == [winner : Sides \cup {None}, reason : Stored \cup {"disconnected"}]

ASSUME BubbleAssumption ==
    /\ IsFiniteSet(Reqs)
    /\ Limit \in Nat /\ Countdown \in Nat /\ Disconnect \in Nat /\ Skew \in Nat
    /\ Skew < Disconnect
    /\ MaxSent \in Nat /\ MaxFaults \in Nat
    /\ Reports \subseteq [score : Nat, reason : Reasons, garbage : Nat]
    /\ Slots \in [Sides -> SUBSET Reqs]
    /\ Patient \subseteq Sides
    /\ None \notin Int /\ None \notin Results /\ None \notin Outcomes

VARIABLES
    match,   \* the Redis value; status "none" before Invite, "gone" afterwards
    listed,  \* the match id is in the invitation index of side 1
    since,   \* now - StartAt of a running match
    age,     \* now - the seen key of each side, None while it is missing
    got,     \* stones whose attack event reached the client of each side
    held,    \* got of a side when it sent the report that was stored (history)
    row,     \* the database record: both reports and the outcome
    req,     \* the request a slot works on
    pc,      \* its next step
    draft,   \* its copy of the match: what it EXECs, and the step after that;
             \* None once the watched key was written by someone else
    faults

vars == <<match, listed, since, age, got, held, row, req, pc, draft, faults>>

Matches ==
    [status : {"none", "invited", "accepted", "playing", "ended", "gone"},
     ready : SUBSET Sides,
     sent : [Sides -> 0..MaxSent],
     result : [Sides -> Results \cup {None}],
     outcome : Outcomes \cup {None}]

Fresh ==
    [status |-> "none", ready |-> {}, sent |-> [s \in Sides |-> 0],
     result |-> [s \in Sides |-> None], outcome |-> None]

Ops == {"accept", "decline", "withdraw", "cancel", "ready", "unready", "attack", "claim", "report"}
Requests == [op : Ops, side : Sides, report : Reports \cup {None}, held : 0..MaxSent]
Steps == {"idle", "exec", "unlist", "start0", "start1", "touch", "publish",
          "report", "reportOnly", "finish"}

Recording == {"report", "reportOnly", "finish"}
Drafts == [value : Matches, then : Steps]

MatchOK == match \in Matches /\ draft \in [Reqs -> Drafts \cup {None}]
ClockOK ==
    /\ since \in (0 - Countdown)..Late
    /\ age \in [Sides -> ((0 - Countdown)..Disconnect) \cup {None}]
ClientsOK == got \in [Sides -> 0..MaxSent] /\ held \in [Sides -> 0..MaxSent]
RowOK == row \in [report : [Sides -> Results \cup {None}], outcome : Outcomes \cup {None}]
RequestsOK ==
    /\ req \in [Reqs -> Requests \cup {None}]
    /\ pc \in [Reqs -> Steps]
    /\ \A r \in Reqs : /\ pc[r] # "idle" => req[r] \in Requests
                       /\ pc[r] \in Recording => draft[r] \in Drafts
                       /\ pc[r] # "idle" /\ req[r].op = "report" => req[r].report \in Reports

(* Shapes of the state.                                                      *)
TypeOK ==
    /\ MatchOK /\ ClockOK /\ ClientsOK /\ RowOK /\ RequestsOK
    /\ listed \in BOOLEAN /\ faults \in 0..MaxFaults

Init ==
    /\ match = Fresh /\ listed = FALSE
    /\ since = 0 - Countdown /\ age = [s \in Sides |-> None]
    /\ got = [s \in Sides |-> 0] /\ held = [s \in Sides |-> 0]
    /\ row = [report |-> [s \in Sides |-> None], outcome |-> None]
    /\ req = [r \in Reqs |-> None] /\ pc = [r \in Reqs |-> "idle"]
    /\ draft = [r \in Reqs |-> None]
    /\ faults = 0

Over(m) == m.status \in {"ended", "gone"}

(* Seen keys of a match that is over are not read any more and not kept.     *)
Seen(s, at) == age' = IF Over(match) THEN age ELSE [age EXCEPT ![s] = at]

Least(a, b) == IF a < b THEN a ELSE b
Opp(s) == 1 - s

----------------------------------------------------------------------------
(* What the closures given to update and remove decide on the match read.    *)

MayAccept(m, s) == s = 1 /\ m.status = "invited"

Accepted(m) == [m EXCEPT !.status = "accepted"]

MayDecline(m, s) == s = 1 /\ m.status = "invited"

CancelCheck(m, s) ==
    /\ m.status \in {"invited", "accepted"}
    /\ m.status = "invited" => s = 0

(* invitedOnly: the inviter invites again with another game mode.            *)
InvitedOnly(m, s) == s = 0 /\ m.status = "invited"

Removed(m) == [m EXCEPT !.status = "gone"]

MayReady(m, s) == m.status = "accepted"

ReadySet(m, s, on) ==
    LET who == IF on THEN m.ready \cup {s} ELSE m.ready \ {s}
    IN  [m EXCEPT !.ready = who,
                  !.status = IF who = Sides THEN "playing" ELSE "accepted"]

MayAttackLate(m, s) == m.status = "playing" /\ since >= 0
MayAttack(m, s) == m.status = "playing" /\ since >= 0 /\ since <= Limit + Skew

Attacked(m, s) == [m EXCEPT !.sent[s] = Least(@ + 1, MaxSent)]

(* A missing seen key counts from the start.                                 *)
Silence(s) == IF age[s] = None THEN since ELSE age[s]

MayClaim(m, s) ==
    /\ m.status = "playing"
    /\ m.result[Opp(s)] = None
    /\ since >= Disconnect
    /\ \/ m.result[s] # None /\ since >= Limit + Disconnect
       \/ Silence(Opp(s)) >= Disconnect

Ended(m, w, why) == [m EXCEPT !.status = "ended", !.outcome = [winner |-> w, reason |-> why]]

Claimed(m, s) == Ended(m, s, "disconnected")

(* More stones than the opponent sent: the report is kept as invalid.        *)
ImpossibleOwn(m, s, res) == res.garbage > m.sent[s]
Impossible(m, s, res) == res.garbage > m.sent[Opp(s)]

Kept(m, s, res) == IF Impossible(m, s, res) THEN [res EXCEPT !.reason = "invalidReport"] ELSE res

MayReport(m, s, res) ==
    /\ m.status \in {"playing", "ended"}
    /\ m.result[s] = None
    /\ res.reason = "opponentEnded" => m.status = "ended"
    /\ m.status = "playing" /\ res.reason = "timeUp" /\ ~ Impossible(m, s, res)
          => since >= Limit - Skew

BetterOnTie(m, s, res) == IF res.score >= m.result[Opp(s)].score THEN s ELSE Opp(s)
Better(m, s, res) ==
    LET other == m.result[Opp(s)].score
    IN  CASE res.score > other -> s
          [] res.score < other -> Opp(s)
          [] OTHER -> None

ReportedTieWaits(m, s, res) ==
    LET kept == Kept(m, s, res)
        with == [m EXCEPT !.result[s] = kept]
    IN  IF m.status = "ended" THEN with
        ELSE IF kept.reason # "timeUp" THEN Ended(with, Opp(s), kept.reason)
        ELSE IF m.result[Opp(s)] = None \/ Better(m, s, res) = None THEN with
        ELSE Ended(with, Better(m, s, res), "timeUp")
Reported(m, s, res) ==
    LET kept == Kept(m, s, res)
        with == [m EXCEPT !.result[s] = kept]
    IN  IF m.status = "ended" THEN with
        ELSE IF kept.reason # "timeUp" THEN Ended(with, Opp(s), kept.reason)
        ELSE IF m.result[Opp(s)] = None THEN with
        ELSE Ended(with, Better(m, s, res), "timeUp")

Permits(m, q) ==
    CASE q.op = "accept" -> MayAccept(m, q.side)
      [] q.op = "decline" -> MayDecline(m, q.side)
      [] q.op = "withdraw" -> InvitedOnly(m, q.side)
      [] q.op = "cancel" -> CancelCheck(m, q.side)
      [] q.op \in {"ready", "unready"} -> MayReady(m, q.side)
      [] q.op = "attack" -> MayAttack(m, q.side)
      [] q.op = "claim" -> MayClaim(m, q.side)
      [] q.op = "report" -> MayReport(m, q.side, q.report)

Change(m, q) ==
    CASE q.op = "accept" -> Accepted(m)
      [] q.op \in {"decline", "withdraw", "cancel"} -> Removed(m)
      [] q.op \in {"ready", "unready"} -> ReadySet(m, q.side, q.op = "ready")
      [] q.op = "attack" -> Attacked(m, q.side)
      [] q.op = "claim" -> Claimed(m, q.side)
      [] q.op = "report" -> Reported(m, q.side, q.report)

(* The step after the EXEC of what q makes of m.                             *)
Then(m, q) ==
    CASE q.op = "accept" -> "unlist"
      [] q.op \in {"decline", "withdraw", "cancel"} -> "idle"
      [] q.op \in {"ready", "unready"} -> IF Change(m, q).status = "playing" THEN "start0" ELSE "idle"
      [] q.op = "attack" -> "touch"
      [] q.op = "claim" -> "finish"
      [] q.op = "report" -> IF Change(m, q).status # m.status THEN "report" ELSE "reportOnly"

----------------------------------------------------------------------------
(* Requests.                                                                 *)

(* Invite: the new match and its index entry are one MULTI.                  *)
Invite ==
    /\ match.status = "none"
    /\ match' = [match EXCEPT !.status = "invited"]
    /\ listed' = TRUE
    /\ UNCHANGED <<since, age, got, held, row, req, pc, draft, faults>>

(* WATCH, GET and the closure; a refused request has no effect and is not    *)
(* modelled.                                                                 *)
Read(r, q) ==
    /\ Permits(match, q)
    /\ req' = [req EXCEPT ![r] = q]
    /\ draft' = [draft EXCEPT ![r] = [value |-> Change(match, q), then |-> Then(match, q)]]
    /\ pc' = [pc EXCEPT ![r] = "exec"]
    /\ UNCHANGED <<match, listed, since, age, got, held, row, faults>>

Submit(r, q) == pc[r] = "idle" /\ r \in Slots[q.side] /\ Read(r, q)

Simple(op, s) == [op |-> op, side |-> s, report |-> None, held |-> 0]

Ask(r) ==
    \E s \in Sides :
       \/ \E op \in Ops \ {"report"} : Submit(r, Simple(op, s))
       \/ \E res \in Reports :
             Submit(r, [op |-> "report", side |-> s, report |-> res, held |-> got[s]])

(* A request keeps its copy of the match for as long as it needs it.         *)
Goto(r, step) ==
    /\ pc' = [pc EXCEPT ![r] = step]
    /\ req' = IF step = "idle" THEN [req EXCEPT ![r] = None] ELSE req
    /\ draft' = IF step \in Recording THEN draft ELSE [draft EXCEPT ![r] = None]

(* The clocks of a match that is over stand still.                           *)
Forget(m) ==
    IF Over(m) THEN since' = 0 - Countdown /\ age' = [s \in Sides |-> None]
    ELSE UNCHANGED <<since, age>>

(* EXEC with the key unwritten since the read; whoever else has read it must *)
(* read it again.                                                            *)
OvertakenUnlocked(r) == [draft EXCEPT ![r] = IF @.then \in Recording THEN @ ELSE None]
Overtaken(r) ==
    [x \in Reqs |-> CASE x = r -> IF draft[r].then \in Recording THEN draft[r] ELSE None
                      [] x # r /\ pc[x] = "exec" -> None
                      [] OTHER -> draft[x]]

(* remove deletes the index entry in the same transaction.                   *)
Exec(r) ==
    /\ pc[r] = "exec" /\ draft[r] # None
    /\ match' = draft[r].value
    /\ draft' = Overtaken(r)
    /\ pc' = [pc EXCEPT ![r] = draft[r].then]
    /\ req' = IF draft[r].then = "idle" THEN [req EXCEPT ![r] = None] ELSE req
    /\ listed' = (listed /\ draft[r].value.status # "gone")
    /\ held' = IF req[r].op = "report" THEN [held EXCEPT ![req[r].side] = req[r].held] ELSE held
    /\ Forget(draft[r].value)
    /\ UNCHANGED <<got, row, faults>>

(* TxFailedErr: read and decide again, with another outcome perhaps.         *)
Retry(r) ==
    /\ pc[r] = "exec" /\ draft[r] = None
    /\ \/ Read(r, req[r])
       \/ /\ ~ Permits(match, req[r])
          /\ Goto(r, "idle")
          /\ UNCHANGED <<match, listed, since, age, got, held, row, faults>>

(* Accept takes the invitation off the index.                                *)
Unlist(r) ==
    /\ pc[r] = "unlist"
    /\ listed' = FALSE
    /\ Goto(r, "idle")
    /\ UNCHANGED <<match, since, age, got, held, row, faults>>

(* Ready: both sides were last seen at the start, which is yet to come.      *)
TouchStart(r) ==
    \E s \in Sides :
       /\ pc[r] = IF s = 0 THEN "start0" ELSE "start1"
       /\ Seen(s, Least(since, Disconnect))
       /\ Goto(r, IF s = 0 THEN "start1" ELSE "idle")
       /\ UNCHANGED <<match, listed, since, got, held, row, faults>>

Touch(r) ==
    /\ pc[r] = "touch"
    /\ Seen(req[r].side, 0)
    /\ Goto(r, "publish")
    /\ UNCHANGED <<match, listed, since, got, held, row, faults>>

(* The attack event reaches the opponent's client, or is lost.               *)
Publish(r) ==
    /\ pc[r] = "publish"
    /\ \/ got' = [got EXCEPT ![Opp(req[r].side)] = Least(@ + 1, MaxSent)]
       \/ got' = got
    /\ Goto(r, "idle")
    /\ UNCHANGED <<match, listed, since, age, held, row, faults>>

(* SaveReport: an upsert of this side's columns only.  What is stored is the *)
(* judged report.                                                            *)
SaveReportAsSent(r) ==
    /\ pc[r] \in {"report", "reportOnly"}
    /\ row' = [row EXCEPT !.report[req[r].side] = req[r].report]
    /\ Goto(r, IF pc[r] = "report" THEN "finish" ELSE "idle")
    /\ UNCHANGED <<match, listed, since, age, got, held, faults>>
SaveReport(r) ==
    /\ pc[r] \in {"report", "reportOnly"}
    /\ row' = [row EXCEPT !.report[req[r].side] = draft[r].value.result[req[r].side]]
    /\ Goto(r, IF pc[r] = "report" THEN "finish" ELSE "idle")
    /\ UNCHANGED <<match, listed, since, age, got, held, faults>>

(* Finish: an upsert of the outcome's columns only.                          *)
Finish(r) ==
    /\ pc[r] = "finish"
    /\ row' = [row EXCEPT !.outcome = draft[r].value.outcome]
    /\ Goto(r, "idle")
    /\ UNCHANGED <<match, listed, since, age, got, held, faults>>

----------------------------------------------------------------------------
(* The environment.                                                          *)

(* State: the client's board summary; only the seen key is written.          *)
State(s) ==
    /\ match.status \in {"accepted", "playing"}
    /\ age' = [age EXCEPT ![s] = 0]
    /\ UNCHANGED <<match, listed, since, got, held, row, req, pc, draft, faults>>

(* Invitations drops index entries of answered or expired matches.           *)
InvitationsAll ==
    /\ listed
    /\ listed' = FALSE
    /\ UNCHANGED <<match, since, age, got, held, row, req, pc, draft, faults>>
Invitations ==
    /\ listed /\ match.status # "invited"
    /\ listed' = FALSE
    /\ UNCHANGED <<match, since, age, got, held, row, req, pc, draft, faults>>

Tick ==
    /\ match.status = "playing" /\ since < Late
    /\ since' = since + 1
    /\ age' = [s \in Sides |-> IF age[s] = None THEN None ELSE Least(age[s] + 1, Disconnect)]
    /\ UNCHANGED <<match, listed, got, held, row, req, pc, draft, faults>>

(* The key's TTL runs out; a request does not last that long.  The fields of *)
(* a gone match are history.                                                 *)
Expire ==
    /\ match.status \in {"invited", "accepted", "playing", "ended"}
    /\ match.status = "playing" => since = Late /\ Patient = {}
    /\ \A r \in Reqs : pc[r] = "idle"
    /\ match' = [match EXCEPT !.status = "gone"]
    /\ Forget(match')
    /\ UNCHANGED <<listed, got, held, row, req, pc, draft, faults>>

(* The process dies, or a call to Redis or the database fails and the        *)
(* request goes no further; before its EXEC it has had no effect.            *)
Crash(r) ==
    /\ pc[r] \notin {"idle", "exec"} /\ faults < MaxFaults
    /\ faults' = faults + 1
    /\ Goto(r, "idle")
    /\ UNCHANGED <<match, listed, since, age, got, held, row>>

(* SaveReport fails; the service logs it and goes on to Finish.              *)
SaveReportFails(r) ==
    /\ pc[r] = "report" /\ faults < MaxFaults
    /\ faults' = faults + 1
    /\ Goto(r, "finish")
    /\ UNCHANGED <<match, listed, since, age, got, held, row>>

Serve(r) ==
    \/ Exec(r) \/ Retry(r) \/ Unlist(r) \/ TouchStart(r) \/ Touch(r)
    \/ Publish(r) \/ SaveReport(r) \/ Finish(r)

Next ==
    \/ Invite \/ Invitations \/ Tick \/ Expire
    \/ \E s \in Sides : State(s)
    \/ \E r \in Reqs : Ask(r) \/ Serve(r) \/ Crash(r) \/ SaveReportFails(r)

Spec == Init /\ [][Next]_vars

(* Time passes, requests in flight are served, and a patient side asks for   *)
(* the win again and again.                                                  *)
Fairness ==
    /\ WF_vars(Tick)
    /\ \A r \in Reqs : WF_vars(Serve(r))
    /\ \A s \in Patient : WF_vars(\E r \in Slots[s] : Submit(r, Simple("claim", s)))

LiveSpec == Spec /\ Fairness

----------------------------------------------------------------------------
(* Properties.                                                               *)

(* Two time-up reports decide the match, however they interleave: a running  *)
(* match never holds both, in which case neither side could end it any more  *)
(* (SubmitReport refuses a second report, ClaimDisconnected a reported       *)
(* opponent).                                                                *)
BothReportedDecided ==
    match.status = "playing" => \E s \in Sides : match.result[s] = None

Justified(m) ==
    LET o == m.outcome
    IN  /\ o # None
        /\ o.reason = "timeUp" =>
              \A s \in Sides : /\ m.result[s] # None /\ m.result[s].reason = "timeUp"
                               /\ (o.winner = s) <=> m.result[s].score > m.result[Opp(s)].score
        /\ o.reason # "timeUp" => o.winner \in Sides
        /\ o.reason \notin {"timeUp", "disconnected"} =>
              LET lost == m.result[Opp(o.winner)] IN lost # None /\ lost.reason = o.reason

(* The outcome follows from the stored reports: the loser reported the loss, *)
(* or both reported the end of the time and the score decides.               *)
OutcomeJustified == match.status = "ended" => Justified(match)

(* A report with no more stones than had reached the client when it was sent *)
(* is never judged invalid: the attack is counted before it is published.    *)
HonestNeverInvalid ==
    \A s \in Sides :
        match.result[s] # None /\ match.result[s].garbage <= held[s]
            => match.result[s].reason # "invalidReport"

(* The record never disagrees with the match, in whatever order the upserts  *)
(* of two requests arrive, and lacks nothing once they are done unless a     *)
(* call failed.                                                              *)
RecordAgrees ==
    /\ \A s \in Sides : row.report[s] \in {None, match.result[s]}
    /\ row.outcome \in {None, match.outcome}
    /\ faults = 0 /\ (\A r \in Reqs : pc[r] = "idle")
          => row = [report |-> match.result, outcome |-> match.outcome]

(* The invited user finds every open invitation in the index.                *)
InvitationListed == match.status = "invited" => listed

(* The outcome and a stored report never change, and a match in play ends    *)
(* with an outcome or by its TTL, never by a removal.                        *)
OutcomeFinal ==
    /\ match.outcome # None => match'.outcome = match.outcome
    /\ \A s \in Sides : match.result[s] # None => match'.result[s] = match.result[s]
    /\ match.status = "playing" /\ match'.status = "gone" => since = Late

(* A player whose report is in does not lose the match as disconnected.      *)
ReporterNotDisconnected ==
    \A s \in Sides :
        match.outcome = None /\ match'.outcome = [winner |-> Opp(s), reason |-> "disconnected"]
            => match.result[s] = None

(* Inviting again with other settings withdraws an unanswered invitation     *)
(* only: a match the other side accepted meanwhile stays.                    *)
AcceptedKept ==
    \A r \in Reqs :
        pc[r] = "exec" /\ pc'[r] # "exec" /\ req[r].op \in {"withdraw", "decline"}
            /\ match.status = "accepted"
            => match'.status = "accepted"

(* What the players have been told stays true, whatever overtakes what: the  *)
(* outcome and the reports, the match of a player who accepted, and the      *)
(* standing of one who has reported (update, remove, ClaimDisconnected).     *)
NothingTakenBack == [][OutcomeFinal /\ ReporterNotDisconnected /\ AcceptedKept]_vars

(* A patient player whose report is in is not kept waiting: the opponent may *)
(* go on sending boards and attacks, but the match gets decided.             *)
NoStalling ==
    \A s \in Patient :
        match.status = "playing" /\ match.result[s] # None ~> match.status = "ended"
=============================================================================
