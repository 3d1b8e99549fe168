------------------------- MODULE BubbleVersusProofs -------------------------
(***************************************************************************)
(* What holds of every match of BubbleVersus, for any number of requests   *)
(* and any lengths of time.                                                *)
(*                                                                         *)
(* The heart is LockInv: a request that may still EXEC holds exactly what  *)
(* its closure makes of the CURRENT match, because every write of the key  *)
(* takes the drafts of the others away.  So an EXEC is a step of one       *)
(* closure on the current match, and each property is a fact about one     *)
(* closure (ChangeKeeps).  Only the clock may have moved since the read;   *)
(* Timeless is what remains of the closure's condition then.               *)
(***************************************************************************)
EXTENDS BubbleVersus, FiniteSetTheorems, TLAPS

Timeless(m, q) ==
    CASE q.op = "accept" -> MayAccept(m, q.side)
      [] q.op = "decline" -> MayDecline(m, q.side)
      [] q.op = "withdraw" -> InvitedOnly(m, q.side)
      [] q.op = "cancel" -> CancelCheck(m, q.side)
      [] q.op \in {"ready", "unready"} -> MayReady(m, q.side)
      [] q.op = "attack" -> m.status = "playing"
      [] q.op = "claim" -> m.status = "playing" /\ m.result[Opp(q.side)] = None
      [] q.op = "report" -> /\ m.status \in {"playing", "ended"}
                            /\ m.result[q.side] = None
                            /\ q.report.reason = "opponentEnded" => m.status = "ended"

LockInv ==
    \A r \in Reqs : pc[r] = "exec" /\ draft[r] # None =>
        /\ Timeless(match, req[r])
        /\ draft[r].value = Change(match, req[r])
        /\ draft[r].then = Then(match, req[r])

(* What a match holds in each status.                                        *)
ShapeOf(m) ==
    /\ m.status \in {"none", "invited", "accepted"} =>
          m.outcome = None /\ \A s \in Sides : m.result[s] = None
    /\ m.status = "playing" =>
          /\ m.outcome = None
          /\ \A s \in Sides : m.result[s] = None \/ m.result[s].reason = "timeUp"
          /\ \E s \in Sides : m.result[s] = None
    /\ m.status = "ended" => Justified(m)

(* A request on its way to the record carries what the match says.           *)
CopyInv ==
    \A r \in Reqs :
        /\ pc[r] \in {"report", "reportOnly"} =>
              /\ match.result[req[r].side] # None
              /\ draft[r].value.result[req[r].side] = match.result[req[r].side]
        /\ pc[r] \in {"report", "finish"} =>
              match.outcome # None /\ draft[r].value.outcome = match.outcome

(* The record lags behind the match only by what is on its way to it.        *)
RowInv ==
    /\ \A s \in Sides :
          /\ row.report[s] \in {None, match.result[s]}
          /\ faults = 0 => \/ row.report[s] = match.result[s]
                           \/ \E r \in Reqs : pc[r] \in {"report", "reportOnly"} /\ req[r].side = s
    /\ row.outcome \in {None, match.outcome}
    /\ faults = 0 => \/ row.outcome = match.outcome
                     \/ \E r \in Reqs : pc[r] \in {"report", "finish"}

(* Who takes a match off the index has seen it accepted.                     *)
ListedInv ==
    /\ InvitationListed
    /\ \A r \in Reqs : pc[r] = "unlist" => match.status \notin {"none", "invited"}

IInv == TypeOK /\ LockInv /\ ShapeOf(match) /\ CopyInv /\ RowInv /\ ListedInv

----------------------------------------------------------------------------
(* The closures.                                                             *)

GoodRequest(q) == q \in Requests /\ (q.op = "report" => q.report \in Reports)

(* A permitted request is permitted whatever the clock does afterwards.      *)
LEMMA PermitsTimeless == ASSUME NEW m, NEW q, GoodRequest(q), Permits(m, q)
                         PROVE  Timeless(m, q)
<1>1. q.op \in Ops
  BY DEF GoodRequest, Requests
<1>2. CASE q.op \in {"accept", "decline", "withdraw", "cancel", "ready", "unready"}
  BY <1>2 DEF Permits, Timeless
<1>3. CASE q.op = "attack"
  BY <1>3 DEF Permits, Timeless, MayAttack
<1>4. CASE q.op = "claim"
  BY <1>4 DEF Permits, Timeless, MayClaim
<1>5. CASE q.op = "report"
  BY <1>5 DEF Permits, Timeless, MayReport
<1>6. QED
  BY <1>1, <1>2, <1>3, <1>4, <1>5 DEF Ops

LEMMA KeptType == ASSUME NEW m \in Matches, NEW s \in Sides, NEW res \in Reports
                  PROVE  /\ Kept(m, s, res) \in Results
                         /\ Kept(m, s, res) # None
                         /\ Kept(m, s, res).score = res.score
                         /\ Kept(m, s, res).reason \in {res.reason, "invalidReport"}
<1>1. res \in [score : Nat, reason : Reasons, garbage : Nat]
  BY BubbleAssumption
<1>2. Kept(m, s, res) \in Results
  BY <1>1 DEF Kept, Results, Stored
<1>3. Kept(m, s, res) # None
  BY <1>2, BubbleAssumption
<1>4. Kept(m, s, res).score = res.score /\ Kept(m, s, res).reason \in {res.reason, "invalidReport"}
  BY <1>1 DEF Kept
<1>5. QED
  BY <1>2, <1>3, <1>4

LEMMA BetterType == ASSUME NEW m \in Matches, NEW s \in Sides, NEW res \in Reports,
                           m.result[Opp(s)] # None
                    PROVE  /\ Better(m, s, res) \in Sides \cup {None}
                           /\ (Better(m, s, res) = s) <=> (res.score > m.result[Opp(s)].score)
                           /\ (Better(m, s, res) = Opp(s)) <=> (m.result[Opp(s)].score > res.score)
<1>1. res.score \in Nat
  BY BubbleAssumption
<1>2. Opp(s) \in Sides /\ Opp(s) # s /\ s # None /\ Opp(s) # None
  BY BubbleAssumption DEF Opp, Sides
<1>3. m.result[Opp(s)] \in Results
  BY <1>2 DEF Matches
<1>4. m.result[Opp(s)].score \in Nat
  BY <1>3 DEF Results
<1>5. QED
  BY <1>1, <1>2, <1>4 DEF Better

(* What the closures make of a m is a match.                           *)
LEMMA ChangeType == ASSUME NEW m \in Matches, NEW q, GoodRequest(q), Timeless(m, q)
                    PROVE  Change(m, q) \in Matches /\ Then(m, q) \in Steps
<1>1. q.op \in Ops /\ q.side \in Sides /\ Opp(q.side) \in Sides
  BY DEF GoodRequest, Requests, Opp, Sides
<1>2. CASE q.op = "accept"
  BY <1>2 DEF Change, Then, Steps, Accepted, Matches
<1>3. CASE q.op \in {"decline", "withdraw", "cancel"}
  BY <1>3 DEF Change, Then, Steps, Removed, Matches
<1>4. CASE q.op \in {"ready", "unready"}
  BY <1>1, <1>4 DEF Change, Then, Steps, ReadySet, Matches
<1>5. CASE q.op = "attack"
  <2>1. Least(m.sent[q.side] + 1, MaxSent) \in 0..MaxSent
    BY <1>1, BubbleAssumption DEF Matches, Least
  <2>2. Attacked(m, q.side) \in Matches
    BY <1>1, <2>1 DEF Attacked, Matches
  <2>3. QED
    BY <1>5, <2>2 DEF Change, Then, Steps
<1>6. CASE q.op = "claim"
  <2>1. [winner |-> q.side, reason |-> "disconnected"] \in Outcomes
    BY <1>1 DEF Outcomes
  <2>2. Claimed(m, q.side) \in Matches
    BY <2>1 DEF Claimed, Ended, Matches
  <2>3. QED
    BY <1>6, <2>2 DEF Change, Then, Steps
<1>7. CASE q.op = "report"
  <2> DEFINE kept == Kept(m, q.side, q.report)
             with == [m EXCEPT !.result[q.side] = kept]
  <2>1. q.report \in Reports
    BY <1>7 DEF GoodRequest
  <2>2. kept \in Results
    BY <1>1, <2>1, KeptType
  <2>3. with \in Matches
    BY <1>1, <2>2 DEF Matches
  <2>4. \A w \in Sides \cup {None}, why \in Stored : Ended(with, w, why) \in Matches
    BY <2>3 DEF Ended, Matches, Outcomes
  <2>5. kept.reason \in Stored /\ "timeUp" \in Stored
    BY <2>2 DEF Results, Stored, Reasons
  <2>6. m.result[Opp(q.side)] # None => Better(m, q.side, q.report) \in Sides \cup {None}
    BY <1>1, <2>1, BetterType
  <2> HIDE DEF kept, with
  <2>7. Reported(m, q.side, q.report) \in Matches
    BY <1>1, <2>3, <2>4, <2>5, <2>6 DEF Reported, kept, with
  <2>8. QED
    BY <1>7, <2>7 DEF Change, Then, Steps
<1>8. QED
  BY <1>1, <1>2, <1>3, <1>4, <1>5, <1>6, <1>7 DEF Ops

(* What no closure does to a m, and what a report and a claim do.        *)
Keeps(m, q, d) ==
    /\ m.outcome # None => d.outcome = m.outcome
    /\ \A s \in Sides : m.result[s] # None => d.result[s] = m.result[s]
    /\ \A s \in Sides : d.result[s] # m.result[s] => q.op = "report" /\ s = q.side
    /\ d.outcome # m.outcome =>
          /\ q.op \in {"claim", "report"} /\ d.outcome # None
          /\ q.op = "report" => d.status # m.status
    /\ q.op = "report" => d.result[q.side] # None
    /\ q.op = "report" /\ d.status # m.status => d.outcome # None
    /\ q.op = "claim" => d.outcome # None
    /\ d.status \notin {"none", "invited"}
    /\ d.status = "gone" => m.status \in {"invited", "accepted"}
    /\ \A s \in Sides :
          m.outcome = None /\ d.outcome = [winner |-> Opp(s), reason |-> "disconnected"]
              => m.result[s] = None

LEMMA ChangeKeeps == ASSUME NEW m \in Matches, NEW q, GoodRequest(q), Timeless(m, q), ShapeOf(m)
                     PROVE  ShapeOf(Change(m, q)) /\ Keeps(m, q, Change(m, q))
<1>1. q.op \in Ops /\ q.side \in Sides /\ Opp(q.side) \in Sides /\ Opp(Opp(q.side)) = q.side
  BY DEF GoodRequest, Requests, Opp, Sides
<1>9. \A s \in Sides : [winner |-> Opp(s), reason |-> "disconnected"] # None
  BY BubbleAssumption DEF Outcomes, Opp, Sides
<1>2. CASE q.op = "accept"
  <2>1. Change(m, q) = Accepted(m) /\ m.status = "invited"
    BY <1>2 DEF Change, Timeless, MayAccept
  <2>2. ShapeOf(Accepted(m))
    BY <2>1 DEF ShapeOf, Accepted, Matches
  <2>3. Keeps(m, q, Accepted(m))
    BY <1>2, <2>1 DEF ShapeOf, Accepted, Matches, Keeps
  <2>4. QED
    BY <2>1, <2>2, <2>3
<1>3. CASE q.op \in {"decline", "withdraw", "cancel"}
  <2>1. Change(m, q) = Removed(m) /\ m.status \in {"invited", "accepted"}
    BY <1>3 DEF Change, Timeless, MayDecline, InvitedOnly, CancelCheck
  <2>2. ShapeOf(Removed(m))
    BY <2>1 DEF ShapeOf, Removed, Matches
  <2>3. Keeps(m, q, Removed(m))
    BY <1>3, <2>1 DEF ShapeOf, Removed, Matches, Keeps
  <2>4. QED
    BY <2>1, <2>2, <2>3
<1>4. CASE q.op \in {"ready", "unready"}
  <2> DEFINE d == ReadySet(m, q.side, q.op = "ready")
  <2>1. Change(m, q) = d /\ m.status = "accepted"
    BY <1>4 DEF Change, Timeless, MayReady
  <2>2. /\ d.status \in {"accepted", "playing"}
        /\ d.result = m.result /\ d.outcome = m.outcome
    BY DEF ReadySet, Matches
  <2> HIDE DEF d
  <2>3. ShapeOf(d)
    BY <2>1, <2>2 DEF ShapeOf, Sides
  <2>4. Keeps(m, q, d)
    BY <1>4, <2>1, <2>2 DEF ShapeOf, Keeps
  <2>5. QED
    BY <2>1, <2>3, <2>4
<1>5. CASE q.op = "attack"
  <2> DEFINE d == Attacked(m, q.side)
  <2>1. Change(m, q) = d /\ m.status = "playing"
    BY <1>5 DEF Change, Timeless
  <2>2. d.status = m.status /\ d.result = m.result /\ d.outcome = m.outcome
    BY DEF Attacked, Matches
  <2> HIDE DEF d
  <2>3. ShapeOf(d) /\ Keeps(m, q, d)
    BY <1>5, <1>9, <2>1, <2>2 DEF ShapeOf, Keeps
  <2>4. QED
    BY <2>1, <2>3
<1>6. CASE q.op = "claim"
  <2> DEFINE d == Claimed(m, q.side)
             o == [winner |-> q.side, reason |-> "disconnected"]
  <2>1. Change(m, q) = d /\ m.status = "playing" /\ m.result[Opp(q.side)] = None
    BY <1>6 DEF Change, Timeless
  <2>2. d.status = "ended" /\ d.result = m.result /\ d.outcome = o
    BY DEF Claimed, Ended, Matches
  <2>3. o \in Outcomes /\ o # None /\ o.winner = q.side /\ o.reason = "disconnected"
    BY <1>1, BubbleAssumption DEF Outcomes
  <2>4. m.outcome = None
    BY <2>1 DEF ShapeOf
  <2>5. \A s \in Sides : o = [winner |-> Opp(s), reason |-> "disconnected"] => s = Opp(q.side)
    BY <1>1 DEF Opp, Sides
  <2> HIDE DEF d, o
  <2>6. ShapeOf(d)
    BY <1>1, <2>2, <2>3 DEF ShapeOf, Justified
  <2>7. Keeps(m, q, d)
    BY <1>6, <2>1, <2>2, <2>3, <2>4, <2>5 DEF Keeps
  <2>8. QED
    BY <2>1, <2>6, <2>7
<1>7. CASE q.op = "report"
  <2> DEFINE kept == Kept(m, q.side, q.report)
             with == [m EXCEPT !.result[q.side] = kept]
             d == Reported(m, q.side, q.report)
  <2>1. /\ Change(m, q) = d
        /\ m.status \in {"playing", "ended"} /\ m.result[q.side] = None
        /\ q.report.reason = "opponentEnded" => m.status = "ended"
    BY <1>7 DEF Change, Timeless
  <2>2. q.report \in Reports
    BY <1>7 DEF GoodRequest
  <2>3. /\ kept \in Results /\ kept # None /\ kept.score = q.report.score
        /\ kept.reason \in {q.report.reason, "invalidReport"}
    BY <1>1, <2>2, KeptType
  <2>4. /\ with.status = m.status /\ with.outcome = m.outcome
        /\ with.result = [m.result EXCEPT ![q.side] = kept]
        /\ with.result[q.side] = kept
        /\ with.result[Opp(q.side)] = m.result[Opp(q.side)]
        /\ \A s \in Sides : s # q.side => with.result[s] = m.result[s]
    BY <1>1 DEF Matches, Opp, Sides
  <2>5. \A w, why : /\ Ended(with, w, why).status = "ended"
                    /\ Ended(with, w, why).result = with.result
                    /\ Ended(with, w, why).outcome = [winner |-> w, reason |-> why]
    BY DEF Ended, Matches
  <2>6. \A w \in Sides \cup {None}, why \in Stored : [winner |-> w, reason |-> why] # None
    BY BubbleAssumption DEF Outcomes
  <2>7. kept.reason \in Stored /\ kept.reason # "disconnected" /\ "timeUp" \in Stored
    BY <2>3 DEF Results, Stored, Reasons
  <2>8. \A s \in Sides : s = q.side \/ s = Opp(q.side)
    BY <1>1 DEF Opp, Sides
  <2>9. CASE m.status = "ended"
    <3>1. d = with
      BY <2>9 DEF Reported
    <3>2. Justified(m)
      BY <2>9 DEF ShapeOf
    <3> HIDE DEF d, with, kept
    <3>3. m.outcome \in Outcomes
      BY <3>2 DEF Justified, Matches
    <3>4. m.outcome.reason # "timeUp"
      BY <1>1, <2>1, <3>2 DEF Justified
    <3>5. m.outcome.winner \in Sides /\ Opp(m.outcome.winner) \in Sides
      BY <3>2, <3>4 DEF Justified, Opp, Sides
    <3>6. Justified(with)
      BY <2>1, <2>4, <3>2, <3>4, <3>5 DEF Justified
    <3>7. ShapeOf(d)
      BY <2>4, <2>9, <3>1, <3>6 DEF ShapeOf
    <3>8. Keeps(m, q, d)
      BY <1>1, <1>7, <2>1, <2>3, <2>4, <2>9, <3>1, <3>2 DEF Keeps, Justified
    <3>9. QED
      BY <2>1, <3>7, <3>8
  <2>10. CASE m.status = "playing" /\ kept.reason # "timeUp"
    <3>1. d = Ended(with, Opp(q.side), kept.reason)
      BY <2>10 DEF Reported
    <3>2. m.outcome = None
      BY <2>10 DEF ShapeOf
    <3>3. Opp(q.side) # None
      BY <1>1, BubbleAssumption DEF Sides
    <3> DEFINE o == [winner |-> Opp(q.side), reason |-> kept.reason]
    <3>4. d.status = "ended" /\ d.result = with.result /\ d.outcome = o /\ o # None
      BY <1>1, <2>5, <2>6, <2>7, <3>1
    <3>5. o.winner = Opp(q.side) /\ o.reason = kept.reason
      OBVIOUS
    <3> HIDE DEF d, with, kept, o
    <3>6. Justified(d)
      BY <1>1, <2>3, <2>4, <2>10, <3>4, <3>5 DEF Justified
    <3>7. ShapeOf(d)
      BY <3>4, <3>6 DEF ShapeOf
    <3>8. \A s \in Sides : o # [winner |-> Opp(s), reason |-> "disconnected"]
      BY <2>7, <3>5
    <3>9. Keeps(m, q, d)
      BY <1>1, <1>7, <2>1, <2>3, <2>4, <2>10, <3>2, <3>4, <3>8 DEF Keeps
    <3>10. QED
      BY <2>1, <3>7, <3>9
  <2>11. CASE m.status = "playing" /\ kept.reason = "timeUp" /\ m.result[Opp(q.side)] = None
    <3>1. d = with
      BY <2>11 DEF Reported
    <3> HIDE DEF d, with, kept
    <3>2. m.outcome = None
      BY <2>11 DEF ShapeOf
    <3>3. ShapeOf(d)
      BY <1>1, <2>3, <2>4, <2>8, <2>11, <3>1, <3>2 DEF ShapeOf
    <3>6. /\ d.status = "playing" /\ m.status = "playing"
          /\ d.outcome = None /\ m.outcome = None
          /\ d.result[q.side] # None /\ m.result[q.side] = None
          /\ \A s \in Sides : s # q.side => d.result[s] = m.result[s]
      BY <2>1, <2>3, <2>4, <2>11, <3>1, <3>2
    <3>4. Keeps(m, q, d)
      BY <1>1, <1>7, <1>9, <3>6 DEF Keeps
    <3>5. QED
      BY <2>1, <3>3, <3>4
  <2>12. CASE m.status = "playing" /\ kept.reason = "timeUp" /\ m.result[Opp(q.side)] # None
    <3> DEFINE w == Better(m, q.side, q.report)
               o == [winner |-> w, reason |-> "timeUp"]
    <3>1. d = Ended(with, w, "timeUp")
      BY <2>12 DEF Reported
    <3>2. m.outcome = None /\ m.result[Opp(q.side)].reason = "timeUp"
      BY <1>1, <2>12 DEF ShapeOf
    <3>3. /\ w \in Sides \cup {None}
          /\ (w = q.side) <=> (q.report.score > m.result[Opp(q.side)].score)
          /\ (w = Opp(q.side)) <=> (m.result[Opp(q.side)].score > q.report.score)
      BY <1>1, <2>2, <2>12, BetterType
    <3>4. d.status = "ended" /\ d.result = with.result /\ d.outcome = o /\ o # None
      BY <2>5, <2>6, <2>7, <3>1, <3>3
    <3>5. o.winner = w /\ o.reason = "timeUp"
      OBVIOUS
    <3> HIDE DEF d, with, kept, o, w
    <3>6. \A s \in Sides : /\ d.result[s] # None /\ d.result[s].reason = "timeUp"
                           /\ (w = s) <=> (d.result[s].score > d.result[Opp(s)].score)
      BY <1>1, <2>3, <2>4, <2>8, <2>12, <3>2, <3>3, <3>4
    <3>7. Justified(d)
      BY <3>4, <3>5, <3>6 DEF Justified
    <3>8. ShapeOf(d)
      BY <3>4, <3>7 DEF ShapeOf
    <3>9. \A s \in Sides : o # [winner |-> Opp(s), reason |-> "disconnected"]
      BY <3>5
    <3>10. Keeps(m, q, d)
      BY <1>1, <1>7, <2>1, <2>3, <2>4, <2>12, <3>2, <3>4, <3>9 DEF Keeps
    <3>11. QED
      BY <2>1, <3>8, <3>10
  <2>13. QED
    BY <2>1, <2>9, <2>10, <2>11, <2>12
<1>8. QED
  BY <1>1, <1>2, <1>3, <1>4, <1>5, <1>6, <1>7 DEF Ops

(* What the step after the EXEC tells about the request, and back.           *)
LEMMA ThenMeans == ASSUME NEW m \in Matches, NEW q, GoodRequest(q), Timeless(m, q)
                   PROVE  /\ Then(m, q) # "exec"
                          /\ Then(m, q) \in {"report", "reportOnly"} <=> q.op = "report"
                          /\ Then(m, q) = "report" <=>
                                q.op = "report" /\ Change(m, q).status # m.status
                          /\ Then(m, q) = "finish" <=> q.op = "claim"
                          /\ m.status # "none"
<1>1. q.op \in Ops
  BY DEF GoodRequest, Requests
<1>2. CASE q.op \in {"accept", "decline", "withdraw", "cancel"}
  BY <1>2 DEF Then, Timeless, MayAccept, MayDecline, InvitedOnly, CancelCheck
<1>3. CASE q.op \in {"ready", "unready"}
  BY <1>3 DEF Then, Timeless, MayReady
<1>4. CASE q.op \in {"attack", "claim"}
  BY <1>4 DEF Then, Timeless
<1>5. CASE q.op = "report"
  BY <1>5 DEF Then, Timeless
<1>6. QED
  BY <1>1, <1>2, <1>3, <1>4, <1>5 DEF Ops

----------------------------------------------------------------------------
(* Requests move on without touching the match.                              *)

ReqType ==
    /\ draft \in [Reqs -> Drafts \cup {None}]
    /\ RequestsOK

LEMMA RequestIsGood == ASSUME RequestsOK, NEW r \in Reqs, pc[r] # "idle"
                       PROVE  GoodRequest(req[r])
BY DEF RequestsOK, GoodRequest

LEMMA GotoKeeps == ASSUME ReqType, LockInv, match' = match,
                          NEW r \in Reqs, NEW step \in Steps \ {"exec"},
                          pc[r] # "idle", step \in Recording => pc[r] \in Recording,
                          Goto(r, step)
                   PROVE  ReqType' /\ LockInv'
<1>1. ReqType'
  <2>1. draft' \in [Reqs -> Drafts \cup {None}]
    BY DEF ReqType, Goto
  <2>2. req' \in [Reqs -> Requests \cup {None}] /\ pc' \in [Reqs -> Steps]
    BY DEF ReqType, RequestsOK, Goto
  <2>3. ASSUME NEW x \in Reqs
        PROVE  /\ pc'[x] # "idle" => req'[x] \in Requests
               /\ pc'[x] \in Recording => draft'[x] \in Drafts
               /\ pc'[x] # "idle" /\ req'[x].op = "report" => req'[x].report \in Reports
    BY <2>3 DEF ReqType, RequestsOK, Goto
  <2>4. QED
    BY <2>1, <2>2, <2>3 DEF ReqType, RequestsOK
<1>2. ASSUME NEW x \in Reqs, pc'[x] = "exec", draft'[x] # None
      PROVE  pc[x] = "exec" /\ draft'[x] = draft[x] /\ req'[x] = req[x]
  BY <1>2 DEF ReqType, RequestsOK, Goto
<1>3. LockInv'
  BY <1>2 DEF LockInv
<1>4. QED
  BY <1>1, <1>3

LEMMA ReadKeeps == ASSUME ReqType, LockInv, match \in Matches,
                          NEW r \in Reqs, NEW q, GoodRequest(q), Read(r, q)
                   PROVE  ReqType' /\ LockInv'
<1>1. Timeless(match, q)
  BY PermitsTimeless DEF Read
<1>2. [value |-> Change(match, q), then |-> Then(match, q)] \in Drafts
  BY <1>1, ChangeType DEF Drafts
<1>3. ReqType'
  <2>1. draft' \in [Reqs -> Drafts \cup {None}]
    BY <1>2 DEF ReqType, Read
  <2>2. req' \in [Reqs -> Requests \cup {None}] /\ pc' \in [Reqs -> Steps]
    BY DEF ReqType, RequestsOK, Read, GoodRequest, Steps
  <2>3. ASSUME NEW x \in Reqs
        PROVE  /\ pc'[x] # "idle" => req'[x] \in Requests
               /\ pc'[x] \in Recording => draft'[x] \in Drafts
               /\ pc'[x] # "idle" /\ req'[x].op = "report" => req'[x].report \in Reports
    BY <2>3 DEF ReqType, RequestsOK, Read, GoodRequest, Recording
  <2>4. QED
    BY <2>1, <2>2, <2>3 DEF ReqType, RequestsOK
<1>4. ASSUME NEW x \in Reqs, x # r
      PROVE  pc'[x] = pc[x] /\ draft'[x] = draft[x] /\ req'[x] = req[x]
  BY <1>4 DEF ReqType, RequestsOK, Read
<1>5. draft'[r] = [value |-> Change(match, q), then |-> Then(match, q)] /\ req'[r] = q
  BY DEF ReqType, RequestsOK, Read
<1>6. match' = match
  BY DEF Read
<1>7. LockInv'
  BY <1>1, <1>4, <1>5, <1>6 DEF LockInv
<1>8. QED
  BY <1>3, <1>7

(* The EXEC of a request is what its closure makes of the current match.     *)
LEMMA ExecIs == ASSUME TypeOK, LockInv, NEW r \in Reqs, Exec(r)
                PROVE  /\ GoodRequest(req[r]) /\ Timeless(match, req[r])
                       /\ match' = Change(match, req[r])
                       /\ draft[r].value = match'
                       /\ draft[r].then = Then(match, req[r])
                       /\ draft[r] \in Drafts
BY RequestIsGood DEF TypeOK, LockInv, Exec, MatchOK

LEMMA ExecKeeps == ASSUME TypeOK, LockInv, NEW r \in Reqs, Exec(r)
                   PROVE  /\ match' \in Matches /\ ReqType' /\ LockInv'
                          /\ \A x \in Reqs : x # r => pc'[x] = pc[x] /\ req'[x] = req[x]
                          /\ \A x \in Reqs : x # r /\ pc[x] \in Recording => draft'[x] = draft[x]
                          /\ pc'[r] = draft[r].then
                          /\ draft[r].then \in Recording => draft'[r] = draft[r] /\ req'[r] = req[r]
<1> DEFINE d == draft[r]
           q == req[r]
<1>1. /\ GoodRequest(q) /\ Timeless(match, q) /\ match' = Change(match, q)
      /\ d.value = match' /\ d.then = Then(match, q) /\ d \in Drafts
  BY ExecIs
<1>2. match' \in Matches /\ d.then \in Steps /\ d.then # "exec"
  BY <1>1, ChangeType, ThenMeans DEF TypeOK, MatchOK
<1>3. \A x \in Reqs : draft'[x] = IF x = r THEN IF d.then \in Recording THEN d ELSE None
                                  ELSE IF pc[x] = "exec" THEN None ELSE draft[x]
  BY DEF Exec, Overtaken
<1>4. draft' \in [Reqs -> Drafts \cup {None}]
  <2>1. \A x \in Reqs : draft'[x] \in Drafts \cup {None}
    BY <1>1, <1>3 DEF TypeOK, MatchOK
  <2>2. draft' = [x \in Reqs |-> draft'[x]]
    BY DEF Exec, Overtaken
  <2>3. QED
    BY <2>1, <2>2
<1>5. pc' = [pc EXCEPT ![r] = d.then]
  BY DEF Exec
<1>6. req' = IF d.then = "idle" THEN [req EXCEPT ![r] = None] ELSE req
  BY DEF Exec
<1> HIDE DEF d
<1>7. \A x \in Reqs : x # r => pc'[x] = pc[x] /\ req'[x] = req[x]
  BY <1>5, <1>6 DEF TypeOK, RequestsOK
<1>8. pc'[r] = d.then /\ (d.then # "idle" => req'[r] = q)
  BY <1>5, <1>6 DEF TypeOK, RequestsOK
<1>9. ReqType'
  <2>1. req' \in [Reqs -> Requests \cup {None}] /\ pc' \in [Reqs -> Steps]
    BY <1>2, <1>5, <1>6 DEF TypeOK, RequestsOK
  <2>2. ASSUME NEW x \in Reqs
        PROVE  /\ pc'[x] # "idle" => req'[x] \in Requests
               /\ pc'[x] \in Recording => draft'[x] \in Drafts
               /\ pc'[x] # "idle" /\ req'[x].op = "report" => req'[x].report \in Reports
    <3>1. CASE x = r
      BY <1>1, <1>3, <1>8, <3>1 DEF GoodRequest, Recording
    <3>2. CASE x # r
      BY <1>3, <1>7, <2>2, <3>2 DEF TypeOK, RequestsOK, Recording
    <3>3. QED
      BY <3>1, <3>2
  <2>3. QED
    BY <1>4, <2>1, <2>2 DEF ReqType, RequestsOK
<1>10. LockInv'
  <2>1. ASSUME NEW x \in Reqs, pc'[x] = "exec" PROVE draft'[x] = None
    BY <1>2, <1>3, <1>7, <1>8, <2>1
  <2>2. QED
    BY <2>1 DEF LockInv
<1>11. \A x \in Reqs : x # r /\ pc[x] \in Recording => draft'[x] = draft[x]
  BY <1>3 DEF Recording
<1>12. d.then \in Recording => draft'[r] = d /\ req'[r] = q
  BY <1>3, <1>8 DEF Recording
<1>13. QED
  BY <1>2, <1>7, <1>8, <1>9, <1>10, <1>11, <1>12 DEF d

----------------------------------------------------------------------------
(* The types and the lock, kept by every step.                               *)

LEMMA LeastType == ASSUME NEW a \in Int, NEW b \in Int
                   PROVE  Least(a, b) \in {a, b} /\ Least(a, b) <= a /\ Least(a, b) <= b
BY DEF Least

LEMMA ForgetType == ASSUME ClockOK, NEW m, Forget(m) PROVE ClockOK'
BY BubbleAssumption DEF ClockOK, Forget, Late

LEMMA SeenType == ASSUME ClockOK, NEW s \in Sides, NEW at \in (0 - Countdown)..Disconnect,
                         Seen(s, at), since' = since
                  PROVE  ClockOK'
BY DEF ClockOK, Seen

LEMMA OppSide == ASSUME NEW s \in Sides PROVE Opp(s) \in Sides
BY DEF Opp, Sides

LEMMA SentType == ASSUME NEW n \in 0..MaxSent PROVE Least(n + 1, MaxSent) \in 0..MaxSent
BY BubbleAssumption DEF Least

(* The state of the requests and the match, without the rest.                *)
Core == match \in Matches /\ ReqType /\ LockInv

(* The clocks, the clients, the record and the index.                        *)
Rest ==
    /\ ClockOK /\ ClientsOK /\ RowOK
    /\ listed \in BOOLEAN /\ faults \in 0..MaxFaults

LEMMA TypeParts == TypeOK /\ LockInv <=> Core /\ Rest
BY DEF TypeOK, MatchOK, ReqType, Core, Rest

LEMMA InitCore == Init => Core /\ Rest
<1> SUFFICES ASSUME Init PROVE Core /\ Rest
  OBVIOUS
<1>1. match \in Matches
  BY BubbleAssumption DEF Init, Fresh, Matches, Sides
<1>2. ReqType
  BY DEF Init, ReqType, RequestsOK, Steps, Recording
<1>3. LockInv
  BY DEF Init, LockInv
<1>4. Rest
  <2>1. ClockOK
    BY BubbleAssumption DEF Init, ClockOK, Late
  <2>2. got \in [Sides -> 0..MaxSent] /\ held \in [Sides -> 0..MaxSent] /\ RowOK
    BY BubbleAssumption DEF Init, RowOK
  <2>3. faults \in 0..MaxFaults
    BY BubbleAssumption DEF Init
  <2>4. listed \in BOOLEAN
    BY DEF Init
  <2>5. QED
    BY <2>1, <2>2, <2>3, <2>4 DEF Rest, ClientsOK
<1>5. QED
  BY <1>1, <1>2, <1>3, <1>4 DEF Core

LEMMA CoreStutter == ASSUME Core, match' = match, req' = req, pc' = pc, draft' = draft
                     PROVE  Core'
BY DEF Core, ReqType, RequestsOK, LockInv

LEMMA CoreGoto == ASSUME Core, match' = match, NEW r \in Reqs, NEW step \in Steps \ {"exec"},
                         pc[r] # "idle", step \in Recording => pc[r] \in Recording,
                         Goto(r, step)
                  PROVE  Core'
BY GotoKeeps DEF Core

LEMMA NobodyReadYet == ASSUME Core, match.status = "none", NEW r \in Reqs, pc[r] = "exec"
                       PROVE  draft[r] = None
BY RequestIsGood, ThenMeans DEF Core, LockInv, ReqType

LEMMA AskIsRead == ASSUME Rest, NEW r \in Reqs, Ask(r)
                   PROVE  \E q : GoodRequest(q) /\ pc[r] = "idle" /\ Read(r, q)
<1>1. PICK s \in Sides :
         \/ \E op \in Ops \ {"report"} : Submit(r, Simple(op, s))
         \/ \E res \in Reports :
               Submit(r, [op |-> "report", side |-> s, report |-> res, held |-> got[s]])
  BY DEF Ask
<1>2. CASE \E op \in Ops \ {"report"} : Submit(r, Simple(op, s))
  <2>1. PICK op \in Ops \ {"report"} : Submit(r, Simple(op, s))
    BY <1>2
  <2>2. GoodRequest(Simple(op, s))
    BY BubbleAssumption DEF GoodRequest, Simple, Requests
  <2>3. QED
    BY <2>1, <2>2 DEF Submit
<1>3. CASE \E res \in Reports :
              Submit(r, [op |-> "report", side |-> s, report |-> res, held |-> got[s]])
  <2> DEFINE q(res) == [op |-> "report", side |-> s, report |-> res, held |-> got[s]]
  <2>1. PICK res \in Reports : Submit(r, q(res))
    BY <1>3
  <2>2. GoodRequest(q(res))
    BY DEF GoodRequest, Requests, Ops, Rest, ClientsOK
  <2>3. QED
    BY <2>1, <2>2 DEF Submit
<1>4. QED
  BY <1>1, <1>2, <1>3

LEMMA CoreStep == Core /\ Rest /\ [Next]_vars => Core'
<1> SUFFICES ASSUME Core, Rest, [Next]_vars PROVE Core'
  OBVIOUS
<1>1. CASE Invite
  <2>1. match' \in Matches
    BY <1>1 DEF Invite, Core, Matches
  <2>2. ReqType'
    BY <1>1 DEF Invite, Core, ReqType, RequestsOK
  <2>3. LockInv'
    BY <1>1, NobodyReadYet DEF Invite, LockInv
  <2>4. QED
    BY <2>1, <2>2, <2>3 DEF Core
<1>2. CASE Invitations \/ Tick \/ (\E s \in Sides : State(s)) \/ UNCHANGED vars
  BY <1>2, CoreStutter DEF Invitations, Tick, State, vars
<1>3. CASE Expire
  <2>1. match' \in Matches
    BY <1>3 DEF Expire, Core, Matches
  <2>2. ReqType'
    BY <1>3 DEF Expire, Core, ReqType, RequestsOK
  <2>3. LockInv'
    BY <1>3 DEF Expire, LockInv
  <2>4. QED
    BY <2>1, <2>2, <2>3 DEF Core
<1>4. ASSUME NEW r \in Reqs, Ask(r) PROVE Core'
  <2>1. PICK q : GoodRequest(q) /\ Read(r, q)
    BY <1>4, AskIsRead
  <2>2. match' = match
    BY <2>1 DEF Read
  <2>3. QED
    BY <2>1, <2>2, ReadKeeps DEF Core
<1>5. ASSUME NEW r \in Reqs, Exec(r) PROVE Core'
  BY <1>5, ExecKeeps, TypeParts DEF Core
<1>6. ASSUME NEW r \in Reqs, Retry(r) PROVE Core'
  <2>1. GoodRequest(req[r])
    BY <1>6, RequestIsGood DEF Retry, Core, ReqType
  <2>2. CASE Read(r, req[r])
    <3>1. match' = match
      BY <2>2 DEF Read
    <3>2. QED
      BY <2>1, <2>2, <3>1, ReadKeeps DEF Core
  <2>3. CASE Goto(r, "idle") /\ match' = match
    BY <1>6, <2>3, CoreGoto DEF Retry, Steps, Recording
  <2>4. QED
    BY <1>6, <2>2, <2>3 DEF Retry
<1>7. ASSUME NEW r \in Reqs, Unlist(r) PROVE Core'
  BY <1>7, CoreGoto DEF Unlist, Steps, Recording
<1>8. ASSUME NEW r \in Reqs, TouchStart(r) PROVE Core'
  <2>1. PICK s \in Sides : /\ pc[r] = IF s = 0 THEN "start0" ELSE "start1"
                           /\ Goto(r, IF s = 0 THEN "start1" ELSE "idle")
                           /\ match' = match
    BY <1>8 DEF TouchStart
  <2>2. QED
    BY <2>1, CoreGoto DEF Steps, Recording
<1>9. ASSUME NEW r \in Reqs, Touch(r) PROVE Core'
  BY <1>9, CoreGoto DEF Touch, Steps, Recording
<1>10. ASSUME NEW r \in Reqs, Publish(r) PROVE Core'
  BY <1>10, CoreGoto DEF Publish, Steps, Recording
<1>11. ASSUME NEW r \in Reqs, SaveReport(r) PROVE Core'
  BY <1>11, CoreGoto DEF SaveReport, Steps, Recording
<1>12. ASSUME NEW r \in Reqs, Finish(r) PROVE Core'
  BY <1>12, CoreGoto DEF Finish, Steps, Recording
<1>13. ASSUME NEW r \in Reqs, Crash(r) PROVE Core'
  BY <1>13, CoreGoto DEF Crash, Steps, Recording
<1>14. ASSUME NEW r \in Reqs, SaveReportFails(r) PROVE Core'
  BY <1>14, CoreGoto DEF SaveReportFails, Steps, Recording
<1>15. QED
  BY <1>1, <1>2, <1>3, <1>4, <1>5, <1>6, <1>7, <1>8, <1>9, <1>10, <1>11, <1>12, <1>13, <1>14
     DEF Next, Serve

LEMMA RestStep == Core /\ Rest /\ [Next]_vars => Rest'
<1> SUFFICES ASSUME Core, Rest, [Next]_vars PROVE Rest'
  OBVIOUS
<1>0. /\ ClockOK /\ ClientsOK /\ RowOK /\ RequestsOK /\ listed \in BOOLEAN /\ faults \in 0..MaxFaults
      /\ draft \in [Reqs -> Drafts \cup {None}]
  BY DEF Rest, Core, ReqType
<1>a. ASSUME UNCHANGED <<since, age>> PROVE ClockOK'
  BY <1>0, <1>a DEF ClockOK
<1>b. ASSUME UNCHANGED <<got, held>> PROVE ClientsOK'
  BY <1>0, <1>b DEF ClientsOK
<1>c. ASSUME UNCHANGED row PROVE RowOK'
  BY <1>0, <1>c DEF RowOK
<1>1. CASE Invite \/ Invitations
  BY <1>0, <1>1, <1>a, <1>b, <1>c DEF Invite, Invitations, Rest
<1>2. CASE Tick
  <2>1. \A n \in (0 - Countdown)..Disconnect : Least(n + 1, Disconnect) \in (0 - Countdown)..Disconnect
    BY BubbleAssumption DEF Least
  <2>2. ClockOK'
    BY <1>0, <1>2, <2>1, BubbleAssumption DEF Tick, ClockOK, Late
  <2>3. QED
    BY <1>0, <1>2, <2>2, <1>b, <1>c DEF Tick, Rest
<1>3. ASSUME NEW s \in Sides, State(s) PROVE Rest'
  <2>1. 0 \in (0 - Countdown)..Disconnect
    BY BubbleAssumption
  <2>2. ClockOK'
    BY <1>0, <1>3, <2>1 DEF State, ClockOK
  <2>3. QED
    BY <1>0, <1>3, <2>2, <1>b, <1>c DEF State, Rest
<1>4. CASE Expire
  BY <1>0, <1>4, <1>b, <1>c, ForgetType DEF Expire, Rest
<1>5. ASSUME NEW r \in Reqs, NEW q, Read(r, q) PROVE Rest'
  BY <1>0, <1>5, <1>a, <1>b, <1>c DEF Read, Rest
<1>6. ASSUME NEW r \in Reqs, Exec(r) PROVE Rest'
  <2>1. ClockOK'
    BY <1>0, <1>6, ForgetType DEF Exec
  <2>2. req[r] \in Requests
    BY <1>0, <1>6 DEF Exec, RequestsOK
  <2>3. ClientsOK'
    BY <1>0, <1>6, <2>2 DEF Exec, ClientsOK, Requests
  <2>4. QED
    BY <1>0, <1>6, <2>1, <2>3, <1>c DEF Exec, Rest
<1>7. ASSUME NEW r \in Reqs, Retry(r) PROVE Rest'
  BY <1>0, <1>5, <1>7, <1>a, <1>b, <1>c DEF Retry, Rest
<1>8. ASSUME NEW r \in Reqs, Unlist(r) PROVE Rest'
  BY <1>0, <1>8, <1>a, <1>b, <1>c DEF Unlist, Rest
<1>9. ASSUME NEW r \in Reqs, TouchStart(r) PROVE Rest'
  <2>1. since \in Int /\ since >= 0 - Countdown /\ Disconnect \in Int /\ Disconnect >= 0 - Countdown
    BY <1>0, BubbleAssumption DEF ClockOK, Late
  <2>2. Least(since, Disconnect) \in (0 - Countdown)..Disconnect
    BY <2>1, BubbleAssumption DEF Least
  <2>3. PICK s \in Sides : Seen(s, Least(since, Disconnect)) /\ since' = since
    BY <1>9 DEF TouchStart
  <2>4. ClockOK'
    BY <1>0, <2>2, <2>3, SeenType
  <2>5. QED
    BY <1>0, <1>9, <2>4, <1>b, <1>c DEF TouchStart, Rest
<1>10. ASSUME NEW r \in Reqs, Touch(r) PROVE Rest'
  <2>1. 0 \in (0 - Countdown)..Disconnect
    BY BubbleAssumption
  <2>2. req[r].side \in Sides
    BY <1>0, <1>10 DEF Touch, RequestsOK, Requests
  <2>3. ClockOK'
    BY <1>0, <1>10, <2>1, <2>2, SeenType DEF Touch
  <2>4. QED
    BY <1>0, <1>10, <2>3, <1>b, <1>c DEF Touch, Rest
<1>11. ASSUME NEW r \in Reqs, Publish(r) PROVE Rest'
  <2>1. Opp(req[r].side) \in Sides
    BY <1>0, <1>11, OppSide DEF Publish, RequestsOK, Requests
  <2>2. Least(got[Opp(req[r].side)] + 1, MaxSent) \in 0..MaxSent
    BY <1>0, <2>1, SentType DEF ClientsOK
  <2>3. ClientsOK'
    BY <1>0, <1>11, <2>1, <2>2 DEF Publish, ClientsOK
  <2>4. QED
    BY <1>0, <1>11, <2>3, <1>a, <1>c DEF Publish, Rest
<1>12. ASSUME NEW r \in Reqs, SaveReport(r) PROVE Rest'
  <2>1. req[r] \in Requests /\ draft[r] \in Drafts
    BY <1>0, <1>12 DEF SaveReport, RequestsOK, Recording
  <2>2. draft[r].value.result[req[r].side] \in Results \cup {None}
    BY <2>1 DEF Drafts, Matches, Requests
  <2>3. RowOK'
    BY <1>0, <1>12, <2>1, <2>2 DEF SaveReport, RowOK, Requests
  <2>4. QED
    BY <1>0, <1>12, <2>3, <1>a, <1>b DEF SaveReport, Rest
<1>13. ASSUME NEW r \in Reqs, Finish(r) PROVE Rest'
  <2>1. draft[r] \in Drafts
    BY <1>0, <1>13 DEF Finish, RequestsOK, Recording
  <2>2. draft[r].value.outcome \in Outcomes \cup {None}
    BY <2>1 DEF Drafts, Matches
  <2>3. RowOK'
    BY <1>0, <1>13, <2>2 DEF Finish, RowOK
  <2>4. QED
    BY <1>0, <1>13, <2>3, <1>a, <1>b DEF Finish, Rest
<1>14. ASSUME NEW r \in Reqs, Crash(r) \/ SaveReportFails(r) PROVE Rest'
  <2>1. faults' \in 0..MaxFaults
    BY <1>0, <1>14, BubbleAssumption DEF Crash, SaveReportFails
  <2>2. QED
    BY <1>0, <1>14, <2>1, <1>a, <1>b, <1>c DEF Crash, SaveReportFails, Rest
<1>15. ASSUME NEW r \in Reqs, Ask(r) PROVE Rest'
  BY <1>5, <1>15, AskIsRead
<1>16. CASE UNCHANGED vars
  BY <1>0, <1>16, <1>a, <1>b, <1>c DEF vars, Rest
<1>17. QED
  BY <1>1, <1>2, <1>3, <1>4, <1>6, <1>7, <1>8, <1>9, <1>10, <1>11, <1>12, <1>13, <1>14, <1>15, <1>16
     DEF Next, Serve

(* A step leaves the match alone, or EXECs, or creates it, or lets it go.    *)
LEMMA MatchSteps == ASSUME Rest, [Next]_vars
                    PROVE  \/ match' = match
                           \/ \E r \in Reqs : Exec(r)
                           \/ Invite
                           \/ Expire
<1>1. ASSUME NEW r \in Reqs, Ask(r) PROVE match' = match
  BY <1>1, AskIsRead DEF Read
<1>2. ASSUME NEW r \in Reqs, Serve(r), ~ Exec(r) PROVE match' = match
  BY <1>2 DEF Serve, Retry, Read, Unlist, TouchStart, Touch, Publish, SaveReport, Finish
<1>3. ASSUME NEW r \in Reqs, Crash(r) \/ SaveReportFails(r) PROVE match' = match
  BY <1>3 DEF Crash, SaveReportFails
<1>4. QED
  BY <1>1, <1>2, <1>3 DEF Next, vars, Invitations, Tick, State

LEMMA ShapeStep == Core /\ Rest /\ ShapeOf(match) /\ [Next]_vars => ShapeOf(match')
<1> SUFFICES ASSUME Core, Rest, ShapeOf(match), [Next]_vars PROVE ShapeOf(match')
  OBVIOUS
<1>1. match \in Matches
  BY DEF Core
<1>2. ASSUME NEW r \in Reqs, Exec(r) PROVE ShapeOf(match')
  <2>1. GoodRequest(req[r]) /\ Timeless(match, req[r]) /\ match' = Change(match, req[r])
    BY <1>2, ExecIs, TypeParts
  <2>2. QED
    BY <1>1, <2>1, ChangeKeeps
<1>3. CASE Invite
  BY <1>1, <1>3 DEF Invite, ShapeOf, Matches
<1>4. CASE Expire
  BY <1>1, <1>4 DEF Expire, ShapeOf, Matches
<1>5. QED
  BY <1>2, <1>3, <1>4, MatchSteps

(* What an EXEC keeps of the match and starts towards the record.            *)
LEMMA ExecMatch == ASSUME Core, Rest, ShapeOf(match), NEW r \in Reqs, Exec(r)
                   PROVE  /\ Keeps(match, req[r], match')
                          /\ draft[r].value = match'
                          /\ draft[r].then \in {"report", "reportOnly"} <=> req[r].op = "report"
                          /\ draft[r].then = "report" <=>
                                req[r].op = "report" /\ match'.status # match.status
                          /\ draft[r].then = "finish" <=> req[r].op = "claim"
                          /\ req[r].side \in Sides
<1>1. /\ GoodRequest(req[r]) /\ Timeless(match, req[r]) /\ match' = Change(match, req[r])
      /\ draft[r].value = match' /\ draft[r].then = Then(match, req[r])
  BY ExecIs, TypeParts
<1>2. match \in Matches
  BY DEF Core
<1>3. Keeps(match, req[r], match')
  BY <1>1, <1>2, ChangeKeeps
<1>4. req[r].side \in Sides
  BY <1>1 DEF GoodRequest, Requests
<1>5. QED
  BY <1>1, <1>2, <1>3, <1>4, ThenMeans

LEMMA CopyStep == Core /\ Rest /\ ShapeOf(match) /\ CopyInv /\ [Next]_vars => CopyInv'
<1> SUFFICES ASSUME Core, Rest, ShapeOf(match), CopyInv, [Next]_vars PROVE CopyInv'
  OBVIOUS
<1>0. RequestsOK /\ draft \in [Reqs -> Drafts \cup {None}] /\ match \in Matches
  BY DEF Core, ReqType
<1>a. ASSUME match' = match, pc' = pc, req' = req, draft' = draft PROVE CopyInv'
  BY <1>a DEF CopyInv
<1>b. ASSUME NEW r \in Reqs, NEW step, match' = match, Goto(r, step),
             step \in Recording => pc[r] = "report" /\ step = "finish"
      PROVE  CopyInv'
  <2>1. ASSUME NEW x \in Reqs, pc'[x] \in Recording
        PROVE  /\ draft'[x] = draft[x] /\ req'[x] = req[x]
               /\ pc'[x] = pc[x] \/ (pc[x] = "report" /\ pc'[x] = "finish")
    BY <1>0, <1>b, <2>1 DEF Goto, RequestsOK, Recording
  <2>2. QED
    BY <1>b, <2>1 DEF CopyInv, Recording
<1>c. ASSUME NEW r \in Reqs, NEW q, Read(r, q) PROVE CopyInv'
  <2>1. ASSUME NEW x \in Reqs, pc'[x] \in Recording
        PROVE  draft'[x] = draft[x] /\ req'[x] = req[x] /\ pc'[x] = pc[x]
    BY <1>0, <1>c, <2>1 DEF Read, RequestsOK, Recording
  <2>2. match' = match
    BY <1>c DEF Read
  <2>3. QED
    BY <2>1, <2>2 DEF CopyInv, Recording
<1>1. CASE Invite \/ Expire
  <2>1. match'.result = match.result /\ match'.outcome = match.outcome
    BY <1>0, <1>1 DEF Invite, Expire, Matches
  <2>2. pc' = pc /\ req' = req /\ draft' = draft
    BY <1>1 DEF Invite, Expire
  <2>3. QED
    BY <2>1, <2>2 DEF CopyInv
<1>2. CASE Invitations \/ Tick \/ (\E s \in Sides : State(s)) \/ UNCHANGED vars
  BY <1>2, <1>a DEF Invitations, Tick, State, vars
<1>3. ASSUME NEW r \in Reqs, Exec(r) PROVE CopyInv'
  <2>1. /\ \A x \in Reqs : x # r => pc'[x] = pc[x] /\ req'[x] = req[x]
        /\ \A x \in Reqs : x # r /\ pc[x] \in Recording => draft'[x] = draft[x]
        /\ pc'[r] = draft[r].then
        /\ draft[r].then \in Recording => draft'[r] = draft[r] /\ req'[r] = req[r]
    BY <1>3, ExecKeeps, TypeParts
  <2>2. /\ Keeps(match, req[r], match')
        /\ draft[r].value = match'
        /\ draft[r].then \in {"report", "reportOnly"} <=> req[r].op = "report"
        /\ draft[r].then = "report" <=> req[r].op = "report" /\ match'.status # match.status
        /\ draft[r].then = "finish" <=> req[r].op = "claim"
        /\ req[r].side \in Sides
    BY <1>3, ExecMatch
  <2>3. ASSUME NEW x \in Reqs, x # r, pc'[x] \in {"report", "reportOnly"}
        PROVE  /\ match'.result[req'[x].side] # None
               /\ draft'[x].value.result[req'[x].side] = match'.result[req'[x].side]
    <3>1. pc[x] \in {"report", "reportOnly"} /\ req'[x] = req[x] /\ draft'[x] = draft[x]
      BY <2>1, <2>3 DEF Recording
    <3>2. req[x].side \in Sides
      BY <1>0, <3>1 DEF RequestsOK, Requests
    <3>3. QED
      BY <2>2, <3>1, <3>2 DEF CopyInv, Keeps
  <2>4. ASSUME NEW x \in Reqs, x # r, pc'[x] \in {"report", "finish"}
        PROVE  match'.outcome # None /\ draft'[x].value.outcome = match'.outcome
    <3>1. pc[x] \in {"report", "finish"} /\ draft'[x] = draft[x]
      BY <2>1, <2>4 DEF Recording
    <3>2. QED
      BY <2>2, <3>1 DEF CopyInv, Keeps
  <2>5. pc'[r] \in {"report", "reportOnly"} =>
               /\ match'.result[req'[r].side] # None
               /\ draft'[r].value.result[req'[r].side] = match'.result[req'[r].side]
    BY <2>1, <2>2 DEF Keeps, Recording
  <2>6. pc'[r] \in {"report", "finish"} =>
               match'.outcome # None /\ draft'[r].value.outcome = match'.outcome
    BY <2>1, <2>2 DEF Keeps, Recording
  <2>7. QED
    BY <2>3, <2>4, <2>5, <2>6 DEF CopyInv
<1>4. ASSUME NEW r \in Reqs, Serve(r), ~ Exec(r) PROVE CopyInv'
  <2>1. CASE Retry(r)
    BY <1>b, <1>c, <2>1 DEF Retry, Recording
  <2>2. CASE Unlist(r) \/ TouchStart(r) \/ Touch(r) \/ Publish(r)
    BY <1>b, <2>2 DEF Unlist, TouchStart, Touch, Publish, Recording
  <2>3. CASE SaveReport(r) \/ Finish(r)
    BY <1>b, <2>3 DEF SaveReport, Finish, Recording
  <2>4. QED
    BY <1>4, <2>1, <2>2, <2>3 DEF Serve
<1>5. ASSUME NEW r \in Reqs, Crash(r) \/ SaveReportFails(r) PROVE CopyInv'
  BY <1>b, <1>5 DEF Crash, SaveReportFails, Recording
<1>6. ASSUME NEW r \in Reqs, Ask(r) PROVE CopyInv'
  BY <1>c, <1>6, AskIsRead
<1>7. QED
  BY <1>1, <1>2, <1>3, <1>4, <1>5, <1>6 DEF Next

(* An upsert brings its own columns up to date and leaves the others alone.  *)
LEMMA RowStep == Core /\ Rest /\ ShapeOf(match) /\ CopyInv /\ RowInv /\ [Next]_vars => RowInv'
<1> SUFFICES ASSUME Core, Rest, ShapeOf(match), CopyInv, RowInv, [Next]_vars PROVE RowInv'
  OBVIOUS
<1>0. /\ RequestsOK /\ draft \in [Reqs -> Drafts \cup {None}] /\ match \in Matches
      /\ RowOK /\ faults \in 0..MaxFaults
  BY DEF Core, ReqType, Rest
<1> DEFINE Writer(x) == pc[x] \in {"report", "reportOnly"}
           Finisher(x) == pc[x] \in {"report", "finish"}
<1>a. ASSUME match'.result = match.result, match'.outcome = match.outcome, row' = row, faults' = faults,
             \A x \in Reqs : pc[x] \in Recording => pc'[x] = pc[x] /\ req'[x] = req[x]
      PROVE  RowInv'
  BY <1>a DEF RowInv, Recording
<1>b. ASSUME NEW r \in Reqs, NEW step, match' = match, row' = row, faults' = faults,
             pc[r] \notin Recording, Goto(r, step)
      PROVE  RowInv'
  <2>1. \A x \in Reqs : pc[x] \in Recording => pc'[x] = pc[x] /\ req'[x] = req[x]
    BY <1>0, <1>b DEF Goto, RequestsOK
  <2>2. QED
    BY <1>a, <1>b, <2>1
<1>c. ASSUME NEW r \in Reqs, NEW q, Read(r, q), pc[r] \notin Recording PROVE RowInv'
  <2>1. \A x \in Reqs : pc[x] \in Recording => pc'[x] = pc[x] /\ req'[x] = req[x]
    BY <1>0, <1>c DEF Read, RequestsOK
  <2>2. QED
    BY <1>a, <1>c, <2>1 DEF Read
<1>1. CASE Invite \/ Expire
  <2>1. match'.result = match.result /\ match'.outcome = match.outcome
    BY <1>0, <1>1 DEF Invite, Expire, Matches
  <2>2. QED
    BY <1>1, <1>a, <2>1 DEF Invite, Expire
<1>2. CASE Invitations \/ Tick \/ (\E s \in Sides : State(s)) \/ UNCHANGED vars
  BY <1>2, <1>a DEF Invitations, Tick, State, vars
<1>3. ASSUME NEW r \in Reqs, Exec(r) PROVE RowInv'
  <2>1. /\ \A x \in Reqs : x # r => pc'[x] = pc[x] /\ req'[x] = req[x]
        /\ pc'[r] = draft[r].then
        /\ draft[r].then \in Recording => req'[r] = req[r]
    BY <1>3, ExecKeeps, TypeParts
  <2>2. /\ Keeps(match, req[r], match')
        /\ draft[r].then \in {"report", "reportOnly"} <=> req[r].op = "report"
        /\ draft[r].then = "report" <=> req[r].op = "report" /\ match'.status # match.status
        /\ draft[r].then = "finish" <=> req[r].op = "claim"
        /\ req[r].side \in Sides
    BY <1>3, ExecMatch
  <2>3. row' = row /\ faults' = faults /\ pc[r] = "exec"
    BY <1>3 DEF Exec
  <2>4. \A x \in Reqs : pc[x] \in Recording => pc'[x] = pc[x] /\ req'[x] = req[x]
    BY <2>1, <2>3 DEF Recording
  <2>5. ASSUME NEW s \in Sides
        PROVE  /\ row'.report[s] \in {None, match'.result[s]}
               /\ faults' = 0 =>
                     \/ row'.report[s] = match'.result[s]
                     \/ \E x \in Reqs : pc'[x] \in {"report", "reportOnly"} /\ req'[x].side = s
    <3>1. CASE match'.result[s] = match.result[s]
      BY <2>3, <2>4, <3>1 DEF RowInv, Recording
    <3>2. CASE match'.result[s] # match.result[s]
      <4>1. req[r].op = "report" /\ s = req[r].side /\ match.result[s] = None
        BY <2>2, <3>2 DEF Keeps
      <4>2. row'.report[s] = None
        BY <2>3, <4>1 DEF RowInv
      <4>3. pc'[r] \in {"report", "reportOnly"} /\ req'[r].side = s
        BY <2>1, <2>2, <4>1 DEF Recording
      <4>4. QED
        BY <4>2, <4>3
    <3>3. QED
      BY <3>1, <3>2
  <2>6. /\ row'.outcome \in {None, match'.outcome}
        /\ faults' = 0 => \/ row'.outcome = match'.outcome
                          \/ \E x \in Reqs : pc'[x] \in {"report", "finish"}
    <3>1. CASE match'.outcome = match.outcome
      BY <2>3, <2>4, <3>1 DEF RowInv, Recording
    <3>2. CASE match'.outcome # match.outcome
      <4>1. pc'[r] \in {"report", "finish"} /\ match.outcome = None
        BY <2>1, <2>2, <3>2 DEF Keeps
      <4>2. row'.outcome = None
        BY <2>3, <4>1 DEF RowInv
      <4>3. QED
        BY <4>1, <4>2
    <3>3. QED
      BY <3>1, <3>2
  <2>7. QED
    BY <2>5, <2>6 DEF RowInv
<1>4. ASSUME NEW r \in Reqs, Retry(r) \/ Unlist(r) \/ TouchStart(r) \/ Touch(r) \/ Publish(r)
      PROVE  RowInv'
  BY <1>4, <1>b, <1>c DEF Retry, Unlist, TouchStart, Touch, Publish, Recording
<1>5. ASSUME NEW r \in Reqs, SaveReport(r) PROVE RowInv'
  <2> DEFINE s0 == req[r].side
  <2>1. s0 \in Sides /\ match' = match /\ faults' = faults
    BY <1>0, <1>5 DEF SaveReport, RequestsOK, Requests
  <2>2. draft[r].value.result[s0] = match.result[s0]
    BY <1>5 DEF SaveReport, CopyInv
  <2>3. row' = [row EXCEPT !.report[s0] = match.result[s0]]
    BY <1>5, <2>2 DEF SaveReport
  <2>4. /\ row'.report[s0] = match.result[s0] /\ row'.outcome = row.outcome
        /\ \A s \in Sides : s # s0 => row'.report[s] = row.report[s]
    BY <1>0, <2>1, <2>3 DEF RowOK
  <2>5. /\ \A x \in Reqs : x # r => pc'[x] = pc[x] /\ req'[x] = req[x]
        /\ pc[r] = "report" => pc'[r] = "finish"
        /\ pc[r] \in {"report", "reportOnly"}
    BY <1>0, <1>5 DEF SaveReport, Goto, RequestsOK
  <2>6. ASSUME NEW s \in Sides
        PROVE  /\ row'.report[s] \in {None, match'.result[s]}
               /\ faults' = 0 =>
                     \/ row'.report[s] = match'.result[s]
                     \/ \E x \in Reqs : pc'[x] \in {"report", "reportOnly"} /\ req'[x].side = s
    <3>1. CASE s = s0
      BY <2>1, <2>4, <3>1
    <3>2. CASE s # s0
      <4>1. \A x \in Reqs : req[x].side = s => x # r
        BY <3>2
      <4>2. QED
        BY <2>1, <2>4, <2>5, <3>2, <4>1 DEF RowInv
    <3>3. QED
      BY <3>1, <3>2
  <2>7. /\ row'.outcome \in {None, match'.outcome}
        /\ faults' = 0 => \/ row'.outcome = match'.outcome
                          \/ \E x \in Reqs : pc'[x] \in {"report", "finish"}
    <3>1. \A x \in Reqs : pc[x] \in {"report", "finish"} => pc'[x] \in {"report", "finish"}
      BY <2>5
    <3>2. QED
      BY <2>1, <2>4, <3>1 DEF RowInv
  <2>8. QED
    BY <2>6, <2>7 DEF RowInv
<1>6. ASSUME NEW r \in Reqs, Finish(r) PROVE RowInv'
  <2>1. match' = match /\ faults' = faults /\ draft[r].value.outcome = match.outcome
    BY <1>6 DEF Finish, CopyInv
  <2>2. row'.outcome = match.outcome /\ row'.report = row.report
    BY <1>0, <1>6, <2>1 DEF Finish, RowOK
  <2>3. \A x \in Reqs : pc[x] \in {"report", "reportOnly"} => pc'[x] = pc[x] /\ req'[x] = req[x]
    BY <1>0, <1>6 DEF Finish, Goto, RequestsOK
  <2>4. QED
    BY <2>1, <2>2, <2>3 DEF RowInv
<1>7. ASSUME NEW r \in Reqs, Crash(r) \/ SaveReportFails(r) PROVE RowInv'
  <2>1. faults' # 0
    BY <1>0, <1>7 DEF Crash, SaveReportFails
  <2>2. match' = match /\ row' = row
    BY <1>7 DEF Crash, SaveReportFails
  <2>3. QED
    BY <2>1, <2>2 DEF RowInv
<1>8. ASSUME NEW r \in Reqs, Ask(r) PROVE RowInv'
  BY <1>8, <1>c, AskIsRead DEF Recording
<1>9. QED
  BY <1>1, <1>2, <1>3, <1>4, <1>5, <1>6, <1>7, <1>8 DEF Next, Serve

LEMMA ListedStep == Core /\ Rest /\ ShapeOf(match) /\ ListedInv /\ [Next]_vars => ListedInv'
<1> SUFFICES ASSUME Core, Rest, ShapeOf(match), ListedInv, [Next]_vars
             PROVE  ListedInv'
  OBVIOUS
<1>0. RequestsOK
  BY DEF Core, ReqType
<1>a. ASSUME match' = match, pc' = pc, listed' = listed PROVE ListedInv'
  BY <1>a DEF ListedInv, InvitationListed
<1>b. ASSUME NEW r \in Reqs, NEW step, step # "unlist", match' = match, listed' = listed,
             Goto(r, step)
      PROVE  ListedInv'
  <2>1. \A x \in Reqs : pc'[x] = "unlist" => pc[x] = "unlist"
    BY <1>0, <1>b DEF Goto, RequestsOK
  <2>2. QED
    BY <1>b, <2>1 DEF ListedInv, InvitationListed
<1>c. ASSUME NEW r \in Reqs, NEW q, Read(r, q) PROVE ListedInv'
  <2>1. \A x \in Reqs : pc'[x] = "unlist" => pc[x] = "unlist"
    BY <1>0, <1>c DEF Read, RequestsOK
  <2>2. QED
    BY <1>c, <2>1 DEF Read, ListedInv, InvitationListed
<1>1. ASSUME NEW r \in Reqs, Exec(r) PROVE ListedInv'
  <2>1. match'.status \notin {"none", "invited"}
    BY <1>1, ExecMatch DEF Keeps
  <2>2. QED
    BY <2>1 DEF ListedInv, InvitationListed
<1>2. CASE Invite
  BY <1>2 DEF Invite, ListedInv, InvitationListed
<1>3. CASE Expire
  <2>1. match'.status = "gone"
    BY <1>3 DEF Expire, Core, Matches
  <2>2. QED
    BY <2>1 DEF ListedInv, InvitationListed
<1>4. CASE Invitations
  BY <1>4 DEF Invitations, ListedInv, InvitationListed
<1>5. CASE Tick \/ (\E s \in Sides : State(s)) \/ UNCHANGED vars
  BY <1>5, <1>a DEF Tick, State, vars
<1>6. ASSUME NEW r \in Reqs, Unlist(r) PROVE ListedInv'
  <2>1. match' = match /\ match.status # "invited"
    BY <1>6 DEF Unlist, ListedInv
  <2>2. \A x \in Reqs : pc'[x] = "unlist" => pc[x] = "unlist"
    BY <1>0, <1>6 DEF Unlist, Goto, RequestsOK
  <2>3. QED
    BY <2>1, <2>2 DEF ListedInv, InvitationListed
<1>7. ASSUME NEW r \in Reqs, Retry(r) \/ TouchStart(r) \/ Touch(r) \/ Publish(r)
      PROVE  ListedInv'
  BY <1>7, <1>b, <1>c DEF Retry, TouchStart, Touch, Publish
<1>8. ASSUME NEW r \in Reqs,
             SaveReport(r) \/ Finish(r) \/ Crash(r) \/ SaveReportFails(r)
      PROVE  ListedInv'
  BY <1>8, <1>b DEF SaveReport, Finish, Crash, SaveReportFails
<1>9. ASSUME NEW r \in Reqs, Ask(r) PROVE ListedInv'
  BY <1>9, <1>c, AskIsRead
<1>10. QED
  BY <1>1, <1>2, <1>3, <1>4, <1>5, <1>6, <1>7, <1>8, <1>9 DEF Next, Serve

----------------------------------------------------------------------------
(* The theorems.                                                             *)

LEMMA Inductive == Spec => []IInv
<1>1. Init => IInv
  <2> SUFFICES ASSUME Init PROVE IInv
    OBVIOUS
  <2>1. TypeOK /\ LockInv
    BY InitCore, TypeParts
  <2>2. match.status = "none" /\ match.outcome = None /\ \A s \in Sides : match.result[s] = None
    BY DEF Init, Fresh
  <2>3. ShapeOf(match)
    BY <2>2 DEF ShapeOf
  <2>4. CopyInv /\ ListedInv
    BY <2>2 DEF Init, CopyInv, ListedInv, InvitationListed
  <2>5. row.outcome = None /\ \A s \in Sides : row.report[s] = None
    BY DEF Init
  <2>6. RowInv
    BY <2>2, <2>5 DEF RowInv
  <2>7. QED
    BY <2>1, <2>3, <2>4, <2>6 DEF IInv
<1>2. IInv /\ [Next]_vars => IInv'
  <2> SUFFICES ASSUME IInv, [Next]_vars PROVE IInv'
    OBVIOUS
  <2>1. Core /\ Rest /\ ShapeOf(match) /\ CopyInv /\ RowInv /\ ListedInv
    BY TypeParts DEF IInv
  <2>2. Core' /\ Rest'
    BY <2>1, CoreStep, RestStep
  <2>3. TypeOK' /\ LockInv'
    BY <2>2 DEF TypeOK, MatchOK, ReqType, Core, Rest
  <2>4. ShapeOf(match') /\ CopyInv' /\ RowInv' /\ ListedInv'
    BY <2>1, ShapeStep, CopyStep, RowStep, ListedStep
  <2>5. ShapeOf(match)'
    BY <2>4 DEF ShapeOf, Justified
  <2>6. QED
    BY <2>3, <2>4, <2>5 DEF IInv
<1>3. QED
  BY <1>1, <1>2, PTL DEF Spec

(* Every reachable state of a match is of the declared shape.                *)
THEOREM TypeCorrect == Spec => []TypeOK
<1>1. IInv => TypeOK
  BY DEF IInv
<1>2. QED
  BY <1>1, Inductive, PTL

(* Two time-up reports never leave a match undecided: SubmitReport decides   *)
(* in the transaction that stores the second one.                            *)
THEOREM ReportsDecide == Spec => []BothReportedDecided
<1>1. IInv => BothReportedDecided
  BY DEF IInv, ShapeOf, BothReportedDecided
<1>2. QED
  BY <1>1, Inductive, PTL

(* The outcome of SubmitReport and ClaimDisconnected follows from the stored *)
(* reports.                                                                  *)
THEOREM OutcomeIsJustified == Spec => []OutcomeJustified
<1>1. IInv => OutcomeJustified
  BY DEF IInv, ShapeOf, OutcomeJustified
<1>2. QED
  BY <1>1, Inductive, PTL

(* The record of recordReport and recordFinish agrees with the match for any *)
(* order of the upserts, and is complete when nothing failed.                *)
THEOREM RecordIsTrue == Spec => []RecordAgrees
<1>1. IInv => RecordAgrees
  <2> SUFFICES ASSUME IInv PROVE RecordAgrees
    OBVIOUS
  <2>1. RowInv /\ RowOK /\ match \in Matches
    BY DEF IInv, TypeOK, MatchOK
  <2>2. ASSUME faults = 0, \A r \in Reqs : pc[r] = "idle"
        PROVE  row = [report |-> match.result, outcome |-> match.outcome]
    <3>1. row.outcome = match.outcome /\ \A s \in Sides : row.report[s] = match.result[s]
      BY <2>1, <2>2 DEF RowInv
    <3>2. row.report = match.result
      BY <2>1, <3>1 DEF RowOK, Matches
    <3>3. QED
      BY <2>1, <3>1, <3>2 DEF RowOK
  <2>3. QED
    BY <2>1, <2>2 DEF RecordAgrees, RowInv
<1>2. QED
  BY <1>1, Inductive, PTL

(* The invited user finds every open invitation through Invitations.         *)
THEOREM OpenInvitationsListed == Spec => []InvitationListed
<1>1. IInv => InvitationListed
  BY DEF IInv, ListedInv
<1>2. QED
  BY <1>1, Inductive, PTL

(* Neither outcome nor report changes once stored, and a running match is    *)
(* not removed by remove.                                                    *)
LEMMA OutcomeIsFinal == IInv /\ [Next]_vars => OutcomeFinal
<1> SUFFICES ASSUME IInv, [Next]_vars PROVE OutcomeFinal
  OBVIOUS
<1>1. Core /\ Rest /\ ShapeOf(match) /\ match \in Matches
  BY TypeParts DEF IInv, Core
<1>2. ASSUME NEW r \in Reqs, Exec(r) PROVE Keeps(match, req[r], match')
  BY <1>1, <1>2, ExecMatch
<1>3. CASE \E r \in Reqs : Exec(r)
  BY <1>2, <1>3 DEF Keeps, OutcomeFinal
<1>4. CASE Invite \/ Expire
  <2>1. match'.outcome = match.outcome /\ match'.result = match.result
    BY <1>1, <1>4 DEF Invite, Expire, Matches
  <2>2. match.status = "playing" => since = Late
    BY <1>4 DEF Invite, Expire
  <2>3. QED
    BY <2>1, <2>2 DEF OutcomeFinal
<1>5. CASE match' = match
  BY <1>5 DEF OutcomeFinal
<1>6. QED
  BY <1>1, <1>3, <1>4, <1>5, MatchSteps

(* ClaimDisconnected never beats a player whose report is in, even when the  *)
(* report arrives while the claim is being decided.                          *)
LEMMA ReporterIsSafe == IInv /\ [Next]_vars => ReporterNotDisconnected
<1> SUFFICES ASSUME IInv, [Next]_vars, NEW s \in Sides, match.outcome = None,
                    match'.outcome = [winner |-> Opp(s), reason |-> "disconnected"]
             PROVE  match.result[s] = None
  BY DEF ReporterNotDisconnected
<1>1. Core /\ Rest /\ ShapeOf(match) /\ match \in Matches
  BY TypeParts DEF IInv, Core
<1>2. match'.outcome # None
  BY OppSide, BubbleAssumption DEF Outcomes
<1>3. PICK r \in Reqs : Exec(r)
  BY <1>1, <1>2, MatchSteps DEF Invite, Expire, Matches
<1>4. Keeps(match, req[r], match')
  BY <1>1, <1>3, ExecMatch
<1>5. QED
  BY <1>4 DEF Keeps

(* Invite's withdrawal and Decline remove an unanswered invitation only.     *)
LEMMA AcceptedIsKept == IInv /\ [Next]_vars => AcceptedKept
<1> SUFFICES ASSUME IInv, [Next]_vars, NEW r \in Reqs, pc[r] = "exec", pc'[r] # "exec",
                    req[r].op \in {"withdraw", "decline"}, match.status = "accepted"
             PROVE  match'.status = "accepted"
  BY DEF AcceptedKept
<1>1. TypeOK /\ LockInv /\ Rest
  BY TypeParts DEF IInv
<1>2. ASSUME NEW x \in Reqs, Exec(x) PROVE FALSE
  <2>1. x = r
    BY <1>1, <1>2, ExecKeeps
  <2>2. Timeless(match, req[r])
    BY <1>1, <1>2, <2>1, ExecIs
  <2>3. QED
    BY <2>2 DEF Timeless, MayDecline, InvitedOnly
<1>3. ~ Invite /\ ~ Expire
  BY DEF Invite, Expire
<1>4. QED
  BY <1>1, <1>2, <1>3, MatchSteps

(* The three together: no request takes back what another one has been       *)
(* told, for any number of requests in flight.                               *)
THEOREM NothingIsTakenBack == Spec => NothingTakenBack
<1>1. IInv /\ [Next]_vars => [OutcomeFinal /\ ReporterNotDisconnected /\ AcceptedKept]_vars
  BY OutcomeIsFinal, ReporterIsSafe, AcceptedIsKept
<1>2. QED
  BY <1>1, Inductive, PTL DEF Spec, NothingTakenBack

----------------------------------------------------------------------------
(* Stones on their way.  An attack is counted in the EXEC and published two  *)
(* steps later, so what a client has received plus what is between the two   *)
(* never exceeds the count its report is judged by, unless the count stands  *)
(* at its bound.                                                             *)

Pending(s) == {r \in Reqs : pc[r] \in {"touch", "publish"} /\ req[r].side = s}

CountInv ==
    \A s \in Sides :
        \/ match.sent[s] = MaxSent
        \/ got[Opp(s)] + Cardinality(Pending(s)) <= match.sent[s]

(* A report knows no more stones than its client has received by now.        *)
SnapInv ==
    \A r \in Reqs :
        pc[r] = "exec" /\ req[r].op = "report" => req[r].held <= got[req[r].side]

HonestInv == CountInv /\ SnapInv /\ HonestNeverInvalid

LEMMA PendingFinite == ASSUME NEW s
                       PROVE  IsFiniteSet(Pending(s)) /\ Cardinality(Pending(s)) \in Nat
<1>1. Pending(s) \subseteq Reqs
  BY DEF Pending
<1>2. QED
  BY <1>1, BubbleAssumption, FS_Subset, FS_CardinalityType

(* The counts of stones as numbers.                                          *)
LEMMA StoneTypes == ASSUME Core, Rest, NEW s \in Sides
                    PROVE  /\ match.sent[s] \in 0..MaxSent /\ got[s] \in 0..MaxSent
                           /\ Opp(s) \in Sides /\ got[Opp(s)] \in 0..MaxSent
                           /\ Opp(Opp(s)) = s /\ Opp(s) # s
                           /\ MaxSent \in Nat
<1>1. Opp(s) \in Sides /\ Opp(Opp(s)) = s /\ Opp(s) # s
  BY DEF Opp, Sides
<1>2. match.sent \in [Sides -> 0..MaxSent] /\ got \in [Sides -> 0..MaxSent]
  BY DEF Core, Rest, ClientsOK, Matches
<1>3. QED
  BY <1>1, <1>2, BubbleAssumption

(* Only an attack counts a stone, and only an attack goes on to publish.     *)
LEMMA ChangeSent == ASSUME NEW m \in Matches, NEW q, GoodRequest(q), Timeless(m, q)
                    PROVE  /\ Then(m, q) # "publish"
                           /\ Then(m, q) = "touch" => q.op = "attack"
                           /\ q.op # "attack" => Change(m, q).sent = m.sent
                           /\ q.op = "attack" =>
                                 Change(m, q).sent =
                                   [m.sent EXCEPT ![q.side] = Least(m.sent[q.side] + 1, MaxSent)]
<1>1. q.op \in Ops /\ q.side \in Sides
  BY DEF GoodRequest, Requests
<1>2. CASE q.op \in {"accept", "decline", "withdraw", "cancel"}
  BY <1>2 DEF Change, Then, Accepted, Removed, Matches
<1>3. CASE q.op \in {"ready", "unready"}
  BY <1>3 DEF Change, Then, ReadySet, Matches
<1>4. CASE q.op = "attack"
  BY <1>1, <1>4 DEF Change, Then, Attacked, Matches
<1>5. CASE q.op = "claim"
  BY <1>5 DEF Change, Then, Claimed, Ended, Matches
<1>6. CASE q.op = "report"
  BY <1>1, <1>6 DEF Change, Then, Reported, Ended, Matches
<1>7. QED
  BY <1>1, <1>2, <1>3, <1>4, <1>5, <1>6 DEF Ops

(* What a report leaves in the match is the judged report.                   *)
LEMMA ReportJudged == ASSUME NEW m \in Matches, NEW q, GoodRequest(q), q.op = "report"
                      PROVE  Change(m, q).result[q.side] = Kept(m, q.side, q.report)
BY DEF GoodRequest, Requests, Change, Reported, Ended, Matches

(* A report of stones that were counted is kept as it is.                    *)
LEMMA HonestIsKept == ASSUME NEW m \in Matches, NEW s \in Sides, NEW res \in Reports,
                             Kept(m, s, res).garbage <= m.sent[Opp(s)]
                      PROVE  Kept(m, s, res).reason # "invalidReport"
<1>1. res \in [score : Nat, reason : Reasons, garbage : Nat]
  BY BubbleAssumption
<1>2. Kept(m, s, res).garbage = res.garbage
  BY <1>1 DEF Kept
<1>3. m.sent[Opp(s)] \in Nat
  BY OppSide DEF Matches
<1>4. ~ Impossible(m, s, res)
  BY <1>1, <1>2, <1>3 DEF Impossible
<1>5. QED
  BY <1>1, <1>4 DEF Kept, Reasons

(* Requests that finish or fail only shorten the queue of pending stones.    *)
LEMMA CountKept == ASSUME Core, Rest, CountInv, got' = got, match'.sent = match.sent,
                          \A s \in Sides : Pending(s)' \subseteq Pending(s)
                   PROVE  CountInv'
<1> SUFFICES ASSUME NEW s \in Sides
             PROVE  \/ match'.sent[s] = MaxSent
                    \/ got'[Opp(s)] + Cardinality(Pending(s)') <= match'.sent[s]
  BY DEF CountInv
<1>1. /\ IsFiniteSet(Pending(s)) /\ Cardinality(Pending(s)) \in Nat
  BY PendingFinite
<1>2. Cardinality(Pending(s)') \in Nat /\ Cardinality(Pending(s)') <= Cardinality(Pending(s))
  BY <1>1, FS_Subset, FS_CardinalityType
<1>3. match.sent[s] = MaxSent \/ got[Opp(s)] + Cardinality(Pending(s)) <= match.sent[s]
  BY DEF CountInv
<1>4. QED
  BY <1>1, <1>2, <1>3, StoneTypes

(* Publish hands one pending stone over.                                     *)
LEMMA CountPublish == ASSUME Core, Rest, CountInv, NEW r \in Reqs, Publish(r) PROVE CountInv'
<1> DEFINE t == req[r].side
<1>0. RequestsOK /\ pc[r] = "publish" /\ match' = match /\ Goto(r, "idle")
  BY DEF Core, ReqType, Publish
<1>1. t \in Sides
  BY <1>0 DEF RequestsOK, Requests
<1>2. \A s \in Sides : Pending(s)' = Pending(s) \ {r}
  BY <1>0 DEF Goto, RequestsOK, Pending
<1>3. CASE got' = got
  BY <1>0, <1>2, <1>3, CountKept
<1>4. CASE got' = [got EXCEPT ![Opp(t)] = Least(got[Opp(t)] + 1, MaxSent)]
  <2> SUFFICES ASSUME NEW s \in Sides
               PROVE  \/ match.sent[s] = MaxSent
                      \/ got'[Opp(s)] + Cardinality(Pending(s)') <= match.sent[s]
    BY <1>0 DEF CountInv
  <2>1. IsFiniteSet(Pending(s)) /\ Cardinality(Pending(s)) \in Nat
    BY PendingFinite
  <2>2. match.sent[s] = MaxSent \/ got[Opp(s)] + Cardinality(Pending(s)) <= match.sent[s]
    BY DEF CountInv
  <2>3. CASE s = t
    <3>1. r \in Pending(s)
      BY <1>0, <2>3 DEF Pending
    <3>2. Cardinality(Pending(s)') = Cardinality(Pending(s)) - 1
      BY <1>2, <2>1, <3>1, FS_RemoveElement
    <3>3. got'[Opp(s)] = Least(got[Opp(s)] + 1, MaxSent)
      BY <1>4, <2>3, OppSide DEF Rest, ClientsOK
    <3>4. got'[Opp(s)] \in Int /\ got'[Opp(s)] <= got[Opp(s)] + 1
      BY <3>3, StoneTypes DEF Least
    <3>5. QED
      BY <2>1, <2>2, <3>2, <3>4, StoneTypes
  <2>4. CASE s # t
    <3>1. Opp(s) # Opp(t)
      BY <1>1, <2>4 DEF Opp, Sides
    <3>2. got'[Opp(s)] = got[Opp(s)]
      BY <1>4, <3>1, OppSide DEF Rest, ClientsOK
    <3>3. Cardinality(Pending(s)') \in Nat /\ Cardinality(Pending(s)') <= Cardinality(Pending(s))
      BY <1>2, <2>1, FS_Subset, FS_CardinalityType
    <3>4. QED
      BY <2>1, <2>2, <3>2, <3>3, StoneTypes
  <2>5. QED
    BY <2>3, <2>4
<1>5. QED
  BY <1>3, <1>4 DEF Publish

(* The EXEC of an attack counts its stone before it is pending.              *)
LEMMA CountExec == ASSUME Core, Rest, CountInv, NEW r \in Reqs, Exec(r) PROVE CountInv'
<1> DEFINE t == req[r].side
<1>0. /\ match \in Matches /\ pc[r] = "exec" /\ got' = got
      /\ GoodRequest(req[r]) /\ Timeless(match, req[r]) /\ match' = Change(match, req[r])
      /\ draft[r].then = Then(match, req[r])
      /\ \A x \in Reqs : x # r => pc'[x] = pc[x] /\ req'[x] = req[x]
      /\ pc'[r] = draft[r].then
      /\ req'[r] = req[r] \/ draft[r].then = "idle"
  BY ExecIs, ExecKeeps, TypeParts DEF Core, Exec
<1>1. t \in Sides
  BY <1>0 DEF GoodRequest, Requests
<1>2. \A s \in Sides : r \notin Pending(s)
  BY <1>0 DEF Pending
<1>3. CASE req[r].op # "attack"
  <2>1. pc'[r] \notin {"touch", "publish"} /\ match'.sent = match.sent
    <3>1. /\ Then(match, req[r]) \notin {"touch", "publish"}
          /\ Change(match, req[r]).sent = match.sent
      BY <1>0, <1>3, ChangeSent, Zenon
    <3>2. QED
      BY <1>0, <3>1
  <2>2. \A s \in Sides : Pending(s)' \subseteq Pending(s)
    BY <1>0, <2>1 DEF Pending
  <2>3. QED
    BY <1>0, <2>1, <2>2, CountKept
<1>4. CASE req[r].op = "attack"
  <2>1. match'.sent = [match.sent EXCEPT ![t] = Least(match.sent[t] + 1, MaxSent)]
    BY <1>0, <1>4, ChangeSent
  <2>2. match.sent \in [Sides -> 0..MaxSent]
    BY <1>0 DEF Matches
  <2>3. pc'[r] = "touch" /\ req'[r] = req[r]
    BY <1>0, <1>4 DEF Then
  <2> SUFFICES ASSUME NEW s \in Sides
               PROVE  \/ match'.sent[s] = MaxSent
                      \/ got[Opp(s)] + Cardinality(Pending(s)') <= match'.sent[s]
    BY <1>0 DEF CountInv
  <2>4. IsFiniteSet(Pending(s)) /\ Cardinality(Pending(s)) \in Nat
    BY PendingFinite
  <2>5. match.sent[s] = MaxSent \/ got[Opp(s)] + Cardinality(Pending(s)) <= match.sent[s]
    BY DEF CountInv
  <2>6. CASE s = t
    <3>1. Pending(s)' = Pending(s) \cup {r}
      BY <1>0, <2>3, <2>6 DEF Pending
    <3>2. Cardinality(Pending(s)') = Cardinality(Pending(s)) + 1
      BY <1>2, <2>4, <3>1, FS_AddElement
    <3>3. match'.sent[s] = Least(match.sent[s] + 1, MaxSent)
      BY <2>1, <2>2, <2>6
    <3>4. match'.sent[s] = MaxSent \/ match'.sent[s] = match.sent[s] + 1
      BY <3>3 DEF Least
    <3>5. match.sent[s] = MaxSent => match'.sent[s] = MaxSent
      BY <3>3, StoneTypes DEF Least
    <3>6. QED
      BY <2>4, <2>5, <3>2, <3>4, <3>5, StoneTypes
  <2>7. CASE s # t
    <3>1. Pending(s)' = Pending(s)
      BY <1>0, <1>2, <2>3, <2>7 DEF Pending
    <3>2. match'.sent[s] = match.sent[s]
      BY <2>1, <2>2, <2>7
    <3>3. QED
      BY <2>5, <3>1, <3>2
  <2>8. QED
    BY <2>6, <2>7
<1>5. QED
  BY <1>3, <1>4

LEMMA CountStep == Core /\ Rest /\ CountInv /\ [Next]_vars => CountInv'
<1> SUFFICES ASSUME Core, Rest, CountInv, [Next]_vars PROVE CountInv'
  OBVIOUS
<1>0. RequestsOK /\ match \in Matches
  BY DEF Core, ReqType
<1>a. ASSUME pc' = pc, req' = req, got' = got, match'.sent = match.sent PROVE CountInv'
  BY <1>a, CountKept DEF Pending
<1>b. ASSUME NEW r \in Reqs, NEW step \in Steps, Goto(r, step), got' = got, match' = match,
             step # "touch", step = "publish" => pc[r] = "touch"
      PROVE  CountInv'
  <2>1. \A x \in Reqs : /\ x # r => pc'[x] = pc[x] /\ req'[x] = req[x]
                        /\ pc'[r] = step
                        /\ step # "idle" => req'[r] = req[r]
    BY <1>0, <1>b DEF Goto, RequestsOK
  <2>2. \A s \in Sides : Pending(s)' \subseteq Pending(s)
    BY <1>b, <2>1 DEF Pending
  <2>3. QED
    BY <1>b, <2>2, CountKept
<1>c. ASSUME NEW r \in Reqs, NEW q, Read(r, q) PROVE CountInv'
  <2>1. \A s \in Sides : Pending(s)' \subseteq Pending(s)
    BY <1>0, <1>c DEF Read, RequestsOK, Pending
  <2>2. QED
    BY <1>c, <2>1, CountKept DEF Read
<1>1. ASSUME NEW r \in Reqs, Exec(r) PROVE CountInv'
  BY <1>1, CountExec
<1>2. CASE Invite \/ Expire
  <2>1. match'.sent = match.sent
    BY <1>0, <1>2 DEF Invite, Expire, Matches
  <2>2. QED
    BY <1>2, <1>a, <2>1 DEF Invite, Expire
<1>3. CASE Invitations \/ Tick \/ (\E s \in Sides : State(s)) \/ UNCHANGED vars
  BY <1>3, <1>a DEF Invitations, Tick, State, vars
<1>4. ASSUME NEW r \in Reqs, Publish(r) PROVE CountInv'
  BY <1>4, CountPublish
<1>5. ASSUME NEW r \in Reqs, Retry(r) \/ Unlist(r) \/ Touch(r) \/ TouchStart(r)
      PROVE  CountInv'
  BY <1>5, <1>b, <1>c DEF Retry, Unlist, Touch, TouchStart, Steps
<1>6. ASSUME NEW r \in Reqs,
             SaveReport(r) \/ Finish(r) \/ Crash(r) \/ SaveReportFails(r)
      PROVE  CountInv'
  BY <1>6, <1>b DEF SaveReport, Finish, Crash, SaveReportFails, Steps
<1>7. ASSUME NEW r \in Reqs, Ask(r) PROVE CountInv'
  BY <1>7, <1>c, AskIsRead
<1>8. QED
  BY <1>1, <1>2, <1>3, <1>4, <1>5, <1>6, <1>7 DEF Next, Serve

(* A client never loses stones it has received.                              *)
LEMMA GotGrows == ASSUME Core, Rest, [Next]_vars, NEW s \in Sides PROVE got[s] <= got'[s]
<1>1. got \in [Sides -> 0..MaxSent] /\ RequestsOK
  BY DEF Core, ReqType, Rest, ClientsOK
<1>2. ASSUME NEW r \in Reqs, Publish(r) PROVE got[s] <= got'[s]
  <2>1. Opp(req[r].side) \in Sides
    BY <1>1, <1>2, OppSide DEF Publish, RequestsOK, Requests
  <2>2. QED
    BY <1>1, <1>2, <2>1, BubbleAssumption DEF Publish, Least
<1>3. CASE got' = got
  BY <1>1, <1>3, BubbleAssumption
<1>4. ASSUME NEW r \in Reqs, Ask(r) PROVE got' = got
  BY <1>4, AskIsRead DEF Read
<1>5. ASSUME NEW r \in Reqs, Serve(r), ~ Publish(r) PROVE got' = got
  BY <1>5 DEF Serve, Exec, Retry, Read, Unlist, TouchStart, Touch, SaveReport, Finish
<1>6. ASSUME NEW r \in Reqs, Crash(r) \/ SaveReportFails(r) PROVE got' = got
  BY <1>6 DEF Crash, SaveReportFails
<1>7. QED
  BY <1>2, <1>3, <1>4, <1>5, <1>6 DEF Next, vars, Invite, Invitations, Tick, Expire, State

LEMMA SnapStep == Core /\ Rest /\ SnapInv /\ [Next]_vars => SnapInv'
<1> SUFFICES ASSUME Core, Rest, SnapInv, [Next]_vars,
                    NEW x \in Reqs, pc'[x] = "exec", req'[x].op = "report"
             PROVE  req'[x].held <= got'[req'[x].side]
  BY DEF SnapInv
<1>0. RequestsOK /\ got \in [Sides -> 0..MaxSent]
  BY DEF Core, ReqType, Rest, ClientsOK
<1>1. CASE pc[x] = "exec" /\ req'[x] = req[x]
  <2>1. req[x] \in Requests
    BY <1>0, <1>1 DEF RequestsOK
  <2>2. req[x].side \in Sides /\ req[x].held \in 0..MaxSent
    BY <2>1 DEF Requests
  <2>3. got[req[x].side] <= got'[req[x].side]
    BY <2>2, GotGrows
  <2>4. got' \in [Sides -> 0..MaxSent]
    BY RestStep DEF Rest, ClientsOK
  <2>5. req[x].held <= got[req[x].side]
    BY <1>1 DEF SnapInv
  <2>6. got[req[x].side] \in Int /\ got'[req[x].side] \in Int
    BY <1>0, <2>2, <2>4, BubbleAssumption
  <2>7. QED
    BY <1>1, <2>2, <2>3, <2>5, <2>6
<1>2. CASE \E s \in Sides, res \in Reports :
              /\ got' = got
              /\ req'[x] = [op |-> "report", side |-> s, report |-> res, held |-> got[s]]
  <2>1. PICK s \in Sides, res \in Reports :
           /\ got' = got
           /\ req'[x] = [op |-> "report", side |-> s, report |-> res, held |-> got[s]]
    BY <1>2
  <2>2. req'[x].held = got[s] /\ req'[x].side = s
    BY <2>1
  <2>3. QED
    BY <1>0, <2>1, <2>2, BubbleAssumption
<1>3. ASSUME NEW r \in Reqs, NEW step \in Steps \ {"exec"}, Goto(r, step)
      PROVE  pc[x] = "exec" /\ req'[x] = req[x]
  BY <1>0, <1>3 DEF Goto, RequestsOK
<1>4. ASSUME NEW r \in Reqs, Exec(r) PROVE pc[x] = "exec" /\ req'[x] = req[x]
  <2>1. /\ x # r => pc'[x] = pc[x] /\ req'[x] = req[x]
        /\ pc'[r] = Then(match, req[r]) /\ Then(match, req[r]) # "exec"
    BY <1>4, ExecIs, ExecKeeps, ThenMeans, TypeParts DEF Core
  <2>2. QED
    BY <2>1
<1>5. ASSUME NEW r \in Reqs, Retry(r) PROVE pc[x] = "exec" /\ req'[x] = req[x]
  <2>1. CASE Read(r, req[r])
    BY <1>0, <1>5, <2>1 DEF Retry, Read, RequestsOK
  <2>2. CASE Goto(r, "idle")
    BY <1>3, <2>2 DEF Steps
  <2>3. QED
    BY <1>5, <2>1, <2>2 DEF Retry
<1>6. ASSUME NEW r \in Reqs, Ask(r) PROVE req'[x].held <= got'[req'[x].side]
  <2>1. CASE x # r
    <3>1. pc'[x] = pc[x] /\ req'[x] = req[x]
      BY <1>0, <1>6, <2>1, AskIsRead DEF Read, RequestsOK
    <3>2. QED
      BY <1>1, <3>1
  <2>2. CASE x = r
    <3>1. PICK s \in Sides :
             \/ \E op \in Ops \ {"report"} : Submit(r, Simple(op, s))
             \/ \E res \in Reports :
                   Submit(r, [op |-> "report", side |-> s, report |-> res, held |-> got[s]])
      BY <1>6 DEF Ask
    <3>2. ASSUME NEW op \in Ops \ {"report"}, Submit(r, Simple(op, s)) PROVE FALSE
      <4>1. req'[x] = Simple(op, s)
        BY <1>0, <2>2, <3>2 DEF Submit, Read, RequestsOK
      <4>2. QED
        BY <4>1 DEF Simple
    <3>3. PICK res \in Reports :
             Submit(r, [op |-> "report", side |-> s, report |-> res, held |-> got[s]])
      BY <3>1, <3>2
    <3>4. /\ got' = got
          /\ req'[x] = [op |-> "report", side |-> s, report |-> res, held |-> got[s]]
      BY <1>0, <2>2, <3>3 DEF Submit, Read, RequestsOK
    <3>5. QED
      BY <1>2, <3>4
  <2>3. QED
    BY <2>1, <2>2
<1>7. CASE req' = req /\ pc' = pc
  BY <1>1, <1>7
<1>8. ASSUME NEW r \in Reqs, Unlist(r) \/ TouchStart(r) \/ Touch(r) \/ Publish(r)
      PROVE  pc[x] = "exec" /\ req'[x] = req[x]
  BY <1>3, <1>8 DEF Unlist, TouchStart, Touch, Publish, Steps
<1>9. ASSUME NEW r \in Reqs,
             SaveReport(r) \/ Finish(r) \/ Crash(r) \/ SaveReportFails(r)
      PROVE  pc[x] = "exec" /\ req'[x] = req[x]
  BY <1>3, <1>9 DEF SaveReport, Finish, Crash, SaveReportFails, Steps
<1>10. QED
  BY <1>1, <1>4, <1>5, <1>6, <1>7, <1>8, <1>9
     DEF Next, Serve, vars, Invite, Invitations, Tick, Expire, State

(* The judgement: nothing but an EXEC of a report judges, and it judges by   *)
(* the count of the match that is current.                                   *)
LEMMA HonestStep == Core /\ Rest /\ ShapeOf(match) /\ HonestInv /\ [Next]_vars
                      => HonestNeverInvalid'
<1> SUFFICES ASSUME Core, Rest, ShapeOf(match), HonestInv, [Next]_vars,
                    NEW s \in Sides, match'.result[s] # None,
                    match'.result[s].garbage <= held'[s]
             PROVE  match'.result[s].reason # "invalidReport"
  BY DEF HonestNeverInvalid
<1>0. match \in Matches /\ RequestsOK /\ held \in [Sides -> 0..MaxSent]
  BY DEF Core, ReqType, Rest, ClientsOK
<1>1. CASE match'.result = match.result /\ held' = held
  BY <1>1 DEF HonestInv, HonestNeverInvalid
<1>2. ASSUME NEW r \in Reqs, Exec(r) PROVE match'.result[s].reason # "invalidReport"
  <2>1. /\ GoodRequest(req[r]) /\ Timeless(match, req[r]) /\ match' = Change(match, req[r])
        /\ Keeps(match, req[r], match') /\ req[r].side \in Sides
    BY <1>2, ExecIs, ExecMatch, TypeParts
  <2>2. CASE req[r].op = "report" /\ s = req[r].side
    <3> DEFINE kept == Kept(match, s, req[r].report)
    <3>1. match'.result[s] = kept /\ req[r].report \in Reports
      BY <1>0, <2>1, <2>2, ReportJudged DEF GoodRequest
    <3>2. held'[s] = req[r].held
      BY <1>0, <1>2, <2>2 DEF Exec
    <3>3. pc[r] = "exec" /\ req[r] \in Requests
      BY <1>2, <2>1 DEF Exec, GoodRequest
    <3>4. req[r].held \in 0..MaxSent /\ req[r].held <= got[s]
      BY <2>2, <3>3 DEF HonestInv, SnapInv, Requests
    <3>5. got[s] <= match.sent[Opp(s)]
      <4>1. \/ match.sent[Opp(s)] = MaxSent
            \/ got[s] + Cardinality(Pending(Opp(s))) <= match.sent[Opp(s)]
        BY StoneTypes DEF HonestInv, CountInv
      <4>2. Cardinality(Pending(Opp(s))) \in Nat
        BY PendingFinite
      <4>3. match.sent[Opp(s)] \in 0..MaxSent
        BY StoneTypes
      <4>4. QED
        BY <4>1, <4>2, <4>3, StoneTypes
    <3>6. kept.garbage \in Nat
      BY <1>0, <3>1, KeptType DEF Results
    <3>7. match.sent[Opp(s)] \in Int /\ got[s] \in Int
      BY StoneTypes
    <3>8. kept.garbage <= match.sent[Opp(s)]
      <4> HIDE DEF kept
      <4>1. QED BY <3>1, <3>2, <3>4, <3>5, <3>6, <3>7
    <3>9. QED
      BY <1>0, <3>1, <3>8, HonestIsKept
  <2>3. CASE ~ (req[r].op = "report" /\ s = req[r].side)
    <3>1. match'.result[s] = match.result[s]
      BY <2>1, <2>3 DEF Keeps
    <3>2. held'[s] = held[s]
      BY <1>0, <1>2, <2>1, <2>3 DEF Exec
    <3>3. QED
      BY <3>1, <3>2 DEF HonestInv, HonestNeverInvalid
  <2>4. QED
    BY <2>2, <2>3
<1>3. CASE Invite \/ Expire
  <2>1. match'.result = match.result /\ held' = held
    BY <1>0, <1>3 DEF Invite, Expire, Matches
  <2>2. QED
    BY <1>1, <2>1
<1>4. ASSUME NEW r \in Reqs, Serve(r), ~ Exec(r) PROVE held' = held
  BY <1>4 DEF Serve, Retry, Read, Unlist, TouchStart, Touch, Publish, SaveReport, Finish
<1>5. ASSUME NEW r \in Reqs, Ask(r) PROVE held' = held
  BY <1>5, AskIsRead DEF Read
<1>6. ASSUME NEW r \in Reqs, Crash(r) \/ SaveReportFails(r) PROVE held' = held
  BY <1>6 DEF Crash, SaveReportFails
<1>7. CASE match' = match /\ ~ (\E r \in Reqs : Exec(r))
  <2>1. held' = held
    BY <1>4, <1>5, <1>6, <1>7 DEF Next, vars, Invite, Invitations, Tick, Expire, State
  <2>2. QED
    BY <1>1, <1>7, <2>1
<1>8. QED
  BY <1>2, <1>3, <1>7, MatchSteps

(* However many attacks, reports and claims are in flight and whichever of   *)
(* them fail: a report with no more stones than had reached the client when  *)
(* it was sent is never judged invalid, because Attack counts a stone before *)
(* it publishes it and SubmitReport judges by the current count.             *)
THEOREM HonestReports == Spec => []HonestNeverInvalid
<1>1. Init => HonestInv
  <2> SUFFICES ASSUME Init PROVE HonestInv
    OBVIOUS
  <2>1. \A s \in Sides : Pending(s) = {} /\ got[Opp(s)] = 0 /\ match.sent[s] = 0
    BY OppSide DEF Init, Fresh, Pending
  <2>2. CountInv
    BY <2>1, FS_EmptySet DEF CountInv
  <2>3. SnapInv
    BY DEF Init, SnapInv
  <2>4. HonestNeverInvalid
    BY DEF Init, Fresh, HonestNeverInvalid
  <2>5. QED
    BY <2>2, <2>3, <2>4 DEF HonestInv
<1>2. IInv /\ HonestInv /\ [Next]_vars => HonestInv'
  <2> SUFFICES ASSUME IInv, HonestInv, [Next]_vars PROVE HonestInv'
    OBVIOUS
  <2>1. Core /\ Rest /\ ShapeOf(match)
    BY TypeParts DEF IInv
  <2>2. QED
    BY <2>1, CountStep, SnapStep, HonestStep DEF HonestInv
<1>3. HonestInv => HonestNeverInvalid
  BY DEF HonestInv
<1>4. QED
  BY <1>1, <1>2, <1>3, Inductive, PTL DEF Spec
============================================================================
