---------------------------- MODULE ReversiMatch ----------------------------
(***************************************************************************)
(* One reversi game: the operations of internal/core/reversi/service.go on *)
(* its database row, its turn timers in Redis and its federation session.  *)
(* Requests come from the WebSocket channels of both players and from the  *)
(* federation inbox, on any number of processes, and are not serialised.   *)
(*                                                                         *)
(* An operation reads the row, decides, and writes later.  What it will    *)
(* write follows from what it read, so a request carries that as a draft.  *)
(* UpdateReadyState, MarkStarted and DeleteOutdatedGames are single        *)
(* statements with a condition; Update is gorm's Save, which writes every  *)
(* column and inserts the row anew if it is gone; Delete has no condition. *)
(*                                                                         *)
(* Left out: the activities delivered to the other server, all events but  *)
(* `started`, the times of the moves, noIrregularRules (no rule reads it)  *)
(* and a service without Redis.                                            *)
(***************************************************************************)
EXTENDS Integers, Sequences, FiniteSets

CONSTANTS
    Requests,     \* requests under way at once
    Configs,      \* settings of a game: map, rule options, bw, time limit
    Settings,     \* those among them the modelled stretch may begin with
    SessionBlack, \* the player to whom the session id gives black
    MaxAsked,     \* bound: operations begun
    MaxFaults     \* bound: requests that die

Players == {1, 2}
None == 0

ASSUME MatchAssumption ==
    /\ IsFiniteSet(Requests)
    /\ \A c \in Configs : /\ c.bw \in {"1", "2", "random"} /\ c.limit \in Nat
                          /\ c.map.width \in Nat /\ c.map.height \in Nat
                          /\ c.map.cells \in [0 .. (c.map.width * c.map.height - 1)
                                                -> {"-", "b", "w", "x"}]
    /\ Settings \subseteq Configs /\ SessionBlack \in Players
    /\ MaxAsked \in Nat /\ MaxFaults \in Nat

VARIABLES
    row,       \* the row of reversi_game, or NoGame
    pc,        \* per request, the statement it executes next
    draft,     \* per request, the row it has read or is about to write
    call,      \* per request in UpdateReady, the player and the flag
    dead,      \* requests that failed or whose process died, where they were
    timers,    \* turn timer keys that exist, by the number of moves made
    armed,     \* history: the numbers of moves a turn timer was set for
    session,   \* a federation session is mapped to the game
    published, \* `started` events
    undone,    \* history: Saves that took the game back to before its start
    late,      \* history: a Save of settings overtook a request about to start
    asked      \* operations begun

vars == <<row, pc, draft, call, dead, timers, armed, session, published, undone, late, asked>>

Engine == INSTANCE ReversiEngine

NoGame == [row |-> FALSE]
NoCall == [user |-> None, ready |-> FALSE]

(* The checksum of a position is modelled by what it was computed from. *)
Rows == [config : Configs, ready : SUBSET Players, black : Players \cup {None},
         started : BOOLEAN, ended : BOOLEAN, winner : Players \cup {None},
         surrendered : Players \cup {None}, timeout : Players \cup {None},
         logs : Seq(Nat), crc : (Configs \X Seq(Nat)) \cup {<< >>}]

(* A game as it was created, or as earlier requests left it: with any        *)
(* settings, and at most one player ready.                                   *)
Init ==
    /\ \E config \in Settings, ready \in (SUBSET Players) \ {Players} :
         row = [config |-> config, ready |-> ready, black |-> None, started |-> FALSE,
                ended |-> FALSE, winner |-> None, surrendered |-> None,
                timeout |-> None, logs |-> << >>, crc |-> << >>]
    /\ pc = [r \in Requests |-> "idle"]
    /\ draft = [r \in Requests |-> NoGame]
    /\ call = [r \in Requests |-> NoCall]
    /\ dead = {}
    /\ timers = {} /\ armed = {}
    /\ session \in BOOLEAN
    /\ published = 0 /\ undone = 0 /\ late = FALSE /\ asked = 0

-----------------------------------------------------------------------------
(* The row as an operation sees it. *)

Position(g) == Engine!EngineFromGame(g.config, g.logs)

opponent(p) == 3 - p
playerColor(g, p) == IF g.black = p THEN "b" ELSE "w"
playerIDForColor(g, color) == IF color = "b" THEN g.black ELSE opponent(g.black)

Playing(g) == g # NoGame /\ g.started /\ ~ g.ended

(* UpdateSettings refuses a started or ended game. *)
OpenForSettings(g) == g # NoGame /\ ~ g.started /\ ~ g.ended

\* Mutant: the ready flags survive a change of the settings.
ConfiguredKeepsReady(g, c) == [g EXCEPT !.config = c]

(* Both players have to be ready anew, even if the value is the old one. *)
Configured(g, c) == [g EXCEPT !.config = c, !.ready = {}]

(* applySetting writes one key, maybe with the value it has.  A change of    *)
(* noIrregularRules changes nothing else.                                    *)
OneKey(c, d) == \E k \in DOMAIN c : \A j \in DOMAIN c \ {k} : c[j] = d[j]

Won(g, winner) == [g EXCEPT !.ended = TRUE, !.winner = winner]

(* PutStone accepts the move, e being the position of g. *)
MayPut(g, e, p, pos) ==
    /\ Playing(g)
    /\ e.turn = playerColor(g, p)
    /\ Engine!CanPut(g.config, e.board, e.turn, pos)

\* Mutant: the winner is left out.
finalizeGameNoWinner(g, e) == Won(g, None)

finalizeGame(g, e) ==
    LET color == Engine!Winner(g.config, e) IN
    Won(g, IF color = "-" THEN None ELSE playerIDForColor(g, color))

\* Mutant: the checksum is renewed only at the end of the game (#1553).
PutKeepsChecksum(g, pos) ==
    LET h == [g EXCEPT !.logs = Append(@, pos)]
    IN IF Position(h).turn = "-"
       THEN [finalizeGame(h, Position(h)) EXCEPT !.crc = <<h.config, h.logs>>] ELSE h

(* PutStone: the move is appended and the checksum renewed, and a game that  *)
(* nobody can continue ends.                                                 *)
Put(g, pos) ==
    LET logs == Append(g.logs, pos)
        h == [g EXCEPT !.logs = logs, !.crc = <<g.config, logs>>]
    IN IF Position(h).turn = "-" THEN finalizeGame(h, Position(h)) ELSE h

Surrendered(g, p) == [Won(g, opponent(p)) EXCEPT !.surrendered = p]

TimedOut(g) ==
    LET loser == playerIDForColor(g, Position(g).turn)
    IN [Won(g, opponent(loser)) EXCEPT !.timeout = loser]

pickBlack(bw) ==
    CASE bw = "1" -> {1}
      [] bw = "2" -> {2}
      [] OTHER -> IF session THEN {SessionBlack} ELSE Players

(* StartGame on the row it was given. *)
Begun(g, black) ==
    [g EXCEPT !.black = black, !.started = TRUE, !.crc = <<g.config, g.logs>>]

-----------------------------------------------------------------------------
(* Operations. *)

Live(r, at) == r \notin dead /\ pc[r] = at

Goto(r, at) == pc' = [pc EXCEPT ![r] = at]
Hold(r, g) == draft' = [draft EXCEPT ![r] = g]
Return(r) == Goto(r, "idle") /\ Hold(r, NoGame) /\ call' = [call EXCEPT ![r] = NoCall]

Begin(r) == Live(r, "idle") /\ asked < MaxAsked /\ asked' = asked + 1

(* The operations up to their first write. *)
AskReady(r, p, ready) ==
    /\ Begin(r)
    /\ row # NoGame /\ ~ row.started /\ ~ row.ended
    /\ Goto(r, "ready") /\ call' = [call EXCEPT ![r] = [user |-> p, ready |-> ready]]
    /\ UNCHANGED draft

UpdateSettings(r) ==
    /\ Begin(r)
    /\ OpenForSettings(row)
    /\ \E c \in Configs : OneKey(row.config, c) /\ Hold(r, Configured(row, c))
    /\ Goto(r, "save")
    /\ UNCHANGED call

PutStone(r, p) ==
    /\ Begin(r)
    /\ Playing(row)
    /\ LET e == Position(row) IN
       \E pos \in Engine!Cells(row.config) : MayPut(row, e, p, pos) /\ Hold(r, Put(row, pos))
    /\ Goto(r, "save")
    /\ UNCHANGED call

\* Mutant: a game that has ended can be given up.
SurrenderEnded(r, p) ==
    /\ Begin(r)
    /\ row # NoGame /\ row.started
    /\ Hold(r, Surrendered(row, p))
    /\ Goto(r, "save")
    /\ UNCHANGED call

Surrender(r, p) ==
    /\ Begin(r)
    /\ Playing(row)
    /\ Hold(r, Surrendered(row, p))
    /\ Goto(r, "save")
    /\ UNCHANGED call

CheckTimeout(r) ==
    /\ Begin(r)
    /\ Playing(row)
    /\ Hold(r, row)
    /\ Goto(r, "exists")
    /\ UNCHANGED call

CancelGame(r) ==
    /\ Begin(r)
    /\ row # NoGame /\ ~ row.started
    /\ Goto(r, "delete")
    /\ UNCHANGED <<draft, call>>

Ask(r) ==
    /\ \/ \E p \in Players, ready \in BOOLEAN : AskReady(r, p, ready)
       \/ UpdateSettings(r)
       \/ \E p \in Players : PutStone(r, p) \/ Surrender(r, p)
       \/ CheckTimeout(r) \/ CancelGame(r)
    /\ UNCHANGED <<row, dead, timers, armed, session, published, undone, late>>

-----------------------------------------------------------------------------
(* The statements that follow. *)

SetReady(g, c) ==
    [g EXCEPT !.ready = IF c.ready THEN @ \cup {c.user} ELSE @ \ {c.user}]

(* UpdateReadyState writes the player's own column ... *)
UpdateReadyState(r) ==
    /\ Live(r, "ready")
    /\ IF row # NoGame /\ ~ row.started /\ ~ row.ended
       THEN row' = SetReady(row, call[r]) /\ Goto(r, "reread") /\ UNCHANGED <<draft, call>>
       ELSE Return(r) /\ UNCHANGED row
    /\ UNCHANGED <<dead, timers, armed, session, published, undone, late, asked>>

(* ... and reads the row again.  With both players ready, StartGame picks    *)
(* the colours.                                                              *)
Reread(r) ==
    /\ Live(r, "reread")
    /\ IF row # NoGame /\ row.ready = Players /\ ~ row.started /\ ~ row.ended
       THEN \E black \in pickBlack(row.config.bw) :
              /\ Hold(r, Begun(row, black)) /\ Goto(r, "start")
              /\ call' = [call EXCEPT ![r] = NoCall]
       ELSE Return(r)
    /\ UNCHANGED <<row, dead, timers, armed, session, published, undone, late, asked>>

\* Mutant: the UPDATE has no condition on isStarted.
ClaimableAlways(g) == g # NoGame

Claimable(g) == g # NoGame /\ ~ g.started

(* One of the callers claims the start; the other one returns quietly. *)
MarkStarted(r) ==
    /\ Live(r, "start")
    /\ IF Claimable(row)
       THEN /\ row' = [row EXCEPT !.black = draft[r].black, !.started = TRUE,
                                  !.crc = draft[r].crc]
            /\ Goto(r, "timer") /\ UNCHANGED <<draft, call>>
       ELSE Return(r) /\ UNCHANGED row
    /\ UNCHANGED <<dead, timers, armed, session, published, undone, late, asked>>

\* Mutant: the timer is set for the turn that has just ended.
TurnIndexBefore(g) == IF g.logs = << >> THEN 0 ELSE Len(g.logs) - 1

TurnIndex(g) == Len(g.logs)

(* setTurnTimer, after StartGame and after a move; without a limit no key is *)
(* set.                                                                      *)
SetTurnTimer(r) ==
    /\ Live(r, "timer")
    /\ IF draft[r].config.limit > 0
       THEN /\ timers' = timers \cup {TurnIndex(draft[r])}
            /\ armed' = armed \cup {TurnIndex(draft[r])}
       ELSE UNCHANGED <<timers, armed>>
    /\ IF draft[r].logs = << >>
       THEN Goto(r, "publish") /\ UNCHANGED <<draft, call>>
       ELSE Return(r)
    /\ UNCHANGED <<row, dead, session, published, undone, late, asked>>

PublishStarted(r) ==
    /\ Live(r, "publish")
    /\ published' = published + 1
    /\ Return(r)
    /\ UNCHANGED <<row, dead, timers, armed, session, undone, late, asked>>

(* CheckTimeout: without a timer for the turn it has read, the player to     *)
(* move has lost.                                                            *)
TurnTimerExists(r) ==
    /\ Live(r, "exists")
    /\ IF Len(draft[r].logs) \notin timers /\ Position(draft[r]).turn # "-"
       THEN Hold(r, TimedOut(draft[r])) /\ Goto(r, "save") /\ UNCHANGED call
       ELSE Return(r)
    /\ UNCHANGED <<row, dead, timers, armed, session, published, undone, late, asked>>

AfterSave(g) ==
    IF ~ g.started THEN "idle" ELSE IF g.ended THEN "cleanup" ELSE "timer"

(* Update *)
Save(r) ==
    /\ Live(r, "save")
    /\ row' = draft[r]
    /\ undone' = IF ~ draft[r].started /\ (row = NoGame \/ row.started)
                 THEN undone + 1 ELSE undone
    /\ late' = (late \/ (~ draft[r].started /\ \E s \in Requests : Live(s, "start")))
    /\ IF AfterSave(draft[r]) = "idle" THEN Return(r)
       ELSE Goto(r, AfterSave(draft[r])) /\ UNCHANGED <<draft, call>>
    /\ UNCHANGED <<dead, timers, armed, session, published, asked>>

Delete(r) ==
    /\ Live(r, "delete")
    /\ row' = NoGame
    /\ Goto(r, "cleanup")
    /\ UNCHANGED <<draft, call, dead, timers, armed, session, published, undone, late, asked>>

CleanupFedCache(r) ==
    /\ Live(r, "cleanup")
    /\ session' = FALSE
    /\ Return(r)
    /\ UNCHANGED <<row, dead, timers, armed, published, undone, late, asked>>

(* A statement fails or the process dies. *)
Die(r) ==
    /\ Cardinality(dead) < MaxFaults
    /\ r \notin dead /\ pc[r] # "idle"
    /\ dead' = dead \cup {r}
    /\ UNCHANGED <<row, pc, draft, call, timers, armed, session, published, undone, late, asked>>

Continue(r) ==
    UpdateReadyState(r) \/ Reread(r) \/ MarkStarted(r) \/ SetTurnTimer(r)
    \/ PublishStarted(r) \/ TurnTimerExists(r) \/ Save(r) \/ Delete(r) \/ CleanupFedCache(r)

-----------------------------------------------------------------------------
(* Time. *)

TimerExpires ==
    /\ \E n \in timers : timers' = timers \ {n}
    /\ UNCHANGED <<row, pc, draft, call, dead, armed, session, published, undone, late, asked>>

SessionExpires ==
    /\ session /\ session' = FALSE
    /\ UNCHANGED <<row, pc, draft, call, dead, timers, armed, published, undone, late, asked>>

(* The clean queue, for a game that is old enough. *)
DeleteOutdatedGames ==
    /\ row # NoGame /\ ~ row.started
    /\ row' = NoGame
    /\ UNCHANGED <<pc, draft, call, dead, timers, armed, session, published, undone, late, asked>>

Next ==
    \/ \E r \in Requests : Ask(r) \/ Continue(r) \/ Die(r)
    \/ TimerExpires \/ SessionExpires \/ DeleteOutdatedGames

Spec == Init /\ [][Next]_vars

-----------------------------------------------------------------------------
(* Properties. *)

(* A game that has not started has no colours, moves or end. *)
Shape(g) ==
    g # NoGame => IF g.started THEN g.black \in Players
                  ELSE g.black = None /\ g.logs = << >> /\ ~ g.ended

(* Every value has its type, and rows and drafts are those of games that     *)
(* have started or have not.                                                 *)
TypeOK ==
    /\ Shape(row) /\ \A r \in Requests : Shape(draft[r])
    /\ row \in Rows \cup {NoGame}
    /\ pc \in [Requests -> {"idle", "ready", "reread", "start", "timer", "publish",
                            "exists", "save", "delete", "cleanup"}]
    /\ draft \in [Requests -> Rows \cup {NoGame}]
    /\ call \in [Requests -> [user : Players \cup {None}, ready : BOOLEAN]]
    /\ dead \subseteq Requests
    /\ timers \subseteq armed /\ armed \subseteq Nat
    /\ session \in BOOLEAN
    /\ published \in Nat /\ undone \in Nat /\ late \in BOOLEAN /\ asked \in 0 .. MaxAsked

(* UpdateReady, #1626: when both players are ready the game starts, in every *)
(* interleaving of their requests with changes of the settings: a game that  *)
(* waits with both flags set has a request under way that is going to start  *)
(* it, or that died on the way.                                              *)
ReadyGameStarts ==
    row # NoGame /\ row.ready = Players /\ ~ row.started
        => \E r \in Requests : pc[r] \in {"reread", "start"}

(* MarkStarted: `started` is published once per start, by the request that   *)
(* claimed it.  The only way to a second one is a Save with settings read    *)
(* before the first.                                                         *)
Starters == {r \in Requests : pc[r] = "publish" \/ (pc[r] = "timer" /\ draft[r].logs = << >>)}

StartedOnce == published + Cardinality(Starters) <= 1 + undone

(* Whatever overtakes what, the row is one that a single player at a time    *)
(* could have produced: each of its moves is one that CanPut accepts after   *)
(* those before it, and the stored checksum, which /reversi/verify compares  *)
(* with, is from the start on the one of the position the moves lead to.     *)
(* Two things the code does other than it says are left open.  Before the    *)
(* first move of a game, MarkStarted may have stored the checksum of a map   *)
(* that a Save replaced after the row was read again (`late`): verify then   *)
(* reports a desync that the comment at service.go:513 means to prevent.     *)
(* And without canPutEverywhere, CanPut accepts cells that are not part of   *)
(* the board, which the comments at game.go:22 and :59 call not placeable.   *)
MovesAccepted(g) ==
    \A n \in 1 .. Len(g.logs) :
        LET e == Engine!EngineFromGame(g.config, SubSeq(g.logs, 1, n - 1)) IN
        e.turn # "-" /\ Engine!CanPut(g.config, e.board, e.turn, g.logs[n])

ChecksumOfPosition(g) == Engine!EngineFromGame(g.crc[1], g.crc[2]) = Position(g)

LogsPlayable ==
    row # NoGame /\ row.started =>
        /\ MovesAccepted(row)
        /\ ChecksumOfPosition(row) \/ (late /\ row.logs = << >>)

(* An ended game has one reason to have ended, and the winner that goes with *)
(* it: the opponent of the player who gave up or whose time was up at his    *)
(* turn, or the owner of the majority on a board nobody can play on.         *)
Explained(g) ==
    g # NoGame /\ g.ended =>
        LET e == Position(g)
            count(p) == Engine!Stones(g.config, e, playerColor(g, p))
        IN
        \/ /\ g.surrendered # None /\ g.timeout = None
           /\ g.winner = opponent(g.surrendered)
        \/ /\ g.timeout # None /\ g.surrendered = None
           /\ g.timeout = playerIDForColor(g, e.turn)
           /\ g.winner = opponent(g.timeout)
        \/ /\ g.surrendered = None /\ g.timeout = None /\ e.turn = "-"
           /\ g.winner = None <=> count(1) = count(2)
           /\ g.winner # None =>
                IF g.config.llotheo THEN count(g.winner) < count(opponent(g.winner))
                ELSE count(g.winner) > count(opponent(g.winner))

OutcomeExplained == Explained(row)

(* CheckTimeout: in a game with a time limit nobody loses in a turn whose    *)
(* timer was never set, unless the request that has to set it is still on    *)
(* its way or died, or the start used a limit of 0 that a Save had replaced  *)
(* (`late`).  A game without a limit is left out: it never has a key, so any *)
(* claim wins at once, although service.go:21 speaks of unlimited time.      *)
TimeoutHadTimer ==
    row # NoGame /\ row.ended /\ row.timeout # None /\ row.config.limit > 0 =>
        \/ Len(row.logs) \in armed
        \/ \E r \in Requests : /\ pc[r] = "timer" /\ draft[r].config.limit > 0
                               /\ Len(draft[r].logs) = Len(row.logs)
        \/ late

(* Once a game has ended or is gone and no request from before is about to   *)
(* write, that is final: no later request gets hold of the row.              *)
Settled ==
    /\ row = NoGame \/ row.ended
    /\ \A r \in Requests \ dead : pc[r] \in {"idle", "ready", "timer", "publish", "cleanup"}

SettledIsFinal == [][Settled => Settled' /\ row' = row]_vars

(* Effects, against what the rules say: the stones that are turned are the   *)
(* straight runs of enemy stones on the board that start next to the move    *)
(* and end at a stone of the mover on the board, or on a looped board at the *)
(* move itself.  Looked at in every position a game gets to, between two     *)
(* requests.                                                                 *)
Ahead(c, pos, d, k) == {Engine!Step(c, pos, d, i) : i \in 1 .. k}

Sandwiched(c, board, color, pos) ==
    UNION {Ahead(c, pos, d[1], d[2]) : d \in
      {d \in Engine!Directions \X (1 .. Cardinality(Engine!Cells(c))) :
        LET end == Engine!Step(c, pos, d[1], d[2] + 1) IN
        /\ \A q \in Ahead(c, pos, d[1], d[2]) :
              q # pos /\ c.map.cells[q] # "x" /\ board[q] = Engine!Enemy(color)
        /\ Engine!Inside(c, pos, d[1], d[2] + 1)
        /\ (c.map.cells[end] # "x" /\ board[end] = color) \/ (c.looped /\ end = pos)}}

FlipsExact ==
    row # NoGame /\ row.started /\ (\A r \in Requests : pc[r] = "idle") =>
        LET board == Position(row).board IN
        \A color \in Engine!Colors, pos \in Engine!Cells(row.config) :
            board[pos] = "-" =>
                Engine!Effects(row.config, board, color, pos)
                  = Sandwiched(row.config, board, color, pos)

(* calcTurn, PutStone: a running game can go on.  However the Saves of       *)
(* moves, surrenders, timeouts and settings overtake each other, a row that  *)
(* is started and not ended has a player from whom PutStone accepts a move;  *)
(* nobody waits for a player who has none.  Left open, because the code does *)
(* not end it: a game begun on a map on which nobody has a first move, which *)
(* can only be given up.                                                     *)
RunningGameGoesOn ==
    Playing(row) =>
        LET e == Position(row) IN
        \/ \E p \in Players, pos \in Engine!Cells(row.config) : MayPut(row, e, p, pos)
        \/ row.logs = << >> /\ e.turn = "-"
=============================================================================
