------------------------- MODULE ReversiMatchProofs -------------------------
(***************************************************************************)
(* Proofs about ReversiMatch, for every set of requests, every set of      *)
(* settings and any number of operations and deaths.  What the engine      *)
(* computes is unfolded in ReversiEngineProofs.                            *)
(***************************************************************************)
EXTENDS ReversiEngineProofs, SequenceTheorems

Statements == {"idle", "ready", "reread", "start", "timer", "publish", "exists", "save",
               "delete", "cleanup"}
Calls == [user : Players \cup {None}, ready : BOOLEAN]

(* What a request at a given statement holds. *)
Holds(at, g, c) ==
    /\ at = "ready" => c.user \in Players
    /\ at \in {"start", "timer"} => g # NoGame /\ g.started /\ ~ g.ended
    /\ at = "start" => g.logs = << >>
    /\ at = "exists" => Playing(g)
    /\ at = "save" =>
         /\ g # NoGame
         /\ ~ g.started => g.ready = {}
         /\ g.started /\ ~ g.ended => g.logs # << >>

(* A game goes on without anybody having given up or lost on time. *)
Undecided(g) == g # NoGame /\ ~ g.ended => g.timeout = None /\ g.surrendered = None

HoldsInv == \A r \in Requests : Holds(pc[r], draft[r], call[r])
UndecidedInv == Undecided(row) /\ \A r \in Requests : Undecided(draft[r])
TypeInv == TypeOK /\ HoldsInv /\ UndecidedInv

-----------------------------------------------------------------------------
(* What the operations make of a row. *)

LEMMA RowIsGame ==
  ASSUME NEW g \in Rows
  PROVE  g # NoGame
<1>1. "config" \in DOMAIN g  BY DEF Rows
<1>2. "config" \notin DOMAIN NoGame  BY DEF NoGame
<1> QED  BY <1>1, <1>2

LEMMA WonRow ==
  ASSUME NEW g \in Rows, NEW w \in Players \cup {None}
  PROVE  /\ Won(g, w) \in Rows
         /\ Won(g, w).ended /\ Won(g, w).winner = w
         /\ Won(g, w).config = g.config /\ Won(g, w).ready = g.ready
         /\ Won(g, w).black = g.black /\ Won(g, w).started = g.started
         /\ Won(g, w).surrendered = g.surrendered /\ Won(g, w).timeout = g.timeout
         /\ Won(g, w).logs = g.logs /\ Won(g, w).crc = g.crc
  BY DEF Rows, Won

LEMMA ConfiguredRow ==
  ASSUME NEW g \in Rows, NEW c \in Configs
  PROVE  /\ Configured(g, c) \in Rows
         /\ Configured(g, c).ready = {}
         /\ Configured(g, c).black = g.black /\ Configured(g, c).started = g.started
         /\ Configured(g, c).ended = g.ended /\ Configured(g, c).timeout = g.timeout
         /\ Configured(g, c).surrendered = g.surrendered
         /\ Configured(g, c).logs = g.logs
  BY DEF Rows, Configured

LEMMA SetReadyRow ==
  ASSUME NEW g \in Rows, NEW c \in Calls, c.user \in Players
  PROVE  /\ SetReady(g, c) \in Rows
         /\ SetReady(g, c).black = g.black /\ SetReady(g, c).started = g.started
         /\ SetReady(g, c).ended = g.ended /\ SetReady(g, c).timeout = g.timeout
         /\ SetReady(g, c).surrendered = g.surrendered
         /\ SetReady(g, c).logs = g.logs /\ SetReady(g, c).config = g.config
         /\ SetReady(g, c).crc = g.crc
  BY DEF Rows, Calls, SetReady

LEMMA OwnerIsPlayer ==
  ASSUME NEW g \in Rows, g.black \in Players, NEW color
  PROVE  playerIDForColor(g, color) \in Players
  BY DEF playerIDForColor, opponent, Players

LEMMA OpponentIsPlayer ==
  ASSUME NEW p \in Players
  PROVE  opponent(p) \in Players
  BY DEF opponent, Players

LEMMA PutRow ==
  ASSUME NEW g \in Rows, g.black \in Players, ~ g.ended, NEW pos \in Nat
  PROVE  /\ Put(g, pos) \in Rows
         /\ Put(g, pos).logs = Append(g.logs, pos)
         /\ Put(g, pos).crc = <<g.config, Append(g.logs, pos)>>
         /\ Put(g, pos).config = g.config
         /\ Put(g, pos).black = g.black /\ Put(g, pos).started = g.started
         /\ Put(g, pos).timeout = g.timeout
         /\ Put(g, pos).surrendered = g.surrendered
         /\ ~ Put(g, pos).ended => Position(Put(g, pos)).turn # "-"
         /\ Put(g, pos).ended =>
              LET e == Position(Put(g, pos))
                  color == Engine!Winner(g.config, e)
              IN /\ e.turn = "-"
                 /\ Put(g, pos).winner =
                      IF color = "-" THEN None ELSE playerIDForColor(g, color)
<1> DEFINE logs == Append(g.logs, pos)
           h == [g EXCEPT !.logs = logs, !.crc = <<g.config, logs>>]
<1>1. /\ h \in Rows /\ h.logs = logs /\ h.crc = <<g.config, logs>> /\ h.config = g.config
      /\ h.black = g.black /\ h.started = g.started /\ h.timeout = g.timeout
      /\ h.surrendered = g.surrendered /\ h.ended = g.ended
  <2>1. logs \in Seq(Nat)  BY DEF Rows
  <2>2. <<g.config, logs>> \in (Configs \X Seq(Nat)) \cup {<< >>}  BY <2>1 DEF Rows
  <2> QED  BY <2>1, <2>2 DEF Rows
<1> DEFINE e == Position(h)
           color == Engine!Winner(h.config, e)
           w == IF color = "-" THEN None ELSE playerIDForColor(h, color)
<1>2. w \in Players \cup {None}  BY <1>1, OwnerIsPlayer
<1>3. Put(g, pos) = IF e.turn = "-" THEN Won(h, w) ELSE h  BY DEF Put, finalizeGame
<1>4. w = IF color = "-" THEN None ELSE playerIDForColor(g, color)
  BY <1>1 DEF playerIDForColor
<1>5. PICK u : u = Put(g, pos)  OBVIOUS
<1>6. u.config = h.config /\ u.logs = h.logs
  <2> HIDE DEF h, w, e
  <2> QED  BY <1>1, <1>2, <1>3, <1>5, WonRow
<1>7. Position(u) = e  BY <1>6 DEF Position
<1>8. color = Engine!Winner(g.config, e)  BY <1>1
<1> HIDE DEF h, w, e, color
<1>9. IF u.ended THEN e.turn = "-" /\ u.winner = w ELSE e.turn # "-"
  BY <1>1, <1>2, <1>3, <1>5, WonRow
<1>10. /\ u \in Rows /\ u.logs = logs /\ u.crc = <<g.config, logs>> /\ u.config = g.config
       /\ u.black = g.black /\ u.started = g.started
       /\ u.timeout = g.timeout /\ u.surrendered = g.surrendered
  BY <1>1, <1>2, <1>3, <1>5, WonRow
<1> QED  BY <1>4, <1>5, <1>7, <1>8, <1>9, <1>10

LEMMA SurrenderedRow ==
  ASSUME NEW g \in Rows, NEW p \in Players
  PROVE  /\ Surrendered(g, p) \in Rows
         /\ Surrendered(g, p).ended /\ Surrendered(g, p).surrendered = p
         /\ Surrendered(g, p).winner = opponent(p)
         /\ Surrendered(g, p).black = g.black /\ Surrendered(g, p).started = g.started
         /\ Surrendered(g, p).timeout = g.timeout /\ Surrendered(g, p).config = g.config
         /\ Surrendered(g, p).logs = g.logs /\ Surrendered(g, p).crc = g.crc
<1> DEFINE h == Won(g, opponent(p))
<1>1. /\ h \in Rows /\ h.ended /\ h.black = g.black /\ h.started = g.started
      /\ h.winner = opponent(p) /\ h.timeout = g.timeout /\ h.config = g.config /\ h.logs = g.logs /\ h.crc = g.crc
  BY WonRow, OpponentIsPlayer
<1>2. Surrendered(g, p) = [h EXCEPT !.surrendered = p]  BY DEF Surrendered
<1> HIDE DEF h
<1> QED  BY <1>1, <1>2 DEF Rows

LEMMA TimedOutRow ==
  ASSUME NEW g \in Rows, g.black \in Players
  PROVE  /\ TimedOut(g) \in Rows
         /\ TimedOut(g).ended /\ TimedOut(g).surrendered = g.surrendered
         /\ TimedOut(g).timeout \in Players
         /\ TimedOut(g).timeout = playerIDForColor(g, Position(g).turn)
         /\ TimedOut(g).winner = opponent(TimedOut(g).timeout)
         /\ TimedOut(g).black = g.black /\ TimedOut(g).started = g.started
         /\ TimedOut(g).config = g.config
         /\ TimedOut(g).logs = g.logs /\ TimedOut(g).crc = g.crc
<1> DEFINE l == playerIDForColor(g, Position(g).turn)
           h == Won(g, opponent(l))
<1>1. l \in Players  BY OwnerIsPlayer
<1>2. opponent(l) \in Players  BY <1>1, OpponentIsPlayer
<1>3. /\ h \in Rows /\ h.ended /\ h.black = g.black /\ h.started = g.started
      /\ h.config = g.config /\ h.logs = g.logs /\ h.crc = g.crc
      /\ h.surrendered = g.surrendered /\ h.winner = opponent(l)
  BY <1>2, WonRow
<1>4. TimedOut(g) = [h EXCEPT !.timeout = l]  BY DEF TimedOut
<1>5. PICK m : m = l  OBVIOUS
<1> HIDE DEF h, l
<1>6. /\ TimedOut(g) \in Rows /\ TimedOut(g).ended /\ TimedOut(g).timeout = m
      /\ TimedOut(g).winner = opponent(m) /\ TimedOut(g).surrendered = g.surrendered
      /\ TimedOut(g).black = g.black /\ TimedOut(g).started = g.started
      /\ TimedOut(g).config = g.config
      /\ TimedOut(g).logs = g.logs /\ TimedOut(g).crc = g.crc
  BY <1>1, <1>3, <1>4, <1>5 DEF Rows
<1> QED  BY <1>1, <1>5, <1>6 DEF l

LEMMA BegunRow ==
  ASSUME NEW g \in Rows, NEW b \in Players
  PROVE  /\ Begun(g, b) \in Rows
         /\ Begun(g, b).started /\ Begun(g, b).black = b
         /\ Begun(g, b).ended = g.ended /\ Begun(g, b).timeout = g.timeout
         /\ Begun(g, b).surrendered = g.surrendered
         /\ Begun(g, b).logs = g.logs /\ Begun(g, b).config = g.config
         /\ Begun(g, b).crc = <<g.config, g.logs>>
<1>1. <<g.config, g.logs>> \in (Configs \X Seq(Nat)) \cup {<< >>}  BY DEF Rows
<1> QED  BY <1>1 DEF Rows, Begun

LEMMA PickIsPlayer ==
  ASSUME NEW bw
  PROVE  pickBlack(bw) \subseteq Players
  BY MatchAssumption DEF pickBlack, Players

LEMMA AppendNotEmpty ==
  ASSUME NEW s \in Seq(Nat), NEW x \in Nat
  PROVE  Append(s, x) # << >>
<1>1. Len(Append(s, x)) = Len(s) + 1  OBVIOUS
<1>2. Len(s) \in Nat  OBVIOUS
<1>3. Len(Append(s, x)) # 0  BY <1>1, <1>2
<1> QED  BY <1>3, EmptySeq

LEMMA CellIsNat ==
  ASSUME NEW g \in Rows, NEW pos \in Engine!Cells(g.config)
  PROVE  pos \in Nat
<1>1. g.config \in Configs  BY DEF Rows
<1>2. g.config.map.width \in Nat /\ g.config.map.height \in Nat  BY <1>1, MatchAssumption
<1> QED  BY <1>2 DEF Engine!Cells

-----------------------------------------------------------------------------
(* TypeInv is inductive. *)

RowOK(g) == g \in Rows \cup {NoGame} /\ Shape(g) /\ Undecided(g)

StoreOK ==
    /\ RowOK(row)
    /\ dead \subseteq Requests
    /\ timers \subseteq armed /\ armed \subseteq Nat
    /\ session \in BOOLEAN
    /\ published \in Nat /\ undone \in Nat /\ late \in BOOLEAN /\ asked \in 0 .. MaxAsked

LEMMA StoreType ==
  ASSUME TypeInv
  PROVE  /\ StoreOK
         /\ \A r \in Requests : /\ pc[r] \in Statements /\ RowOK(draft[r])
                                /\ call[r] \in Calls /\ Holds(pc[r], draft[r], call[r])
         /\ pc \in [Requests -> Statements]
         /\ draft \in [Requests -> Rows \cup {NoGame}]
         /\ call \in [Requests -> Calls]
  BY DEF TypeInv, TypeOK, UndecidedInv, HoldsInv, StoreOK, RowOK, Statements, Calls

(* One request moves on. *)
LEMMA Moved ==
  ASSUME TypeInv, StoreOK', NEW r \in Requests,
         NEW at \in Statements, NEW STATE g, RowOK(g), NEW STATE c, c \in Calls,
         Holds(at, g, c),
         pc' = [pc EXCEPT ![r] = at],
         draft' = [draft EXCEPT ![r] = g],
         call' = [call EXCEPT ![r] = c]
  PROVE  TypeInv'
<1>1. /\ pc' \in [Requests -> Statements]
      /\ draft' \in [Requests -> Rows \cup {NoGame}]
      /\ call' \in [Requests -> Calls]
  BY StoreType DEF RowOK
<1>2. \A q \in Requests : Holds(pc'[q], draft'[q], call'[q]) /\ RowOK(draft'[q])
  <2> TAKE q \in Requests
  <2>1. CASE q = r  BY <2>1, StoreType
  <2>2. CASE q # r
    <3>1. pc'[q] = pc[q] /\ draft'[q] = draft[q] /\ call'[q] = call[q]  BY <2>2, StoreType
    <3> QED  BY <3>1, StoreType
  <2> QED  BY <2>1, <2>2
<1>3. TypeOK'  BY <1>1, <1>2 DEF TypeOK, StoreOK, RowOK, Statements, Calls
<1>4. HoldsInv' /\ UndecidedInv'
  BY <1>2 DEF HoldsInv, UndecidedInv, StoreOK, RowOK
<1> QED  BY <1>3, <1>4 DEF TypeInv

(* No request moves. *)
LEMMA Stayed ==
  ASSUME TypeInv, StoreOK', UNCHANGED <<pc, draft, call>>
  PROVE  TypeInv'
<1>1. TypeOK'  BY StoreType DEF TypeOK, StoreOK, RowOK, Statements, Calls
<1>2. HoldsInv' /\ UndecidedInv'
  BY StoreType DEF HoldsInv, UndecidedInv, StoreOK, RowOK
<1> QED  BY <1>1, <1>2 DEF TypeInv

LEMMA ReturnMoves ==
  ASSUME TypeInv, StoreOK', NEW r \in Requests, Return(r)
  PROVE  TypeInv'
<1>1. RowOK(NoGame)  BY DEF RowOK, Shape, Undecided
<1>2. NoCall \in Calls  BY DEF NoCall, Calls
<1>3. Holds("idle", NoGame, NoCall)  BY DEF Holds
<1>4. "idle" \in Statements  BY DEF Statements
<1> QED  BY <1>1, <1>2, <1>3, <1>4, Moved DEF Return, Goto, Hold

LEMMA GotoMoves ==
  ASSUME TypeInv, StoreOK', NEW r \in Requests, NEW at \in Statements,
         Goto(r, at), Holds(at, draft[r], call[r]), UNCHANGED <<draft, call>>
  PROVE  TypeInv'
<1>1. PICK g, c : g = draft[r] /\ c = call[r]  OBVIOUS
<1>2. draft' = [draft EXCEPT ![r] = g] /\ call' = [call EXCEPT ![r] = c]
  BY <1>1, StoreType
<1>3. RowOK(g) /\ c \in Calls /\ Holds(at, g, c)  BY <1>1, StoreType
<1>4. pc' = [pc EXCEPT ![r] = at]  BY DEF Goto
<1> QED  BY <1>2, <1>3, <1>4, Moved

LEMMA HoldMoves ==
  ASSUME TypeInv, StoreOK', NEW r \in Requests, NEW at \in Statements,
         NEW STATE g, RowOK(g), Goto(r, at), Hold(r, g), Holds(at, g, call[r]), UNCHANGED call
  PROVE  TypeInv'
<1>1. call' = [call EXCEPT ![r] = call[r]]  BY StoreType
<1>2. call[r] \in Calls  BY StoreType
<1>3. pc' = [pc EXCEPT ![r] = at] /\ draft' = [draft EXCEPT ![r] = g]  BY DEF Goto, Hold
<1> QED  BY <1>1, <1>2, <1>3, Moved

LEMMA InitType ==
  ASSUME Init
  PROVE  TypeInv
<1>1. row \in Rows /\ Shape(row) /\ Undecided(row)
  <2>1. PICK c \in Settings, ready \in SUBSET Players :
          row = [config |-> c, ready |-> ready, black |-> None, started |-> FALSE,
                 ended |-> FALSE, winner |-> None, surrendered |-> None,
                 timeout |-> None, logs |-> << >>, crc |-> << >>]
    BY DEF Init
  <2>2. c \in Configs  BY MatchAssumption
  <2> QED  BY <2>1, <2>2 DEF Rows, Shape, Undecided, Players, None
<1>2. RowOK(NoGame) /\ NoCall \in Calls
  BY DEF RowOK, Shape, Undecided, NoCall, Calls
<1>3. TypeOK
  <2>1. /\ pc \in [Requests -> Statements] /\ draft \in [Requests -> {NoGame}]
        /\ call \in [Requests -> {NoCall}]
    BY DEF Init, Statements
  <2>2. /\ dead = {} /\ timers = {} /\ armed = {} /\ session \in BOOLEAN
        /\ published = 0 /\ undone = 0 /\ late = FALSE /\ asked = 0
    BY DEF Init
  <2>3. asked \in 0 .. MaxAsked  BY <2>2, MatchAssumption
  <2> QED  BY <1>1, <1>2, <2>1, <2>2, <2>3 DEF TypeOK, RowOK, Calls, Statements
<1>4. UndecidedInv  BY <1>1, <1>2 DEF Init, UndecidedInv, RowOK
<1>5. HoldsInv  BY DEF Init, HoldsInv, Holds
<1> QED  BY <1>3, <1>4, <1>5 DEF TypeInv

(* Every operation begins with a row that is a game. *)
LEMMA AskType ==
  ASSUME TypeInv, NEW r \in Requests, Ask(r)
  PROVE  TypeInv'
<1> USE StoreType
<1>1. asked' \in 0 .. MaxAsked /\ UNCHANGED <<row, dead, timers, armed, session, published, undone, late>>
  BY MatchAssumption DEF Ask, AskReady, UpdateSettings, PutStone, Surrender, CheckTimeout,
     CancelGame, Begin, StoreOK
<1>2. StoreOK'  BY <1>1 DEF StoreOK, RowOK, Shape, Undecided
<1>3. row \in Rows /\ RowOK(row)
  BY RowIsGame DEF Ask, AskReady, UpdateSettings, PutStone, Surrender, CheckTimeout,
     CancelGame, OpenForSettings, Playing, StoreOK, RowOK
<1>4. {"ready", "save", "exists", "delete"} \subseteq Statements
  BY DEF Statements
<1>5. ASSUME NEW p \in Players, NEW ready \in BOOLEAN, AskReady(r, p, ready)
      PROVE  TypeInv'
  <2> DEFINE c == [user |-> p, ready |-> ready]
  <2>1. c \in Calls /\ c.user \in Players  BY DEF Calls
  <2>2. PICK g : g = draft[r]  OBVIOUS
  <2>3. RowOK(g) /\ Holds("ready", g, c)  BY <2>1, <2>2 DEF Holds
  <2>4. /\ pc' = [pc EXCEPT ![r] = "ready"]
        /\ draft' = [draft EXCEPT ![r] = g]
        /\ call' = [call EXCEPT ![r] = c]
    BY <1>5, <2>2 DEF AskReady, Goto
  <2> HIDE DEF c
  <2> QED  BY <1>2, <1>4, <2>1, <2>3, <2>4, Moved
<1>6. ASSUME UpdateSettings(r)  PROVE  TypeInv'
  <2>1. PICK c \in Configs : Hold(r, Configured(row, c))  BY <1>6 DEF UpdateSettings
  <2>2. PICK g : g = Configured(row, c)  OBVIOUS
  <2>3. ~ row.started /\ ~ row.ended  BY <1>6 DEF UpdateSettings, OpenForSettings
  <2>4. g \in Rows /\ RowOK(g)
    BY <1>3, <2>2, <2>3, ConfiguredRow, RowIsGame DEF RowOK, Shape, Undecided
  <2>5. Holds("save", g, call[r])
    BY <1>3, <2>2, <2>3, <2>4, ConfiguredRow, RowIsGame DEF Holds
  <2> QED  BY <1>2, <1>4, <1>6, <2>1, <2>2, <2>4, <2>5, HoldMoves DEF UpdateSettings
<1>7. ASSUME NEW p \in Players, PutStone(r, p)  PROVE  TypeInv'
  <2>1. PICK pos \in Engine!Cells(row.config) : Hold(r, Put(row, pos))  BY <1>7 DEF PutStone
  <2>2. PICK g : g = Put(row, pos)  OBVIOUS
  <2>3. row.started /\ ~ row.ended /\ row.black \in Players
    BY <1>3, <1>7, RowIsGame DEF PutStone, Playing, RowOK, Shape
  <2>4. pos \in Nat  BY <1>3, CellIsNat
  <2>5. g \in Rows /\ RowOK(g) /\ g.logs = Append(row.logs, pos) /\ g.started
    BY <1>3, <2>2, <2>3, <2>4, PutRow, RowIsGame DEF RowOK, Shape, Undecided
  <2>6. g.logs # << >>
    BY <1>3, <2>4, <2>5 DEF Rows
  <2>7. Holds("save", g, call[r])  BY <2>5, <2>6, RowIsGame DEF Holds
  <2> QED  BY <1>2, <1>4, <1>7, <2>1, <2>2, <2>5, <2>7, HoldMoves DEF PutStone
<1>8. ASSUME NEW p \in Players, Surrender(r, p)  PROVE  TypeInv'
  <2>1. PICK g : g = Surrendered(row, p)  OBVIOUS
  <2>2. row.started /\ row.black \in Players
    BY <1>3, <1>8, RowIsGame DEF Surrender, Playing, RowOK, Shape
  <2>3. g \in Rows /\ RowOK(g) /\ g.started /\ g.ended
    BY <1>3, <2>1, <2>2, SurrenderedRow, RowIsGame DEF RowOK, Shape, Undecided
  <2>4. Holds("save", g, call[r])  BY <2>3, RowIsGame DEF Holds
  <2> QED  BY <1>2, <1>4, <1>8, <2>1, <2>3, <2>4, HoldMoves DEF Surrender
<1>9. ASSUME CheckTimeout(r)  PROVE  TypeInv'
  <2>1. PICK g : g = row  OBVIOUS
  <2>2. Holds("exists", g, call[r])  BY <1>9, <2>1 DEF Holds, CheckTimeout
  <2> QED  BY <1>2, <1>3, <1>4, <1>9, <2>1, <2>2, HoldMoves DEF CheckTimeout
<1>10. ASSUME CancelGame(r)  PROVE  TypeInv'
  <2>1. Holds("delete", draft[r], call[r])  BY DEF Holds
  <2> QED  BY <1>2, <1>4, <1>10, <2>1, GotoMoves DEF CancelGame
<1> QED  BY <1>5, <1>6, <1>7, <1>8, <1>9, <1>10 DEF Ask

LEMMA ContinueType ==
  ASSUME TypeInv, NEW r \in Requests, Continue(r)
  PROVE  TypeInv'
<1> USE StoreType
<1>0. {"reread", "start", "timer", "publish", "save", "cleanup"} \subseteq Statements
  BY DEF Statements
<1>1. ASSUME UpdateReadyState(r)  PROVE  TypeInv'
  <2>1. CASE row # NoGame /\ ~ row.started /\ ~ row.ended
    <3>1. /\ row' = SetReady(row, call[r]) /\ Goto(r, "reread") /\ UNCHANGED <<draft, call>>
          /\ UNCHANGED <<dead, timers, armed, session, published, undone, late, asked>>
      BY <1>1, <2>1 DEF UpdateReadyState
    <3>2. call[r] \in Calls /\ call[r].user \in Players
      BY <1>1 DEF UpdateReadyState, Live, Holds
    <3>3. row \in Rows /\ RowOK(row)  BY <2>1 DEF StoreOK, RowOK
    <3>4. PICK g, c : g = row /\ c = call[r]  OBVIOUS
    <3>5. /\ SetReady(g, c) \in Rows /\ SetReady(g, c).black = g.black
          /\ SetReady(g, c).started = g.started /\ SetReady(g, c).ended = g.ended
          /\ SetReady(g, c).timeout = g.timeout /\ SetReady(g, c).logs = g.logs
          /\ SetReady(g, c).surrendered = g.surrendered
      BY <3>2, <3>3, <3>4, SetReadyRow
    <3>6. RowOK(row')
      BY <3>1, <3>3, <3>4, <3>5, RowIsGame DEF RowOK, Shape, Undecided
    <3>7. StoreOK'  BY <3>1, <3>6 DEF StoreOK, RowOK, Shape, Undecided
    <3>8. Holds("reread", draft[r], call[r])  BY DEF Holds
    <3> QED  BY <1>0, <3>1, <3>7, <3>8, GotoMoves
  <2>2. CASE ~ (row # NoGame /\ ~ row.started /\ ~ row.ended)
    <3>1. Return(r) /\ UNCHANGED <<row, dead, timers, armed, session, published, undone, late, asked>>
      BY <1>1, <2>2 DEF UpdateReadyState
    <3>2. StoreOK'  BY <3>1 DEF StoreOK, RowOK, Shape, Undecided
    <3> QED  BY <3>1, <3>2, ReturnMoves
  <2> QED  BY <2>1, <2>2
<1>2. ASSUME Reread(r)  PROVE  TypeInv'
  <2>0. UNCHANGED <<row, dead, timers, armed, session, published, undone, late, asked>>
    BY <1>2 DEF Reread
  <2>1. StoreOK'  BY <2>0 DEF StoreOK, RowOK, Shape, Undecided
  <2>2. CASE row # NoGame /\ row.ready = Players /\ ~ row.started /\ ~ row.ended
    <3>1. PICK black \in pickBlack(row.config.bw) :
            /\ Hold(r, Begun(row, black)) /\ Goto(r, "start")
            /\ call' = [call EXCEPT ![r] = NoCall]
      BY <1>2, <2>2 DEF Reread
    <3>2. black \in Players  BY PickIsPlayer
    <3>3. PICK g : g = Begun(row, black)  OBVIOUS
    <3>4. row \in Rows /\ RowOK(row) /\ row.logs = << >>
      BY <2>2 DEF StoreOK, RowOK, Shape
    <3>5. g \in Rows /\ RowOK(g) /\ g.started /\ ~ g.ended /\ g.logs = << >>
      BY <2>2, <3>2, <3>3, <3>4, BegunRow, RowIsGame DEF RowOK, Shape, Undecided
    <3>6. NoCall \in Calls  BY DEF NoCall, Calls
    <3>7. Holds("start", g, NoCall)  BY <3>5, RowIsGame DEF Holds
    <3>8. pc' = [pc EXCEPT ![r] = "start"] /\ draft' = [draft EXCEPT ![r] = g]
      BY <3>1, <3>3 DEF Goto, Hold
    <3> QED  BY <1>0, <2>1, <3>1, <3>5, <3>6, <3>7, <3>8, Moved
  <2>3. CASE ~ (row # NoGame /\ row.ready = Players /\ ~ row.started /\ ~ row.ended)
    BY <1>2, <2>1, <2>3, ReturnMoves DEF Reread
  <2> QED  BY <2>2, <2>3
<1>3. ASSUME MarkStarted(r)  PROVE  TypeInv'
  <2>1. CASE Claimable(row)
    <3>1. /\ row' = [row EXCEPT !.black = draft[r].black, !.started = TRUE,
                                !.crc = draft[r].crc]
          /\ Goto(r, "timer") /\ UNCHANGED <<draft, call>>
          /\ UNCHANGED <<dead, timers, armed, session, published, undone, late, asked>>
      BY <1>3, <2>1 DEF MarkStarted
    <3>2. PICK g : g = draft[r]  OBVIOUS
    <3>3. /\ g \in Rows /\ RowOK(g) /\ g.started /\ ~ g.ended /\ g.black \in Players
          /\ Holds("start", draft[r], call[r])
      BY <1>3, <3>2 DEF MarkStarted, Live, Holds, RowOK, Shape
    <3>4. row \in Rows /\ RowOK(row) /\ ~ row.started /\ ~ row.ended
      BY <2>1 DEF StoreOK, RowOK, Shape, Claimable
    <3>5. /\ row' \in Rows /\ row'.started /\ row'.black = g.black /\ row'.ended = row.ended
          /\ row'.timeout = row.timeout /\ row'.surrendered = row.surrendered
      BY <3>1, <3>2, <3>3, <3>4 DEF Rows
    <3>6. RowOK(row')
      BY <3>3, <3>4, <3>5, RowIsGame DEF RowOK, Shape, Undecided
    <3>7. StoreOK'  BY <3>1, <3>6 DEF StoreOK, RowOK, Shape, Undecided
    <3>8. Holds("timer", draft[r], call[r])  BY <3>3 DEF Holds
    <3> QED  BY <1>0, <3>1, <3>7, <3>8, GotoMoves
  <2>2. CASE ~ Claimable(row)
    <3>1. Return(r) /\ UNCHANGED <<row, dead, timers, armed, session, published, undone, late, asked>>
      BY <1>3, <2>2 DEF MarkStarted
    <3>2. StoreOK'  BY <3>1 DEF StoreOK, RowOK, Shape, Undecided
    <3> QED  BY <3>1, <3>2, ReturnMoves
  <2> QED  BY <2>1, <2>2
<1>4. ASSUME SetTurnTimer(r)  PROVE  TypeInv'
  <2>1. draft[r] \in Rows  BY <1>4 DEF SetTurnTimer, Live, Holds, RowOK
  <2>2. TurnIndex(draft[r]) \in Nat  BY <2>1 DEF TurnIndex, Rows
  <2>3. StoreOK'
    BY <1>4, <2>2 DEF SetTurnTimer, StoreOK, RowOK, Shape, Undecided
  <2>4. Holds("publish", draft[r], call[r])  BY DEF Holds
  <2> QED  BY <1>0, <1>4, <2>3, <2>4, GotoMoves, ReturnMoves DEF SetTurnTimer
<1>5. ASSUME PublishStarted(r)  PROVE  TypeInv'
  <2>1. StoreOK'  BY <1>5 DEF PublishStarted, StoreOK, RowOK, Shape, Undecided
  <2> QED  BY <1>5, <2>1, ReturnMoves DEF PublishStarted
<1>6. ASSUME TurnTimerExists(r)  PROVE  TypeInv'
  <2>0. StoreOK'  BY <1>6 DEF TurnTimerExists, StoreOK, RowOK, Shape, Undecided
  <2>1. CASE Len(draft[r].logs) \notin timers /\ Position(draft[r]).turn # "-"
    <3>1. Hold(r, TimedOut(draft[r])) /\ Goto(r, "save") /\ UNCHANGED call
      BY <1>6, <2>1 DEF TurnTimerExists
    <3>2. PICK d : d = draft[r]  OBVIOUS
    <3>3. PICK g : g = TimedOut(d)  OBVIOUS
    <3>4. d \in Rows /\ d.started /\ d.black \in Players
      BY <1>6, <3>2 DEF TurnTimerExists, Live, Holds, Playing, RowOK, Shape
    <3>5. g \in Rows /\ g.ended /\ g.started /\ g.black = d.black  BY <3>3, <3>4, TimedOutRow
    <3>6. RowOK(g)  BY <3>4, <3>5 DEF RowOK, Shape, Undecided
    <3>7. Holds("save", g, call[r])  BY <3>5, RowIsGame DEF Holds
    <3> QED  BY <1>0, <2>0, <3>1, <3>2, <3>3, <3>6, <3>7, HoldMoves
  <2>2. CASE ~ (Len(draft[r].logs) \notin timers /\ Position(draft[r]).turn # "-")
    BY <1>6, <2>0, <2>2, ReturnMoves DEF TurnTimerExists
  <2> QED  BY <2>1, <2>2
<1>7. ASSUME Save(r)  PROVE  TypeInv'
  <2>1. draft[r] \in Rows /\ RowOK(draft[r])
    BY <1>7 DEF Save, Live, Holds, RowOK
  <2>2. RowOK(row')  BY <1>7, <2>1 DEF Save
  <2>3. undone' \in Nat /\ late' \in BOOLEAN  BY <1>7 DEF Save, StoreOK
  <2>4. StoreOK'
    BY <1>7, <2>2, <2>3 DEF Save, StoreOK, RowOK, Shape, Undecided
  <2>5. CASE AfterSave(draft[r]) = "idle"
    BY <1>7, <2>4, <2>5, ReturnMoves DEF Save
  <2>6. CASE AfterSave(draft[r]) # "idle"
    <3>1. PICK at : at = AfterSave(draft[r])  OBVIOUS
    <3>2. at \in Statements  BY <1>0, <2>6, <3>1 DEF AfterSave
    <3>3. Holds(at, draft[r], call[r])
      BY <2>1, <2>6, <3>1, RowIsGame DEF Holds, AfterSave
    <3> QED  BY <1>7, <2>4, <2>6, <3>1, <3>2, <3>3, GotoMoves DEF Save
  <2> QED  BY <2>5, <2>6
<1>8. ASSUME Delete(r)  PROVE  TypeInv'
  <2>1. RowOK(row')  BY <1>8 DEF Delete, RowOK, Shape, Undecided
  <2>2. StoreOK'  BY <1>8, <2>1 DEF Delete, StoreOK, RowOK, Shape, Undecided
  <2>3. Holds("cleanup", draft[r], call[r])  BY DEF Holds
  <2> QED  BY <1>0, <1>8, <2>2, <2>3, GotoMoves DEF Delete
<1>9. ASSUME CleanupFedCache(r)  PROVE  TypeInv'
  <2>1. StoreOK'  BY <1>9 DEF CleanupFedCache, StoreOK, RowOK, Shape, Undecided
  <2> QED  BY <1>9, <2>1, ReturnMoves DEF CleanupFedCache
<1> QED  BY <1>1, <1>2, <1>3, <1>4, <1>5, <1>6, <1>7, <1>8, <1>9 DEF Continue

(* Deaths and time move no request. *)
Around ==
    \/ \E r \in Requests : Die(r)
    \/ TimerExpires \/ SessionExpires \/ DeleteOutdatedGames

LEMMA AroundType ==
  ASSUME TypeInv, Around
  PROVE  TypeInv' /\ UNCHANGED <<pc, draft, call>>
<1>1. RowOK(row')
  <2>1. CASE row' = row  BY <2>1, StoreType DEF StoreOK, RowOK, Shape, Undecided
  <2>2. CASE row' = NoGame  BY <2>2 DEF RowOK, Shape, Undecided
  <2> QED
    BY <2>1, <2>2 DEF Around, Die, TimerExpires, SessionExpires, DeleteOutdatedGames
<1>2. StoreOK'
  BY <1>1, StoreType DEF StoreOK, Around, Die, TimerExpires, SessionExpires,
     DeleteOutdatedGames
<1>3. UNCHANGED <<pc, draft, call>>
  BY DEF Around, Die, TimerExpires, SessionExpires, DeleteOutdatedGames
<1> QED  BY <1>2, <1>3, Stayed

LEMMA NextType ==
  ASSUME TypeInv, [Next]_vars
  PROVE  TypeInv'
<1>1. CASE UNCHANGED vars
  BY <1>1 DEF vars, TypeInv, TypeOK, HoldsInv, UndecidedInv, Shape, Undecided
<1>2. CASE \E r \in Requests : Ask(r)  BY <1>2, AskType
<1>3. CASE \E r \in Requests : Continue(r)  BY <1>3, ContinueType
<1>4. CASE Around  BY <1>4, AroundType
<1> QED  BY <1>1, <1>2, <1>3, <1>4 DEF Next, Around

LEMMA TypeInvariant == Spec => []TypeInv
<1>1. Init => TypeInv  BY InitType
<1>2. TypeInv /\ [Next]_vars => TypeInv'  BY NextType
<1> QED  BY <1>1, <1>2, PTL DEF Spec

(* Rows, drafts and everything around them keep their types, and no row is a *)
(* mixture of a game that has started and one that has not: UpdateSettings,  *)
(* MarkStarted and the Saves of a running game write complete states.        *)
THEOREM TypeCorrect == Spec => []TypeOK
  BY TypeInvariant, PTL DEF TypeInv

-----------------------------------------------------------------------------
(* One request moves at a time, from where it was. *)

LEMMA AskMoves ==
  ASSUME TypeInv, NEW r \in Requests, Ask(r)
  PROVE  /\ pc[r] = "idle" /\ r \notin dead
         /\ pc'[r] \in {"ready", "save", "exists", "delete"}
         /\ row' = row /\ row # NoGame /\ ~ row.ended
         /\ UNCHANGED <<dead, timers, armed, session, published, undone, late>>
         /\ \A q \in Requests \ {r} : pc'[q] = pc[q] /\ draft'[q] = draft[q]
<1> USE StoreType
<1>1. row # NoGame /\ ~ row.ended
  BY DEF Ask, AskReady, UpdateSettings, PutStone, Surrender, CheckTimeout, CancelGame,
     OpenForSettings, Playing, StoreOK, RowOK, Shape
<1>2. pc[r] = "idle" /\ r \notin dead
  BY DEF Ask, AskReady, UpdateSettings, PutStone, Surrender, CheckTimeout, CancelGame,
     Begin, Live
<1>3. /\ pc'[r] \in {"ready", "save", "exists", "delete"}
      /\ \A q \in Requests \ {r} : pc'[q] = pc[q] /\ draft'[q] = draft[q]
  BY DEF Ask, AskReady, UpdateSettings, PutStone, Surrender, CheckTimeout, CancelGame,
     Goto, Hold
<1> QED  BY <1>1, <1>2, <1>3 DEF Ask

LEMMA ContinueMoves ==
  ASSUME TypeInv, NEW r \in Requests, Continue(r)
  PROVE  /\ pc[r] # "idle" /\ r \notin dead /\ dead' = dead
         /\ \A q \in Requests \ {r} : pc'[q] = pc[q] /\ draft'[q] = draft[q]
<1> USE StoreType
<1>1. pc[r] # "idle" /\ r \notin dead /\ dead' = dead
  BY DEF Continue, UpdateReadyState, Reread, MarkStarted, SetTurnTimer, PublishStarted,
     TurnTimerExists, Save, Delete, CleanupFedCache, Live
<1>2. \A q \in Requests \ {r} : pc'[q] = pc[q] /\ draft'[q] = draft[q]
  BY DEF Continue, UpdateReadyState, Reread, MarkStarted, SetTurnTimer, PublishStarted,
     TurnTimerExists, Save, Delete, CleanupFedCache, Return, Goto, Hold
<1> QED  BY <1>1, <1>2

(* Both players ready: whoever wrote the second flag reads the row after it, *)
(* finds both and claims the start.                                          *)
LEMMA NextReady ==
  ASSUME TypeInv, ReadyGameStarts, [Next]_vars
  PROVE  ReadyGameStarts'
<1> USE StoreType
<1>1. CASE UNCHANGED vars  BY <1>1 DEF vars, ReadyGameStarts
<1>2. ASSUME NEW r \in Requests, Ask(r)  PROVE  ReadyGameStarts'
  <2>1. ASSUME NEW s \in Requests, pc[s] \in {"reread", "start"}
        PROVE  pc'[s] = pc[s]
    BY <1>2, <2>1, AskMoves
  <2> QED  BY <1>2, <2>1, AskMoves DEF ReadyGameStarts
<1>3. ASSUME NEW r \in Requests, Continue(r)  PROVE  ReadyGameStarts'
  <2> SUFFICES ASSUME row' # NoGame, row'.ready = Players, ~ row'.started
               PROVE  \E s \in Requests : pc'[s] \in {"reread", "start"}
    BY DEF ReadyGameStarts
  <2>1. ASSUME NEW s \in Requests \ {r}  PROVE  pc'[s] = pc[s]  BY <1>3, ContinueMoves
  <2>2. CASE pc[r] \notin {"reread", "start"} /\ row' = row
    BY <2>1, <2>2 DEF ReadyGameStarts
  <2>3. CASE UpdateReadyState(r)
    BY <2>2, <2>3 DEF UpdateReadyState, Live, Goto
  <2>4. CASE Reread(r)
    <3>1. row' = row  BY <2>4 DEF Reread
    <3>2. ~ row.ended  BY <3>1 DEF StoreOK, RowOK, Shape
    <3> QED  BY <2>4, <3>1, <3>2 DEF Reread, Goto
  <2>5. CASE MarkStarted(r)
    <3>1. CASE Claimable(row)
      <4>1. row \in Rows  BY <3>1 DEF Claimable, StoreOK, RowOK
      <4>2. row'.started  BY <2>5, <3>1, <4>1 DEF MarkStarted, Rows
      <4> QED  BY <4>2
    <3>2. CASE ~ Claimable(row)  BY <2>5, <3>2 DEF MarkStarted, Claimable
    <3> QED  BY <3>1, <3>2
  <2>6. CASE Save(r)
    <3>1. row'.ready = {}  BY <2>6 DEF Save, Live, Holds
    <3> QED  BY <3>1 DEF Players
  <2>7. CASE SetTurnTimer(r) \/ PublishStarted(r) \/ TurnTimerExists(r) \/ CleanupFedCache(r)
    BY <2>2, <2>7 DEF SetTurnTimer, PublishStarted, TurnTimerExists, CleanupFedCache, Live
  <2>8. CASE Delete(r)  BY <2>8 DEF Delete
  <2> QED  BY <1>3, <2>3, <2>4, <2>5, <2>6, <2>7, <2>8 DEF Continue
<1>4. CASE Around
  <2>1. row' = row \/ row' = NoGame
    BY <1>4 DEF Around, Die, TimerExpires, SessionExpires, DeleteOutdatedGames
  <2> QED  BY <1>4, <2>1, AroundType DEF ReadyGameStarts
<1> QED  BY <1>1, <1>2, <1>3, <1>4 DEF Next, Around

(* UpdateReady (#1626): for any number of requests in any order, a game with *)
(* both players ready is on its way to its start, or started, unless the     *)
(* request that was to start it died.                                        *)
THEOREM ReadyStarts == Spec => []ReadyGameStarts
<1>1. Init => ReadyGameStarts
  <2> SUFFICES ASSUME Init  PROVE  ReadyGameStarts  OBVIOUS
  <2>1. row.ready # Players  BY DEF Init
  <2> QED  BY <2>1 DEF ReadyGameStarts
<1>2. TypeInv /\ ReadyGameStarts /\ [Next]_vars => ReadyGameStarts'  BY NextReady
<1> QED  BY <1>1, <1>2, TypeInvariant, PTL DEF Spec

-----------------------------------------------------------------------------
(* An outcome is final once the requests from before it are through. *)

LEMMA NextSettled ==
  ASSUME TypeInv, Next, Settled
  PROVE  Settled' /\ row' = row
<1> USE StoreType
<1>0. row # NoGame => row.started  BY DEF Settled, StoreOK, RowOK, Shape
<1>1. ASSUME NEW r \in Requests, Ask(r)  PROVE  FALSE
  BY <1>1, AskMoves DEF Settled
<1>2. ASSUME NEW r \in Requests, Continue(r)  PROVE  Settled' /\ row' = row
  <2>1. pc[r] \in {"ready", "timer", "publish", "cleanup"}
    BY <1>2, ContinueMoves DEF Settled
  <2>2. UpdateReadyState(r) \/ SetTurnTimer(r) \/ PublishStarted(r) \/ CleanupFedCache(r)
    BY <1>2, <2>1 DEF Continue, Reread, MarkStarted, TurnTimerExists, Save, Delete, Live
  <2>3. row' = row /\ pc'[r] \in {"idle", "publish"}
    BY <1>0, <2>2 DEF UpdateReadyState, SetTurnTimer, PublishStarted, CleanupFedCache,
       Return, Goto
  <2> QED  BY <1>2, <2>3, ContinueMoves DEF Settled
<1>3. CASE Around
  <2>1. row' = row
    BY <1>0, <1>3 DEF Around, Die, TimerExpires, SessionExpires, DeleteOutdatedGames
  <2>2. pc' = pc  BY <1>3, AroundType
  <2>3. dead \subseteq dead'
    BY <1>3 DEF Around, Die, TimerExpires, SessionExpires, DeleteOutdatedGames
  <2> QED  BY <2>1, <2>2, <2>3 DEF Settled
<1> QED  BY <1>1, <1>2, <1>3 DEF Next, Around

(* For any number of requests: when a game has ended, or was cancelled, and  *)
(* the requests that had read it before are through, nothing changes it any  *)
(* more; the guards at the head of every operation see to that.              *)
THEOREM SettledForGood == Spec => SettledIsFinal
<1>1. TypeInv /\ [Next]_vars => [Settled => Settled' /\ row' = row]_vars
  BY NextSettled
<1> QED  BY <1>1, TypeInvariant, PTL DEF Spec, SettledIsFinal

-----------------------------------------------------------------------------
(* The checksum of a game without moves is the one of the map it is played   *)
(* on, because a request about to start it has the settings of the row; both *)
(* hold until a Save of settings overtakes such a request.                   *)

Fresh(g) ==
    g # NoGame /\ g.started /\ g.logs = << >> => g.crc = <<g.config, << >> >>

FreshInv ==
    \/ late
    \/ /\ Fresh(row) /\ \A r \in Requests : Fresh(draft[r])
       /\ \A r \in Requests \ dead :
             pc[r] = "start" /\ Claimable(row) => draft[r].config = row.config

LEMMA LateStays ==
  ASSUME [Next]_vars, late
  PROVE  late'
<1>1. CASE UNCHANGED vars  BY <1>1 DEF vars
<1>2. ASSUME NEW r \in Requests, Ask(r)  PROVE  late'  BY <1>2 DEF Ask
<1>3. ASSUME NEW r \in Requests, Continue(r)  PROVE  late'
  BY <1>3 DEF Continue, UpdateReadyState, Reread, MarkStarted, SetTurnTimer, PublishStarted,
     TurnTimerExists, Save, Delete, CleanupFedCache
<1>4. CASE Around
  BY <1>4 DEF Around, Die, TimerExpires, SessionExpires, DeleteOutdatedGames
<1> QED  BY <1>1, <1>2, <1>3, <1>4 DEF Next, Around

LEMMA FreshKept ==
  ASSUME FreshInv, ~ late, NEW r \in Requests,
         \A q \in Requests \ {r} : pc'[q] = pc[q] /\ draft'[q] = draft[q],
         Fresh(row'), Fresh(draft'[r]),
         \A q \in Requests \ dead' :
             pc'[q] = "start" /\ Claimable(row') => draft'[q].config = row'.config
  PROVE  FreshInv'
<1>1. \A q \in Requests : Fresh(draft'[q])  BY DEF FreshInv
<1> QED  BY <1>1 DEF FreshInv, Fresh, Claimable

LEMMA AskFresh ==
  ASSUME TypeInv, FreshInv, ~ late, NEW r \in Requests, Ask(r)
  PROVE  FreshInv'
<1> USE StoreType
<1>1. row' = row /\ row \in Rows /\ ~ row.ended  BY AskMoves DEF StoreOK, RowOK
<1>2. PICK g : g = row  OBVIOUS
<1>3. \A q \in Requests \ dead' :
         pc'[q] = "start" /\ Claimable(row') => draft'[q].config = row'.config
  BY <1>1, AskMoves DEF FreshInv
<1>4. Fresh(draft'[r])
  <2>1. Fresh(g) /\ Fresh(draft[r])  BY <1>2 DEF FreshInv
  <2>2. CASE draft' = draft  BY <2>1, <2>2
  <2>3. CASE UpdateSettings(r)
    <3>1. PICK c \in Configs : draft' = [draft EXCEPT ![r] = Configured(g, c)]
      BY <1>2, <2>3 DEF UpdateSettings, Hold
    <3>2. ~ g.started  BY <1>2, <2>3 DEF UpdateSettings, OpenForSettings
    <3>3. ~ Configured(g, c).started  BY <1>1, <1>2, <3>2, ConfiguredRow
    <3> QED  BY <3>1, <3>3 DEF Fresh
  <2>4. ASSUME NEW p \in Players, PutStone(r, p)  PROVE  Fresh(draft'[r])
    <3>1. PICK pos \in Engine!Cells(row.config) : draft' = [draft EXCEPT ![r] = Put(g, pos)]
      BY <1>2, <2>4 DEF PutStone, Hold
    <3>2. g \in Rows /\ g.black \in Players /\ ~ g.ended
      BY <1>1, <1>2, <2>4 DEF PutStone, Playing, StoreOK, RowOK, Shape
    <3>3. pos \in Nat  BY <1>1, CellIsNat
    <3>4. PICK h : h = Put(g, pos)  OBVIOUS
    <3>5. h \in Rows /\ h.logs = Append(g.logs, pos)  BY <3>2, <3>3, <3>4, PutRow
    <3>6. g.logs \in Seq(Nat)  BY <3>2 DEF Rows
    <3>7. h.logs # << >>  BY <3>3, <3>5, <3>6, AppendNotEmpty
    <3> QED  BY <3>1, <3>4, <3>7 DEF Fresh
  <2>5. ASSUME NEW p \in Players, Surrender(r, p)  PROVE  Fresh(draft'[r])
    <3>1. draft' = [draft EXCEPT ![r] = Surrendered(g, p)]
      BY <1>2, <2>5 DEF Surrender, Hold
    <3>2. PICK h : h = Surrendered(g, p)  OBVIOUS
    <3>3. /\ h.logs = g.logs /\ h.crc = g.crc /\ h.config = g.config
          /\ h.started = g.started
      BY <1>1, <1>2, <3>2, SurrenderedRow
    <3>4. g # NoGame  BY <1>1, <1>2, RowIsGame
    <3>5. Fresh(h)  BY <2>1, <3>3, <3>4 DEF Fresh
    <3> QED  BY <3>1, <3>2, <3>5
  <2>6. CASE CheckTimeout(r)
    <3>1. draft'[r] = g  BY <1>2, <2>6 DEF CheckTimeout, Hold
    <3> QED  BY <2>1, <3>1
  <2> QED  BY <2>2, <2>3, <2>4, <2>5, <2>6 DEF Ask, AskReady, CancelGame
<1>5. Fresh(row')  BY <1>1 DEF FreshInv
<1> QED  BY <1>3, <1>4, <1>5, AskMoves, FreshKept

LEMMA ContinueFresh ==
  ASSUME TypeInv, FreshInv, ~ late, ~ late', NEW r \in Requests, Continue(r)
  PROVE  FreshInv'
<1> USE StoreType
<1>0. /\ dead' = dead /\ r \notin dead
      /\ \A q \in Requests \ {r} : pc'[q] = pc[q] /\ draft'[q] = draft[q]
  BY ContinueMoves
<1>1. Fresh(row) /\ Fresh(draft[r]) /\ Fresh(NoGame)  BY DEF FreshInv, Fresh
<1>2. ASSUME NEW q \in Requests \ dead, pc[q] = "start", Claimable(row)
      PROVE  draft[q].config = row.config
  BY <1>2 DEF FreshInv
<1>3. ASSUME Fresh(draft'[r]), pc'[r] # "start", row' = row \/ row' = NoGame
      PROVE  FreshInv'
  <2>1. ASSUME NEW q \in Requests \ dead', pc'[q] = "start", Claimable(row')
        PROVE  draft'[q].config = row'.config
    <3>1. q # r /\ row' = row  BY <1>3, <2>1 DEF Claimable
    <3> QED  BY <1>0, <1>2, <2>1, <3>1
  <2> QED  BY <1>0, <1>1, <1>3, <2>1, FreshKept
<1>4. CASE UpdateReadyState(r)
  <2>1. CASE row # NoGame /\ ~ row.started /\ ~ row.ended
    <3>1. row \in Rows /\ call[r] \in Calls /\ call[r].user \in Players
      BY <1>4, <2>1 DEF StoreOK, RowOK, UpdateReadyState, Live, Holds
    <3>2. PICK g, c : g = row /\ c = call[r]  OBVIOUS
    <3>3. SetReady(g, c).started = g.started /\ SetReady(g, c).config = g.config
      BY <3>1, <3>2, SetReadyRow
    <3>4. row' = SetReady(g, c) /\ draft' = draft /\ pc'[r] = "reread"
      BY <1>4, <2>1, <3>2 DEF UpdateReadyState, Goto
    <3>5. Fresh(row')  BY <2>1, <3>2, <3>3, <3>4 DEF Fresh
    <3>6. \A q \in Requests \ dead' :
             pc'[q] = "start" /\ Claimable(row') => draft'[q].config = row'.config
      BY <1>0, <1>2, <2>1, <3>2, <3>3, <3>4 DEF Claimable
    <3> QED  BY <1>0, <1>1, <3>4, <3>5, <3>6, FreshKept
  <2>2. CASE ~ (row # NoGame /\ ~ row.started /\ ~ row.ended)
    BY <1>1, <1>3, <1>4, <2>2 DEF UpdateReadyState, Return, Goto, Hold
  <2> QED  BY <2>1, <2>2
<1>5. CASE Reread(r)
  <2>0. row' = row  BY <1>5 DEF Reread
  <2>1. CASE row # NoGame /\ row.ready = Players /\ ~ row.started /\ ~ row.ended
    <3>1. PICK b \in pickBlack(row.config.bw) : Hold(r, Begun(row, b))
      BY <1>5, <2>1 DEF Reread
    <3>2. PICK g, h : g = row /\ h = Begun(g, b)  OBVIOUS
    <3>3. b \in Players /\ g \in Rows /\ g.logs = << >>
      BY <2>1, <3>1, <3>2, PickIsPlayer DEF StoreOK, RowOK, Shape
    <3>4. h.config = g.config /\ h.crc = <<g.config, << >> >>  BY <3>2, <3>3, BegunRow
    <3>5. draft'[r] = h  BY <3>1, <3>2 DEF Hold
    <3>6. \A q \in Requests \ dead' :
             pc'[q] = "start" /\ Claimable(row') => draft'[q].config = row'.config
      BY <1>0, <1>2, <2>0, <3>2, <3>4, <3>5
    <3> QED  BY <1>0, <1>1, <2>0, <3>4, <3>5, <3>6, FreshKept DEF Fresh
  <2>2. CASE ~ (row # NoGame /\ row.ready = Players /\ ~ row.started /\ ~ row.ended)
    BY <1>1, <1>3, <1>5, <2>0, <2>2 DEF Reread, Return, Goto, Hold
  <2> QED  BY <2>1, <2>2
<1>6. CASE MarkStarted(r)
  <2>1. CASE Claimable(row)
    <3>1. PICK g, d : g = row /\ d = draft[r]  OBVIOUS
    <3>2. g \in Rows  BY <2>1, <3>1 DEF Claimable, StoreOK, RowOK
    <3>3. d.crc = <<d.config, << >> >> /\ d.config = g.config
      BY <1>0, <1>1, <1>2, <1>6, <2>1, <3>1 DEF MarkStarted, Live, Holds, Fresh
    <3>4. row' = [g EXCEPT !.black = d.black, !.started = TRUE, !.crc = d.crc]
      BY <1>6, <2>1, <3>1 DEF MarkStarted
    <3>5. row'.started /\ row'.crc = d.crc /\ row'.config = g.config  BY <3>2, <3>4 DEF Rows
    <3>6. Fresh(row') /\ ~ Claimable(row')  BY <3>3, <3>5 DEF Fresh, Claimable
    <3>7. draft' = draft  BY <1>6, <2>1 DEF MarkStarted
    <3> QED  BY <1>0, <1>1, <3>6, <3>7, FreshKept
  <2>2. CASE ~ Claimable(row)
    BY <1>1, <1>3, <1>6, <2>2 DEF MarkStarted, Return, Goto, Hold
  <2> QED  BY <2>1, <2>2
<1>7. CASE TurnTimerExists(r)
  <2>1. PICK g, h : g = draft[r] /\ h = TimedOut(g)  OBVIOUS
  <2>2. g # NoGame /\ g \in Rows /\ g.black \in Players
    BY <1>7, <2>1 DEF TurnTimerExists, Live, Holds, Playing, RowOK, Shape
  <2>3. h.logs = g.logs /\ h.crc = g.crc /\ h.config = g.config /\ h.started = g.started
    BY <2>1, <2>2, TimedOutRow
  <2>4. Fresh(h)  BY <1>1, <2>1, <2>2, <2>3 DEF Fresh
  <2>5. draft'[r] \in {h, NoGame} /\ pc'[r] # "start" /\ row' = row
    BY <1>7, <2>1 DEF TurnTimerExists, Return, Goto, Hold
  <2> QED  BY <1>1, <1>3, <2>4, <2>5
<1>8. CASE Save(r)
  <2>1. row' = draft[r]  BY <1>8 DEF Save
  <2>2. draft'[r] \in {draft[r], NoGame} /\ pc'[r] # "start"
    BY <1>8 DEF Save, Return, Goto, Hold, AfterSave
  <2>3. ASSUME NEW q \in Requests \ dead', pc'[q] = "start", Claimable(row')
        PROVE  FALSE
    <3>1. Live(q, "start")  BY <1>0, <2>2, <2>3 DEF Live
    <3>2. ~ draft[r].started  BY <2>1, <2>3 DEF Claimable
    <3> QED  BY <1>8, <3>1, <3>2 DEF Save
  <2> QED  BY <1>0, <1>1, <2>1, <2>2, <2>3, FreshKept
<1>9. CASE Delete(r) \/ SetTurnTimer(r) \/ PublishStarted(r) \/ CleanupFedCache(r)
  <2>1. draft'[r] \in {draft[r], NoGame} /\ pc'[r] # "start" /\ (row' = row \/ row' = NoGame)
    BY <1>9 DEF Delete, SetTurnTimer, PublishStarted, CleanupFedCache, Return, Goto, Hold
  <2> QED  BY <1>1, <1>3, <2>1
<1> QED  BY <1>4, <1>5, <1>6, <1>7, <1>8, <1>9 DEF Continue

LEMMA NextFresh ==
  ASSUME TypeInv, FreshInv, [Next]_vars
  PROVE  FreshInv'
<1> SUFFICES ASSUME ~ late'  PROVE  FreshInv'  BY DEF FreshInv
<1>0. ~ late  BY LateStays
<1>1. CASE UNCHANGED vars  BY <1>1 DEF vars, FreshInv, Fresh, Claimable
<1>2. CASE \E r \in Requests : Ask(r)  BY <1>0, <1>2, AskFresh
<1>3. CASE \E r \in Requests : Continue(r)  BY <1>0, <1>3, ContinueFresh
<1>4. CASE Around
  <2>1. UNCHANGED <<pc, draft>>  BY <1>4, AroundType
  <2>2. (row' = row \/ row' = NoGame) /\ dead \subseteq dead'
    BY <1>4 DEF Around, Die, TimerExpires, SessionExpires, DeleteOutdatedGames
  <2>3. CASE row' = row  BY <1>0, <2>1, <2>2, <2>3 DEF FreshInv, Fresh, Claimable
  <2>4. CASE row' = NoGame  BY <1>0, <2>1, <2>4 DEF FreshInv, Fresh, Claimable
  <2> QED  BY <2>2, <2>3, <2>4
<1> QED  BY <1>1, <1>2, <1>3, <1>4 DEF Next, Around

LEMMA FreshInvariant == Spec => []FreshInv
<1>1. Init => FreshInv
  <2> SUFFICES ASSUME Init  PROVE  FreshInv  OBVIOUS
  <2>1. Fresh(row)  BY DEF Init, Fresh
  <2>2. \A r \in Requests : draft[r] = NoGame /\ pc[r] = "idle"  BY DEF Init
  <2> QED  BY <2>1, <2>2 DEF FreshInv, Fresh
<1>2. TypeInv /\ FreshInv /\ [Next]_vars => FreshInv'  BY NextFresh
<1> QED  BY <1>1, <1>2, TypeInvariant, PTL DEF Spec

-----------------------------------------------------------------------------
(* setTurnTimer sets a timer for every turn of a game with a limit.          *)

Called(n) ==
    \/ n \in armed
    \/ \E r \in Requests : /\ pc[r] = "timer" /\ draft[r].config.limit > 0
                           /\ Len(draft[r].logs) = n
    \/ late

LostOnTime(g) == g # NoGame /\ g.ended /\ g.timeout # None

(* Whoever may lose, or has lost, on time does so in a turn it was set for.  *)
Timed(at, g) == at = "exists" \/ (at = "save" /\ LostOnTime(g))

Limited(g, n) == g.config.limit > 0 /\ Len(g.logs) = n

TimerInv ==
    \A n \in Nat :
        /\ (Playing(row) \/ LostOnTime(row)) /\ Limited(row, n) => Called(n)
        /\ \A r \in Requests : Timed(pc[r], draft[r]) /\ Limited(draft[r], n) => Called(n)

(* A call that was made or is due stays so. *)
LEMMA CalledStays ==
  ASSUME TypeInv, [Next]_vars, NEW n, Called(n)
  PROVE  Called(n)'
<1> USE StoreType
<1>0. CASE late  BY <1>0, LateStays DEF Called
<1>1. CASE UNCHANGED vars  BY <1>1 DEF vars, Called
<1>2. ASSUME NEW r \in Requests, Ask(r)  PROVE  Called(n)'
  BY <1>2, AskMoves DEF Called
<1>3. ASSUME NEW r \in Requests, Continue(r)  PROVE  Called(n)'
  <2>1. CASE pc[r] # "timer"
    <3>1. armed' = armed
      BY <1>3, <2>1 DEF Continue, UpdateReadyState, Reread, MarkStarted, SetTurnTimer,
         PublishStarted, TurnTimerExists, Save, Delete, CleanupFedCache, Live
    <3> QED  BY <1>0, <1>3, <2>1, <3>1, ContinueMoves DEF Called
  <2>2. CASE pc[r] = "timer"
    <3>1. SetTurnTimer(r)
      BY <1>3, <2>2 DEF Continue, UpdateReadyState, Reread, MarkStarted,
         PublishStarted, TurnTimerExists, Save, Delete, CleanupFedCache, Live
    <3>2. /\ armed \subseteq armed'
          /\ draft[r].config.limit > 0 => Len(draft[r].logs) \in armed'
      BY <3>1 DEF SetTurnTimer, TurnIndex
    <3> QED  BY <1>0, <1>3, <3>2, ContinueMoves DEF Called
  <2> QED  BY <2>1, <2>2
<1>4. CASE Around
  <2>1. armed' = armed
    BY <1>4 DEF Around, Die, TimerExpires, SessionExpires, DeleteOutdatedGames
  <2> QED  BY <1>0, <1>4, <2>1, AroundType DEF Called
<1> QED  BY <1>1, <1>2, <1>3, <1>4 DEF Next, Around

LEMMA TimerKept ==
  ASSUME TypeInv, FreshInv, TimerInv, [Next]_vars, NEW r \in Requests,
         \A q \in Requests \ {r} : pc'[q] = pc[q] /\ draft'[q] = draft[q],
         \A n \in Nat : Timed(pc'[r], draft'[r]) /\ Limited(draft'[r], n) => Called(n),
         row' = row \/ \A n \in Nat :
             (Playing(row') \/ LostOnTime(row')) /\ Limited(row', n) => Called(n)'
  PROVE  TimerInv'
<1> SUFFICES ASSUME NEW n \in Nat
             PROVE  /\ (Playing(row') \/ LostOnTime(row')) /\ Limited(row', n) => Called(n)'
                    /\ \A q \in Requests :
                         Timed(pc'[q], draft'[q]) /\ Limited(draft'[q], n) => Called(n)'
  BY DEF TimerInv, Playing, LostOnTime, Timed, Limited
<1>1. Called(n) => Called(n)'  BY CalledStays
<1>2. (Playing(row') \/ LostOnTime(row')) /\ Limited(row', n) => Called(n)'
  <2>1. CASE row' = row  BY <1>1, <2>1 DEF TimerInv
  <2> QED  BY <2>1
<1>3. ASSUME NEW q \in Requests, Timed(pc'[q], draft'[q]), Limited(draft'[q], n)
      PROVE  Called(n)'
  <2>1. CASE q = r  BY <1>1, <1>3, <2>1
  <2>2. CASE q # r  BY <1>1, <1>3, <2>2 DEF TimerInv
  <2> QED  BY <2>1, <2>2
<1> QED  BY <1>2, <1>3

LEMMA AskTimer ==
  ASSUME TypeInv, FreshInv, TimerInv, [Next]_vars, NEW r \in Requests, Ask(r)
  PROVE  TimerInv'
<1> USE StoreType
<1>1. row \in Rows /\ row' = row /\ ~ row.ended /\ row.timeout = None
  BY AskMoves DEF StoreOK, RowOK, Undecided
<1>2. \A n \in Nat : Timed(pc'[r], draft'[r]) /\ Limited(draft'[r], n) => Called(n)
  <2>1. CASE pc'[r] \in {"ready", "delete"}  BY <2>1 DEF Timed
  <2>2. CASE UpdateSettings(r)
    <3>1. PICK c \in Configs : draft' = [draft EXCEPT ![r] = Configured(row, c)]
      BY <2>2 DEF UpdateSettings, Hold
    <3>2. PICK g : g = Configured(row, c)  OBVIOUS
    <3>3. ~ g.ended  BY <1>1, <3>2, ConfiguredRow
    <3>4. pc'[r] = "save" /\ draft'[r] = g  BY <2>2, <3>1, <3>2 DEF UpdateSettings, Goto
    <3> QED  BY <3>3, <3>4 DEF Timed, LostOnTime
  <2>3. ASSUME NEW p \in Players, PutStone(r, p)
        PROVE  pc'[r] = "save" /\ ~ LostOnTime(draft'[r])
    <3>1. PICK pos \in Engine!Cells(row.config) : draft' = [draft EXCEPT ![r] = Put(row, pos)]
      BY <2>3 DEF PutStone, Hold
    <3>2. PICK g : g = Put(row, pos)  OBVIOUS
    <3>3. row.black \in Players
      BY <2>3 DEF PutStone, Playing, StoreOK, RowOK, Shape
    <3>4. pos \in Nat  BY <1>1, CellIsNat
    <3>5. g.timeout = None  BY <1>1, <3>2, <3>3, <3>4, PutRow
    <3>6. pc'[r] = "save" /\ draft'[r] = g  BY <2>3, <3>1, <3>2 DEF PutStone, Goto
    <3> QED  BY <3>5, <3>6 DEF LostOnTime
  <2>4. ASSUME NEW p \in Players, Surrender(r, p)
        PROVE  pc'[r] = "save" /\ ~ LostOnTime(draft'[r])
    <3>1. PICK g : g = Surrendered(row, p)  OBVIOUS
    <3>2. g.timeout = None  BY <1>1, <3>1, SurrenderedRow
    <3>3. pc'[r] = "save" /\ draft'[r] = g  BY <2>4, <3>1 DEF Surrender, Goto, Hold
    <3> QED  BY <3>2, <3>3 DEF LostOnTime
  <2>5. CASE CheckTimeout(r)
    <3>1. Playing(row) /\ draft'[r] = row  BY <2>5 DEF CheckTimeout, Hold
    <3> QED  BY <3>1 DEF TimerInv
  <2>6. CASE CancelGame(r)
    <3>1. pc'[r] = "delete"  BY <2>6 DEF CancelGame, Goto
    <3> QED  BY <2>1, <3>1
  <2>7. ASSUME NEW p \in Players, NEW ready \in BOOLEAN, AskReady(r, p, ready)
        PROVE  pc'[r] = "ready"
    BY <2>7 DEF AskReady, Goto
  <2> QED  BY <2>1, <2>2, <2>3, <2>4, <2>5, <2>6, <2>7 DEF Ask, Timed
<1> QED  BY <1>1, <1>2, AskMoves, TimerKept

LEMMA ContinueTimer ==
  ASSUME TypeInv, FreshInv, TimerInv, [Next]_vars, NEW r \in Requests, Continue(r)
  PROVE  TimerInv'
<1> USE StoreType
<1>0. \A q \in Requests \ {r} : pc'[q] = pc[q] /\ draft'[q] = draft[q]  BY ContinueMoves
<1>1. CASE UpdateReadyState(r)
  <2>1. ~ Timed(pc'[r], draft'[r])
    BY <1>1 DEF UpdateReadyState, Return, Goto, Timed
  <2>2. CASE row # NoGame /\ ~ row.started /\ ~ row.ended
    <3>1. row \in Rows /\ call[r] \in Calls /\ call[r].user \in Players
      BY <1>1, <2>2 DEF StoreOK, RowOK, UpdateReadyState, Live, Holds
    <3>2. PICK g, c : g = row /\ c = call[r]  OBVIOUS
    <3>3. ~ SetReady(g, c).ended /\ ~ SetReady(g, c).started
      BY <2>2, <3>1, <3>2, SetReadyRow
    <3>4. row' = SetReady(g, c)  BY <1>1, <2>2, <3>2 DEF UpdateReadyState
    <3>5. ~ Playing(row') /\ ~ LostOnTime(row')  BY <3>3, <3>4 DEF Playing, LostOnTime
    <3> QED  BY <1>0, <2>1, <3>5, TimerKept
  <2>3. CASE ~ (row # NoGame /\ ~ row.started /\ ~ row.ended)
    <3>1. row' = row  BY <1>1, <2>3 DEF UpdateReadyState
    <3> QED  BY <1>0, <2>1, <3>1, TimerKept
  <2> QED  BY <2>2, <2>3
<1>2. CASE MarkStarted(r)
  <2>1. ~ Timed(pc'[r], draft'[r])
    BY <1>2 DEF MarkStarted, Return, Goto, Timed
  <2>2. CASE Claimable(row)
    <3>1. row \in Rows /\ row.logs = << >>
      BY <2>2 DEF Claimable, StoreOK, RowOK, Shape
    <3>2. row'.logs = << >> /\ row'.config = row.config
      BY <1>2, <2>2, <3>1 DEF MarkStarted, Rows
    <3>3. pc'[r] = "timer" /\ draft'[r] = draft[r] /\ draft[r].logs = << >>
      BY <1>2, <2>2 DEF MarkStarted, Live, Goto, Holds
    <3>4. ASSUME NEW n \in Nat, Limited(row', n)  PROVE  Called(n)'
      <4>1. CASE late  BY <4>1, LateStays DEF Called
      <4>2. CASE ~ late
        <5>1. draft[r].config = row.config
          BY <1>2, <2>2, <4>2 DEF FreshInv, MarkStarted, Live
        <5> QED  BY <3>2, <3>3, <3>4, <5>1 DEF Called, Limited
      <4> QED  BY <4>1, <4>2
    <3> QED  BY <1>0, <2>1, <3>4, TimerKept
  <2>3. CASE ~ Claimable(row)
    <3>1. row' = row  BY <1>2, <2>3 DEF MarkStarted
    <3> QED  BY <1>0, <2>1, <3>1, TimerKept
  <2> QED  BY <2>2, <2>3
<1>3. CASE TurnTimerExists(r)
  <2>1. PICK g : g = draft[r]  OBVIOUS
  <2>2. pc[r] = "exists" /\ Playing(g) /\ RowOK(g)
    BY <1>3, <2>1 DEF TurnTimerExists, Live, Holds
  <2>3. g \in Rows /\ g.black \in Players  BY <2>2 DEF Playing, RowOK, Shape
  <2>4. TimedOut(g).logs = g.logs /\ TimedOut(g).config = g.config  BY <2>3, TimedOutRow
  <2>5. \A n \in Nat : Timed(pc'[r], draft'[r]) /\ Limited(draft'[r], n) => Called(n)
    <3>1. CASE Len(draft[r].logs) \notin timers /\ Position(draft[r]).turn # "-"
      <4>1. draft'[r] = TimedOut(g)  BY <1>3, <2>1, <3>1 DEF TurnTimerExists, Hold
      <4> QED  BY <2>1, <2>2, <2>4, <4>1 DEF TimerInv, Timed, Limited
    <3>2. CASE ~ (Len(draft[r].logs) \notin timers /\ Position(draft[r]).turn # "-")
      BY <1>3, <3>2 DEF TurnTimerExists, Return, Goto, Timed
    <3> QED  BY <3>1, <3>2
  <2>6. row' = row  BY <1>3 DEF TurnTimerExists
  <2> QED  BY <1>0, <2>5, <2>6, TimerKept
<1>4. CASE Save(r)
  <2>1. PICK g : g = draft[r]  OBVIOUS
  <2>2. row' = g /\ pc[r] = "save"  BY <1>4, <2>1 DEF Save, Live
  <2>3. ~ Timed(pc'[r], draft'[r])
    BY <1>4 DEF Save, Return, Goto, AfterSave, Timed
  <2>4. ASSUME NEW n \in Nat, LostOnTime(g), Limited(g, n)  PROVE  Called(n)'
    <3>1. Called(n)  BY <2>1, <2>2, <2>4 DEF TimerInv, Timed
    <3> QED  BY <3>1, CalledStays
  <2>5. ASSUME NEW n \in Nat, Playing(g), Limited(g, n)  PROVE  Called(n)'
    <3>1. AfterSave(g) = "timer"  BY <2>5 DEF Playing, AfterSave
    <3>2. pc'[r] = "timer" /\ draft'[r] = g  BY <1>4, <2>1, <3>1 DEF Save, Goto
    <3> QED  BY <2>5, <3>2 DEF Called, Limited
  <2> QED  BY <1>0, <2>2, <2>3, <2>4, <2>5, TimerKept
<1>5. CASE Delete(r)
  <2>1. ~ Playing(row') /\ ~ LostOnTime(row')  BY <1>5 DEF Delete, Playing, LostOnTime
  <2>2. ~ Timed(pc'[r], draft'[r])  BY <1>5 DEF Delete, Goto, Timed
  <2> QED  BY <1>0, <2>1, <2>2, TimerKept
<1>6. CASE Reread(r) \/ SetTurnTimer(r) \/ PublishStarted(r) \/ CleanupFedCache(r)
  <2>1. row' = row
    BY <1>6 DEF Reread, SetTurnTimer, PublishStarted, CleanupFedCache
  <2>2. ~ Timed(pc'[r], draft'[r])
    BY <1>6 DEF Reread, SetTurnTimer, PublishStarted, CleanupFedCache, Return, Goto, Timed
  <2> QED  BY <1>0, <2>1, <2>2, TimerKept
<1> QED  BY <1>1, <1>2, <1>3, <1>4, <1>5, <1>6 DEF Continue

LEMMA NextTimer ==
  ASSUME TypeInv, FreshInv, TimerInv, [Next]_vars
  PROVE  TimerInv'
<1>1. CASE UNCHANGED vars
  BY <1>1 DEF vars, TimerInv, Called, Playing, LostOnTime, Timed, Limited
<1>2. CASE \E r \in Requests : Ask(r)  BY <1>2, AskTimer
<1>3. CASE \E r \in Requests : Continue(r)  BY <1>3, ContinueTimer
<1>4. CASE Around
  <2>1. UNCHANGED <<pc, draft>>  BY <1>4, AroundType
  <2>2. row' = row \/ row' = NoGame
    BY <1>4 DEF Around, Die, TimerExpires, SessionExpires, DeleteOutdatedGames
  <2>3. \A n \in Nat : Called(n) => Called(n)'  BY CalledStays
  <2>4. ASSUME NEW n \in Nat
        PROVE  /\ (Playing(row') \/ LostOnTime(row')) /\ Limited(row', n) => Called(n)'
               /\ \A r \in Requests :
                    Timed(pc'[r], draft'[r]) /\ Limited(draft'[r], n) => Called(n)'
    BY <2>1, <2>2, <2>3 DEF TimerInv, Playing, LostOnTime, Limited
  <2> QED  BY <2>4 DEF TimerInv, Playing, LostOnTime, Timed, Limited
<1> QED  BY <1>1, <1>2, <1>3, <1>4 DEF Next, Around

(* CheckTimeout, for any number of requests and moves: in a game with a time *)
(* limit, a player who lost on time lost a turn whose timer was set, or was  *)
(* to be set by a request that is under way or died; the index a timeout is  *)
(* decided by is always one that StartGame or PutStone sets a timer for.     *)
(* That stops to hold when a Save of settings overtakes a request about to   *)
(* start the game, which may set the timer by the old limit.                 *)
THEOREM TimeoutWasTimed == Spec => []TimeoutHadTimer
<1>1. Init => TimerInv
  BY DEF Init, TimerInv, Playing, LostOnTime, Timed
<1>2. TypeInv /\ FreshInv /\ TimerInv /\ [Next]_vars => TimerInv'  BY NextTimer
<1>3. TypeInv /\ TimerInv => TimeoutHadTimer
  <2> SUFFICES ASSUME TypeInv, TimerInv, LostOnTime(row), row.config.limit > 0
               PROVE  Called(Len(row.logs))
    BY DEF TimeoutHadTimer, LostOnTime, Called
  <2>1. Len(row.logs) \in Nat  BY StoreType DEF StoreOK, RowOK, LostOnTime, Rows
  <2> QED  BY <2>1 DEF TimerInv, Limited
<1> QED  BY <1>1, <1>2, <1>3, TypeInvariant, FreshInvariant, PTL DEF Spec

-----------------------------------------------------------------------------
(* The moves of the row and of every draft are legal, and their outcomes     *)
(* have their reasons.                                                       *)

Playable(g) ==
    g # NoGame /\ g.logs # << >> => g.started /\ MovesAccepted(g) /\ ChecksumOfPosition(g)

Going(g) == Playing(g) /\ g.logs # << >> => Position(g).turn # "-"

Sound(g) == Playable(g) /\ Explained(g) /\ Going(g)

PlayInv == Sound(row) /\ \A r \in Requests : Sound(draft[r])

LEMMA NoMoves ==
  ASSUME NEW g, g = NoGame \/ (g.logs = << >> /\ ~ g.ended)
  PROVE  Sound(g)
  BY DEF Sound, Playable, Explained, Going, Playing

LEMMA SameMoves ==
  ASSUME NEW g \in Rows, Playable(g), NEW h \in Rows,
         h.logs = g.logs, h.config = g.config, h.crc = g.crc, h.started = g.started
  PROVE  Playable(h)
  BY RowIsGame DEF Playable, MovesAccepted, ChecksumOfPosition, Position

LEMMA LegalMove ==
  ASSUME NEW g \in Rows, Playable(g), g.black \in Players, NEW p \in Players,
         NEW pos \in Nat, MayPut(g, Position(g), p, pos)
  PROVE  Playable(Put(g, pos))
<1> DEFINE s == g.logs
           t == Append(s, pos)
           After(logs, x) ==
               LET e == Engine!EngineFromGame(g.config, logs) IN
               e.turn # "-" /\ Engine!CanPut(g.config, e.board, e.turn, x)
           Legal(logs, n) == After(SubSeq(logs, 1, n - 1), logs[n])
<1>1. PICK h : h = Put(g, pos)  OBVIOUS
<1>2. /\ h \in Rows /\ h.logs = t /\ h.config = g.config /\ h.started
      /\ h.crc = <<g.config, t>>
  BY <1>1, PutRow DEF MayPut, Playing
<1>3. s \in Seq(Nat) /\ t \in Seq(Nat) /\ Len(t) = Len(s) + 1 /\ Len(s) \in Nat
  BY DEF Rows
<1>4. ASSUME NEW n \in 1 .. Len(s)  PROVE  Legal(t, n)
  <2>1. Legal(s, n)
    <3>1. s # << >>  BY <1>3, <1>4
    <3> QED  BY <1>4, <3>1, RowIsGame DEF Playable, MovesAccepted
  <2>2. t[n] = s[n]  BY <1>3, <1>4
  <2>3. SubSeq(t, 1, n - 1) = SubSeq(s, 1, n - 1)  BY <1>3, <1>4
  <2> HIDE DEF s, t, After
  <2> QED  BY <2>1, <2>2, <2>3
<1>5. Legal(t, Len(s) + 1)
  <2>1. SubSeq(t, 1, Len(s)) = s  BY <1>3
  <2>2. t[Len(s) + 1] = pos  BY <1>3
  <2>3. Position(g).turn \in {"b", "w"}
    BY DEF MayPut, playerColor
  <2>4. Engine!CanPut(g.config, Position(g).board, Position(g).turn, pos)  BY DEF MayPut
  <2>5. (Len(s) + 1) - 1 = Len(s)  BY <1>3
  <2> QED  BY <2>1, <2>2, <2>3, <2>4, <2>5 DEF Position
<1>6. \A n \in 1 .. Len(t) : Legal(t, n)
  <2> TAKE n \in 1 .. Len(t)
  <2>1. n \in 1 .. Len(s) \/ n = Len(s) + 1  BY <1>3
  <2> HIDE DEF s, t, Legal
  <2> QED  BY <1>4, <1>5, <2>1
<1>7. Engine!EngineFromGame(h.crc[1], h.crc[2]) = Position(h)  BY <1>2 DEF Position
<1> QED  BY <1>1, <1>2, <1>6, <1>7 DEF Playable, MovesAccepted, ChecksumOfPosition

LEMMA StonesCount ==
  ASSUME NEW g \in Rows, NEW e, NEW color
  PROVE  Engine!Stones(g.config, e, color) \in Nat
<1>1. PICK n : n = g.config.map.width * g.config.map.height  OBVIOUS
<1>2. n \in Int
  <2>1. g.config \in Configs  BY DEF Rows
  <2>2. PICK w, h : w = g.config.map.width /\ h = g.config.map.height  OBVIOUS
  <2>3. w \in Nat /\ h \in Nat  BY <2>1, <2>2, MatchAssumption
  <2> QED  BY <1>1, <2>2, <2>3
<1>3. Engine!Cells(g.config) = 0 .. n - 1  BY <1>1 DEF Engine!Cells
<1>4. IsFiniteSet(Engine!Cells(g.config))  BY <1>2, <1>3, FS_Interval
<1> DEFINE S == {pos \in Engine!Cells(g.config) : e.board[pos] = color}
<1>5. IsFiniteSet(S)  BY <1>4, FS_Subset
<1>6. Cardinality(S) \in Nat  BY <1>5, FS_CardinalityType
<1>7. Engine!Cardinality(S) = Cardinality(S)  BY DEF Engine!Cardinality, Cardinality
<1> QED  BY <1>6, <1>7 DEF Engine!Stones

LEMMA MajorityWins ==
  ASSUME NEW g \in Rows, g.black \in Players, Undecided(g), ~ g.ended, NEW pos \in Nat
  PROVE  Explained(Put(g, pos))
<1>1. PICK h : h = Put(g, pos)  OBVIOUS
<1>2. PICK e : e = Position(h)  OBVIOUS
<1>3. PICK b, w : b = Engine!Stones(g.config, e, "b") /\ w = Engine!Stones(g.config, e, "w")
  OBVIOUS
<1>4. b \in Nat /\ w \in Nat  BY <1>3, StonesCount
<1>5. PICK color : color = Engine!Winner(g.config, e)  OBVIOUS
<1>6. color = IF b = w THEN "-" ELSE IF g.config.llotheo <=> b < w THEN "b" ELSE "w"
  BY <1>3, <1>5 DEF Engine!Winner
<1> SUFFICES ASSUME h.ended  PROVE  Explained(h)
  BY <1>1 DEF Explained
<1>7. /\ h \in Rows /\ h.config = g.config /\ h.black = g.black
      /\ h.timeout = None /\ h.surrendered = None /\ e.turn = "-"
      /\ h.winner = IF color = "-" THEN None ELSE playerIDForColor(g, color)
  BY <1>1, <1>2, <1>5, PutRow, RowIsGame DEF Undecided
<1> DEFINE count(p) == Engine!Stones(h.config, e, playerColor(h, p))
<1>8. \A p \in Players : count(p) = IF p = h.black THEN b ELSE w
  BY <1>3, <1>7 DEF playerColor
<1>9. count(1) = count(2) <=> b = w  BY <1>7, <1>8 DEF Players
<1>10. h.winner = None <=> b = w
  BY <1>6, <1>7 DEF playerIDForColor, opponent, Players, None
<1>11. ASSUME h.winner # None
       PROVE  IF h.config.llotheo THEN count(h.winner) < count(opponent(h.winner))
              ELSE count(h.winner) > count(opponent(h.winner))
  <2>1. CASE color = "b"
    <3>1. h.winner = h.black /\ h.winner \in Players /\ opponent(h.winner) \in Players
          /\ opponent(h.winner) # h.black
      BY <1>7, <2>1 DEF playerIDForColor, opponent, Players
    <3>2. count(h.winner) = b /\ count(opponent(h.winner)) = w  BY <1>8, <3>1
    <3> HIDE DEF count
    <3> QED  BY <1>4, <1>6, <1>7, <2>1, <3>2
  <2>2. CASE color = "w"
    <3>1. h.winner # h.black /\ h.winner \in Players /\ opponent(h.winner) = h.black
      BY <1>7, <2>2 DEF playerIDForColor, opponent, Players
    <3>2. count(h.winner) = w /\ count(opponent(h.winner)) = b  BY <1>7, <1>8, <3>1
    <3> HIDE DEF count
    <3> QED  BY <1>4, <1>6, <1>7, <2>2, <3>2
  <2> QED  BY <1>6, <1>7, <1>11, <2>1, <2>2
<1> QED  BY <1>2, <1>7, <1>9, <1>10, <1>11 DEF Explained

LEMMA SurrenderSound ==
  ASSUME NEW g \in Rows, Sound(g), Undecided(g), ~ g.ended, NEW p \in Players
  PROVE  Sound(Surrendered(g, p))
<1>1. PICK h : h = Surrendered(g, p)  OBVIOUS
<1>2. /\ h \in Rows /\ h.surrendered = p /\ h.timeout = None /\ h.winner = opponent(p)
      /\ h.logs = g.logs /\ h.config = g.config /\ h.crc = g.crc /\ h.started = g.started
  BY <1>1, SurrenderedRow, RowIsGame DEF Undecided
<1>3. Playable(h)  BY <1>2, SameMoves DEF Sound
<1>4. Explained(h)  BY <1>2 DEF Explained, Players, None
<1>5. Going(h)  BY <1>1, SurrenderedRow DEF Going, Playing
<1> QED  BY <1>1, <1>3, <1>4, <1>5 DEF Sound

LEMMA TimeoutSound ==
  ASSUME NEW g \in Rows, Sound(g), Undecided(g), ~ g.ended, g.black \in Players
  PROVE  Sound(TimedOut(g))
<1>1. PICK h : h = TimedOut(g)  OBVIOUS
<1>2. /\ h \in Rows /\ h.surrendered = None /\ h.timeout \in Players
      /\ h.timeout = playerIDForColor(g, Position(g).turn) /\ h.winner = opponent(h.timeout)
      /\ h.logs = g.logs /\ h.config = g.config /\ h.crc = g.crc /\ h.started = g.started
      /\ h.black = g.black
  BY <1>1, TimedOutRow, RowIsGame DEF Undecided
<1>3. Playable(h)  BY <1>2, SameMoves DEF Sound
<1>4. h.timeout = playerIDForColor(h, Position(h).turn)
  BY <1>2 DEF Position, playerIDForColor
<1>5. Explained(h)  BY <1>2, <1>4 DEF Explained, Players, None
<1>6. Going(h)  BY <1>1, TimedOutRow DEF Going, Playing
<1> QED  BY <1>1, <1>3, <1>5, <1>6 DEF Sound

LEMMA NextPlay ==
  ASSUME TypeInv, PlayInv, [Next]_vars
  PROVE  PlayInv'
<1> USE StoreType
<1>0. ASSUME Sound(row'), NEW r \in Requests, Sound(draft'[r]),
             \A q \in Requests \ {r} : draft'[q] = draft[q]
      PROVE  PlayInv'
  <2>1. \A q \in Requests : Sound(draft'[q])
    BY <1>0 DEF PlayInv
  <2> QED  BY <1>0, <2>1 DEF PlayInv, Sound, Playable, MovesAccepted, ChecksumOfPosition, Explained,
     Going, Playing, Position, playerColor, playerIDForColor
<1>1. CASE UNCHANGED vars
  BY <1>1 DEF vars, PlayInv, Sound, Playable, MovesAccepted, ChecksumOfPosition, Explained,
     Going, Playing, Position, playerColor, playerIDForColor
<1>2. ASSUME NEW r \in Requests, Ask(r)  PROVE  PlayInv'
  <2>1. row' = row /\ row \in Rows  BY <1>2, AskMoves DEF StoreOK, RowOK
  <2>2. Sound(row') /\ Sound(draft[r])  BY <2>1 DEF PlayInv
  <2>3. CASE draft' = draft
    BY <1>0, <1>2, <2>2, <2>3, AskMoves
  <2>4. CASE UpdateSettings(r)
    <3>1. PICK c \in Configs : draft' = [draft EXCEPT ![r] = Configured(row, c)]
      BY <2>4 DEF UpdateSettings, Hold
    <3>2. PICK g : g = Configured(row, c)  OBVIOUS
    <3>3. row.logs = << >>
      BY <2>4 DEF UpdateSettings, OpenForSettings, StoreOK, RowOK, Shape
    <3>4. g.logs = << >> /\ ~ g.ended  BY <1>2, <2>1, <3>2, <3>3, AskMoves, ConfiguredRow
    <3>5. draft'[r] = g  BY <3>1, <3>2
    <3> QED  BY <1>0, <1>2, <2>2, <3>4, <3>5, AskMoves, NoMoves
  <2>5. ASSUME NEW p \in Players, PutStone(r, p)  PROVE  PlayInv'
    <3>1. PICK pos \in Engine!Cells(row.config) :
            MayPut(row, Position(row), p, pos) /\ draft' = [draft EXCEPT ![r] = Put(row, pos)]
      BY <2>5 DEF PutStone, Hold
    <3>2. row.black \in Players
      BY <2>5 DEF PutStone, Playing, StoreOK, RowOK, Shape
    <3>3. pos \in Nat  BY <2>1, CellIsNat
    <3>4. PICK g : g = row  OBVIOUS
    <3>5. Sound(Put(g, pos))
      <4>1. Playable(g) /\ Undecided(g) /\ ~ g.ended /\ g.black \in Players /\ g \in Rows
        BY <1>2, <2>1, <2>2, <3>2, <3>4, AskMoves DEF StoreOK, RowOK, Sound
      <4>2. Playable(Put(g, pos))  BY <3>1, <3>3, <3>4, <4>1, LegalMove
      <4>3. Explained(Put(g, pos))  BY <3>3, <4>1, MajorityWins
      <4>4. Going(Put(g, pos))  BY <3>3, <4>1, PutRow DEF Going, Playing
      <4> QED  BY <4>2, <4>3, <4>4 DEF Sound
    <3>6. draft'[r] = Put(g, pos)  BY <3>1, <3>4
    <3> QED  BY <1>0, <1>2, <2>2, <3>5, <3>6, AskMoves
  <2>6. ASSUME NEW p \in Players, Surrender(r, p)  PROVE  PlayInv'
    <3>1. PICK g, h : g = row /\ h = Surrendered(g, p)  OBVIOUS
    <3>2. g \in Rows /\ Sound(g) /\ Undecided(g) /\ ~ g.ended
      BY <1>2, <2>1, <2>2, <3>1, AskMoves DEF StoreOK, RowOK
    <3>3. Sound(h)  BY <3>1, <3>2, SurrenderSound
    <3>4. draft'[r] = h  BY <2>6, <3>1 DEF Surrender, Hold
    <3> QED  BY <1>0, <1>2, <2>2, <3>3, <3>4, AskMoves
  <2>7. CASE CheckTimeout(r)
    <3>1. draft'[r] = row  BY <2>7 DEF CheckTimeout, Hold
    <3> QED  BY <1>0, <1>2, <2>1, <2>2, <3>1, AskMoves
  <2> QED  BY <1>2, <2>3, <2>4, <2>5, <2>6, <2>7 DEF Ask, AskReady, CancelGame
<1>3. ASSUME NEW r \in Requests, Continue(r)  PROVE  PlayInv'
  <2>1. Sound(row) /\ Sound(draft[r])  BY DEF PlayInv
  <2>2. Sound(NoGame)  BY NoMoves
  <2>3. \A q \in Requests \ {r} : draft'[q] = draft[q]  BY <1>3, ContinueMoves
  <2>4. ASSUME draft'[r] \in {draft[r], NoGame}, row' \in {row, draft[r], NoGame}
        PROVE  PlayInv'
    BY <1>0, <2>1, <2>2, <2>3, <2>4
  <2>5. CASE UpdateReadyState(r)
    <3>1. CASE row # NoGame /\ ~ row.started /\ ~ row.ended
      <4>1. row \in Rows /\ row.logs = << >> /\ call[r] \in Calls /\ call[r].user \in Players
        BY <2>5, <3>1 DEF StoreOK, RowOK, Shape, UpdateReadyState, Live, Holds
      <4>2. PICK g, c : g = row /\ c = call[r]  OBVIOUS
      <4>3. SetReady(g, c).logs = << >> /\ ~ SetReady(g, c).ended
        BY <3>1, <4>1, <4>2, SetReadyRow
      <4>4. row' = SetReady(g, c) /\ draft' = draft
        BY <2>5, <3>1, <4>2 DEF UpdateReadyState
      <4> QED  BY <1>0, <2>1, <2>3, <4>3, <4>4, NoMoves
    <3>2. CASE ~ (row # NoGame /\ ~ row.started /\ ~ row.ended)
      BY <2>4, <2>5, <3>2 DEF UpdateReadyState, Return, Hold
    <3> QED  BY <3>1, <3>2
  <2>6. CASE Reread(r)
    <3>1. row' = row  BY <2>6 DEF Reread
    <3>2. CASE row # NoGame /\ row.ready = Players /\ ~ row.started /\ ~ row.ended
      <4>1. PICK b \in pickBlack(row.config.bw) : Hold(r, Begun(row, b))
        BY <2>6, <3>2 DEF Reread
      <4>2. PICK g, h : g = row /\ h = Begun(g, b)  OBVIOUS
      <4>3. b \in Players  BY <4>1, PickIsPlayer
      <4>4. g \in Rows /\ g.logs = << >> /\ ~ g.ended  BY <3>2, <4>2 DEF StoreOK, RowOK, Shape
      <4>5. h.logs = << >> /\ ~ h.ended  BY <4>2, <4>3, <4>4, BegunRow
      <4>6. draft'[r] = h  BY <4>1, <4>2 DEF Hold
      <4> QED  BY <1>0, <2>1, <2>3, <3>1, <4>5, <4>6, NoMoves
    <3>3. CASE ~ (row # NoGame /\ row.ready = Players /\ ~ row.started /\ ~ row.ended)
      BY <2>4, <2>6, <3>1, <3>3 DEF Reread, Return, Hold
    <3> QED  BY <3>2, <3>3
  <2>7. CASE MarkStarted(r)
    <3>1. CASE Claimable(row)
      <4>1. row \in Rows /\ row.logs = << >> /\ ~ row.ended
        BY <3>1 DEF Claimable, StoreOK, RowOK, Shape
      <4>2. row'.logs = << >> /\ ~ row'.ended /\ draft' = draft
        BY <2>7, <3>1, <4>1 DEF MarkStarted, Rows
      <4> QED  BY <1>0, <2>1, <2>3, <4>2, NoMoves
    <3>2. CASE ~ Claimable(row)
      BY <2>4, <2>7, <3>2 DEF MarkStarted, Return, Hold
    <3> QED  BY <3>1, <3>2
  <2>8. CASE TurnTimerExists(r)
    <3>1. row' = row  BY <2>8 DEF TurnTimerExists
    <3>2. CASE Len(draft[r].logs) \notin timers /\ Position(draft[r]).turn # "-"
      <4>1. PICK g, h : g = draft[r] /\ h = TimedOut(g)  OBVIOUS
      <4>2. g \in Rows /\ g.black \in Players /\ Undecided(g) /\ ~ g.ended /\ Sound(g)
        BY <2>1, <2>8, <4>1 DEF TurnTimerExists, Live, Holds, Playing, RowOK, Shape
      <4>4. Sound(h)  BY <4>1, <4>2, TimeoutSound
      <4>5. draft'[r] = h  BY <2>8, <3>2, <4>1 DEF TurnTimerExists, Hold
      <4> QED  BY <1>0, <2>1, <2>3, <3>1, <4>4, <4>5
    <3>3. CASE ~ (Len(draft[r].logs) \notin timers /\ Position(draft[r]).turn # "-")
      BY <2>4, <2>8, <3>1, <3>3 DEF TurnTimerExists, Return, Hold
    <3> QED  BY <3>2, <3>3
  <2>9. CASE Save(r) \/ Delete(r) \/ SetTurnTimer(r) \/ PublishStarted(r) \/ CleanupFedCache(r)
    <3>1. row' \in {row, draft[r], NoGame}
      BY <2>9 DEF Save, Delete, SetTurnTimer, PublishStarted, CleanupFedCache
    <3>2. draft'[r] \in {draft[r], NoGame}
      BY <2>9 DEF Save, Delete, SetTurnTimer, PublishStarted, CleanupFedCache, Return, Hold
    <3> QED  BY <2>4, <3>1, <3>2
  <2> QED  BY <1>3, <2>5, <2>6, <2>7, <2>8, <2>9 DEF Continue
<1>4. CASE Around
  <2>1. row' = row \/ row' = NoGame
    BY <1>4 DEF Around, Die, TimerExpires, SessionExpires, DeleteOutdatedGames
  <2>2. draft' = draft  BY <1>4, AroundType
  <2>3. Sound(row')  BY <2>1, NoMoves DEF PlayInv
  <2>4. \A q \in Requests : Sound(draft'[q])  BY <2>2 DEF PlayInv
  <2> QED  BY <2>3, <2>4 DEF PlayInv, Sound, Playable, MovesAccepted, ChecksumOfPosition, Explained,
     Going, Playing, Position, playerColor, playerIDForColor
<1> QED  BY <1>1, <1>2, <1>3, <1>4 DEF Next, Around

LEMMA PlayInvariant == Spec => []PlayInv
<1>1. Init => PlayInv
  <2> SUFFICES ASSUME Init  PROVE  PlayInv  OBVIOUS
  <2>1. row.logs = << >> /\ ~ row.ended  BY DEF Init
  <2>2. \A r \in Requests : draft[r] = NoGame  BY DEF Init
  <2> QED  BY <2>1, <2>2, NoMoves DEF PlayInv
<1>2. TypeInv /\ PlayInv /\ [Next]_vars => PlayInv'  BY NextPlay
<1> QED  BY <1>1, <1>2, TypeInvariant, PTL DEF Spec

(* For any map, rules and number of requests: whichever Save overtakes       *)
(* which, the moves in the row were each accepted by CanPut after those      *)
(* before it, and the checksum of a started game is that of its position,    *)
(* from the first move on in every case, and before it unless a Save of      *)
(* settings overtook a request about to start the game.                      *)
THEOREM LogsArePlayable == Spec => []LogsPlayable
<1>1. TypeInv /\ FreshInv /\ PlayInv => LogsPlayable
  <2> SUFFICES ASSUME TypeInv, FreshInv, PlayInv, row # NoGame, row.started
               PROVE  /\ MovesAccepted(row)
                      /\ ChecksumOfPosition(row) \/ (late /\ row.logs = << >>)
    BY DEF LogsPlayable
  <2>1. CASE row.logs # << >>  BY <2>1 DEF PlayInv, Sound, Playable
  <2>2. CASE row.logs = << >>
    <3>1. MovesAccepted(row)  BY <2>2 DEF MovesAccepted
    <3>2. late \/ row.crc = <<row.config, << >> >>  BY <2>2 DEF FreshInv, Fresh
    <3>3. row.crc = <<row.config, << >> >> => ChecksumOfPosition(row)
      BY <2>2 DEF ChecksumOfPosition, Position
    <3> QED  BY <2>2, <3>1, <3>2, <3>3
  <2> QED  BY <2>1, <2>2
<1> QED  BY <1>1, TypeInvariant, FreshInvariant, PlayInvariant, PTL

(* For any map, rules and number of requests: however surrenders, timeouts   *)
(* and last moves race, an ended game has one of the three outcomes, and the *)
(* winner that goes with it.                                                 *)
THEOREM OutcomeIsExplained == Spec => []OutcomeExplained
<1>1. PlayInv => OutcomeExplained  BY DEF PlayInv, Sound, OutcomeExplained
<1> QED  BY <1>1, PlayInvariant, PTL

-----------------------------------------------------------------------------
(* The start is claimed once. *)

Due == published + Cardinality(Starters)

(* Before the start, every earlier one has been taken back by a Save. *)
StartInv ==
    /\ Due <= 1 + undone
    /\ row # NoGame /\ ~ row.started => Due <= undone

LEMMA FiniteStarters ==
  /\ IsFiniteSet(Starters) /\ Starters \subseteq Requests
  /\ Cardinality(Starters) \in Nat
<1>1. Starters \subseteq Requests  BY DEF Starters
<1>2. IsFiniteSet(Starters)  BY <1>1, MatchAssumption, FS_Subset
<1> QED  BY <1>1, <1>2, FS_CardinalityType

LEMMA StartersKept ==
  ASSUME NEW r \in Requests,
         \A q \in Requests \ {r} : pc'[q] = pc[q] /\ draft'[q] = draft[q]
  PROVE  Starters' \in {Starters, Starters \cup {r}, Starters \ {r}}
  BY DEF Starters

LEMMA NextStart ==
  ASSUME TypeInv, StartInv, [Next]_vars
  PROVE  StartInv'
<1> USE StoreType
<1>0. published \in Nat /\ undone \in Nat /\ Cardinality(Starters) \in Nat
  BY FiniteStarters DEF StoreOK
<1>a. ASSUME Starters' = Starters, published' = published, undone' = undone,
             row' # NoGame /\ ~ row'.started => row # NoGame /\ ~ row.started
      PROVE  StartInv'
  <2>1. Due' = Due  BY <1>a DEF Due
  <2> QED  BY <1>a, <2>1 DEF StartInv
<1>1. CASE UNCHANGED vars
  <2>1. Starters' = Starters  BY <1>1 DEF vars, Starters
  <2> QED  BY <1>1, <1>a, <2>1 DEF vars
<1>2. ASSUME NEW r \in Requests, Ask(r)  PROVE  StartInv'
  <2>1. Starters' = Starters  BY <1>2, AskMoves DEF Starters
  <2> QED  BY <1>2, <1>a, <2>1, AskMoves
<1>3. ASSUME NEW r \in Requests, Continue(r)  PROVE  StartInv'
  <2>0. \A q \in Requests \ {r} : pc'[q] = pc[q] /\ draft'[q] = draft[q]
    BY <1>3, ContinueMoves
  <2>a. ASSUME r \notin Starters, r \notin Starters'  PROVE  Starters' = Starters
    BY <2>0, <2>a, StartersKept
  <2>1. CASE UpdateReadyState(r)
    <3>1. r \notin Starters /\ r \notin Starters'
      BY <2>1 DEF UpdateReadyState, Live, Return, Goto, Starters
    <3>2. row' # NoGame /\ ~ row'.started => row # NoGame /\ ~ row.started
      BY <2>1 DEF UpdateReadyState
    <3> QED  BY <1>a, <2>1, <2>a, <3>1, <3>2 DEF UpdateReadyState
  <2>2. CASE Reread(r)
    <3>1. r \notin Starters /\ r \notin Starters'
      BY <2>2 DEF Reread, Live, Return, Goto, Starters
    <3> QED  BY <1>a, <2>2, <2>a, <3>1 DEF Reread
  <2>3. CASE MarkStarted(r)
    <3>1. r \notin Starters  BY <2>3 DEF MarkStarted, Live, Starters
    <3>2. CASE Claimable(row)
      <4>1. pc'[r] = "timer" /\ draft'[r].logs = << >>
        BY <2>3, <3>2 DEF MarkStarted, Live, Goto, Holds
      <4>2. Starters' = Starters \cup {r}  BY <2>0, <4>1, StartersKept DEF Starters
      <4>3. Cardinality(Starters') = Cardinality(Starters) + 1
        BY <3>1, <4>2, FiniteStarters, FS_AddElement
      <4>4. row \in Rows /\ Due <= undone  BY <3>2 DEF Claimable, StartInv, StoreOK, RowOK
      <4>5. row'.started  BY <2>3, <3>2, <4>4 DEF MarkStarted, Rows
      <4>6. published' = published /\ undone' = undone  BY <2>3 DEF MarkStarted
      <4> QED  BY <1>0, <4>3, <4>4, <4>5, <4>6 DEF StartInv, Due
    <3>3. CASE ~ Claimable(row)
      <4>1. r \notin Starters'  BY <2>3, <3>3 DEF MarkStarted, Return, Goto, Starters
      <4> QED  BY <1>a, <2>3, <2>a, <3>1, <3>3, <4>1 DEF MarkStarted
    <3> QED  BY <3>2, <3>3
  <2>4. CASE SetTurnTimer(r)
    <3>1. Starters' = Starters
      <4>1. CASE draft[r].logs = << >>
        <5>1. r \in Starters /\ r \in Starters'
          BY <2>4, <4>1 DEF SetTurnTimer, Live, Goto, Starters
        <5>2. Starters' \in {Starters, Starters \cup {r}, Starters \ {r}}
          BY <2>0, StartersKept
        <5>3. Starters \cup {r} = Starters  BY <5>1
        <5> QED  BY <5>1, <5>2, <5>3
      <4>2. CASE draft[r].logs # << >>
        <5>1. r \notin Starters /\ r \notin Starters'
          BY <2>4, <4>2 DEF SetTurnTimer, Live, Return, Goto, Starters
        <5> QED  BY <2>a, <5>1
      <4> QED  BY <4>1, <4>2
    <3> QED  BY <1>a, <2>4, <3>1 DEF SetTurnTimer
  <2>5. CASE PublishStarted(r)
    <3>1. r \in Starters /\ r \notin Starters'
      BY <2>5 DEF PublishStarted, Live, Return, Goto, Starters
    <3>2. Starters' = Starters \ {r}  BY <2>0, <3>1, StartersKept
    <3>3. Cardinality(Starters') = Cardinality(Starters) - 1
      BY <3>1, <3>2, FiniteStarters, FS_RemoveElement
    <3>4. Due' = Due  BY <1>0, <2>5, <3>3 DEF PublishStarted, Due
    <3> QED  BY <2>5, <3>4 DEF PublishStarted, StartInv
  <2>6. CASE Save(r)
    <3>1. PICK g : g = draft[r]  OBVIOUS
    <3>2. row' = g /\ g # NoGame /\ (g.started /\ ~ g.ended => g.logs # << >>)
      BY <2>6, <3>1 DEF Save, Live, Holds
    <3>3. r \notin Starters  BY <2>6 DEF Save, Live, Starters
    <3>4. r \notin Starters'
      BY <2>6, <3>1, <3>2 DEF Save, Return, Goto, AfterSave, Starters
    <3>5. Due' = Due  BY <2>6, <2>a, <3>3, <3>4 DEF Save, Due
    <3>6. CASE ~ g.started /\ (row = NoGame \/ row.started)
      <4>1. undone' = undone + 1  BY <2>6, <3>1, <3>6 DEF Save
      <4> QED  BY <1>0, <3>5, <4>1 DEF StartInv, Due
    <3>7. CASE ~ (~ g.started /\ (row = NoGame \/ row.started))
      <4>1. undone' = undone  BY <2>6, <3>1, <3>7 DEF Save
      <4> QED  BY <3>2, <3>5, <3>7, <4>1 DEF StartInv
    <3> QED  BY <3>6, <3>7
  <2>7. CASE TurnTimerExists(r)
    <3>1. r \notin Starters /\ r \notin Starters'
      BY <2>7 DEF TurnTimerExists, Live, Return, Goto, Starters
    <3> QED  BY <1>a, <2>7, <2>a, <3>1 DEF TurnTimerExists
  <2>8. CASE Delete(r) \/ CleanupFedCache(r)
    <3>1. r \notin Starters /\ r \notin Starters'
      BY <2>8 DEF Delete, CleanupFedCache, Live, Return, Goto, Starters
    <3> QED  BY <1>a, <2>8, <2>a, <3>1 DEF Delete, CleanupFedCache
  <2> QED  BY <1>3, <2>1, <2>2, <2>3, <2>4, <2>5, <2>6, <2>7, <2>8 DEF Continue
<1>4. CASE Around
  <2>1. Starters' = Starters  BY <1>4, AroundType DEF Starters
  <2>2. (row' = row \/ row' = NoGame) /\ published' = published /\ undone' = undone
    BY <1>4 DEF Around, Die, TimerExpires, SessionExpires, DeleteOutdatedGames
  <2> QED  BY <1>a, <2>1, <2>2
<1> QED  BY <1>1, <1>2, <1>3, <1>4 DEF Next, Around

(* MarkStarted, for any number of requests: of those that find both players  *)
(* ready, one publishes `started`, and another can only after a Save of      *)
(* settings that were read before the start took it back.                    *)
THEOREM StartsOnce == Spec => []StartedOnce
<1>1. Init => StartInv
  <2> SUFFICES ASSUME Init  PROVE  StartInv  OBVIOUS
  <2>1. Starters = {}  BY DEF Init, Starters
  <2> QED  BY <2>1, FS_EmptySet DEF Init, StartInv, Due
<1>2. TypeInv /\ StartInv /\ [Next]_vars => StartInv'  BY NextStart
<1>3. StartInv => StartedOnce  BY DEF StartInv, Due, StartedOnce
<1> QED  BY <1>1, <1>2, <1>3, TypeInvariant, PTL DEF Spec

-----------------------------------------------------------------------------
(* The engine on the rows that a game goes through. *)

LEMMA RowPosition ==
  ASSUME TypeOK, row # NoGame
  PROVE  row.config \in Configs /\ IsPosition(row.config, Position(row))
<1>1. row \in Rows  BY DEF TypeOK
<1>2. row.config \in Configs /\ row.logs \in Seq(Nat)  BY <1>1 DEF Rows
<1> QED  BY <1>2, ReplayIsPosition DEF Position

(* PutStone and calcTurn, for every map, all rules and any number of         *)
(* requests: whichever Save overtakes which, a game that is started and not  *)
(* ended waits for a player from whom a move is accepted, unless it was      *)
(* begun on a map on which nobody has one.                                   *)
THEOREM GamesGoOn == Spec => []RunningGameGoesOn
<1>1. TypeInv /\ PlayInv => RunningGameGoesOn
  <2> SUFFICES ASSUME TypeInv, PlayInv, Playing(row), Position(row).turn # "-"
               PROVE  \E p \in Players, pos \in Engine!Cells(row.config) :
                         MayPut(row, Position(row), p, pos)
    BY DEF RunningGameGoesOn, PlayInv, Sound, Going
  <2>1. row # NoGame /\ row.black \in Players
    BY StoreType DEF Playing, StoreOK, RowOK, Shape
  <2>2. PICK e, c : e = Position(row) /\ c = row.config  OBVIOUS
  <2>3. IsPosition(c, e)  BY <2>1, <2>2, RowPosition DEF TypeInv
  <2>4. e.turn \in {"b", "w"} /\ Engine!CanPutSomewhere(c, e.board, e.turn)
    BY <2>2, <2>3 DEF IsPosition, Turned, Engine!Colors
  <2>5. PICK pos \in Engine!Cells(c) : Engine!CanPut(c, e.board, e.turn, pos)
    BY <2>4 DEF Engine!CanPutSomewhere
  <2>6. PICK p \in Players : e.turn = playerColor(row, p)
    BY <2>1, <2>4 DEF playerColor, Players
  <2>7. MayPut(row, e, p, pos)  BY <2>2, <2>5, <2>6 DEF MayPut
  <2> QED  BY <2>2, <2>5, <2>7
<1> QED  BY <1>1, TypeInvariant, PlayInvariant, PTL

(* effectsInLine, for every map and every position of every game: a move on  *)
(* an empty cell turns what the rules say.                                   *)
THEOREM FlipsAreExact == Spec => []FlipsExact
<1>1. TypeOK => FlipsExact
  <2> SUFFICES ASSUME TypeOK, row # NoGame,
                      NEW color \in Engine!Colors, NEW pos \in Engine!Cells(row.config),
                      Position(row).board[pos] = "-"
               PROVE  Engine!Effects(row.config, Position(row).board, color, pos)
                        = Sandwiched(row.config, Position(row).board, color, pos)
    BY DEF FlipsExact
  <2>1. /\ row.config \in Configs
        /\ Position(row).board \in [Engine!Cells(row.config) -> {"b", "w", "-"}]
    BY RowPosition DEF IsPosition
  <2> QED  BY <2>1, EffectsAreSandwiched
<1> QED  BY <1>1, TypeCorrect, PTL
=============================================================================
