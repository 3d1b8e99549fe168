------------------------- MODULE ReversiEngineProofs -------------------------
(***************************************************************************)
(* What the engine of a reversi game computes, for every map and every set *)
(* of rules: the position a log of moves leads to is a board with stones   *)
(* and empty cells and a player who can move, and the loop of              *)
(* effectsInLine finds the stones that the rules turn.  The recursion of   *)
(* both is unfolded by induction.                                          *)
(***************************************************************************)
EXTENDS ReversiMatch, FiniteSetTheorems, SetInduction, TLAPS

-----------------------------------------------------------------------------
(* The replay of a log. *)

Replays(c, logs, n, g) ==
    g = [k \in 0 .. n |-> IF k = 0 THEN Engine!NewGame(c)
                          ELSE Engine!PutStone(c, g[k - 1], logs[k])]

(* The positions of a game can be listed move by move. *)
LEMMA ReplayExists ==
    ASSUME NEW c, NEW logs, NEW n \in Nat
    PROVE  \E g : Replays(c, logs, n, g)
<1> DEFINE Ok == {k \in Nat : \E g : Replays(c, logs, k, g)}
<1>1. 0 \in Ok
  <2> DEFINE g == [k \in 0 .. 0 |-> Engine!NewGame(c)]
  <2>1. Replays(c, logs, 0, g)
    BY DEF Replays
  <2> QED BY <2>1
<1>2. ASSUME NEW k \in Nat, k \in Ok PROVE k + 1 \in Ok
  <2>1. PICK g : Replays(c, logs, k, g)
    BY <1>2
  <2> DEFINE h == [i \in 0 .. (k + 1) |-> IF i = 0 THEN Engine!NewGame(c)
                                           ELSE Engine!PutStone(c, g[i - 1], logs[i])]
  <2>2. ASSUME NEW i \in 0 .. (k + 1), i # 0 PROVE h[i - 1] = g[i - 1]
    <3>1. i - 1 \in 0 .. k /\ i - 1 \in 0 .. (k + 1)
      BY <2>2
    <3>2. g[i - 1] = IF i - 1 = 0 THEN Engine!NewGame(c)
                     ELSE Engine!PutStone(c, g[(i - 1) - 1], logs[i - 1])
      BY <2>1, <3>1, Zenon DEF Replays
    <3>3. h[i - 1] = IF i - 1 = 0 THEN Engine!NewGame(c)
                     ELSE Engine!PutStone(c, g[(i - 1) - 1], logs[i - 1])
      BY <3>1, Zenon
    <3> QED BY <3>2, <3>3
  <2>3. Replays(c, logs, k + 1, h)
    BY <2>2 DEF Replays
  <2> QED BY <2>3
<1> HIDE DEF Ok
<1>3. n \in Ok
  BY <1>1, <1>2, InductionOnNat
<1> QED BY <1>3 DEF Ok

LEMMA Replayed ==
    ASSUME NEW c, NEW logs \in Seq(Nat)
    PROVE  \E g : /\ Replays(c, logs, Len(logs), g)
                  /\ Engine!EngineFromGame(c, logs) = g[Len(logs)]
<1> DEFINE G == CHOOSE g : Replays(c, logs, Len(logs), g)
<1>1. Replays(c, logs, Len(logs), G)
  <2>1. Len(logs) \in Nat
    OBVIOUS
  <2> QED BY <2>1, ReplayExists, Zenon
<1>2. Engine!EngineFromGame(c, logs) = G[Len(logs)]
  BY Zenon DEF Engine!EngineFromGame, Replays
<1> QED BY <1>1, <1>2, Zenon

-----------------------------------------------------------------------------
(* Positions. *)

Turned(c, e) ==
    IF e.turn = "-"
    THEN \A color \in Engine!Colors : ~ Engine!CanPutSomewhere(c, e.board, color)
    ELSE Engine!CanPutSomewhere(c, e.board, e.turn)

(* A board with stones and empty cells, and a player to move who can. *)
IsPosition(c, e) ==
    /\ e.board \in [Engine!Cells(c) -> {"b", "w", "-"}]
    /\ e.turn \in {"b", "w", "-"}
    /\ Turned(c, e)

LEMMA FirstAbleMoves ==
    ASSUME NEW c, NEW board, NEW first \in Engine!Colors, NEW e,
           e.board = board, e.turn = Engine!FirstAble(c, board, first)
    PROVE  e.turn \in {"b", "w", "-"} /\ Turned(c, e)
BY DEF Engine!FirstAble, Turned, Engine!Colors, Engine!Enemy

LEMMA NewGameIsPosition ==
    ASSUME NEW c \in Configs
    PROVE  IsPosition(c, Engine!NewGame(c))
<1> DEFINE e == Engine!NewGame(c)
           board == [pos \in Engine!Cells(c) |->
                       IF c.map.cells[pos] = "x" THEN "-" ELSE c.map.cells[pos]]
<1>1. e = [board |-> board, turn |-> Engine!FirstAble(c, board, "b")]
  BY DEF Engine!NewGame
<1>2. board \in [Engine!Cells(c) -> {"b", "w", "-"}]
  BY MatchAssumption DEF Engine!Cells
<1> HIDE DEF board
<1>3. e.board = board /\ e.turn = Engine!FirstAble(c, board, "b")
  BY <1>1
<1> HIDE DEF e
<1>4. e.turn \in {"b", "w", "-"} /\ Turned(c, e)
  BY <1>3, FirstAbleMoves DEF Engine!Colors
<1> QED BY <1>2, <1>3, <1>4 DEF IsPosition, e

LEMMA PutStoneIsPosition ==
    ASSUME NEW c \in Configs, NEW g, IsPosition(c, g), NEW pos
    PROVE  IsPosition(c, Engine!PutStone(c, g, pos))
<1>1. CASE g.turn = "-"
  BY <1>1 DEF Engine!PutStone
<1>2. CASE g.turn # "-"
  <2> DEFINE turned == Engine!Effects(c, [g.board EXCEPT ![pos] = g.turn], g.turn, pos)
             board == [p \in Engine!Cells(c) |->
                         IF p \in turned \cup {pos} THEN g.turn ELSE g.board[p]]
             e == Engine!PutStone(c, g, pos)
             first == Engine!Enemy(g.turn)
  <2>1. e = [board |-> board, turn |-> Engine!FirstAble(c, board, first)]
    BY <1>2, Zenon DEF Engine!PutStone
  <2> HIDE DEF turned
  <2>2. board \in [Engine!Cells(c) -> {"b", "w", "-"}]
    BY DEF IsPosition
  <2>3. first \in Engine!Colors
    BY DEF IsPosition, Engine!Enemy, Engine!Colors
  <2> HIDE DEF board, first
  <2>4. e.board = board /\ e.turn = Engine!FirstAble(c, board, first)
    BY <2>1
  <2> HIDE DEF e
  <2>5. e.turn \in {"b", "w", "-"} /\ Turned(c, e)
    BY <2>3, <2>4, FirstAbleMoves
  <2> QED BY <2>2, <2>4, <2>5 DEF IsPosition, e
<1> QED BY <1>1, <1>2

(* Every log leads to a position. *)
LEMMA ReplayIsPosition ==
    ASSUME NEW c \in Configs, NEW logs \in Seq(Nat)
    PROVE  IsPosition(c, Engine!EngineFromGame(c, logs))
<1>1. PICK g : /\ Replays(c, logs, Len(logs), g)
               /\ Engine!EngineFromGame(c, logs) = g[Len(logs)]
  BY Replayed
<1> DEFINE Ok == {k \in Nat : k <= Len(logs) => IsPosition(c, g[k])}
<1>2. 0 \in Ok
  <2>1. g[0] = Engine!NewGame(c)
    BY <1>1 DEF Replays
  <2> QED BY <2>1, NewGameIsPosition
<1>3. ASSUME NEW k \in Nat, k \in Ok PROVE k + 1 \in Ok
  <2> SUFFICES ASSUME k + 1 <= Len(logs) PROVE IsPosition(c, g[k + 1])
    OBVIOUS
  <2>1. k <= Len(logs) /\ k + 1 \in 0 .. Len(logs) /\ k + 1 # 0 /\ (k + 1) - 1 = k
    OBVIOUS
  <2>2. IsPosition(c, g[k])
    BY <1>3, <2>1
  <2>3. g[k + 1] = Engine!PutStone(c, g[k], logs[k + 1])
    BY <1>1, <2>1 DEF Replays
  <2> QED BY <2>2, <2>3, PutStoneIsPosition
<1> HIDE DEF Ok
<1>4. Len(logs) \in Ok
  BY <1>2, <1>3, InductionOnNat
<1> QED BY <1>1, <1>4 DEF Ok

-----------------------------------------------------------------------------
(* The cells of a line. *)

Size(c) == c.map.width * c.map.height

LEMMA TimesMonotone ==
    ASSUME NEW w \in Nat, NEW a \in Int, NEW b \in Int, a <= b
    PROVE  w * a <= w * b
OBVIOUS

LEMMA MapSize ==
    ASSUME NEW c \in Configs, NEW pos \in Engine!Cells(c)
    PROVE  /\ c.map.width \in Nat /\ c.map.width >= 1
           /\ c.map.height \in Nat /\ c.map.height >= 1
           /\ Size(c) \in Nat /\ Size(c) >= c.map.width /\ Size(c) >= c.map.height
           /\ pos % c.map.width \in 0 .. (c.map.width - 1)
           /\ pos \div c.map.width \in 0 .. (c.map.height - 1)
           /\ pos = (pos % c.map.width) + (pos \div c.map.width) * c.map.width
<1> DEFINE w == c.map.width
           h == c.map.height
<1>1. w \in Nat /\ h \in Nat
  BY MatchAssumption
<1>2. pos \in 0 .. (w * h - 1)
  BY DEF Engine!Cells
<1> HIDE DEF w, h
<1>3. w >= 1 /\ h >= 1
  <2>1. CASE w = 0
    BY <1>1, <1>2, <2>1
  <2>2. CASE h = 0
    BY <1>1, <1>2, <2>2
  <2> QED BY <1>1, <2>1, <2>2
<1>4. w * h \in Nat /\ w * h >= w /\ w * h >= h
  BY <1>1, <1>3
<1>5. pos % w \in 0 .. (w - 1) /\ pos \div w \in Int /\ pos = w * (pos \div w) + (pos % w)
  BY <1>1, <1>2, <1>3
<1> DEFINE y == pos \div w
           x == pos % w
<1> HIDE DEF x, y
<1>a. x \in 0 .. (w - 1) /\ y \in Int /\ pos = w * y + x
  BY <1>5 DEF x, y
<1>6. y >= 0
  <2> SUFFICES ASSUME y <= -1 PROVE FALSE
    BY <1>a
  <2>1. w * y <= w * (-1)
    BY <1>1, <1>a, TimesMonotone
  <2> QED BY <1>1, <1>2, <1>a, <2>1
<1>7. y <= h - 1
  <2> SUFFICES ASSUME h <= y PROVE FALSE
    BY <1>1, <1>a
  <2>1. w * h <= w * y
    BY <1>1, <1>a, TimesMonotone
  <2> QED BY <1>1, <1>2, <1>a, <2>1, <1>4
<1>8. y * w = w * y /\ y \in 0 .. (h - 1)
  BY <1>1, <1>a, <1>6, <1>7
<1> QED BY <1>1, <1>3, <1>4, <1>5, <1>8 DEF Size, w, h, x, y

LEMMA DirectionPair ==
    ASSUME NEW d \in Engine!Directions
    PROVE  d[1] \in -1 .. 1 /\ d[2] \in -1 .. 1 /\ (d[1] # 0 \/ d[2] # 0)
BY DEF Engine!Directions

LEMMA StepIsCell ==
    ASSUME NEW c \in Configs, NEW pos \in Engine!Cells(c), NEW d \in Engine!Directions,
           NEW i \in Nat
    PROVE  /\ Engine!X(c, pos, d, i) \in Int /\ Engine!Y(c, pos, d, i) \in Int
           /\ Engine!Step(c, pos, d, i) \in Engine!Cells(c)
           /\ Engine!Step(c, pos, d, i) # -1
<1> DEFINE w == c.map.width
           h == c.map.height
           x == Engine!X(c, pos, d, i)
           y == Engine!Y(c, pos, d, i)
<1>1. w \in Nat /\ w >= 1 /\ h \in Nat /\ h >= 1
  BY MapSize
<1>2. x \in Int /\ y \in Int
  BY MapSize, DirectionPair DEF Engine!X, Engine!Y
<1> HIDE DEF w, h, x, y
<1>3. x % w \in 0 .. (w - 1) /\ y % h \in 0 .. (h - 1)
  BY <1>1, <1>2
<1> DEFINE a == x % w
           b == y % h
<1> HIDE DEF a, b
<1>4. a + b * w \in 0 .. (w * h - 1)
  <2>1. b * w <= (h - 1) * w /\ b * w >= 0 /\ b * w \in Int
    BY <1>1, <1>3 DEF a, b
  <2>2. (h - 1) * w = w * h - w
    BY <1>1
  <2> QED BY <1>1, <1>3, <2>1, <2>2 DEF a, b
<1>5. Engine!Step(c, pos, d, i) = a + b * w
  BY DEF Engine!Step, a, b, x, y, w, h
<1>6. Engine!Step(c, pos, d, i) \in Engine!Cells(c)
  BY <1>4, <1>5 DEF Engine!Cells, w, h
<1> QED BY <1>1, <1>2, <1>4, <1>5, <1>6 DEF x, y

-----------------------------------------------------------------------------
(* Where the loop of effectsInLine ends: back at the move, in nothing, or at *)
(* a stone of the mover.                                                     *)

Closes(c, pos, d, i) == c.looped /\ Engine!Step(c, pos, d, i) = pos

Fails(c, board, pos, d, i) ==
    \/ ~ Engine!Inside(c, pos, d, i)
    \/ c.map.cells[Engine!Step(c, pos, d, i)] = "x"
    \/ board[Engine!Step(c, pos, d, i)] = "-"

Stops(c, board, color, pos, d, i) ==
    \/ Closes(c, pos, d, i)
    \/ Fails(c, board, pos, d, i)
    \/ board[Engine!Step(c, pos, d, i)] = color

LEMMA AroundOnce ==
    ASSUME NEW w \in Nat, NEW h \in Nat, NEW n, n = w * h,
           NEW x \in 0 .. (w - 1), NEW e \in {-1, 0, 1}
    PROVE  (x + n * e) % w = x
<1>1. \A q \in Int : (w * q + x) % w = x
  OBVIOUS
<1>2. CASE e = 0
  BY <1>2
<1>3. CASE e = 1
  <2>1. x + n * e = w * h + x
    BY <1>3
  <2> QED BY <1>1, <2>1
<1>4. CASE e = -1
  <2>1. x + n * e = w * (- h) + x
    BY <1>4
  <2> QED BY <1>1, <2>1
<1> QED BY <1>2, <1>3, <1>4

(* After as many steps as the board has cells a line has left the board, or  *)
(* on a looped one come back.                                                *)
LEMMA StopsAtSize ==
    ASSUME NEW c \in Configs, NEW board, NEW color, NEW pos \in Engine!Cells(c),
           NEW d \in Engine!Directions
    PROVE  Stops(c, board, color, pos, d, Size(c))
<1> DEFINE w == c.map.width
           h == c.map.height
           x == pos % w
           y == pos \div w
           n == Size(c)
<1>1. /\ w \in Nat /\ w >= 1 /\ h \in Nat /\ h >= 1
      /\ n \in Nat /\ n >= w /\ n >= h
      /\ x \in 0 .. (w - 1) /\ y \in 0 .. (h - 1) /\ pos = x + y * w
  BY MapSize
<1>2. n = w * h
  BY DEF Size
<1>3. d[1] \in {-1, 0, 1} /\ d[2] \in {-1, 0, 1} /\ (d[1] # 0 \/ d[2] # 0)
  BY DirectionPair
<1>4. Engine!X(c, pos, d, n) = x + n * d[1] /\ Engine!Y(c, pos, d, n) = y + n * d[2]
  BY DEF Engine!X, Engine!Y
<1>5. CASE c.looped
  <2> HIDE DEF w, h, x, y, n
  <2>1. n = w * h /\ n = h * w
    BY <1>1, <1>2
  <2>2. (x + n * d[1]) % w = x
    BY <1>1, <1>3, <2>1, AroundOnce
  <2>3. (y + n * d[2]) % h = y
    BY <1>1, <1>3, <2>1, AroundOnce
  <2>4. Engine!Step(c, pos, d, n) = x + y * w
    BY <1>4, <2>2, <2>3 DEF Engine!Step, w, h
  <2> QED BY <1>1, <1>5, <2>4 DEF Stops, Closes, n
<1>6. CASE ~ c.looped
  <2> HIDE DEF w, h, x, y, n
  <2>1. CASE d[1] # 0
    <3>1. x + n * d[1] \notin 0 .. (w - 1)
      BY <1>1, <1>3, <2>1
    <3> QED BY <1>4, <1>6, <3>1 DEF Stops, Fails, Engine!Inside, w, n
  <2>2. CASE d[2] # 0
    <3>1. y + n * d[2] \notin 0 .. (h - 1)
      BY <1>1, <1>3, <2>2
    <3> QED BY <1>4, <1>6, <3>1 DEF Stops, Fails, Engine!Inside, h, n
  <2> QED BY <1>3, <2>1, <2>2
<1> QED BY <1>5, <1>6

(* The first step at which the loop ends. *)
LEMMA FirstStop ==
    ASSUME NEW c \in Configs, NEW board, NEW color, NEW pos \in Engine!Cells(c),
           NEW d \in Engine!Directions
    PROVE  \E m \in 1 .. Size(c) :
             /\ Stops(c, board, color, pos, d, m)
             /\ \A i \in 1 .. (m - 1) : ~ Stops(c, board, color, pos, d, i)
<1> DEFINE S == {i \in 1 .. Size(c) : Stops(c, board, color, pos, d, i)}
<1>1. Size(c) \in 1 .. Size(c)
  BY MapSize
<1>2. S \subseteq Nat /\ S # {}
  BY <1>1, StopsAtSize
<1>3. PICK m \in S : \A i \in S : m <= i
  BY <1>2, LeastNatural, Zenon
<1>4. ASSUME NEW i \in 1 .. (m - 1) PROVE ~ Stops(c, board, color, pos, d, i)
  <2>1. i \in 1 .. Size(c) /\ ~ (m <= i)
    BY <1>1, <1>3
  <2> QED BY <1>3, <2>1
<1> QED BY <1>3, <1>4

-----------------------------------------------------------------------------
(* The loop. *)

Walks(c, board, color, pos, d, from, g) ==
    g = [i \in from .. (c.map.width * c.map.height) |->
           LET q == Engine!Step(c, pos, d, i) IN
           IF c.looped /\ q = pos THEN {}
           ELSE IF ~ Engine!Inside(c, pos, d, i) \/ c.map.cells[q] = "x" \/ board[q] = "-"
                THEN {-1}
           ELSE IF board[q] = color THEN {}
           ELSE {q} \cup g[i + 1]]

Chosen(c, board, color, pos, d) == CHOOSE g : Walks(c, board, color, pos, d, 1, g)

LEMMA WalkChosen ==
    ASSUME NEW c, NEW board, NEW color, NEW pos, NEW d
    PROVE  Engine!EffectsInLine(c, board, color, pos, d)
                = IF -1 \in Chosen(c, board, color, pos, d)[1] THEN {}
                  ELSE Chosen(c, board, color, pos, d)[1]
BY Zenon DEF Engine!EffectsInLine, Walks, Chosen

(* What the loop does at its i-th cell. *)
LEMMA WalkAt ==
    ASSUME NEW c, NEW board, NEW color, NEW pos, NEW d, NEW from, NEW g,
           Walks(c, board, color, pos, d, from, g), NEW i \in from .. Size(c)
    PROVE  /\ Closes(c, pos, d, i) => g[i] = {}
           /\ ~ Closes(c, pos, d, i) /\ Fails(c, board, pos, d, i) => g[i] = {-1}
           /\ Stops(c, board, color, pos, d, i) /\ ~ Fails(c, board, pos, d, i) => g[i] = {}
           /\ ~ Stops(c, board, color, pos, d, i)
                => g[i] = {Engine!Step(c, pos, d, i)} \cup g[i + 1]
BY DEF Walks, Size, Closes, Fails, Stops

LEMMA WalkExists ==
    ASSUME NEW c \in Configs, NEW board, NEW color, NEW pos \in Engine!Cells(c),
           NEW d \in Engine!Directions
    PROVE  Walks(c, board, color, pos, d, 1, Chosen(c, board, color, pos, d))
<1> DEFINE N == Size(c)
           From(n) == N - n + 1
           At(i, rest) == IF Closes(c, pos, d, i) THEN {}
                          ELSE IF Fails(c, board, pos, d, i) THEN {-1}
                          ELSE IF board[Engine!Step(c, pos, d, i)] = color THEN {}
                          ELSE {Engine!Step(c, pos, d, i)} \cup rest
           Walk(n, g) == g = [i \in From(n) .. N |-> At(i, g[i + 1])]
           Ok == {n \in Nat : \E g : Walk(n, g)}
<1>1. N \in Nat /\ N >= 1
  BY MapSize
<1>2. ASSUME NEW a, NEW b PROVE At(N, a) = At(N, b)
  BY StopsAtSize DEF Stops
<1> HIDE DEF At
<1>3. 0 \in Ok
  <2> DEFINE g == [i \in From(0) .. N |-> {}]
  <2>1. Walk(0, g)
    BY <1>1
  <2> QED BY <2>1
<1>4. ASSUME NEW n \in Nat, n \in Ok PROVE n + 1 \in Ok
  <2>1. PICK g : Walk(n, g)
    BY <1>4
  <2> DEFINE h == [i \in From(n + 1) .. N |-> At(i, g[i + 1])]
  <2>2. ASSUME NEW i \in From(n + 1) .. N PROVE At(i, h[i + 1]) = At(i, g[i + 1])
    <3>1. CASE i = N
      BY <1>2, <3>1
    <3>2. CASE i # N
      <4>1. i + 1 \in From(n) .. N /\ i + 1 \in From(n + 1) .. N
        BY <1>1, <3>2
      <4>2. g[i + 1] = At(i + 1, g[(i + 1) + 1])
        BY <2>1, <4>1, Zenon
      <4>3. h[i + 1] = At(i + 1, g[(i + 1) + 1])
        BY <4>1, Zenon
      <4> QED BY <4>2, <4>3
    <3> QED BY <3>1, <3>2
  <2>3. Walk(n + 1, h)
    BY <2>2
  <2> HIDE DEF h, Walk
  <2> QED BY <2>3
<1> HIDE DEF Ok
<1>5. N \in Ok
  BY <1>1, <1>3, <1>4, InductionOnNat
<1>6. PICK g : Walk(N, g)
  BY <1>5 DEF Ok
<1>7. From(N) = 1
  BY <1>1
<1>8. g = [i \in 1 .. N |-> At(i, g[i + 1])]
  BY <1>6, <1>7, Zenon
<1>9. Walks(c, board, color, pos, d, 1, g)
  BY <1>8 DEF Walks, At, Closes, Fails, Size
<1> QED BY <1>9, Zenon DEF Chosen

(* The loop collects the cells before its first stop, and drops them if that *)
(* is in nothing.                                                            *)
LEMMA LineTurns ==
    ASSUME NEW c \in Configs, NEW board, NEW color, NEW pos \in Engine!Cells(c),
           NEW d \in Engine!Directions, NEW m \in 1 .. Size(c),
           Stops(c, board, color, pos, d, m),
           \A i \in 1 .. (m - 1) : ~ Stops(c, board, color, pos, d, i)
    PROVE  Engine!EffectsInLine(c, board, color, pos, d)
             = IF Fails(c, board, pos, d, m) /\ ~ Closes(c, pos, d, m) THEN {}
               ELSE Ahead(c, pos, d, m - 1)
<1> DEFINE N == Size(c)
           W == Chosen(c, board, color, pos, d)
           Bad == Fails(c, board, pos, d, m) /\ ~ Closes(c, pos, d, m)
           End == IF Bad THEN {-1} ELSE {}
           S(i) == Engine!Step(c, pos, d, i)
           Ok == {n \in Nat : n < m => W[m - n] = {S(i) : i \in (m - n) .. (m - 1)} \cup End}
<1>1. N \in Nat /\ m \in 1 .. N /\ Walks(c, board, color, pos, d, 1, W)
  BY MapSize, WalkExists
<1> HIDE DEF N, W
<1>2. 0 \in Ok
  <2>1. W[m] = End
    <3>1. /\ Closes(c, pos, d, m) => W[m] = {}
          /\ ~ Closes(c, pos, d, m) /\ Fails(c, board, pos, d, m) => W[m] = {-1}
          /\ ~ Fails(c, board, pos, d, m) => W[m] = {}
      BY <1>1, WalkAt
    <3> QED BY <3>1
  <2>2. {S(i) : i \in (m - 0) .. (m - 1)} = {}
    BY <1>1
  <2> QED BY <1>1, <2>1, <2>2
<1>3. ASSUME NEW n \in Nat, n \in Ok PROVE n + 1 \in Ok
  <2> SUFFICES ASSUME n + 1 < m
               PROVE  W[m - (n + 1)] = {S(i) : i \in (m - (n + 1)) .. (m - 1)} \cup End
    OBVIOUS
  <2> DEFINE k == m - (n + 1)
  <2>1. /\ k \in 1 .. N /\ k \in 1 .. (m - 1) /\ k + 1 = m - n /\ n < m
        /\ k .. (m - 1) = {k} \cup ((k + 1) .. (m - 1))
    BY <1>1
  <2> HIDE DEF k
  <2>2. W[k] = {S(k)} \cup W[k + 1]
    BY <1>1, <2>1, WalkAt DEF N
  <2>3. W[k + 1] = {S(i) : i \in (k + 1) .. (m - 1)} \cup End
    BY <1>3, <2>1
  <2> HIDE DEF S, End
  <2>4. {S(i) : i \in k .. (m - 1)} = {S(k)} \cup {S(i) : i \in (k + 1) .. (m - 1)}
    BY <2>1
  <2>5. W[k] = {S(i) : i \in k .. (m - 1)} \cup End
    BY <2>2, <2>3, <2>4
  <2> QED BY <2>5 DEF k
<1>4. m - 1 \in Nat /\ m - 1 < m /\ m - (m - 1) = 1
  BY <1>1
<1>5. m - 1 \in Ok
  <2> HIDE DEF Ok
  <2> QED BY <1>2, <1>3, <1>4, InductionOnNat
<1>6. W[1] = Ahead(c, pos, d, m - 1) \cup End
  <2>1. W[m - (m - 1)] = {S(i) : i \in (m - (m - 1)) .. (m - 1)} \cup End
    BY <1>4, <1>5
  <2> QED BY <1>4, <2>1 DEF Ahead
<1>7. -1 \notin Ahead(c, pos, d, m - 1)
  <2> SUFFICES ASSUME NEW i \in 1 .. (m - 1) PROVE -1 # Engine!Step(c, pos, d, i)
    BY DEF Ahead
  <2> QED BY <1>1, StepIsCell
<1>8. Engine!EffectsInLine(c, board, color, pos, d) = IF -1 \in W[1] THEN {} ELSE W[1]
  BY WalkChosen DEF W
<1> HIDE DEF Bad
<1>9. Engine!EffectsInLine(c, board, color, pos, d)
        = IF Bad THEN {} ELSE Ahead(c, pos, d, m - 1)
  BY <1>6, <1>7, <1>8
<1> QED BY <1>9 DEF Bad

-----------------------------------------------------------------------------
(* What the rules turn. *)

(* The k cells next to the move in a direction are sandwiched. *)
IsRun(c, board, color, pos, d, k) ==
    LET end == Engine!Step(c, pos, d, k + 1) IN
    /\ \A q \in Ahead(c, pos, d, k) :
          q # pos /\ c.map.cells[q] # "x" /\ board[q] = Engine!Enemy(color)
    /\ Engine!Inside(c, pos, d, k + 1)
    /\ (c.map.cells[end] # "x" /\ board[end] = color) \/ (c.looped /\ end = pos)

(* A line does not leave the board and come back. *)
LEMMA InsideBefore ==
    ASSUME NEW c \in Configs, NEW pos \in Engine!Cells(c), NEW d \in Engine!Directions,
           NEW k \in Nat, Engine!Inside(c, pos, d, k + 1), NEW i \in 1 .. k
    PROVE  Engine!Inside(c, pos, d, i)
<1> DEFINE w == c.map.width
           h == c.map.height
           x == pos % w
           y == pos \div w
<1>1. /\ w \in Nat /\ h \in Nat /\ x \in 0 .. (w - 1) /\ y \in 0 .. (h - 1)
      /\ d[1] \in {-1, 0, 1} /\ d[2] \in {-1, 0, 1}
  BY MapSize, DirectionPair
<1> HIDE DEF w, h, x, y
<1>2. x + (k + 1) * d[1] \in 0 .. (w - 1) => x + i * d[1] \in 0 .. (w - 1)
  BY <1>1
<1>3. y + (k + 1) * d[2] \in 0 .. (h - 1) => y + i * d[2] \in 0 .. (h - 1)
  BY <1>1
<1> QED BY <1>2, <1>3 DEF Engine!Inside, Engine!X, Engine!Y, w, h, x, y

(* The loop of effectsInLine finds the run in its direction, if there is     *)
(* one.                                                                      *)
LEMMA LineIsRun ==
    ASSUME NEW c \in Configs, NEW board \in [Engine!Cells(c) -> {"b", "w", "-"}],
           NEW color \in Engine!Colors, NEW pos \in Engine!Cells(c), board[pos] = "-",
           NEW d \in Engine!Directions
    PROVE  /\ \A k \in 1 .. Size(c) :
                IsRun(c, board, color, pos, d, k)
                  => Engine!EffectsInLine(c, board, color, pos, d) = Ahead(c, pos, d, k)
           /\ \/ Engine!EffectsInLine(c, board, color, pos, d) = {}
              \/ \E k \in 1 .. Size(c) :
                   /\ IsRun(c, board, color, pos, d, k)
                   /\ Engine!EffectsInLine(c, board, color, pos, d) = Ahead(c, pos, d, k)
<1> DEFINE S(i) == Engine!Step(c, pos, d, i)
<1>1. PICK m \in 1 .. Size(c) :
        /\ Stops(c, board, color, pos, d, m)
        /\ \A i \in 1 .. (m - 1) : ~ Stops(c, board, color, pos, d, i)
  BY FirstStop
<1>2. Engine!EffectsInLine(c, board, color, pos, d)
        = IF Fails(c, board, pos, d, m) /\ ~ Closes(c, pos, d, m) THEN {}
          ELSE Ahead(c, pos, d, m - 1)
  BY <1>1, LineTurns
<1>3. Size(c) \in Nat /\ m \in 1 .. Size(c)
  BY MapSize
<1>4. color \in {"b", "w"} /\ Engine!Enemy(color) \in {"b", "w"} /\ Engine!Enemy(color) # color
  BY DEF Engine!Colors, Engine!Enemy
<1>5. ASSUME NEW k \in 1 .. Size(c), IsRun(c, board, color, pos, d, k)
      PROVE  Engine!EffectsInLine(c, board, color, pos, d) = Ahead(c, pos, d, k)
  <2>1. ASSUME NEW i \in 1 .. k PROVE ~ Stops(c, board, color, pos, d, i)
    <3>1. S(i) # pos /\ c.map.cells[S(i)] # "x" /\ board[S(i)] = Engine!Enemy(color)
      BY <1>5 DEF IsRun, Ahead
    <3>2. Engine!Inside(c, pos, d, i)
      BY <1>3, <1>5, InsideBefore DEF IsRun
    <3> QED BY <1>4, <3>1, <3>2 DEF Stops, Closes, Fails
  <2>2. /\ Stops(c, board, color, pos, d, k + 1)
        /\ Fails(c, board, pos, d, k + 1) => Closes(c, pos, d, k + 1)
    BY <1>4, <1>5 DEF IsRun, Stops, Closes, Fails
  <2>3. ~ (m <= k)
    BY <1>1, <1>3, <2>1
  <2>4. ~ (k + 1 <= m - 1)
    BY <1>1, <1>3, <2>2
  <2>5. m = k + 1 /\ m - 1 = k
    BY <1>3, <2>3, <2>4
  <2> QED BY <1>2, <2>2, <2>5
<1>6. ASSUME Engine!EffectsInLine(c, board, color, pos, d) # {}
      PROVE  \E k \in 1 .. Size(c) :
                   /\ IsRun(c, board, color, pos, d, k)
                   /\ Engine!EffectsInLine(c, board, color, pos, d) = Ahead(c, pos, d, k)
  <2> DEFINE k == m - 1
  <2>1. /\ Engine!EffectsInLine(c, board, color, pos, d) = Ahead(c, pos, d, k)
        /\ Fails(c, board, pos, d, m) => Closes(c, pos, d, m)
    BY <1>2, <1>6
  <2>2. k \in 1 .. Size(c) /\ k + 1 = m
    <3>1. CASE m = 1
      BY <1>6, <2>1, <3>1 DEF Ahead
    <3> QED BY <1>3, <3>1
  <2> HIDE DEF k
  <2>3. ASSUME NEW q \in Ahead(c, pos, d, k)
        PROVE  q # pos /\ c.map.cells[q] # "x" /\ board[q] = Engine!Enemy(color)
    <3>1. PICK i \in 1 .. k : q = S(i)
      BY DEF Ahead
    <3>2. ~ Stops(c, board, color, pos, d, i)
      BY <1>1, <3>1 DEF k
    <3>3. q \in Engine!Cells(c)
      BY <1>3, <2>2, <3>1, StepIsCell
    <3>4. c.map.cells[q] # "x" /\ board[q] # "-" /\ board[q] # color
      BY <3>1, <3>2 DEF Stops, Fails
    <3>5. board[q] = Engine!Enemy(color)
      BY <1>4, <3>3, <3>4
    <3> QED BY <3>4, <3>5
  <2>4. /\ Engine!Inside(c, pos, d, k + 1)
        /\ \/ c.map.cells[S(k + 1)] # "x" /\ board[S(k + 1)] = color
           \/ c.looped /\ S(k + 1) = pos
    BY <1>1, <2>1, <2>2 DEF Stops, Closes, Fails, Engine!Inside
  <2>5. IsRun(c, board, color, pos, d, k)
    BY <2>3, <2>4 DEF IsRun
  <2> QED BY <2>1, <2>2, <2>5
<1> QED BY <1>5, <1>6

(* Effects, against the rules: for every map, every board on it and every    *)
(* empty cell, looped or not, the loop over the eight directions turns the   *)
(* stones that are sandwiched, all of them and no other.                     *)
THEOREM EffectsAreSandwiched ==
    ASSUME NEW c \in Configs, NEW board \in [Engine!Cells(c) -> {"b", "w", "-"}],
           NEW color \in Engine!Colors, NEW pos \in Engine!Cells(c), board[pos] = "-"
    PROVE  Engine!Effects(c, board, color, pos) = Sandwiched(c, board, color, pos)
<1> DEFINE D == Engine!Directions
           L(d) == Engine!EffectsInLine(c, board, color, pos, d)
           R == {d \in D \X (1 .. Size(c)) : IsRun(c, board, color, pos, d[1], d[2])}
<1>1. Cardinality(Engine!Cells(c)) = Size(c)
  <2>1. Size(c) \in Nat
    BY MapSize
  <2>2. Cardinality(0 .. (Size(c) - 1)) = Size(c)
    BY <2>1, FS_Interval
  <2> QED BY <2>2 DEF Engine!Cells, Size
<1>2. Sandwiched(c, board, color, pos) = UNION {Ahead(c, pos, d[1], d[2]) : d \in R}
  BY <1>1 DEF Sandwiched, IsRun
<1>3. Engine!Effects(c, board, color, pos) = UNION {L(d) : d \in D}
  BY DEF Engine!Effects
<1>4. ASSUME NEW q, q \in UNION {L(d) : d \in D}
      PROVE  q \in UNION {Ahead(c, pos, d[1], d[2]) : d \in R}
  <2>1. PICK d \in D : q \in L(d)
    BY <1>4
  <2>2. PICK k \in 1 .. Size(c) : IsRun(c, board, color, pos, d, k) /\ L(d) = Ahead(c, pos, d, k)
    BY <2>1, LineIsRun
  <2>3. <<d, k>> \in R
    BY <2>2
  <2> QED BY <2>1, <2>2, <2>3
<1>5. ASSUME NEW q, q \in UNION {Ahead(c, pos, d[1], d[2]) : d \in R}
      PROVE  q \in UNION {L(d) : d \in D}
  <2>1. PICK r \in R : q \in Ahead(c, pos, r[1], r[2])
    BY <1>5
  <2>2. r[1] \in D /\ r[2] \in 1 .. Size(c) /\ IsRun(c, board, color, pos, r[1], r[2])
    BY <2>1
  <2>3. L(r[1]) = Ahead(c, pos, r[1], r[2])
    BY <2>2, LineIsRun
  <2> QED BY <2>1, <2>2, <2>3
<1> HIDE DEF D, L, R
<1> QED BY <1>2, <1>3, <1>4, <1>5
=============================================================================
