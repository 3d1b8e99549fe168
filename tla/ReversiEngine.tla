---------------------------- MODULE ReversiEngine ----------------------------
(***************************************************************************)
(* The rules of reversi as internal/core/reversi/game.go plays them: which *)
(* stones a move turns, who moves next, who has won, and the position a    *)
(* log of moves leads to.                                                  *)
(*                                                                         *)
(* A game is played under a configuration c: the map (width, height and    *)
(* the cells, "x" standing for a cell that is not part of the board) and   *)
(* the rule options.  A position is a board and the colour to move, where  *)
(* "-" is the empty cell and "no turn": the game is over.                  *)
(***************************************************************************)
EXTENDS Integers, Sequences, FiniteSets

Colors == {"b", "w"}
Enemy(color) == IF color = "b" THEN "w" ELSE "b"

Cells(c) == 0 .. (c.map.width * c.map.height - 1)

(* effectsInLine: the eight directions, and the cell i steps away from pos   *)
(* in one of them.                                                           *)
Directions == {d \in (-1 .. 1) \X (-1 .. 1) : d # <<0, 0>>}

X(c, pos, d, i) == (pos % c.map.width) + i * d[1]
Y(c, pos, d, i) == (pos \div c.map.width) + i * d[2]

(* A looped board has no edge. *)
Inside(c, pos, d, i) ==
    \/ c.looped
    \/ X(c, pos, d, i) \in 0 .. (c.map.width - 1) /\ Y(c, pos, d, i) \in 0 .. (c.map.height - 1)

Step(c, pos, d, i) ==
    (X(c, pos, d, i) % c.map.width) + (Y(c, pos, d, i) % c.map.height) * c.map.width

\* Mutant: a line that comes back to where it started turns nothing.
EffectsInLineNotClosed(c, board, color, pos, d) ==
    LET walk[i \in 1 .. (c.map.width * c.map.height)] ==
          LET q == Step(c, pos, d, i) IN
          IF c.looped /\ q = pos THEN {-1}
          ELSE IF ~ Inside(c, pos, d, i) \/ c.map.cells[q] = "x" \/ board[q] = "-" THEN {-1}
          ELSE IF board[q] = color THEN {}
          ELSE {q} \cup walk[i + 1]
    IN IF -1 \in walk[1] THEN {} ELSE walk[1]

(* The loop of effectsInLine from its i-th cell on: the stones it still      *)
(* finds, with -1 among them where the line ends in nothing.                 *)
EffectsInLine(c, board, color, pos, d) ==
    LET walk[i \in 1 .. (c.map.width * c.map.height)] ==
          LET q == Step(c, pos, d, i) IN
          IF c.looped /\ q = pos THEN {}
          ELSE IF ~ Inside(c, pos, d, i) \/ c.map.cells[q] = "x" \/ board[q] = "-" THEN {-1}
          ELSE IF board[q] = color THEN {}
          ELSE {q} \cup walk[i + 1]
    IN IF -1 \in walk[1] THEN {} ELSE walk[1]

Effects(c, board, color, pos) ==
    UNION {EffectsInLine(c, board, color, pos, d) : d \in Directions}

CanPut(c, board, color, pos) ==
    /\ pos \in Cells(c) /\ board[pos] = "-"
    /\ IF c.everywhere THEN c.map.cells[pos] # "x" ELSE Effects(c, board, color, pos) # {}

CanPutSomewhere(c, board, color) == \E pos \in Cells(c) : CanPut(c, board, color, pos)

\* Mutant: the turn passes to a player who cannot move.
FirstAbleAlternates(c, board, first) == first

(* calcTurn, and the initial turn of NewGame *)
FirstAble(c, board, first) ==
    IF CanPutSomewhere(c, board, first) THEN first
    ELSE IF CanPutSomewhere(c, board, Enemy(first)) THEN Enemy(first)
    ELSE "-"

NewGame(c) ==
    LET board == [pos \in Cells(c) |-> IF c.map.cells[pos] = "x" THEN "-" ELSE c.map.cells[pos]]
    IN [board |-> board, turn |-> FirstAble(c, board, "b")]

PutStone(c, g, pos) ==
    IF g.turn = "-" THEN g
    ELSE LET turned == Effects(c, [g.board EXCEPT ![pos] = g.turn], g.turn, pos)
             board == [p \in Cells(c) |->
                          IF p \in turned \cup {pos} THEN g.turn ELSE g.board[p]]
         IN [board |-> board, turn |-> FirstAble(c, board, Enemy(g.turn))]

(* EngineFromGame replays the log. *)
EngineFromGame(c, logs) ==
    LET g[n \in 0 .. Len(logs)] ==
          IF n = 0 THEN NewGame(c) ELSE PutStone(c, g[n - 1], logs[n])
    IN g[Len(logs)]

Stones(c, g, color) == Cardinality({pos \in Cells(c) : g.board[pos] = color})

(* The winning colour of a finished game, "-" for a draw. *)
Winner(c, g) ==
    LET b == Stones(c, g, "b") w == Stones(c, g, "w") IN
    IF b = w THEN "-" ELSE IF c.llotheo <=> b < w THEN "b" ELSE "w"
=============================================================================
