--------------------------- MODULE MCReversiMatch ---------------------------
EXTENDS ReversiMatch, TLC
CONSTANTS r1, r2

MCSymmetry == Permutations({r1, r2})

(* A line of six cells, on which the turn alternates or passes and either    *)
(* colour can win, and a ring around a cell that is not part of the board,   *)
(* on which the only move leads to a draw.                                   *)
Line == [width |-> 6, height |-> 1,
         cells |-> [p \in 0 .. 5 |-> CASE p \in {2, 4} -> "w" [] p = 3 -> "b" [] OTHER -> "-"]]
Ring == [width |-> 3, height |-> 3,
         cells |-> [p \in 0 .. 8 |-> CASE p \in {3, 5, 7, 8} -> "w" [] p = 6 -> "b"
                                       [] p = 4 -> "x" [] OTHER -> "-"]]

Plain == [map |-> Line, everywhere |-> FALSE, looped |-> FALSE, llotheo |-> FALSE,
          bw |-> "1", limit |-> 1]
Fewest == [Plain EXCEPT !.everywhere = TRUE, !.llotheo = TRUE, !.bw = "2"]
Round == [Plain EXCEPT !.map = Ring, !.bw = "random"]
Untimed == [Round EXCEPT !.limit = 0]

Looped == [Plain EXCEPT !.looped = TRUE]

MCConfigs == {Plain, Looped, Fewest, Round, Untimed}
MCSettings == {Plain, Looped, Fewest, Untimed}
=============================================================================
