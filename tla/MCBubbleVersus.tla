--------------------------- MODULE MCBubbleVersus ---------------------------
(* BubbleVersus for TLC.                                                     *)
EXTENDS BubbleVersus, TLC

(* Two requests of either side, or one of each.                              *)
MCSlots == [s \in Sides |-> Reqs]
MCOwnSlot ==
    LET mine == CHOOSE r \in Reqs : TRUE
    IN  [s \in Sides |-> IF s = 0 THEN {mine} ELSE Reqs \ {mine}]

(* Scores matter for time-up reports; one stone may be claimed or not.       *)
MCReports ==
    [score : {0, 1}, reason : {"timeUp"}, garbage : {0}]
      \cup [score : {0}, reason : {"gameOver", "timeUp"}, garbage : {1}]
      \cup [score : {0}, reason : {"opponentEnded"}, garbage : {0}]

MCSymmetry == Permutations(Reqs)
=============================================================================
