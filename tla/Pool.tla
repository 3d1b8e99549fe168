--------------------------------- MODULE Pool ---------------------------------
(***************************************************************************)
(* What a queue's pool of workers promises to those who resize it: the     *)
(* autoscaler, the admin API and the server that shuts it down.  None of   *)
(* the locks, supervisors, jobs and goroutines that WorkerPool describes   *)
(* is visible here.                                                        *)
(*                                                                         *)
(* The pool serves with a set of workers, has set some aside because they  *)
(* hang, and may have lost handlers that never came back.  It follows the  *)
(* size asked for as far as its budget (the largest size ever asked for    *)
(* plus a spare) allows, and once closed it is empty for good.             *)
(***************************************************************************)
EXTENDS Integers, FiniteSets

CONSTANTS
    Workers,     \* identities of workers
    Spare        \* how many workers may exist beyond the largest size asked for

VARIABLES
    asked,       \* the size last asked for
    peak,        \* the largest size ever asked for
    serving,     \* the workers that count as capacity
    aside,       \* the workers set aside
    lost,        \* handlers abandoned and still running
    open         \* the pool accepts requests

vars == <<asked, peak, serving, aside, lost, open>>

Init ==
    /\ asked = 0 /\ peak = 0
    /\ serving = {} /\ aside = {}
    /\ lost = 0
    /\ open = TRUE

(* The number of workers the pool aims at: the size asked for, less when the *)
(* budget is used up by workers that do not come back.                       *)
Goal ==
    LET budget == peak + Spare - (Cardinality(aside) + lost)
        limit  == IF budget < 0 THEN 0 ELSE budget
    IN  IF asked <= limit THEN asked ELSE limit

Ask ==
    /\ open
    /\ asked' \in Nat
    /\ peak' = IF asked' > peak THEN asked' ELSE peak
    /\ UNCHANGED <<serving, aside, lost, open>>

SetAside ==
    /\ open
    /\ serving' \subseteq serving
    /\ aside' = aside \cup (serving \ serving')
    /\ UNCHANGED <<asked, peak, lost, open>>

TakeBack ==
    /\ open
    /\ aside' \subseteq aside
    /\ serving' = serving \cup (aside \ aside')
    /\ UNCHANGED <<asked, peak, lost, open>>

(* Capacity is added up to the goal and never beyond it ...                 *)
Fill ==
    /\ open /\ asked # 0
    /\ serving \subseteq serving' /\ serving' \subseteq Workers
    /\ Cardinality(serving' \ serving) = Goal - Cardinality(serving)
    /\ UNCHANGED <<asked, peak, aside, lost, open>>

(* ... and no worker is released that the goal still needs.                 *)
Release ==
    /\ open /\ asked # 0
    /\ serving' \subseteq serving
    /\ Cardinality(serving \ serving') <= Cardinality(serving) - Goal
    /\ UNCHANGED <<asked, peak, aside, lost, open>>

Empty == serving' = {} /\ aside' = {}

Pause ==
    /\ open /\ asked = 0
    /\ Empty
    /\ UNCHANGED <<asked, peak, lost, open>>

Close ==
    /\ open' = FALSE
    /\ Empty
    /\ UNCHANGED <<asked, peak, lost>>

(* A handler is given up, or one given up ends after all. *)
Lose ==
    /\ lost' \in {lost + 1, lost - 1} \cap Nat
    /\ UNCHANGED <<asked, peak, serving, aside, open>>

Next ==
    \/ Ask \/ SetAside \/ TakeBack \/ Fill \/ Release \/ Pause \/ Close \/ Lose

Spec == Init /\ [][Next]_vars
=============================================================================
