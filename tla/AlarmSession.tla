---------------------------- MODULE AlarmSession ----------------------------
(***************************************************************************)
(* What the alarm promises to a sleeper, without tasks, delays or the      *)
(* shared budget.  A session rings until it is deferred once, then it is   *)
(* deferred or heard again any number of times, and it is completed by     *)
(* more than Limit presses, never by fewer, always from a report that the  *)
(* ring is suspended; a completed session says no more.                    *)
(***************************************************************************)
EXTENDS Naturals

CONSTANT Limit \* the presses a session takes, a natural number

VARIABLES phase, presses, report

vars == <<phase, presses, report>>

Init ==
    /\ phase = "ringing"
    /\ presses = 0
    /\ report = "none"

\* a press counts once, and none is taken back (the count saturates)
Press ==
    /\ presses <= Limit
    /\ presses' = presses + 1
    /\ UNCHANGED <<phase, report>>

Ring ==
    /\ phase # "completed"
    /\ report' = "playing"
    /\ UNCHANGED <<phase, presses>>

Suspend ==
    /\ phase # "completed"
    /\ phase' = "deferred"
    /\ report' = "suspended"
    /\ UNCHANGED presses

Complete ==
    /\ phase = "deferred"
    /\ report = "suspended"
    /\ presses > Limit
    /\ phase' = "completed"
    /\ UNCHANGED <<presses, report>>

Next == Press \/ Ring \/ Suspend \/ Complete

Spec == Init /\ [][Next]_vars

=============================================================================
