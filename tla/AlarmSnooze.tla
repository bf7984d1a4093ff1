----------------------------- MODULE AlarmSnooze -----------------------------
(***************************************************************************)
(* What an alarm does to the budget it shares with the other tasks.        *)
(*                                                                         *)
(* task_check_alarm stores Snooze into buffer_status without a lock, while *)
(* task_minus_bufer or task_simalate_button may be between its load and    *)
(* its store, which then puts back a budget of before the alarm.  History  *)
(* variables beside AlarmControl say for each alarm whether that happened, *)
(* and how much of what it stored task_minus_bufer has used up since.      *)
(***************************************************************************)
EXTENDS AlarmControl

VARIABLES
    late,   \* tasks in an update whose load was before the latest alarm's store
    lost,   \* has one of them stored since (or was there no alarm yet)?
    drains  \* the stores of task_minus_bufer since, at most Snooze + 1

history    == <<late, lost, drains>>
snoozeVars == <<vars, history>>

SnoozeInit == Init /\ late = {} /\ lost = TRUE /\ drains = 0

\* the alarm stores: button at its clamp will store Cap and takes nothing away
AlarmSet ==
    /\ AlarmStore
    /\ late' = {t \in Writers : pc[t] = "store"} \cup
               {t \in {"minus"} : pc[t] = "clamp"}
    /\ lost' = FALSE
    /\ drains' = 0

\* task_minus_bufer stores, from a load of before the alarm or of after it
Drain ==
    /\ MinusStore
    /\ lost' = (lost \/ "minus" \in late)
    /\ drains' = IF drains > Snooze THEN drains ELSE drains + 1
    /\ late' = late \ {"minus"}

DrainClamp ==
    /\ MinusClamp
    /\ lost' = (lost \/ "minus" \in late)
    /\ late' = late \ {"minus"}
    /\ UNCHANGED drains

\* task_simalate_button stores
Press ==
    /\ ButtonStore
    /\ lost' = (lost \/ "button" \in late)
    /\ late' = late \ {"button"}
    /\ UNCHANGED drains

OtherStep ==
    /\ \/ MainTask \/ MinusLoad \/ ControlTask \/ AlarmLook \/ Finger \/ Tick
       \/ ButtonSample \/ ButtonLoad \/ ButtonClamp \/ ButtonCount
    /\ UNCHANGED history

SnoozeNext == AlarmSet \/ Drain \/ DrainClamp \/ Press \/ OtherStep

SnoozeSpec == SnoozeInit /\ [][SnoozeNext]_snoozeVars

-----------------------------------------------------------------------------
(* Properties *)

\* No store of the other two tasks that began after an alarm takes more of its
\* Snooze seconds than the one second of each round of task_minus_bufer: the
\* store of task_check_alarm (main.cpp:273) is cut short only by an update that
\* was under way.
AlarmHonoured == ~lost => buffer_status >= Snooze - drains

\* After an alarm, task_control_alarm reports that the ring plays only when
\* the alarm's seconds are used up, or an update under way overwrote them.
PlayingVerdict == ControlTask /\ report' = "playing"

AlarmSilences == [][PlayingVerdict => lost \/ drains >= Snooze]_snoozeVars

\* What AlarmHonoured needs: an update begun after the alarm has loaded a budget
\* that still has what the alarm gave and minus has not used up, and a clamp to
\* 0 comes after Snooze rounds.
UpdatesHonour ==
    ~lost =>
        /\ \A t \in Writers \ late :
              pc[t] = "store" => reg[t] >= Snooze - drains
        /\ pc["minus"] = "clamp" /\ "minus" \notin late => drains >= Snooze

HistoryOK ==
    /\ late \subseteq Writers
    /\ lost \in BOOLEAN
    /\ drains \in 0 .. Snooze + 1

SnoozeInv == BudgetInv /\ HistoryOK /\ AlarmHonoured /\ UpdatesHonour

=============================================================================
