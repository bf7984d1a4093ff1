------------------------------ MODULE AlarmProofs ------------------------------
(***************************************************************************)
(* Theorems about AlarmControl, AlarmSnooze and MCAlarmTimed, for every    *)
(* cap, limit, delay and number of seconds an alarm stores.                *)
(*                                                                         *)
(* BudgetInv is inductive: the underflow belongs to minus alone, the       *)
(* overflow to button alone, and neither task loads its own, so that every *)
(* store stays within one unit of 0..Cap.                                  *)
(***************************************************************************)
EXTENDS AlarmSnooze, MCAlarmTimed, TLAPS

\* Nothing is in the shared int at power-on.
LEMMA InitBudget == Init => BudgetInv
<1> SUFFICES ASSUME Init PROVE BudgetInv
    OBVIOUS
<1> USE ControlAssumption DEF Init, Tasks, Writers
<1>1. TypeOK
    <2>1. /\ buffer_status \in -1 .. Cap + 1
          /\ count \in 0 .. Limit + 1
          /\ reg \in [Writers -> -1 .. Cap + 1]
          /\ sleep \in [Tasks -> Nat]
        OBVIOUS
    <2>2. /\ gpio \in {0, 1}
          /\ DOMAIN pc = Tasks \cup {"main"}
          /\ report \in {"none", "playing", "suspended"}
        OBVIOUS
    <2>3. \A t \in Tasks \cup {"main"} : pc[t] \in TaskLabels[t]
        BY DEF TaskLabels
    <2> QED BY <2>1, <2>2, <2>3 DEF TypeOK
<1>2. CreatedOnce /\ UnderflowIsTransient /\ OverflowIsTransient /\ RegistersSettled
    BY DEF CreatedOnce, UnderflowIsTransient, OverflowIsTransient, RegistersSettled
<1> QED BY <1>1, <1>2 DEF BudgetInv

\* No access to the shared int, however late, breaks the invariant.
LEMMA NextBudget == BudgetInv /\ [Next]_vars => BudgetInv'
<1> SUFFICES ASSUME BudgetInv, [Next]_vars PROVE BudgetInv'
    OBVIOUS
<1> USE ControlAssumption
<1> USE DEF BudgetInv, TypeOK, TaskLabels, Tasks, Writers, CreatedOnce,
            UnderflowIsTransient, OverflowIsTransient, RegistersSettled
<1>1. NvsInit => BudgetInv'
    BY DEF NvsInit, AppMain
<1>2. NvsErase => BudgetInv'
    BY DEF NvsErase, AppMain
<1>3. ASSUME CreateTasks PROVE BudgetInv'
    <2>0. CASE CreateTask("alarm", IF Alarms THEN "look" ELSE "off",
                          "create_alarm", "create_minus")
        BY <2>0 DEF CreateTask
    <2>1. CASE CreateTask("minus", "load", "create_minus", "create_control")
        BY <2>1 DEF CreateTask
    <2>2. CASE CreateTask("control", "wait", "create_control", "create_button")
        BY <2>2 DEF CreateTask
    <2>3. CASE CreateTask("button", "sample", "create_button", "done")
        BY <2>3 DEF CreateTask
    <2> QED BY <1>3, <2>0, <2>1, <2>2, <2>3 DEF CreateTasks
<1>4. MinusLoad => BudgetInv'
    BY DEF MinusLoad, Ready, Load, Goto
<1>5. MinusStore => BudgetInv'
    BY DEF MinusStore, MinusStoreWith, Ready, Store, Goto, Delay
<1>6. MinusClamp => BudgetInv'
    BY DEF MinusClamp, Ready, Store, Delay
<1>7. ButtonSample => BudgetInv'
    BY DEF ButtonSample, Ready, Delay
<1>8. ButtonLoad => BudgetInv'
    BY DEF ButtonLoad, Ready, Load, Goto
<1>9. ButtonStore => BudgetInv'
    BY DEF ButtonStore, Ready, Store, Goto
<1>10. ButtonClamp => BudgetInv'
    BY DEF ButtonClamp, Ready, Store, Goto
<1>11. ButtonCount => BudgetInv'
    BY DEF ButtonCount, Ready, Delay
<1>12. ControlWait => BudgetInv'
    BY DEF ControlWait, Ready, Report, Delay
<1>13. ControlLoop => BudgetInv'
    BY DEF ControlLoop, Ready, Report, Goto, Delay
<1>14. ControlCheck => BudgetInv'
    BY DEF ControlCheck, Ready, Goto, Delay
<1>15. Finger => BudgetInv'
    BY DEF Finger
<1>16. Tick => BudgetInv'
    BY DEF Tick
<1>17. AlarmLook => BudgetInv'
    BY DEF AlarmLook, Ready, Goto, Delay
<1>18. AlarmStore => BudgetInv'
    BY DEF AlarmStore, Ready, Store, Delay
<1>19. UNCHANGED vars => BudgetInv'
    BY DEF vars
<1> QED
    BY <1>1, <1>2, <1>3, <1>4, <1>5, <1>6, <1>7, <1>8, <1>9, <1>10, <1>11,
       <1>12, <1>13, <1>14, <1>15, <1>16, <1>17, <1>18, <1>19
       DEF Next, MainTask, MinusTask, ButtonTask, ControlTask, AlarmTask

\* The invariant of the shared int (main.cpp:66, buffer_status) holds always.
THEOREM BudgetInvariant == Spec => []BudgetInv
BY InitBudget, NextBudget, PTL DEF Spec

\* Every variable keeps its type: the shared int stays in -1..Cap+1.
THEOREM TypeCorrect == Spec => []TypeOK
<1>1. BudgetInv => TypeOK
    BY DEF BudgetInv
<1> QED BY <1>1, BudgetInvariant, PTL

\* task_minus_bufer and task_simalate_button, asleep, leave a budget in 0..Cap.
THEOREM SettledBudget == Spec => []SettledInRange
<1>1. BudgetInv => SettledInRange
    BY ControlAssumption
    DEF BudgetInv, TypeOK, SettledInRange, UnderflowIsTransient,
        OverflowIsTransient, Writers, Tasks
<1> QED BY <1>1, BudgetInvariant, PTL

\* task_control_alarm says "suspended" without a budget only in the clamp window.
THEOREM VerdictsJustified == Spec => SuspendedIsJustified
<1>1. BudgetInv /\ [Next]_vars
        => [SuspendedVerdict => buffer_status > 0 \/ pc["minus"] = "clamp"]_vars
    <2> SUFFICES ASSUME BudgetInv, SuspendedVerdict
                 PROVE  buffer_status > 0 \/ pc["minus"] = "clamp"
        OBVIOUS
    <2> USE ControlAssumption DEF BudgetInv, TypeOK, UnderflowIsTransient, SuspendedVerdict
    <2>1. CASE ControlWait
        BY <2>1 DEF ControlWait, Report
    <2>2. CASE ControlLoop
        BY <2>2 DEF ControlLoop, Report
    <2>3. CASE ControlCheck
        BY <2>3 DEF ControlCheck, Ready
    <2> QED BY <2>1, <2>2, <2>3 DEF ControlTask
<1> QED BY <1>1, BudgetInvariant, PTL DEF Spec, SuspendedIsJustified

-----------------------------------------------------------------------------
(* The tasks implement AlarmSession. *)

\* task_control_alarm checks the count only after it reported "suspended".
CheckFollowsReport == pc["control"] = "check" => report = "suspended"

LEMMA CheckInvariant == Spec => []CheckFollowsReport
<1>1. Init => CheckFollowsReport
    BY DEF Init, CheckFollowsReport, Tasks
<1>2. BudgetInv /\ CheckFollowsReport /\ [Next]_vars => CheckFollowsReport'
    <2> SUFFICES ASSUME BudgetInv, CheckFollowsReport, [Next]_vars
                 PROVE  CheckFollowsReport'
        OBVIOUS
    <2> USE DEF BudgetInv, TypeOK, CheckFollowsReport, Tasks
    <2>1. CASE MainTask
        <3>1. CASE NvsInit \/ NvsErase
            BY <3>1 DEF NvsInit, NvsErase, AppMain
        <3>2. ASSUME NEW task \in Tasks, NEW entry \in {"load", "wait", "sample", "look", "off"},
                     NEW from, NEW to, CreateTask(task, entry, from, to)
              PROVE  CheckFollowsReport'
            BY <3>2 DEF CreateTask
        <3> QED BY <2>1, <3>1, <3>2 DEF MainTask, CreateTasks
    <2>2. CASE MinusTask
        BY <2>2 DEF MinusTask, MinusLoad, MinusStore, MinusStoreWith, MinusClamp,
                    Load, Store, Goto, Delay
    <2>3. CASE ButtonTask
        BY <2>3 DEF ButtonTask, ButtonSample, ButtonLoad, ButtonStore, ButtonClamp,
                    ButtonCount, Load, Store, Goto, Delay
    <2>4. CASE ControlTask
        BY <2>4 DEF ControlTask, ControlWait, ControlLoop, ControlCheck,
                    Report, Goto, Delay
    <2>5. CASE AlarmTask
        BY <2>5 DEF AlarmTask, AlarmLook, AlarmStore, Store, Goto, Delay
    <2>6. CASE Finger \/ Tick \/ UNCHANGED vars
        BY <2>6 DEF Finger, Tick, vars
    <2> QED BY <2>1, <2>2, <2>3, <2>4, <2>5, <2>6 DEF Next
<1> QED BY <1>1, <1>2, BudgetInvariant, PTL DEF Spec

\* The alarm completes only above Limit presses, from a suspended report, and
\* then says no more: every step is a step of AlarmSession or changes nothing
\* of it.
THEOREM ImplementsSession == Spec => SessionSpec
<1> USE DEF Session!vars
<1>1. Init => Session!Init
    BY DEF Init, Session!Init, SessionPhase, Tasks
<1>2. BudgetInv /\ CheckFollowsReport /\ [Next]_vars => [Session!Next]_(Session!vars)
    <2> SUFFICES ASSUME BudgetInv, CheckFollowsReport, [Next]_vars
                 PROVE  [Session!Next]_(Session!vars)
        OBVIOUS
    <2> USE DEF BudgetInv, TypeOK, SessionPhase, Tasks
    <2>1. CASE MainTask
        <3>1. CASE NvsInit \/ NvsErase
            BY <3>1 DEF NvsInit, NvsErase, AppMain
        <3>2. CASE CreateTask("alarm", IF Alarms THEN "look" ELSE "off",
                              "create_alarm", "create_minus")
            BY <3>2 DEF CreateTask
        <3>3. CASE CreateTask("minus", "load", "create_minus", "create_control")
            BY <3>3 DEF CreateTask
        <3>4. CASE CreateTask("control", "wait", "create_control", "create_button")
            BY <3>4 DEF CreateTask, CreatedOnce
        <3>5. CASE CreateTask("button", "sample", "create_button", "done")
            BY <3>5 DEF CreateTask
        <3> QED BY <2>1, <3>1, <3>2, <3>3, <3>4, <3>5 DEF MainTask, CreateTasks
    <2>2. CASE MinusTask
        BY <2>2 DEF MinusTask, MinusLoad, MinusStore, MinusStoreWith, MinusClamp,
                    Load, Store, Goto, Delay
    <2>3. CASE ButtonSample \/ ButtonLoad \/ ButtonStore \/ ButtonClamp
        BY <2>3 DEF ButtonSample, ButtonLoad, ButtonStore, ButtonClamp,
                    Load, Store, Goto, Delay
    <2>4. CASE ButtonCount
        <3>1. CASE count <= Limit
            <4>1. Session!Press
                BY <2>4, <3>1, ControlAssumption DEF ButtonCount, Delay, Session!Press
            <4> QED BY <4>1 DEF Session!Next
        <3>2. CASE count > Limit
            BY <2>4, <3>2 DEF ButtonCount, Delay
        <3> QED BY <3>1, <3>2, ControlAssumption
    <2>5. CASE ControlWait \/ ControlLoop
        <3>1. Session!Ring \/ Session!Suspend
            BY <2>5 DEF ControlWait, ControlLoop, Ready, Report, Goto, Delay,
                        Session!Ring, Session!Suspend
        <3> QED BY <3>1 DEF Session!Next
    <2>6. CASE ControlCheck
        <3>1. CASE count > Limit
            <4>1. Session!Complete
                BY <2>6, <3>1 DEF ControlCheck, Ready, Goto, CheckFollowsReport,
                                  Session!Complete
            <4> QED BY <4>1 DEF Session!Next
        <3>2. CASE ~(count > Limit)
            BY <2>6, <3>2 DEF ControlCheck, Ready, Delay
        <3> QED BY <3>1, <3>2
    <2>7. CASE AlarmTask
        BY <2>7 DEF AlarmTask, AlarmLook, AlarmStore, Store, Goto, Delay
    <2>8. CASE Finger \/ Tick \/ UNCHANGED vars
        BY <2>8 DEF Finger, Tick, vars
    <2> QED BY <2>1, <2>2, <2>3, <2>4, <2>5, <2>6, <2>7, <2>8
            DEF Next, ButtonTask, ControlTask
<1> QED BY <1>1, <1>2, BudgetInvariant, CheckInvariant, PTL
        DEF Spec, SessionSpec, Session!Spec

-----------------------------------------------------------------------------
(* AlarmSnooze.  A step of it is a step of AlarmControl, so that its       *)
(* invariant holds here; AlarmHonoured becomes inductive together with     *)
(* what the updates under way have loaded.                                 *)

\* The history variables take nothing away from, and add nothing to, what the
\* tasks do.
LEMMA StepOfControl == [SnoozeNext]_snoozeVars => [Next]_vars
BY DEF SnoozeNext, snoozeVars, AlarmSet, Drain, DrainClamp, Press, OtherStep, Next,
       MinusTask, ButtonTask, AlarmTask

LEMMA ImplementsControl == SnoozeSpec => Spec
<1>1. SnoozeInit => Init
    BY DEF SnoozeInit
<1> QED BY <1>1, StepOfControl, PTL DEF SnoozeSpec, Spec

\* The unlocked updates of the budget keep within their range beside an alarm
\* that stores.
THEOREM SnoozeBudget == SnoozeSpec => []BudgetInv
BY ImplementsControl, BudgetInvariant, PTL

HonourInv == HistoryOK /\ AlarmHonoured /\ UpdatesHonour

LEMMA NextHonour ==
    BudgetInv /\ HonourInv /\ [SnoozeNext]_snoozeVars => HonourInv'
<1> SUFFICES ASSUME BudgetInv, HonourInv, [SnoozeNext]_snoozeVars
             PROVE  HonourInv'
    OBVIOUS
<1> USE ControlAssumption
<1> USE DEF HonourInv, HistoryOK, AlarmHonoured, UpdatesHonour,
            BudgetInv, TypeOK, TaskLabels, Tasks, Writers
<1>0. /\ buffer_status \in Int /\ drains \in Int /\ Snooze \in Nat /\ Cap \in Nat
      /\ reg \in [Writers -> Int]
      /\ pc["minus"] \in TaskLabels["minus"] /\ pc["button"] \in TaskLabels["button"]
    OBVIOUS
<1>1. ASSUME AlarmSet PROVE HonourInv'
    <2>1. /\ buffer_status' = Snooze /\ drains' = 0 /\ ~lost' /\ lost' \in BOOLEAN
          /\ pc' = [pc EXCEPT !["alarm"] = "look"] /\ reg' = reg
        BY <1>1 DEF AlarmSet, AlarmStore, Store, Delay
    <2>2. late' = {t \in Writers : pc[t] = "store"} \cup {t \in {"minus"} : pc[t] = "clamp"}
        BY <1>1 DEF AlarmSet
    <2>3. pc'["minus"] = pc["minus"] /\ pc'["button"] = pc["button"]
        BY <2>1
    <2>4. HistoryOK'
        BY <1>0, <2>1, <2>2
    <2>5. AlarmHonoured'
        BY <1>0, <2>1
    <2>6. UpdatesHonour'
        BY <2>2, <2>3
    <2> QED BY <2>4, <2>5, <2>6
<1>2. ASSUME Drain PROVE HonourInv'
    <2>1. /\ buffer_status' = reg["minus"] - 1 /\ reg' = reg /\ late' = late \ {"minus"}
          /\ drains' = IF drains > Snooze THEN drains ELSE drains + 1
          /\ pc["minus"] = "store"
        BY <1>2 DEF Drain, MinusStore, MinusStoreWith, Ready, Store
    <2>2. pc' = [pc EXCEPT !["minus"] = IF reg["minus"] - 1 < 0 THEN "clamp" ELSE "load"]
        BY <1>2 DEF Drain, MinusStore, MinusStoreWith, Goto, Delay
    <2>3. lost' \in BOOLEAN /\ (~lost' => ~lost /\ "minus" \notin late)
        BY <1>2, Zenon DEF Drain
    <2>4. ~lost' => reg["minus"] >= Snooze - drains /\ reg["minus"] >= 0
        BY <1>0, <2>1, <2>3 DEF RegistersSettled
    <2>5. HistoryOK'
        BY <1>0, <2>1, <2>3
    <2>6. AlarmHonoured'
        BY <1>0, <2>1, <2>4
    <2>7. UpdatesHonour'
        BY <1>0, <2>1, <2>2, <2>3, <2>4
    <2> QED BY <2>5, <2>6, <2>7
<1>3. ASSUME DrainClamp PROVE HonourInv'
    <2>1. /\ buffer_status' = 0 /\ reg' = reg /\ drains' = drains /\ late' = late \ {"minus"}
          /\ pc["minus"] = "clamp" /\ pc' = [pc EXCEPT !["minus"] = "load"]
        BY <1>3 DEF DrainClamp, MinusClamp, Ready, Store, Delay
    <2>2. lost' \in BOOLEAN /\ (~lost' => ~lost /\ "minus" \notin late)
        BY <1>3, Zenon DEF DrainClamp
    <2> QED BY <1>0, <2>1, <2>2
<1>4. ASSUME Press PROVE HonourInv'
    <2>1. /\ buffer_status' = reg["button"] + 1 /\ reg' = reg /\ drains' = drains
          /\ late' = late \ {"button"} /\ pc["button"] = "store"
        BY <1>4 DEF Press, ButtonStore, Ready, Store
    <2>2. pc' = [pc EXCEPT !["button"] = IF reg["button"] + 1 > Cap THEN "clamp" ELSE "count"]
        BY <1>4 DEF Press, ButtonStore, Goto
    <2>3. lost' \in BOOLEAN /\ (~lost' => ~lost /\ "button" \notin late)
        BY <1>4, Zenon DEF Press
    <2> QED BY <1>0, <2>1, <2>2, <2>3
<1>5. CASE OtherStep
    <2>1. CASE MainTask
        <3>1. CASE NvsInit \/ NvsErase
            BY <1>5, <3>1 DEF OtherStep, history, NvsInit, NvsErase, AppMain
        <3>2. ASSUME NEW task \in Tasks, NEW entry \in {"load", "wait", "sample", "look", "off"},
                     NEW from, NEW to, CreateTask(task, entry, from, to)
              PROVE  HonourInv'
            BY <1>5, <3>2 DEF OtherStep, history, CreateTask
        <3> QED BY <2>1, <3>1, <3>2 DEF MainTask, CreateTasks
    <2>2. CASE MinusLoad
        BY <1>5, <2>2 DEF OtherStep, history, MinusLoad, Ready, Load, Goto
    <2>3. CASE ControlTask
        BY <1>5, <2>3 DEF OtherStep, history, ControlTask, ControlWait, ControlLoop,
                          ControlCheck, Ready, Report, Goto, Delay
    <2>4. CASE AlarmLook
        BY <1>5, <2>4 DEF OtherStep, history, AlarmLook, Ready, Goto, Delay
    <2>5. CASE Finger \/ Tick
        BY <1>5, <2>5 DEF OtherStep, history, Finger, Tick
    <2>6. CASE ButtonSample \/ ButtonCount
        BY <1>5, <2>6 DEF OtherStep, history, ButtonSample, ButtonCount, Ready, Delay
    <2>7. CASE ButtonLoad
        BY <1>5, <2>7 DEF OtherStep, history, ButtonLoad, Ready, Load, Goto
    <2>8. CASE ButtonClamp
        BY <1>5, <2>8 DEF OtherStep, history, ButtonClamp, Ready, Store, Goto
    <2> QED BY <1>5, <2>1, <2>2, <2>3, <2>4, <2>5, <2>6, <2>7, <2>8 DEF OtherStep
<1>6. CASE UNCHANGED snoozeVars
    BY <1>6 DEF snoozeVars, history, vars
<1> QED BY <1>1, <1>2, <1>3, <1>4, <1>5, <1>6 DEF SnoozeNext

LEMMA HonourInvariant == SnoozeSpec => []HonourInv
<1>1. SnoozeInit => HonourInv
    BY ControlAssumption
    DEF SnoozeInit, HonourInv, HistoryOK, AlarmHonoured, UpdatesHonour
<1> QED BY <1>1, NextHonour, SnoozeBudget, PTL DEF SnoozeSpec

\* The seconds that task_check_alarm stores are taken back only one a round, or
\* by an update that was under way.
THEOREM Honoured == SnoozeSpec => []AlarmHonoured
<1>1. HonourInv => AlarmHonoured
    BY DEF HonourInv
<1> QED BY <1>1, HonourInvariant, PTL

\* Nor does task_control_alarm report the ring before they are used up.
THEOREM Silences == SnoozeSpec => AlarmSilences
<1>1. BudgetInv /\ CheckFollowsReport /\ HonourInv /\ [SnoozeNext]_snoozeVars
        => [PlayingVerdict => lost \/ drains >= Snooze]_snoozeVars
    <2> SUFFICES ASSUME BudgetInv, CheckFollowsReport, HonourInv, PlayingVerdict, ~lost
                 PROVE  drains >= Snooze
        BY DEF HonourInv, HistoryOK
    <2> USE ControlAssumption
            DEF BudgetInv, TypeOK, HonourInv, HistoryOK, AlarmHonoured, PlayingVerdict
    <2>1. CASE ControlWait
        BY <2>1 DEF ControlWait, Report
    <2>2. CASE ControlLoop
        BY <2>2 DEF ControlLoop, Report
    <2>3. CASE ControlCheck
        BY <2>3 DEF ControlCheck, Ready, CheckFollowsReport
    <2> QED BY <2>1, <2>2, <2>3 DEF ControlTask
<1> QED BY <1>1, SnoozeBudget, HonourInvariant, ImplementsControl, CheckInvariant, PTL
           DEF SnoozeSpec, AlarmSilences

-----------------------------------------------------------------------------
(* MCAlarmTimed: prompt tasks on a clock.  How long the budget lasts.      *)

\* Who may sleep, and that no time passes before app_main is done.
Asleep ==
    /\ held \in Nat /\ idle \in Nat
    /\ pc["main"] \in {"create_control", "create_button", "done"} => pc["minus"] # "off"
    /\ pc["main"] \in {"create_button", "done"} => pc["control"] # "off"
    /\ pc["main"] = "done" => pc["button"] # "off"
    /\ pc["main"] # "done" => held = 0 /\ idle = 0
    /\ ~Alarms => pc["alarm"] = "off"
    /\ sleep["minus"] <= MinusDelay
    /\ pc["minus"] # "load" => sleep["minus"] = 0
    /\ pc["button"] = "sample" => sleep["button"] <= 2 * ButtonDelay
    /\ pc["button"] = "load" => sleep["button"] <= ButtonDelay
    /\ pc["button"] \notin {"sample", "load"} => sleep["button"] = 0
    /\ pc["control"] \notin {"wait", "loop"} => sleep["control"] = 0
    /\ gpio = 1 => held = 0

\* A step is a step of AlarmControl, and all but these move no stopwatch.
LEMMA StepOfTasks == [TimedNext]_timedVars => [Next]_vars
BY DEF TimedNext, timedVars

LEMMA TimedBudget == TimedSpec => []BudgetInv
<1>1. TimedInit => Init
    BY DEF TimedInit
<1> QED BY <1>1, StepOfTasks, BudgetInvariant, PTL DEF TimedSpec, Spec

Quick == MainTask \/ MinusTask \/ ButtonSample \/ ButtonLoad \/ ButtonCount
         \/ ControlTask \/ AlarmTask \/ Finger

LEMMA QuickStep ==
    ASSUME BudgetInv, TimedNext, Quick
    PROVE  idle' = idle /\ held' = IF gpio' = 1 THEN 0 ELSE held
<1> USE ControlAssumption DEF BudgetInv, TypeOK, Tasks, Writers
<1>1. ~Tick /\ ~ButtonStore /\ ~ButtonClamp
    <2> SUFFICES ASSUME Tick \/ ButtonStore \/ ButtonClamp PROVE FALSE
        OBVIOUS
    <2>1. CASE MainTask
        <3>1. pc'["main"] # pc["main"]
            BY <2>1 DEF MainTask, NvsInit, NvsErase, AppMain, CreateTasks, CreateTask
        <3> QED BY <3>1 DEF Tick, ButtonStore, ButtonClamp, Goto
    <2>2. CASE MinusTask
        <3>1. pc'["minus"] # pc["minus"]
            BY <2>2 DEF MinusTask, MinusLoad, MinusStore, MinusStoreWith, MinusClamp,
                        Ready, Goto, Delay
        <3> QED BY <3>1 DEF Tick, ButtonStore, ButtonClamp, Goto
    <2>3. CASE ButtonSample \/ ButtonLoad \/ ButtonCount
        <3>1. pc["button"] \in {"sample", "load", "count"} /\ sleep["button"] = 0
            BY <2>3 DEF ButtonSample, ButtonLoad, ButtonCount, Ready
        <3>2. pc'["button"] # pc["button"] \/ sleep'["button"] > 0
            BY <2>3 DEF ButtonSample, ButtonLoad, ButtonCount, Ready, Goto, Delay
        <3> QED BY <3>1, <3>2 DEF Tick, ButtonStore, ButtonClamp, Ready
    <2>4. CASE ControlTask
        <3>1. sleep["control"] = 0
            BY <2>4 DEF ControlTask, ControlWait, ControlLoop, ControlCheck, Ready
        <3>2. pc'["control"] # pc["control"] \/ sleep'["control"] > 0
            BY <2>4 DEF ControlTask, ControlWait, ControlLoop, ControlCheck, Ready, Goto, Delay
        <3>3. pc'["button"] = pc["button"]
            BY <2>4 DEF ControlTask, ControlWait, ControlLoop, ControlCheck, Goto, Delay
        <3> QED BY <3>1, <3>2, <3>3 DEF Tick, ButtonStore, ButtonClamp, Ready, Goto
    <2>5. CASE AlarmTask
        <3>1. sleep["alarm"] = 0
            BY <2>5 DEF AlarmTask, AlarmLook, AlarmStore, Ready
        <3>2. pc'["alarm"] # pc["alarm"] \/ sleep'["alarm"] > 0
            BY <2>5 DEF AlarmTask, AlarmLook, AlarmStore, Ready, Goto, Delay
        <3>3. pc'["button"] = pc["button"]
            BY <2>5 DEF AlarmTask, AlarmLook, AlarmStore, Goto, Delay
        <3> QED BY <3>1, <3>2, <3>3 DEF Tick, ButtonStore, ButtonClamp, Ready, Goto
    <2>6. CASE Finger
        BY <2>6 DEF Finger, Tick, ButtonStore, ButtonClamp, Store
    <2> QED BY <2>1, <2>2, <2>3, <2>4, <2>5, <2>6 DEF Quick
<1> QED BY <1>1 DEF TimedNext

\* With prompt tasks time passes only while all of them wait.
LEMMA TickStep ==
    ASSUME BudgetInv, Asleep, TimedNext, Tick, Prompt
    PROVE  /\ pc["main"] = "done"
           /\ pc["minus"] = "load" /\ sleep["minus"] > 0
           /\ pc["button"] \in {"sample", "load"} /\ sleep["button"] > 0
           /\ pc["control"] # "completed" =>
                  pc["control"] \in {"wait", "loop"} /\ sleep["control"] > 0
           /\ \A t \in Tasks : sleep'[t] = IF sleep[t] > 0 THEN sleep[t] - 1 ELSE 0
           /\ idle' \in {idle, idle + 1}
           /\ held' \in {0, held, held + 1} /\ (gpio = 1 => held' = 0)
           /\ gpio = 0 /\ held' # held + 1 => held > CompleteTime /\ held' = held
           /\ UNCHANGED <<buffer_status, count, gpio, pc, reg, report>>
<1> USE ControlAssumption DEF BudgetInv, TypeOK, Tasks, Writers
<1>1. /\ pc["main"] = "done" /\ \A t \in Tasks : Blocked(t)
      /\ sleep' = [t \in Tasks |-> IF sleep[t] > 0 THEN sleep[t] - 1 ELSE 0]
      /\ UNCHANGED <<buffer_status, count, gpio, pc, reg, report>>
    BY DEF Tick
<1>2. pc["minus"] = "load" /\ sleep["minus"] > 0
    BY <1>1 DEF Asleep, Blocked, TaskLabels
<1>3. pc["button"] \in {"sample", "load"} /\ sleep["button"] > 0
    BY <1>1 DEF Asleep, Blocked, TaskLabels
<1>4. pc["control"] # "completed" => pc["control"] \in {"wait", "loop"} /\ sleep["control"] > 0
    BY <1>1 DEF Asleep, Blocked, TaskLabels
<1>5. ~ButtonStore /\ ~ButtonClamp
    BY <1>3 DEF ButtonStore, ButtonClamp, Ready
<1>6. /\ idle' = Advance(idle, DrainTime)
      /\ held' = IF gpio' = 1 THEN 0 ELSE Advance(held, CompleteTime)
    BY <1>5 DEF TimedNext
<1> QED BY <1>1, <1>2, <1>3, <1>4, <1>6 DEF Advance

LEMMA AsleepInitially == TimedInit => Asleep
BY ControlAssumption DEF TimedInit, Init, Asleep, Tasks, Writers

LEMMA AsleepKeeps ==
    ASSUME BudgetInv, Asleep, [TimedNext]_timedVars, Prompt
    PROVE  Asleep'
<1> USE ControlAssumption DEF BudgetInv, TypeOK, Tasks, Writers
<1>1. CASE Quick /\ TimedNext
    <2>0. idle' = idle /\ held' = IF gpio' = 1 THEN 0 ELSE held
        BY <1>1, QuickStep
    <2> USE <2>0
    <2>1. CASE NvsInit \/ NvsErase
        BY <2>1 DEF NvsInit, NvsErase, AppMain, Asleep
    <2>2. CASE CreateTasks
        <3>1. CASE CreateTask("alarm", IF Alarms THEN "look" ELSE "off",
                              "create_alarm", "create_minus")
            BY <3>1 DEF CreateTask, CreatedOnce, Asleep
        <3>2. CASE CreateTask("minus", "load", "create_minus", "create_control")
            BY <3>2 DEF CreateTask, CreatedOnce, Asleep
        <3>3. CASE CreateTask("control", "wait", "create_control", "create_button")
            BY <3>3 DEF CreateTask, CreatedOnce, Asleep
        <3>4. CASE CreateTask("button", "sample", "create_button", "done")
            BY <3>4 DEF CreateTask, CreatedOnce, Asleep
        <3> QED BY <2>2, <3>1, <3>2, <3>3, <3>4 DEF CreateTasks
    <2>3. CASE MinusTask
        BY <2>3 DEF MinusTask, MinusLoad, MinusStore, MinusStoreWith, MinusClamp,
                    Ready, Load, Store, Goto, Delay, Asleep
    <2>4. CASE ButtonSample \/ ButtonLoad \/ ButtonCount
        BY <2>4 DEF ButtonSample, ButtonLoad, ButtonCount, Ready, Load, Goto, Delay, Asleep
    <2>5. CASE ControlTask
        BY <2>5 DEF ControlTask, ControlWait, ControlLoop, ControlCheck, Report,
                    Ready, Goto, Delay, Asleep
    <2>6. CASE AlarmTask
        BY <2>6 DEF AlarmTask, AlarmLook, AlarmStore, Store, Ready, Goto, Delay, Asleep
    <2>7. CASE Finger
        BY <2>7 DEF Finger, Asleep
    <2> QED BY <1>1, <2>1, <2>2, <2>3, <2>4, <2>5, <2>6, <2>7 DEF Quick, MainTask
<1>2. CASE (ButtonStore \/ ButtonClamp) /\ TimedNext
    <2>1. pc["main"] # "off" /\ idle' = 0 /\ gpio' = gpio
        BY <1>2 DEF TimedNext, ButtonStore, ButtonClamp, Store, TaskLabels
    <2>2. pc' = [pc EXCEPT !["button"] = pc'["button"]] /\ sleep' = sleep
          /\ pc'["button"] \in {"clamp", "count"} /\ sleep["button"] = 0
        BY <1>2 DEF ButtonStore, ButtonClamp, Ready, Goto
    <2>3. held' = IF gpio' = 1 THEN 0 ELSE held
        <3>1. pc' # pc
            BY <1>2 DEF ButtonStore, ButtonClamp, Ready, Goto
        <3> QED BY <3>1, <1>2 DEF TimedNext, Tick
    <2> QED BY <2>1, <2>2, <2>3 DEF Asleep
<1>3. CASE Tick /\ TimedNext
    BY <1>3, TickStep DEF Asleep
<1>4. CASE UNCHANGED timedVars
    BY <1>4 DEF timedVars, vars, Asleep
<1> QED BY <1>1, <1>2, <1>3, <1>4 DEF TimedNext, Next, Quick, ButtonTask

-----------------------------------------------------------------------------
(* A budget left alone.  After a press the first unit lasts until the end  *)
(* of the delay of task_minus_bufer, every other one a whole delay.        *)

Left(n) == (n - 1) * MinusDelay

Lasting ==
    /\ buffer_status > Cap => idle = 0
    /\ buffer_status \in 1 .. Cap =>
           Left(buffer_status) + sleep["minus"] + idle <= DrainTime
    /\ pc["minus"] = "store" /\ reg["minus"] >= 1 => Left(reg["minus"]) + idle <= DrainTime

LEMMA LeftAfter ==
    /\ \A n \in Int : Left(n) \in Int /\ Left(n - 1) = Left(n) - MinusDelay
    /\ \A n \in Int : n >= 1 => Left(n) >= 0
    /\ \A n \in Int : n <= Cap => Left(n) + MinusDelay <= DrainTime
    /\ DrainTime \in Nat
<1> USE ControlAssumption
<1>1. \A n \in Int : Left(n) \in Int /\ Left(n - 1) = Left(n) - MinusDelay
    BY DEF Left
<1>2. ASSUME NEW n \in Int, n >= 1 PROVE Left(n) >= 0
    <2>1. \A i, j \in Nat : i * j >= 0
        OBVIOUS
    <2> QED BY <1>2, <2>1 DEF Left
<1>3. ASSUME NEW n \in Int, n <= Cap PROVE Left(n) + MinusDelay <= DrainTime
    <2>1. \A i, j \in Nat : i * j >= 0
        OBVIOUS
    <2>2. Cap - n \in Nat /\ (Cap - n) * MinusDelay >= 0
        BY <1>3, <2>1
    <2>3. Left(n) + MinusDelay = Cap * MinusDelay - (Cap - n) * MinusDelay
        BY DEF Left
    <2> QED BY <2>2, <2>3 DEF DrainTime
<1> QED BY <1>1, <1>2, <1>3 DEF DrainTime

LEMMA LastingKeeps ==
    ASSUME BudgetInv, Asleep, Lasting, [TimedNext]_timedVars, Prompt, ~Alarms
    PROVE  Lasting'
<1> USE ControlAssumption, LeftAfter
<1>0. /\ buffer_status \in Int /\ buffer_status' \in Int /\ idle \in Nat
      /\ reg \in [Writers -> Int] /\ reg' \in [Writers -> Int]
      /\ reg["minus"] \in 0 .. Cap + 1 /\ reg["button"] \in -1 .. Cap
      /\ sleep["minus"] \in 0 .. MinusDelay /\ sleep["minus"] \in Int
      /\ buffer_status <= Cap + 1 /\ MinusDelay \in Nat /\ Cap \in Nat
      /\ Left(reg["minus"]) \in Int /\ Left(buffer_status) \in Int
      /\ pc["minus"] # "load" => sleep["minus"] = 0
    <2>1. BudgetInv'
        BY NextBudget, StepOfTasks
    <2> QED BY <2>1 DEF BudgetInv, TypeOK, RegistersSettled, Asleep, Tasks, Writers
<1>1. ASSUME buffer_status' = buffer_status, idle' = idle,
             sleep'["minus"] = sleep["minus"],
             reg'["minus"] = reg["minus"],
             pc'["minus"] = "store" => pc["minus"] = "store"
      PROVE  Lasting'
    BY <1>1 DEF Lasting
<1>2. CASE MinusLoad /\ TimedNext
    <2>1. idle' = idle
        BY <1>2, QuickStep DEF Quick, MinusTask
    <2>2. /\ pc["minus"] = "load" /\ sleep["minus"] = 0 /\ sleep' = sleep
          /\ buffer_status' = buffer_status /\ reg'["minus"] = buffer_status
        BY <1>2, <1>0 DEF MinusLoad, Ready, Load, Goto, Writers
    <2>3. ASSUME buffer_status >= 1 PROVE Left(buffer_status) + idle <= DrainTime
        <3>1. CASE buffer_status > Cap
            <4>1. buffer_status - 1 = Cap
                BY <1>0, <3>1
            <4>2. Left(buffer_status) = DrainTime /\ idle = 0
                BY <4>1, <3>1 DEF Left, DrainTime, Lasting
            <4> QED BY <4>2
        <3>2. CASE buffer_status \in 1 .. Cap
            BY <3>2, <2>2, <1>0 DEF Lasting
        <3> QED BY <2>3, <3>1, <3>2, <1>0
    <2> QED BY <1>0, <2>1, <2>2, <2>3 DEF Lasting
<1>3. CASE MinusStore /\ TimedNext
    <2>1. idle' = idle
        BY <1>3, QuickStep DEF Quick, MinusTask
    <2>2. /\ pc["minus"] = "store" /\ sleep'["minus"] \in {0, MinusDelay}
          /\ pc'["minus"] # "store" /\ buffer_status' = reg["minus"] - 1
        BY <1>3, <1>0 DEF MinusStore, MinusStoreWith, Ready, Store, Goto, Delay, BudgetInv,
                    TypeOK, Tasks, Writers
    <2>3. buffer_status' <= Cap
        BY <2>2, <1>0
    <2>4. Left(buffer_status') = Left(reg["minus"]) - MinusDelay
        BY <2>2, <1>0
    <2>5. reg["minus"] >= 1 => Left(reg["minus"]) + idle <= DrainTime
        BY <2>2 DEF Lasting
    <2>6. buffer_status' >= 1 => Left(buffer_status') + sleep'["minus"] + idle' <= DrainTime
        BY <2>1, <2>2, <2>4, <2>5, <1>0
    <2> QED BY <2>2, <2>3, <2>6, <1>0 DEF Lasting
<1>4. CASE MinusClamp /\ TimedNext
    BY <1>4, <1>0 DEF MinusClamp, Ready, Store, Delay, Lasting, BudgetInv, TypeOK, Tasks
<1>5. CASE (ButtonStore \/ ButtonClamp) /\ TimedNext
    <2>1. idle' = 0
        BY <1>5 DEF TimedNext
    <2>2. /\ sleep' = sleep /\ pc'["minus"] = pc["minus"] /\ reg' = reg
        BY <1>5 DEF ButtonStore, ButtonClamp, Store, Goto, BudgetInv, TypeOK, Tasks
    <2>3. ASSUME buffer_status' \in 1 .. Cap
          PROVE  Left(buffer_status') + sleep'["minus"] + idle' <= DrainTime
        <3>1. Left(buffer_status') + MinusDelay <= DrainTime /\ Left(buffer_status') \in Int
            BY <2>3, <1>0
        <3> QED BY <3>1, <2>1, <2>2, <1>0
    <2>4. ASSUME pc'["minus"] = "store", reg'["minus"] >= 1 PROVE Left(reg'["minus"]) + idle' <= DrainTime
        BY <2>1, <2>2, <2>4, <1>0 DEF Lasting
    <2> QED BY <2>1, <2>3, <2>4 DEF Lasting
<1>6. CASE Tick /\ TimedNext
    <2>1. /\ pc["minus"] = "load" /\ sleep["minus"] > 0
          /\ sleep'["minus"] = sleep["minus"] - 1
          /\ idle' \in {idle, idle + 1}
          /\ UNCHANGED <<buffer_status, pc, reg>>
        BY <1>6, TickStep DEF Tasks
    <2>2. buffer_status <= Cap
        BY <1>6, TickStep, <1>0 DEF BudgetInv, OverflowIsTransient
    <2> QED BY <2>1, <2>2, <1>0 DEF Lasting
<1>7. CASE (MainTask \/ ButtonSample \/ ButtonLoad \/ ButtonCount \/ ControlTask \/ Finger)
           /\ TimedNext
    <2>1. idle' = idle
        BY <1>7, QuickStep DEF Quick
    <2> USE DEF BudgetInv, TypeOK, Tasks, Writers
    <2>2. CASE MainTask
        BY <2>1, <2>2, <1>1 DEF MainTask, NvsInit, NvsErase, AppMain, CreateTasks, CreateTask
    <2>3. CASE ButtonSample \/ ButtonLoad \/ ButtonCount
        BY <2>1, <2>3, <1>1 DEF ButtonSample, ButtonLoad, ButtonCount, Load, Goto, Delay
    <2>4. CASE ControlTask
        BY <2>1, <2>4, <1>1 DEF ControlTask, ControlWait, ControlLoop, ControlCheck,
                                Report, Goto, Delay
    <2>5. CASE Finger
        BY <2>1, <2>5, <1>1 DEF Finger
    <2> QED BY <1>7, <2>2, <2>3, <2>4, <2>5
<1>8. CASE AlarmTask
    BY <1>8 DEF AlarmTask, AlarmLook, AlarmStore, Ready, Asleep
<1>9. CASE UNCHANGED timedVars
    BY <1>9, <1>1 DEF timedVars, vars
<1> QED BY <1>2, <1>3, <1>4, <1>5, <1>6, <1>7, <1>8, <1>9
        DEF TimedNext, Next, MinusTask, ButtonTask

\* No press outlives its Cap seconds: the budget is 0 once DrainTime has passed since
\* task_simalate_button last stored, whatever the two tasks lost to each other before.
\* Without task_check_alarm, which is not created and would store without a press.
THEOREM DrainsLeftAlone ==
    ASSUME Prompt, ~Alarms
    PROVE  TimedSpec => []LeftAloneDrains
<1>1. TimedInit => Asleep /\ Lasting
    BY AsleepInitially, ControlAssumption DEF TimedInit, Init, Lasting, Tasks
<1>2. BudgetInv /\ Asleep /\ Lasting /\ [TimedNext]_timedVars => Asleep' /\ Lasting'
    BY AsleepKeeps, LastingKeeps
<1>3. BudgetInv /\ Asleep /\ Lasting => LeftAloneDrains
    <2> SUFFICES ASSUME BudgetInv, Asleep, Lasting, idle > DrainTime
                 PROVE  buffer_status <= 0
        BY DEF LeftAloneDrains
    <2>1. /\ buffer_status \in Int /\ sleep["minus"] \in Nat /\ idle \in Nat
          /\ DrainTime \in Nat /\ Cap \in Nat
        BY LeftAfter, ControlAssumption DEF BudgetInv, TypeOK, Asleep, Tasks
    <2>2. ASSUME buffer_status > Cap PROVE FALSE
        BY <2>1, <2>2 DEF Lasting
    <2>3. ASSUME buffer_status \in 1 .. Cap PROVE FALSE
        <3>1. Left(buffer_status) \in Int /\ Left(buffer_status) >= 0
            BY <2>1, <2>3, LeftAfter
        <3> QED BY <2>1, <2>3, <3>1 DEF Lasting
    <2> QED BY <2>1, <2>2, <2>3
<1> QED BY <1>1, <1>2, <1>3, TimedBudget, PTL DEF TimedSpec

-----------------------------------------------------------------------------
(* A button held down.  While it is, the time of its next press in Ticks   *)
(* since it went down is at most 3 delays, and moves by 2 with each press, *)
(* so that it tells how many presses there were.                           *)

\* Ticks until task_simalate_button stores its next press
PressIn ==
    CASE pc["button"] = "off"    -> 0
      [] pc["button"] = "sample" -> sleep["button"] + ButtonDelay
      [] pc["button"] = "load"   -> sleep["button"]
      [] pc["button"] = "store"  -> 0
      [] OTHER                   -> 2 * ButtonDelay

\* Ticks since its last one, and since task_minus_bufer stored
SincePress == 2 * ButtonDelay - PressIn
SinceTake ==
    CASE pc["minus"] = "load"  -> MinusDelay - sleep["minus"]
      [] pc["minus"] = "store" -> MinusDelay
      [] OTHER                 -> 0

\* the button was held for n presses
Presses(n) == held + PressIn > (2 * n + 1) * ButtonDelay

\* What n presses leave, if task_minus_bufer stored before the last one, before the one
\* before it, or in the same Tick as the last, which then may be lost.
Filled ==
    /\ Presses(1) /\ SinceTake > SincePress => buffer_status >= 1
    /\ Presses(2) /\ SinceTake > SincePress + 2 * ButtonDelay => buffer_status >= 2
    /\ Presses(2) /\ SinceTake # SincePress => buffer_status >= 1
    /\ Presses(3) => buffer_status >= 1

\* what task_minus_bufer loaded, and when it can have taken too much
Taking ==
    /\ pc["minus"] = "store" =>
           /\ Presses(2) /\ SincePress > 0 => reg["minus"] >= 2
           /\ Presses(3) => reg["minus"] >= 2
    /\ pc["minus"] = "clamp" =>
           /\ Presses(2) => SincePress <= 0
           /\ ~Presses(3)

\* what task_simalate_button loaded
Pressing ==
    pc["button"] = "store" =>
        /\ SinceTake > 0 => reg["button"] >= 0
        /\ Presses(1) /\ SinceTake > 2 * ButtonDelay => reg["button"] >= 1
        /\ Presses(2) => reg["button"] >= 0

HeldInv ==
    /\ Presses(1) => PressIn <= 2 * ButtonDelay
    /\ Filled /\ Taking /\ Pressing

\* The drain is slower than two presses, and neither one press nor an alarm fills it all.
Paced ==
    /\ Prompt
    /\ MinusDelay > 4 * ButtonDelay
    /\ Cap >= 2
    /\ Alarms => Snooze >= 2

LEMMA HeldTypes ==
    ASSUME BudgetInv, Asleep
    PROVE  /\ PressIn \in Nat /\ PressIn <= 3 * ButtonDelay
           /\ SinceTake \in Nat /\ SinceTake <= MinusDelay
           /\ held \in Nat /\ ButtonDelay \in Nat /\ ButtonDelay > 0
           /\ MinusDelay \in Nat /\ Cap \in Nat
           /\ buffer_status \in -1 .. Cap + 1
           /\ reg["minus"] \in 0 .. Cap + 1 /\ reg["button"] \in -1 .. Cap
<1> USE ControlAssumption DEF BudgetInv, TypeOK, Asleep, Tasks, Writers
<1>1. /\ sleep["minus"] \in Nat /\ sleep["button"] \in Nat
      /\ pc["button"] \in TaskLabels["button"] /\ pc["minus"] \in TaskLabels["minus"]
    OBVIOUS
<1>2. PressIn \in Nat /\ PressIn <= 3 * ButtonDelay
    BY <1>1 DEF PressIn, TaskLabels
<1>3. SinceTake \in Nat /\ SinceTake <= MinusDelay
    BY <1>1 DEF SinceTake, TaskLabels
<1> QED BY <1>2, <1>3 DEF RegistersSettled

\* What concerns none of the two writers, and before the first press nothing does.
LEMMA HeldApart ==
    ASSUME BudgetInv, Asleep, HeldInv,
           held' \in {0, held}, PressIn' = PressIn, SinceTake' = SinceTake,
           buffer_status' # buffer_status => buffer_status' \in Nat /\ buffer_status' >= 2,
           UNCHANGED reg,
           \A t \in Writers : pc'[t] \in {"store", "clamp"} =>
               pc'[t] = pc[t] \/ (t = "button" /\ pc'[t] = "clamp")
    PROVE  HeldInv'
<1> USE HeldTypes
<1>1. \A n \in {1, 2, 3} : Presses(n)' => Presses(n)
    BY DEF Presses
<1>2. SincePress' = SincePress
    BY DEF SincePress
<1>3. /\ pc'["minus"] \in {"store", "clamp"} => pc'["minus"] = pc["minus"]
      /\ pc'["button"] = "store" => pc["button"] = "store"
    BY DEF Writers
<1>4. /\ buffer_status >= 1 => buffer_status' >= 1
      /\ buffer_status >= 2 => buffer_status' >= 2
    OBVIOUS
<1> QED BY <1>1, <1>2, <1>3, <1>4 DEF HeldInv, Filled, Taking, Pressing

LEMMA HeldEarly ==
    ASSUME BudgetInv', Asleep', held' = 0, pc'["button"] # "store"
    PROVE  HeldInv'
<1>1. PressIn' \in Nat /\ PressIn' <= 3 * ButtonDelay /\ ButtonDelay \in Nat
    BY ControlAssumption DEF PressIn, BudgetInv, TypeOK, Asleep, Tasks
<1>2. ASSUME NEW p \in Nat, NEW h, h = 0, p <= 3 * ButtonDelay, NEW n \in {1, 2, 3}
      PROVE  ~(h + p > (2 * n + 1) * ButtonDelay)
    BY <1>1, <1>2
<1>3. \A n \in {1, 2, 3} : ~Presses(n)'
    BY <1>1, <1>2 DEF Presses
<1> QED BY <1>3 DEF HeldInv, Filled, Taking, Pressing

LEMMA HeldByStores ==
    ASSUME BudgetInv, Asleep, TimedNext, ButtonStore \/ ButtonClamp
    PROVE  held' = held
<1>1. pc' # pc /\ gpio' = gpio
    BY DEF ButtonStore, ButtonClamp, Ready, Goto, Store, BudgetInv, TypeOK, Tasks
<1> QED BY <1>1 DEF TimedNext, Tick, Asleep, BudgetInv, TypeOK

LEMMA MinusKeepsHeld ==
    ASSUME BudgetInv, Asleep, HeldInv, TimedNext, MinusTask, Paced
    PROVE  HeldInv'
<1> USE HeldTypes
<1>1. held' \in {0, held}
    BY QuickStep DEF Quick
<1>2. PressIn' = PressIn /\ pc'["button"] = pc["button"]
    <2>1. pc'["button"] = pc["button"] /\ sleep'["button"] = sleep["button"]
        BY DEF MinusTask, MinusLoad, MinusStore, MinusStoreWith, MinusClamp, Goto, Delay,
               BudgetInv, TypeOK, Tasks
    <2> QED BY <2>1 DEF PressIn
<1>3. SincePress' = SincePress /\ SincePress \in Int
    BY <1>2 DEF SincePress
<1>4. \A n \in {1, 2, 3} : Presses(n)' => Presses(n)
    BY <1>1, <1>2 DEF Presses
<1>5. (Presses(2) => Presses(1)) /\ (Presses(3) => Presses(2))
    BY DEF Presses
<1>6. Presses(1) => SincePress >= 0
    BY DEF HeldInv, SincePress
<1>7. SincePress <= 2 * ButtonDelay
    BY DEF SincePress
<1>8. CASE MinusLoad
    <2>1. /\ pc["minus"] = "load" /\ sleep["minus"] = 0 /\ sleep' = sleep /\ pc'["minus"] = "store"
          /\ reg'["minus"] = buffer_status /\ reg'["button"] = reg["button"]
          /\ buffer_status' = buffer_status
        BY <1>8 DEF MinusLoad, Ready, Load, Goto, BudgetInv, TypeOK, Tasks, Writers
    <2>2. SinceTake' = MinusDelay /\ SinceTake = MinusDelay
        BY <2>1 DEF SinceTake
    <2>3. Presses(2) => buffer_status >= 2
        BY <2>2, <1>3, <1>5, <1>7 DEF Paced, HeldInv, Filled
    <2>4. Taking'
        BY <2>1, <2>3, <1>4, <1>5 DEF Taking
    <2>5. Filled'
        BY <2>1, <2>2, <1>2, <1>3, <1>4 DEF HeldInv, Filled
    <2>6. Pressing'
        BY <2>1, <2>2, <1>2, <1>4 DEF HeldInv, Pressing
    <2> QED BY <2>4, <2>5, <2>6, <1>2, <1>4 DEF HeldInv
<1>9. CASE MinusStore \/ MinusClamp
    <2>1. /\ pc["minus"] \in {"store", "clamp"} /\ reg' = reg
          /\ buffer_status' = IF pc["minus"] = "store" THEN reg["minus"] - 1 ELSE 0
        BY <1>9 DEF MinusStore, MinusStoreWith, MinusClamp, Ready, Store
    <2>2. SinceTake' = 0 /\ pc'["minus"] # "store"
          /\ (pc'["minus"] = "clamp" => pc["minus"] = "store" /\ reg["minus"] = 0)
        BY <1>9 DEF MinusStore, MinusStoreWith, MinusClamp, Ready, Goto, Delay, SinceTake,
                    BudgetInv, TypeOK, Tasks
    <2>3. Presses(2) /\ SincePress > 0 => buffer_status' >= 1
        BY <2>1, <1>3, <1>5 DEF HeldInv, Taking
    <2>4. Presses(3) => buffer_status' >= 1
        BY <2>1 DEF HeldInv, Taking
    <2>5. Filled'
        BY <2>2, <2>3, <2>4, <1>3, <1>4, <1>5, <1>6 DEF Filled
    <2>6. Taking'
        BY <2>1, <2>2, <1>3, <1>4, <1>5 DEF HeldInv, Taking
    <2>7. Pressing'
        <3>1. pc["minus"] = "store" => SinceTake = MinusDelay
            BY DEF SinceTake
        <3>2. pc'["button"] = "store" /\ Presses(2)' => reg'["button"] >= 0
            BY <2>1, <1>2, <1>4 DEF HeldInv, Pressing
        <3> QED BY <3>2, <2>2 DEF Pressing
    <2> QED BY <2>5, <2>6, <2>7, <1>2, <1>4 DEF HeldInv
<1> QED BY <1>8, <1>9 DEF MinusTask

LEMMA ButtonKeepsHeld ==
    ASSUME BudgetInv, Asleep, HeldInv, TimedNext, ButtonTask, Paced
    PROVE  HeldInv'
<1> USE HeldTypes, ControlAssumption
<1>0. BudgetInv' /\ Asleep'
    BY NextBudget, StepOfTasks, AsleepKeeps DEF Paced
<1>1. held' = held
    BY QuickStep, HeldByStores
    DEF ButtonTask, Quick, Asleep, ButtonSample, ButtonLoad, ButtonCount, Load,
        BudgetInv, TypeOK
<1>2. SinceTake' = SinceTake /\ pc'["minus"] = pc["minus"]
    <2>1. pc'["minus"] = pc["minus"] /\ sleep'["minus"] = sleep["minus"]
        BY DEF ButtonTask, ButtonSample, ButtonLoad, ButtonStore, ButtonClamp, ButtonCount,
               Goto, Delay, BudgetInv, TypeOK, Tasks
    <2> QED BY <2>1 DEF SinceTake
<1>3. CASE ButtonSample
    <2>1. pc'["button"] \in {"load", "sample"}
        BY <1>3 DEF ButtonSample, Delay, BudgetInv, TypeOK, Tasks
    <2>2. CASE gpio = 1
        BY <1>0, <1>1, <2>1, <2>2, HeldEarly DEF Asleep
    <2>3. CASE gpio = 0
        <3>1. PressIn' = PressIn
            BY <1>3, <2>3 DEF ButtonSample, Ready, Delay, PressIn, BudgetInv, TypeOK, Tasks
        <3>2. UNCHANGED <<reg, buffer_status>>
            BY <1>3 DEF ButtonSample
        <3> QED BY <1>1, <1>2, <2>1, <3>1, <3>2, HeldApart DEF Writers
    <2> QED BY <2>2, <2>3 DEF BudgetInv, TypeOK
<1>4. CASE ButtonCount
    <2>1. PressIn' = PressIn /\ pc'["button"] = "sample"
        BY <1>4 DEF ButtonCount, Ready, Delay, PressIn, BudgetInv, TypeOK, Tasks
    <2>2. UNCHANGED <<reg, buffer_status>>
        BY <1>4 DEF ButtonCount
    <2> QED BY <1>1, <1>2, <2>1, <2>2, HeldApart DEF Writers
<1>5. CASE ButtonClamp
    <2>1. PressIn' = PressIn /\ pc'["button"] = "count"
        BY <1>5 DEF ButtonClamp, Ready, Goto, PressIn, BudgetInv, TypeOK, Tasks
    <2>2. UNCHANGED reg /\ buffer_status' = Cap
        BY <1>5 DEF ButtonClamp, Store
    <2> QED BY <1>1, <1>2, <2>1, <2>2, HeldApart DEF Writers, Paced
<1>6. CASE ButtonLoad
    <2>1. /\ PressIn' = 0 /\ PressIn = 0 /\ pc'["button"] = "store"
          /\ reg'["button"] = buffer_status /\ reg'["minus"] = reg["minus"]
          /\ buffer_status' = buffer_status
        BY <1>6 DEF ButtonLoad, Ready, Load, Goto, PressIn, BudgetInv, TypeOK, Tasks, Writers
    <2>2. /\ SincePress = 2 * ButtonDelay /\ SincePress' = SincePress
          /\ \A n \in {1, 2, 3} : Presses(n)' <=> Presses(n)
        BY <1>1, <2>1 DEF SincePress, Presses
    <2>3. buffer_status = -1 => SinceTake = 0 /\ ~Presses(2)
        BY <2>2 DEF SinceTake, BudgetInv, UnderflowIsTransient, HeldInv, Taking
    <2>4. Pressing'
        BY <1>2, <2>1, <2>2, <2>3 DEF HeldInv, Filled, Pressing
    <2> QED BY <1>2, <2>1, <2>2, <2>4 DEF HeldInv, Filled, Taking
<1>7. CASE ButtonStore
    <2>1. /\ PressIn' = 2 * ButtonDelay /\ PressIn = 0 /\ pc["button"] = "store"
          /\ pc'["button"] # "store" /\ buffer_status' = reg["button"] + 1 /\ reg' = reg
        BY <1>7 DEF ButtonStore, Ready, Store, Goto, PressIn, BudgetInv, TypeOK, Tasks
    <2>2. /\ SincePress = 2 * ButtonDelay /\ SincePress' = 0
          /\ (Presses(2)' => Presses(1)) /\ (Presses(3)' => Presses(2))
        BY <1>1, <2>1 DEF SincePress, Presses
    <2>3. /\ SinceTake > 0 => buffer_status' >= 1
          /\ Presses(2)' /\ SinceTake > 2 * ButtonDelay => buffer_status' >= 2
          /\ Presses(3)' => buffer_status' >= 1
        BY <2>1, <2>2 DEF HeldInv, Pressing
    <2>4. Filled'
        BY <1>2, <2>2, <2>3 DEF Filled
    <2>5. Taking'
        BY <1>2, <2>1, <2>2 DEF HeldInv, Taking
    <2>6. Pressing'
        BY <2>1 DEF Pressing
    <2> QED BY <2>1, <2>4, <2>5, <2>6 DEF HeldInv
<1> QED BY <1>3, <1>4, <1>5, <1>6, <1>7 DEF ButtonTask

LEMMA OthersKeepHeld ==
    ASSUME BudgetInv, Asleep, HeldInv, TimedNext, Paced,
           MainTask \/ ControlTask \/ AlarmTask \/ Finger
    PROVE  HeldInv'
<1> USE ControlAssumption
<1>0. BudgetInv' /\ Asleep'
    BY NextBudget, StepOfTasks, AsleepKeeps DEF Paced
<1>1. held' \in {0, held}
    BY QuickStep DEF Quick
<1>2. CASE MainTask
    <2>1. held' = 0
        BY <1>1, <1>2 DEF MainTask, NvsInit, NvsErase, AppMain, CreateTasks, CreateTask, Asleep
    <2>2. pc["button"] = "off"
        BY <1>2 DEF MainTask, NvsInit, NvsErase, AppMain, CreateTasks, CreateTask,
                    BudgetInv, CreatedOnce
    <2>3. pc'["button"] # "store"
        <3> USE DEF BudgetInv, TypeOK, Tasks
        <3>1. CASE NvsInit \/ NvsErase
            BY <2>2, <3>1 DEF NvsInit, NvsErase, AppMain
        <3>2. ASSUME NEW task \in Tasks, NEW entry \in {"load", "wait", "sample", "look", "off"},
                     NEW from, NEW to, CreateTask(task, entry, from, to)
              PROVE  pc'["button"] # "store"
            BY <2>2, <3>2 DEF CreateTask
        <3> QED BY <1>2, <3>1, <3>2 DEF MainTask, CreateTasks
    <2> QED BY <1>0, <2>1, <2>3, HeldEarly
<1>3. CASE ControlTask \/ AlarmTask \/ Finger
    <2> USE DEF BudgetInv, TypeOK, Tasks, Writers
    <2>1. /\ \A t \in Writers : pc'[t] = pc[t] /\ sleep'[t] = sleep[t]
          /\ UNCHANGED reg
        BY <1>3 DEF ControlTask, ControlWait, ControlLoop, ControlCheck, Report, AlarmTask,
                    AlarmLook, AlarmStore, Store, Goto, Delay, Finger
    <2>2. PressIn' = PressIn /\ SinceTake' = SinceTake
        BY <2>1 DEF PressIn, SinceTake
    <2>3. buffer_status' # buffer_status => buffer_status' \in Nat /\ buffer_status' >= 2
        <3>1. pc["alarm"] # "off" => Snooze >= 2
            BY DEF Asleep, Paced
        <3> QED BY <1>3, <3>1
            DEF ControlTask, ControlWait, ControlLoop, ControlCheck, Report,
                AlarmTask, AlarmLook, AlarmStore, Ready, Store, Finger
    <2> HIDE DEF BudgetInv, TypeOK
    <2> QED BY <1>1, <2>1, <2>2, <2>3, HeldApart
<1> QED BY <1>2, <1>3

LEMMA TickKeepsHeld ==
    ASSUME BudgetInv, Asleep, HeldInv, TimedNext, Tick, Paced
    PROVE  HeldInv'
<1> USE HeldTypes, ControlAssumption
<1>0. BudgetInv' /\ Asleep'
    BY NextBudget, StepOfTasks, AsleepKeeps DEF Paced
<1>1. /\ pc["minus"] = "load" /\ sleep["minus"] > 0
      /\ pc["button"] \in {"sample", "load"} /\ sleep["button"] > 0
      /\ sleep'["minus"] = sleep["minus"] - 1 /\ sleep'["button"] = sleep["button"] - 1
      /\ held' \in {0, held, held + 1} /\ (gpio = 1 => held' = 0)
      /\ (gpio = 0 /\ held' # held + 1 => held > CompleteTime /\ held' = held)
      /\ UNCHANGED <<buffer_status, pc, reg>>
    BY TickStep DEF Paced, Tasks
<1>2. PressIn' = PressIn - 1 /\ SinceTake' = SinceTake + 1
    BY <1>1 DEF PressIn, SinceTake, BudgetInv, TypeOK, Tasks
<1>3. SincePress' = SincePress + 1 /\ SincePress \in Int
    BY <1>2 DEF SincePress
<1>4. CASE gpio = 1
    BY <1>0, <1>1, <1>4, HeldEarly
<1>5. CASE gpio = 0
    <2>1. CompleteTime \in Nat /\ CompleteTime >= 7 * ButtonDelay
        BY DEF CompleteTime, SilenceTime
    <2>2. \A n \in {1, 2, 3} : Presses(n)' => Presses(n)
        BY <1>1, <1>2, <1>5, <2>1 DEF Presses
    <2>3. Filled'
        BY <1>1, <1>2, <1>3, <2>2 DEF HeldInv, Filled
    <2>4. Taking' /\ Pressing'
        BY <1>1 DEF Taking, Pressing
    <2> QED BY <1>2, <2>2, <2>3, <2>4 DEF HeldInv
<1> QED BY <1>4, <1>5 DEF BudgetInv, TypeOK

LEMMA HeldKeeps ==
    ASSUME BudgetInv, Asleep, HeldInv, [TimedNext]_timedVars, Paced
    PROVE  HeldInv'
<1>1. CASE UNCHANGED timedVars
    BY <1>1 DEF timedVars, vars, HeldInv, Filled, Taking, Pressing, Presses, PressIn,
                SincePress, SinceTake
<1> QED BY <1>1, MinusKeepsHeld, ButtonKeepsHeld, OthersKeepHeld, TickKeepsHeld
        DEF TimedNext, Next

LEMMA HeldInvariant ==
    ASSUME Paced
    PROVE  TimedSpec => [](Asleep /\ HeldInv)
<1>1. TimedInit => Asleep /\ HeldInv
    <2> SUFFICES ASSUME TimedInit PROVE HeldInv
        BY AsleepInitially
    <2>1. held = 0 /\ pc["button"] = "off" /\ pc["minus"] = "off"
        BY DEF TimedInit, Init, Tasks
    <2>2. \A n \in {1, 2, 3} : ~Presses(n)
        BY <2>1, ControlAssumption DEF Presses, PressIn
    <2> QED BY <2>1, <2>2 DEF HeldInv, Filled, Taking, Pressing
<1>2. BudgetInv /\ (Asleep /\ HeldInv) /\ [TimedNext]_timedVars => (Asleep /\ HeldInv)'
    BY AsleepKeeps, HeldKeeps DEF Paced
<1> QED BY <1>1, <1>2, TimedBudget, PTL DEF TimedSpec

\* A held button silences the ring within 7 of its delays, whatever the phases of the
\* two unlocked updates, one of which may overwrite the other; beside an alarm too.
THEOREM SilentWhileHeld ==
    ASSUME Paced
    PROVE  TimedSpec => []HeldIsSilent
<1>1. BudgetInv /\ (Asleep /\ HeldInv) => HeldIsSilent
    <2> SUFFICES ASSUME BudgetInv, Asleep, HeldInv, held > SilenceTime
                 PROVE  buffer_status > 0
        BY DEF HeldIsSilent
    <2>1. Presses(3)
        BY HeldTypes DEF Presses, SilenceTime
    <2> QED BY <2>1, HeldTypes DEF HeldInv, Filled
<1> QED BY <1>1, TimedBudget, HeldInvariant, PTL

-----------------------------------------------------------------------------
(* A held button completes the alarm: the presses that are left to count,  *)
(* and the delay that task_control_alarm is in.                            *)

\* Ticks by which the press after c presses is counted
Due(c) == (2 * c + 3) * ButtonDelay

Counted ==
    count <= Limit =>
        /\ held <= Due(count)
        /\ pc["button"] \notin {"clamp", "count"} => held + PressIn <= Due(count)

Controlled ==
    /\ pc["control"] = "off" => held = 0
    /\ pc["control"] = "wait" => held + sleep["control"] <= SilenceTime + ControlDelay
    /\ pc["control"] \in {"loop", "check"} => held + sleep["control"] <= CompleteTime

\* The first suspension is long enough to count all presses.
Enough == Paced /\ Due(Limit) <= SilenceTime + SuspendDelay

LEMMA DueGrows ==
    /\ \A c \in Nat : Due(c) \in Nat /\ Due(c + 1) = Due(c) + 2 * ButtonDelay
    /\ \A c \in Nat : Due(c) >= 3 * ButtonDelay
    /\ \A c \in Nat : c <= Limit => Due(c) <= Due(Limit)
<1> USE ControlAssumption
<1>1. \A i, j \in Nat : i * j \in Nat
    OBVIOUS
<1>2. ASSUME NEW c \in Nat
      PROVE  Due(c) \in Nat /\ Due(c + 1) = Due(c) + 2 * ButtonDelay /\ Due(c) >= 3 * ButtonDelay
    <2>1. c * ButtonDelay \in Nat
        BY <1>1
    <2>2. Due(c) = 2 * (c * ButtonDelay) + 3 * ButtonDelay
        BY DEF Due
    <2>3. Due(c + 1) = 2 * (c * ButtonDelay) + 5 * ButtonDelay
        BY DEF Due
    <2> QED BY <2>1, <2>2, <2>3
<1>3. ASSUME NEW c \in Nat, c <= Limit PROVE Due(c) <= Due(Limit)
    <2>1. Limit - c \in Nat /\ (Limit - c) * ButtonDelay \in Nat
        BY <1>1, <1>3
    <2>2. Due(Limit) = Due(c) + 2 * ((Limit - c) * ButtonDelay)
        BY DEF Due
    <2>3. Due(c) \in Nat
        BY <1>2
    <2> QED BY <2>1, <2>2, <2>3
<1> QED BY <1>2, <1>3

LEMMA CountedKeeps ==
    ASSUME BudgetInv, Asleep, Counted, [TimedNext]_timedVars, Prompt
    PROVE  Counted'
<1> USE HeldTypes, ControlAssumption
<1>0. /\ count \in Nat /\ Limit \in Nat
      /\ Due(count) \in Nat /\ Due(count) >= 3 * ButtonDelay
    BY DueGrows DEF BudgetInv, TypeOK
<1>1. ASSUME held' \in {0, held}, count' = count,
             PressIn' = PressIn \/ (held' = 0 /\ PressIn' \in 0 .. 3 * ButtonDelay),
             pc'["button"] \notin {"clamp", "count"} => pc["button"] \notin {"clamp", "count"}
      PROVE  Counted'
    BY <1>0, <1>1 DEF Counted
<1>2. CASE (MainTask \/ MinusTask \/ ControlTask \/ AlarmTask \/ Finger) /\ TimedNext
    <2>1. held' \in {0, held}
        BY <1>2, QuickStep DEF Quick
    <2>2. CASE MainTask
        <3>1. held' = 0 /\ count' = count
            BY <2>1, <2>2 DEF MainTask, NvsInit, NvsErase, AppMain, CreateTasks, CreateTask, Asleep
        <3>2. pc["button"] = "off"
            BY <2>2 DEF MainTask, NvsInit, NvsErase, AppMain, CreateTasks, CreateTask,
                        BudgetInv, CreatedOnce
        <3>3. PressIn' \in 0 .. 3 * ButtonDelay
            <4>1. BudgetInv' /\ Asleep'
                BY <1>2, NextBudget, StepOfTasks, AsleepKeeps
            <4> QED BY <4>1 DEF PressIn, BudgetInv, TypeOK, Asleep, Tasks
        <3> QED BY <2>1, <3>1, <3>2, <3>3, <1>1
    <2>3. CASE MinusTask \/ ControlTask \/ AlarmTask \/ Finger
        <3>1. /\ pc'["button"] = pc["button"] /\ sleep'["button"] = sleep["button"]
              /\ count' = count
            BY <2>3 DEF MinusTask, MinusLoad, MinusStore, MinusStoreWith, MinusClamp, Load,
                        ControlTask, ControlWait, ControlLoop, ControlCheck, Report, AlarmTask,
                        AlarmLook, AlarmStore, Store, Goto, Delay, Finger, BudgetInv, TypeOK, Tasks
        <3>2. PressIn' = PressIn
            BY <3>1 DEF PressIn
        <3> QED BY <2>1, <3>1, <3>2, <1>1
    <2> QED BY <1>2, <2>2, <2>3
<1>3. CASE ButtonTask /\ TimedNext
    <2>1. held' = held
        BY <1>3, QuickStep, HeldByStores
        DEF ButtonTask, Quick, Asleep, ButtonSample, ButtonLoad, ButtonCount, Load,
            BudgetInv, TypeOK
    <2>2. CASE ButtonSample
        <3>1. pc["button"] = "sample" /\ pc'["button"] \in {"load", "sample"} /\ count' = count
            BY <2>2 DEF ButtonSample, Ready, Delay, BudgetInv, TypeOK, Tasks
        <3>2. CASE gpio = 1
            <4>1. PressIn' = 3 * ButtonDelay /\ held = 0
                BY <2>2, <3>2 DEF ButtonSample, Delay, PressIn, Asleep, BudgetInv, TypeOK, Tasks
            <4> QED BY <2>1, <3>1, <4>1, <1>1
        <3>3. CASE gpio = 0
            <4>1. PressIn' = PressIn
                BY <2>2, <3>3 DEF ButtonSample, Ready, Delay, PressIn, BudgetInv, TypeOK, Tasks
            <4> QED BY <2>1, <3>1, <4>1, <1>1
        <3> QED BY <3>2, <3>3 DEF BudgetInv, TypeOK
    <2>3. CASE ButtonLoad
        <3>1. PressIn' = PressIn /\ count' = count /\ pc["button"] = "load"
            BY <2>3 DEF ButtonLoad, Load, Ready, Goto, PressIn, BudgetInv, TypeOK, Tasks
        <3> QED BY <2>1, <3>1, <1>1
    <2>4. CASE ButtonStore \/ ButtonClamp
        <3>1. pc'["button"] \in {"clamp", "count"} /\ count' = count
            BY <2>4 DEF ButtonStore, ButtonClamp, Store, Goto, BudgetInv, TypeOK, Tasks
        <3> QED BY <2>1, <3>1 DEF Counted
    <2>5. CASE ButtonCount
        <3>1. /\ pc'["button"] = "sample" /\ PressIn' = 2 * ButtonDelay
              /\ count' = IF count > Limit THEN count ELSE count + 1
            BY <2>5 DEF ButtonCount, Ready, Delay, PressIn, BudgetInv, TypeOK, Tasks
        <3>2. ASSUME count <= Limit
              PROVE  held + 2 * ButtonDelay <= Due(count')
            <4>1. Due(count') = Due(count) + 2 * ButtonDelay
                BY <3>1, <3>2, <1>0, DueGrows
            <4> QED BY <4>1, <3>2, <1>0 DEF Counted
        <3>3. ASSUME count' <= Limit
              PROVE  held' <= Due(count') /\ held' + PressIn' <= Due(count')
            <4>1. count <= Limit /\ count' \in Nat /\ Due(count') \in Nat
                BY <3>1, <3>3, <1>0, DueGrows
            <4> QED BY <2>1, <3>1, <3>2, <4>1
        <3> QED BY <3>3 DEF Counted
    <2> QED BY <1>3, <2>2, <2>3, <2>4, <2>5 DEF ButtonTask
<1>4. CASE Tick /\ TimedNext
    <2>1. /\ pc["button"] \in {"sample", "load"} /\ sleep["button"] > 0
          /\ sleep'["button"] = sleep["button"] - 1
          /\ held' \in {0, held, held + 1}
          /\ UNCHANGED <<count, pc>>
        BY <1>4, TickStep DEF Tasks
    <2>2. PressIn' = PressIn - 1 /\ PressIn' \in Nat
        BY <2>1 DEF PressIn, BudgetInv, TypeOK, Tasks
    <2>3. count <= Limit => held + PressIn <= Due(count)
        BY <2>1 DEF Counted
    <2>4. count <= Limit => held' + PressIn' <= Due(count) /\ held' <= Due(count)
        BY <1>0, <2>1, <2>2, <2>3
    <2> QED BY <2>1, <2>4 DEF Counted
<1>5. CASE UNCHANGED timedVars
    BY <1>5, <1>1 DEF timedVars, vars, PressIn
<1> QED BY <1>2, <1>3, <1>4, <1>5 DEF TimedNext, Next

LEMMA ControlledKeeps ==
    ASSUME BudgetInv, Asleep, HeldInv, Counted, Controlled, [TimedNext]_timedVars, Enough
    PROVE  Controlled'
<1> USE ControlAssumption
<1>0. /\ held \in Nat /\ sleep["control"] \in Nat
      /\ SilenceTime \in Nat /\ CompleteTime = SilenceTime + ControlDelay + SuspendDelay
      /\ ControlDelay \in Nat /\ SuspendDelay \in Nat
      /\ pc["control"] \in TaskLabels["control"]
    BY DEF BudgetInv, TypeOK, Asleep, Tasks, SilenceTime, CompleteTime
<1>1. ASSUME held' \in {0, held}, pc'["control"] = pc["control"],
             sleep'["control"] = sleep["control"]
      PROVE  Controlled'
    BY <1>0, <1>1 DEF Controlled
<1>2. held > SilenceTime => buffer_status > 0
    <2>1. held > SilenceTime => Presses(3)
        BY HeldTypes DEF Presses, SilenceTime
    <2> QED BY <2>1, HeldTypes DEF HeldInv, Filled
<1>3. CASE (MinusTask \/ ButtonTask \/ AlarmTask \/ Finger) /\ TimedNext
    <2>1. held' \in {0, held}
        BY <1>3, QuickStep, HeldByStores DEF Quick, ButtonTask
    <2>2. pc'["control"] = pc["control"] /\ sleep'["control"] = sleep["control"]
        BY <1>3 DEF MinusTask, MinusLoad, MinusStore, MinusStoreWith, MinusClamp, ButtonTask,
                    ButtonSample, ButtonLoad, ButtonStore, ButtonClamp, ButtonCount, AlarmTask,
                    AlarmLook, AlarmStore, Goto, Delay, Finger, BudgetInv, TypeOK, Tasks
    <2> QED BY <2>1, <2>2, <1>1
<1>4. CASE MainTask /\ TimedNext
    <2>1. held' = 0
        BY <1>4, QuickStep DEF Quick, MainTask, NvsInit, NvsErase, AppMain, CreateTasks,
                               CreateTask, Asleep
    <2>2. sleep' = sleep /\ (pc'["control"] # pc["control"] => sleep["control"] = 0)
        <3> USE DEF BudgetInv, TypeOK, Tasks
        <3>1. CASE NvsInit \/ NvsErase
            BY <3>1 DEF NvsInit, NvsErase, AppMain
        <3>2. ASSUME NEW task \in Tasks, NEW entry, NEW from, NEW to,
                     CreateTask(task, entry, from, to),
                     task = "control" => from = "create_control"
              PROVE  sleep' = sleep /\ (pc'["control"] # pc["control"] => sleep["control"] = 0)
            <4>1. sleep' = sleep /\ (task # "control" => pc'["control"] = pc["control"])
                BY <3>2 DEF CreateTask
            <4>2. task = "control" => pc["main"] = "create_control" /\ pc["control"] = "off"
                BY <3>2 DEF CreateTask, CreatedOnce
            <4> QED BY <4>1, <4>2 DEF Asleep
        <3> QED BY <1>4, <3>1, <3>2 DEF MainTask, CreateTasks
    <2> QED BY <2>1, <2>2, <1>0 DEF Controlled
<1>5. CASE ControlTask /\ TimedNext
    <2>1. held' = held
        <3>1. gpio' = gpio
            BY <1>5 DEF ControlTask, ControlWait, ControlLoop, ControlCheck, Report
        <3> QED BY <1>5, <3>1, QuickStep DEF Quick, Asleep, BudgetInv, TypeOK
    <2>2. sleep["control"] = 0
        BY <1>5 DEF ControlTask, ControlWait, ControlLoop, ControlCheck, Ready
    <2>3. buffer_status = 0 => held <= SilenceTime
        BY <1>0, <1>2
    <2> USE DEF BudgetInv, TypeOK, Tasks
    <2>4. CASE ControlWait
        BY <2>1, <2>2, <2>3, <2>4, <1>0 DEF ControlWait, Ready, Delay, Controlled
    <2>5. CASE ControlLoop
        BY <2>1, <2>2, <2>3, <2>5, <1>0 DEF ControlLoop, Ready, Goto, Delay, Controlled
    <2>6. CASE ControlCheck
        <3>1. CASE count > Limit
            BY <2>6, <3>1 DEF ControlCheck, Goto, Controlled
        <3>2. CASE count <= Limit
            <4>1. held <= Due(count) /\ Due(count) <= Due(Limit)
                  /\ Due(count) \in Nat /\ Due(Limit) \in Nat
                BY <3>2, DueGrows DEF Counted
            <4>2. held <= SilenceTime + SuspendDelay
                BY <4>1, <1>0 DEF Enough
            <4>3. pc'["control"] = "loop" /\ sleep'["control"] = ControlDelay
                BY <2>6, <3>2 DEF ControlCheck, Delay
            <4> QED BY <2>1, <4>2, <4>3, <1>0 DEF Controlled
        <3> QED BY <3>1, <3>2
    <2> QED BY <1>5, <2>4, <2>5, <2>6 DEF ControlTask
<1>6. CASE Tick /\ TimedNext
    <2>1. /\ pc["main"] = "done" /\ pc' = pc /\ held' \in {0, held, held + 1}
          /\ pc["control"] # "completed" =>
                 pc["control"] \in {"wait", "loop"} /\ sleep["control"] > 0
          /\ sleep'["control"] = IF sleep["control"] > 0 THEN sleep["control"] - 1 ELSE 0
        BY <1>6, TickStep DEF Enough, Paced, Tasks
    <2> QED BY <2>1, <1>0 DEF Controlled
<1>7. CASE UNCHANGED timedVars
    BY <1>7, <1>1 DEF timedVars, vars
<1> QED BY <1>3, <1>4, <1>5, <1>6, <1>7 DEF TimedNext, Next

\* A held button ends in vTaskSuspend: all presses above Limit are counted, and
\* task_control_alarm, silenced, gets to see them, whatever delay it was in.
THEOREM CompletesWhileHeld ==
    ASSUME Enough
    PROVE  TimedSpec => []HeldCompletes
<1>1. TimedInit => Counted /\ Controlled
    <2> SUFFICES ASSUME TimedInit PROVE Counted /\ Controlled
        OBVIOUS
    <2>1. held = 0 /\ count = 0 /\ PressIn = 0 /\ pc["control"] = "off"
        BY DEF TimedInit, Init, Tasks, PressIn
    <2>2. Due(0) \in Nat
        BY DueGrows
    <2> QED BY <2>1, <2>2 DEF Counted, Controlled
<1>2. BudgetInv /\ (Asleep /\ HeldInv) /\ (Counted /\ Controlled) /\ [TimedNext]_timedVars
          => (Counted /\ Controlled)'
    BY CountedKeeps, ControlledKeeps DEF Enough, Paced
<1>3. BudgetInv /\ (Asleep /\ HeldInv) /\ (Counted /\ Controlled) => HeldCompletes
    <2> SUFFICES ASSUME BudgetInv, Asleep, Controlled, held > CompleteTime
                 PROVE  pc["control"] = "completed"
        BY DEF HeldCompletes
    <2>1. /\ held \in Nat /\ sleep["control"] \in Nat /\ pc["control"] \in TaskLabels["control"]
          /\ SilenceTime \in Nat /\ CompleteTime \in Nat
          /\ SilenceTime + ControlDelay <= CompleteTime
        BY ControlAssumption
        DEF BudgetInv, TypeOK, Asleep, Tasks, SilenceTime, CompleteTime
    <2> QED BY <2>1, ControlAssumption DEF Controlled, TaskLabels
<1>4. TimedSpec => [](Asleep /\ HeldInv)
    BY HeldInvariant DEF Enough
<1> QED BY <1>1, <1>2, <1>3, <1>4, TimedBudget, PTL DEF TimedSpec

================================================================================
