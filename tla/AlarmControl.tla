---------------------------- MODULE AlarmControl ----------------------------
(***************************************************************************)
(* The task that decides whether the alarm rings (src/main/main.cpp).      *)
(*                                                                         *)
(* FreeRTOS tasks of equal priority on a dual core chip share two plain    *)
(* ints, without a lock:                                                   *)
(*   minus    takes one unit off buffer_status every second;               *)
(*   button   adds one unit (at most Cap) and counts a press;              *)
(*   control  reports "playing" while buffer_status is 0, "suspended"      *)
(*            otherwise, and completes when it sees more than Limit        *)
(*            presses;                                                     *)
(*   alarm    stores Snooze when the clock chip reports an alarm.          *)
(* app_main creates the first three; its call that creates the fourth is   *)
(* commented out, so that the task is there only when Alarms is TRUE.      *)
(* The accesses race, so each load and each store is a step of its own, in *)
(* the order of the -Og build of the repository (build/main/main.o): the   *)
(* decrement is stored before it is clamped to 0, the increment before it  *)
(* is clamped to Cap, and the clamp tests the register, not the memory.    *)
(*                                                                         *)
(* Time: vTaskDelay puts a task to sleep for a number of Ticks.  With      *)
(* Prompt, time passes only when every task sleeps (the work of a wake-up  *)
(* is far shorter than a Tick); without, a task may be late by any amount. *)
(***************************************************************************)
EXTENDS Integers

CONSTANTS
    Cap,           \* 4: buffer_status never settles above it
    Limit,         \* 20: control completes above this number of presses
    ButtonDelay,   \* 100 ms
    MinusDelay,    \* 1000 ms
    ControlDelay,  \* 1000 ms
    SuspendDelay,  \* 5000 ms
    CheckDelay,    \* 1000 ms
    Snooze,        \* 3: what an alarm stores
    Alarms,        \* is task_check_alarm running?
    Prompt         \* do ready tasks run before time passes?

ASSUME ControlAssumption ==
    /\ Cap \in Nat \ {0}
    /\ Limit \in Nat
    /\ ButtonDelay \in Nat \ {0}
    /\ MinusDelay \in Nat \ {0}
    /\ ControlDelay \in Nat \ {0}
    /\ SuspendDelay \in Nat \ {0}
    /\ CheckDelay \in Nat \ {0}
    /\ Snooze \in 0 .. Cap
    /\ Alarms \in BOOLEAN
    /\ Prompt \in BOOLEAN

VARIABLES
    buffer_status, \* the shared budget of suspended seconds
    count,         \* presses seen; saturates at Limit + 1, control only
                   \* asks whether it exceeds Limit
    gpio,          \* level of GPIO_INPUT_IO_0, 0 while the button is down
    pc,            \* where each task is
    reg,           \* the register holding buffer_status in an update
    sleep,         \* Ticks until the task is ready again
    report         \* what control printed last

vars == <<buffer_status, count, gpio, pc, reg, sleep, report>>

Tasks   == {"minus", "control", "button", "alarm"}
Writers == {"minus", "button"}

Init ==
    /\ buffer_status = 0
    /\ count = 0
    /\ gpio = 1
    /\ pc = [t \in Tasks \cup {"main"} |-> IF t = "main" THEN "nvs" ELSE "off"]
    /\ reg = [t \in Writers |-> 0]
    /\ sleep = [t \in Tasks |-> 0]
    /\ report = "none"

-----------------------------------------------------------------------------
(* app_main.  An error of ESP_ERROR_CHECK aborts, and the chip boots again. *)

AppMain(from, to) == pc["main"] = from /\ pc' = [pc EXCEPT !["main"] = to]

NvsInit ==
    /\ \E to \in {"create_alarm", "erase"} : AppMain("nvs", to)
    /\ UNCHANGED <<buffer_status, count, gpio, reg, sleep, report>>

\* ESP_ERR_NVS_NO_FREE_PAGES: erase and initialise again; a second error aborts
NvsErase ==
    /\ \E to \in {"create_alarm", "nvs"} : AppMain("erase", to)
    /\ UNCHANGED <<buffer_status, count, gpio, reg, sleep, report>>

CreateTask(task, entry, from, to) ==
    /\ pc["main"] = from
    /\ pc' = [pc EXCEPT ![task] = entry, !["main"] = to]
    /\ UNCHANGED <<buffer_status, count, gpio, reg, sleep, report>>

CreateTasks ==
    \/ CreateTask("alarm", IF Alarms THEN "look" ELSE "off", "create_alarm", "create_minus")
    \/ CreateTask("minus", "load", "create_minus", "create_control")
    \/ CreateTask("control", "wait", "create_control", "create_button")
    \/ CreateTask("button", "sample", "create_button", "done")

MainTask == NvsInit \/ NvsErase \/ CreateTasks

-----------------------------------------------------------------------------
Ready(t, at) == pc[t] = at /\ sleep[t] = 0

\* t goes on at once at label `to'
Goto(t, to) == pc' = [pc EXCEPT ![t] = to] /\ UNCHANGED sleep

\* t calls vTaskDelay and goes on at label `to' when it is over
Delay(t, ticks, to) ==
    pc' = [pc EXCEPT ![t] = to] /\ sleep' = [sleep EXCEPT ![t] = ticks]

Load(t) ==
    /\ reg' = [reg EXCEPT ![t] = buffer_status]
    /\ UNCHANGED <<buffer_status, count, gpio, report>>

Store(value) ==
    /\ buffer_status' = value
    /\ UNCHANGED <<count, gpio, reg, report>>

\* task_minus_bufer: buffer_status--; if (buffer_status < 0) buffer_status = 0

\* (mutant) the compiler keeps the int, which is not volatile, in a register
MinusLoadCached ==
    /\ Ready("minus", "load")
    /\ Goto("minus", "store")
    /\ UNCHANGED <<buffer_status, count, gpio, reg, report>>

MinusLoad == Ready("minus", "load") /\ Load("minus") /\ Goto("minus", "store")

\* (mutant) the clamp is gone
MinusStoreUnclamped ==
    /\ Ready("minus", "store")
    /\ Store(reg["minus"] - 1)
    /\ Delay("minus", MinusDelay, "load")

MinusStoreWith(delay) ==
    /\ Ready("minus", "store")
    /\ Store(reg["minus"] - 1)
    /\ IF reg["minus"] - 1 < 0 THEN Goto("minus", "clamp")
                               ELSE Delay("minus", delay, "load")

\* (mutants) the delay of another task
MinusStoreSlow == MinusStoreWith(SuspendDelay)
MinusStoreFast == MinusStoreWith(ButtonDelay)

MinusStore == MinusStoreWith(MinusDelay)

MinusClamp ==
    /\ Ready("minus", "clamp")
    /\ Store(0)
    /\ Delay("minus", MinusDelay, "load")

MinusTask == MinusLoad \/ MinusStore \/ MinusClamp

-----------------------------------------------------------------------------
(* task_simalate_button *)

\* (mutant) a second, not 100 ms, before the press is counted
ButtonSampleSlow ==
    /\ Ready("button", "sample")
    /\ IF gpio = 0 THEN Delay("button", MinusDelay, "load")
                   ELSE Delay("button", 2 * ButtonDelay, "sample")
    /\ UNCHANGED <<buffer_status, count, gpio, reg, report>>

ButtonSample ==
    /\ Ready("button", "sample")
    /\ IF gpio = 0 THEN Delay("button", ButtonDelay, "load")
                   ELSE Delay("button", 2 * ButtonDelay, "sample")
    /\ UNCHANGED <<buffer_status, count, gpio, reg, report>>

ButtonLoad == Ready("button", "load") /\ Load("button") /\ Goto("button", "store")

\* (mutant) the cap is tested on the value before the increment
ButtonStoreLateCap ==
    /\ Ready("button", "store")
    /\ Store(reg["button"] + 1)
    /\ Goto("button", IF reg["button"] > Cap THEN "clamp" ELSE "count")

ButtonStore ==
    /\ Ready("button", "store")
    /\ Store(reg["button"] + 1)
    /\ Goto("button", IF reg["button"] + 1 > Cap THEN "clamp" ELSE "count")

ButtonClamp ==
    /\ Ready("button", "clamp")
    /\ Store(Cap)
    /\ Goto("button", "count")

ButtonCount ==
    /\ Ready("button", "count")
    /\ count' = IF count > Limit THEN count ELSE count + 1
    /\ Delay("button", ButtonDelay, "sample")
    /\ UNCHANGED <<buffer_status, gpio, reg, report>>

ButtonTask ==
    ButtonSample \/ ButtonLoad \/ ButtonStore \/ ButtonClamp \/ ButtonCount

-----------------------------------------------------------------------------
(* task_control_alarm.  Each step reads buffer_status, or count, once. *)

Report(verdict) ==
    report' = verdict /\ UNCHANGED <<buffer_status, count, gpio, reg>>

ControlWait ==
    /\ Ready("control", "wait")
    /\ IF buffer_status = 0
       THEN Report("playing") /\ Delay("control", ControlDelay, "wait")
       ELSE Report("suspended") /\ Delay("control", SuspendDelay, "loop")

ControlLoop ==
    /\ Ready("control", "loop")
    /\ IF buffer_status = 0
       THEN Report("playing") /\ Delay("control", ControlDelay, "loop")
       ELSE Report("suspended") /\ Goto("control", "check")

\* (mutant) off by one
ControlCheckEarly ==
    /\ Ready("control", "check")
    /\ IF count >= Limit THEN Goto("control", "completed")
                         ELSE Delay("control", ControlDelay, "loop")
    /\ UNCHANGED <<buffer_status, count, gpio, reg, report>>

\* vTaskSuspend(NULL): nothing in the program resumes the task
ControlCheck ==
    /\ Ready("control", "check")
    /\ IF count > Limit THEN Goto("control", "completed")
                        ELSE Delay("control", ControlDelay, "loop")
    /\ UNCHANGED <<buffer_status, count, gpio, reg, report>>

ControlTask == ControlWait \/ ControlLoop \/ ControlCheck

-----------------------------------------------------------------------------
(* task_check_alarm, as far as it concerns the budget: RtcAlarm has the rest. *)

\* isAlarm1(true), whatever the chip says
AlarmLook ==
    /\ Ready("alarm", "look")
    /\ Goto("alarm", "store") \/ Delay("alarm", CheckDelay, "look")
    /\ UNCHANGED <<buffer_status, count, gpio, reg, report>>

\* buffer_status = 3
AlarmStore ==
    /\ Ready("alarm", "store")
    /\ Store(Snooze)
    /\ Delay("alarm", CheckDelay, "look")

AlarmTask == AlarmLook \/ AlarmStore

-----------------------------------------------------------------------------
(* The environment: the finger on the button, and time. *)

Finger ==
    /\ gpio' = 1 - gpio
    /\ UNCHANGED <<buffer_status, count, pc, reg, sleep, report>>

Blocked(t) == pc[t] \in {"off", "completed"} \/ sleep[t] > 0

Tick ==
    /\ \E t \in Tasks : sleep[t] > 0
    /\ Prompt => pc["main"] = "done" /\ \A t \in Tasks : Blocked(t)
    /\ sleep' = [t \in Tasks |-> IF sleep[t] > 0 THEN sleep[t] - 1 ELSE 0]
    /\ UNCHANGED <<buffer_status, count, gpio, pc, reg, report>>

Next ==
    MainTask \/ MinusTask \/ ButtonTask \/ ControlTask \/ AlarmTask \/ Finger \/ Tick

Spec == Init /\ [][Next]_vars

-----------------------------------------------------------------------------
(* Properties *)

TaskLabels == [
    main    |-> {"nvs", "erase", "create_alarm", "create_minus", "create_control",
                 "create_button", "done"},
    minus   |-> {"off", "load", "store", "clamp"},
    button  |-> {"off", "sample", "load", "store", "clamp", "count"},
    control |-> {"off", "wait", "loop", "check", "completed"},
    alarm   |-> {"off", "look", "store"}]

\* Every variable has its type; in particular the shared int never leaves
\* -1..Cap+1, whatever the interleaving of the two unlocked updates.
TypeOK ==
    /\ buffer_status \in -1 .. Cap + 1
    /\ count \in 0 .. Limit + 1
    /\ gpio \in {0, 1}
    /\ DOMAIN pc = Tasks \cup {"main"}
    /\ \A t \in Tasks \cup {"main"} : pc[t] \in TaskLabels[t]
    /\ reg \in [Writers -> -1 .. Cap + 1]
    /\ sleep \in [Tasks -> Nat]
    /\ report \in {"none", "playing", "suspended"}

\* -1 is in memory only until task_minus_bufer clamps it, and the task does so
\* before it sleeps; the same for Cap + 1 and task_simalate_button.
UnderflowIsTransient ==
    buffer_status = -1 => pc["minus"] = "clamp" /\ sleep["minus"] = 0

OverflowIsTransient ==
    buffer_status = Cap + 1 => pc["button"] = "clamp" /\ sleep["button"] = 0

\* What a task loaded is what its update can cope with: minus never starts
\* from an underflow of its own, button never from an overflow of its own.
RegistersSettled ==
    /\ reg["minus"] \in 0 .. Cap + 1
    /\ reg["button"] \in -1 .. Cap

\* app_main creates each task once.
CreatedOnce ==
    /\ pc["main"] \in {"nvs", "erase", "create_alarm"} => pc["alarm"] = "off"
    /\ pc["main"] \notin {"create_control", "create_button", "done"} => pc["minus"] = "off"
    /\ pc["main"] \notin {"create_button", "done"} => pc["control"] = "off"
    /\ pc["main"] # "done" => pc["button"] = "off"

BudgetInv ==
    TypeOK /\ CreatedOnce /\ UnderflowIsTransient /\ OverflowIsTransient /\ RegistersSettled

\* While both writers sleep the budget is one the program can mean, 0..Cap:
\* no interleaving of the unlocked read-modify-writes of task_minus_bufer and
\* task_simalate_button, and the store of an alarm, leaves -1 or Cap + 1 behind.
SettledInRange ==
    (\A t \in Writers : sleep[t] > 0) => buffer_status \in 0 .. Cap

\* task_control_alarm calls the alarm suspended only when some of the budget is
\* left, or it caught task_minus_bufer between its store and its clamp.
SuspendedVerdict == ControlTask /\ report' = "suspended" /\ pc["control"] # "check"

SuspendedIsJustified ==
    [][SuspendedVerdict => buffer_status > 0 \/ pc["minus"] = "clamp"]_vars

\* What the alarm promises its user: see AlarmSession.
SessionPhase ==
    CASE pc["control"] \in {"off", "wait"} -> "ringing"
      [] pc["control"] = "completed"       -> "completed"
      [] OTHER                             -> "deferred"

Session == INSTANCE AlarmSession WITH presses <- count, phase <- SessionPhase

SessionSpec == Session!Spec

=============================================================================
