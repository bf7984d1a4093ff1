---------------------------- MODULE MCAlarmTimed ----------------------------
(***************************************************************************)
(* AlarmControl on a clock: how fast the budget drains once the button is  *)
(* left alone, and how fast a held button completes the alarm.             *)
(***************************************************************************)
EXTENDS AlarmControl

VARIABLES
    idle, \* Ticks since task_simalate_button last wrote buffer_status
    held  \* Ticks for which the button has been down

timedVars == <<vars, idle, held>>

DrainTime    == Cap * MinusDelay
SilenceTime  == 7 * ButtonDelay      \* the first press, within 3; one that is lost; one more
CompleteTime == SilenceTime + ControlDelay + SuspendDelay

\* a stopwatch that stops one Tick after its limit
Advance(watch, limit) == IF watch > limit THEN watch ELSE watch + 1

TimedInit == Init /\ idle = 0 /\ held = 0

TimedNext ==
    /\ Next
    /\ idle' = IF ButtonStore \/ ButtonClamp THEN 0
               ELSE IF Tick THEN Advance(idle, DrainTime) ELSE idle
    /\ held' = IF gpio' = 1 THEN 0
               ELSE IF Tick THEN Advance(held, CompleteTime) ELSE held

TimedSpec == TimedInit /\ [][TimedNext]_timedVars

\* A budget left alone is used up in Cap periods of task_minus_bufer, though the
\* two tasks lose each other's updates: no press outlives its Cap seconds.
LeftAloneDrains == idle > DrainTime => buffer_status <= 0

\* A held button completes the alarm: its presses outrun the drain and any
\* presses lost to it, and task_control_alarm sees both the budget and the count
\* at the end of the delay it is in, which may be the one of five seconds.
HeldCompletes == held > CompleteTime => pc["control"] = "completed"

\* While the button is held, the ring is not heard, once there was time for a first
\* press, for one that task_minus_bufer overwrites because the two store in the same
\* Tick, and for one more.
HeldIsSilent == held > SilenceTime => buffer_status > 0

=============================================================================
