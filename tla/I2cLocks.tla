------------------------------- MODULE I2cLocks -------------------------------
(***************************************************************************)
(* The locks around a transfer: the lock of the bus (I2C_MUTEX_LOCK) and   *)
(* the lock of the list of callbacks that a change of the CPU clock goes   *)
(* through (esp32-hal-cpu.c).  The first transfer installs the interrupt   *)
(* handler and the callback; i2cInit, called again to clear a busy bus,    *)
(* removes them.                                                           *)
(*                                                                         *)
(* Two tasks: the client of TwoWire, and one that changes the clock.       *)
(***************************************************************************)
EXTENDS TwoWire

CONSTANTS
    Others,     \* other peripherals have callbacks as well
    MaxChanges  \* bound: changes of the clock

ASSUME LocksAssumption == Others \in BOOLEAN /\ MaxChanges \in Nat

VARIABLES
    i2cOwner, apbOwner, \* none, client or clock
    installed,          \* the bus has its handler and its callback
    at,                 \* where the client is in the driver
    attempt,            \* of i2cProcQueue
    ck,                 \* where the other task is in setCpuFrequencyMhz
    slow,               \* the new clock is below 3 MHz
    changes,            \* bound
    announced           \* history: the callback has locked the bus for this change

lockVars == <<i2cOwner, apbOwner, installed, at, attempt, ck, slow, changes, announced>>
vars     == <<wireVars, lockVars>>

Init ==
    /\ WireInit
    /\ i2cOwner = "none" /\ apbOwner = "none"
    /\ installed = FALSE
    /\ at = "out" /\ attempt = 1
    /\ ck = "idle" /\ slow = FALSE /\ changes = 0 /\ announced = FALSE

Clock == <<ck, slow, changes, announced>>

-----------------------------------------------------------------------------
(* The client in i2cWrite or i2cRead. *)

BusyReported ==
    /\ result' = [err |-> "BUSY", count |-> 0] /\ pc' = "returned"
    /\ UNCHANGED <<tx, rx, txBuffer, rxBuffer, transmitting, dq, call, wrote, blame, skewed>>

\* the lines are held: seen before the lock is taken
Busy ==
    /\ pc = "called" /\ at = "out"
    /\ \/ attempt = 1 /\ at' = "init" /\ UNCHANGED <<wireVars, attempt>>
       \/ attempt = 2 /\ attempt' = 1 /\ BusyReported /\ UNCHANGED at
    /\ UNCHANGED <<i2cOwner, apbOwner, installed, Clock>>

Enter ==
    /\ pc = "called" /\ at = "out" /\ i2cOwner = "none"
    /\ i2cOwner' = "client"
    /\ at' = IF installed THEN "run" ELSE "install"
    /\ UNCHANGED <<wireVars, apbOwner, installed, attempt, Clock>>

\* addApbChangeCallback, inside the bus lock
Install ==
    /\ at = "install" /\ apbOwner = "none"
    /\ installed' = TRUE
    /\ at' = "run"
    /\ UNCHANGED <<wireVars, i2cOwner, apbOwner, attempt, Clock>>

\* the transfer, and the end of i2cProcQueue: one that times out with no byte moved counts
\* as a busy bus
Run ==
    /\ at = "run"
    /\ i2cOwner' = "none"
    /\ \/ Transfer /\ pc' = "returned" /\ at' = "out" /\ attempt' = 1
       \/ attempt = 1 /\ at' = "init" /\ UNCHANGED <<wireVars, attempt>>
       \/ attempt = 2 /\ at' = "out" /\ attempt' = 1 /\ BusyReported
    /\ UNCHANGED <<apbOwner, installed, Clock>>

\* i2cInit: the bus lock, and inside it the removal of handler and callback
InitLock ==
    /\ at = "init" /\ i2cOwner = "none"
    /\ i2cOwner' = "client"
    /\ at' = IF installed THEN "remove" ELSE "initialized"
    /\ UNCHANGED <<wireVars, apbOwner, installed, attempt, Clock>>

Remove ==
    /\ at = "remove" /\ apbOwner = "none"
    /\ installed' = FALSE
    /\ at' = "initialized"
    /\ UNCHANGED <<wireVars, i2cOwner, apbOwner, attempt, Clock>>

InitUnlock ==
    /\ at = "initialized"
    /\ i2cOwner' = "none"
    /\ at' = "frequency"
    /\ UNCHANGED <<wireVars, apbOwner, installed, attempt, Clock>>

\* i2cSetFrequency takes the lock again; the lines may still be held
InitFrequency ==
    /\ at = "frequency" /\ i2cOwner = "none"
    /\ at' = "out"
    /\ \/ attempt' = 2 /\ UNCHANGED wireVars
       \/ attempt' = 1 /\ BusyReported
    /\ UNCHANGED <<i2cOwner, apbOwner, installed, Clock>>

\* all that the driver does of itself; a busy bus is the lines' doing
Driver == Enter \/ Install \/ Run \/ InitLock \/ Remove \/ InitUnlock \/ InitFrequency

Client == Calls \/ Finish

-----------------------------------------------------------------------------
(* setCpuFrequencyMhz in the other task. *)

User == <<wireVars, installed, at, attempt>>

\* the list is looked at without its lock
HasCallbacks == Others \/ installed

ClockStart ==
    /\ ck = "idle" /\ changes < MaxChanges
    /\ changes' = changes + 1
    /\ slow' \in BOOLEAN
    /\ announced' = FALSE
    /\ ck' = IF HasCallbacks THEN "before" ELSE "change"
    /\ UNCHANGED <<User, i2cOwner, apbOwner>>

\* triggerApbChangeCallback
TakeList ==
    /\ ck \in {"before", "after"} /\ apbOwner = "none"
    /\ apbOwner' = "clock"
    /\ ck' = IF ck = "before" THEN "walk before" ELSE "walk after"
    /\ UNCHANGED <<User, i2cOwner, slow, changes, announced>>

\* (mutant) the bus is not locked before the change
WalkBeforeFree ==
    /\ ck = "walk before"
    /\ announced' = (installed /\ ~slow)
    /\ apbOwner' = "none"
    /\ ck' = "change"
    /\ UNCHANGED <<User, i2cOwner, slow, changes>>

\* i2cApbChangeCallback, before: a clock that is too slow is let pass without the lock
WalkBefore ==
    /\ ck = "walk before"
    /\ IF installed /\ ~slow
       THEN i2cOwner = "none" /\ i2cOwner' = "clock" /\ announced' = TRUE
       ELSE UNCHANGED <<i2cOwner, announced>>
    /\ apbOwner' = "none"
    /\ ck' = "change"
    /\ UNCHANGED <<User, slow, changes>>

Change ==
    /\ ck = "change"
    /\ ck' = IF HasCallbacks THEN "after" ELSE "idle"
    /\ UNCHANGED <<User, i2cOwner, apbOwner, slow, changes, announced>>

\* (mutant) a bus that was locked before the change stays locked
WalkAfterKept ==
    /\ ck = "walk after"
    /\ installed => i2cOwner \in {"none", "clock"}
    /\ apbOwner' = "none"
    /\ ck' = "idle"
    /\ UNCHANGED <<User, i2cOwner, slow, changes, announced>>

\* after: i2cSetFrequency takes the lock once more, then it is given back, which does
\* nothing when this task does not hold it
WalkAfter ==
    /\ ck = "walk after"
    /\ IF installed
       THEN i2cOwner \in {"none", "clock"} /\ i2cOwner' = "none"
       ELSE UNCHANGED i2cOwner
    /\ apbOwner' = "none"
    /\ ck' = "idle"
    /\ UNCHANGED <<User, slow, changes, announced>>

ClockTask == ClockStart \/ TakeList \/ WalkBefore \/ Change \/ WalkAfter

Next == ((Client /\ UNCHANGED lockVars) \/ Busy \/ Driver) \/ ClockTask

Spec == Init /\ [][Next]_vars

-----------------------------------------------------------------------------
(* Properties *)

\* Each lock is held just where the code has taken it and not yet given it back.
LocksOK ==
    /\ i2cOwner = "client" <=> at \in {"install", "run", "remove", "initialized"}
    /\ i2cOwner = "clock" <=> announced /\ ck \in {"change", "after", "walk after"}
    /\ apbOwner = "clock" <=> ck \in {"walk before", "walk after"}

\* The clock does not change under a transfer ("lock will spin until current transaction
\* is completed"), but for a clock that is too slow and for a transfer that has installed
\* the callback after the others were told (i2cApbChangeCallback).
ClockSteady == [][Change /\ at = "run" => slow \/ ~announced]_vars

\* the two tasks wait for each other: the callback for the bus lock, i2cInit for the list
Embrace == at = "remove" /\ ck \in {"walk before", "walk after"}

\* While a call or a change of the clock is under way, one of the tasks can go on, also
\* when the lines are not held, unless i2cInit, called to clear the bus, removes the callback that the change is
\* waiting in (i2cReleaseISR, triggerApbChangeCallback).
StuckOnlyInEmbrace ==
    pc # "ready" \/ ck # "idle" =>
        \/ Embrace
        \/ ENABLED (Driver \/ TakeList \/ WalkBefore \/ Change \/ WalkAfter)
        \/ pc = "returned"

=============================================================================
