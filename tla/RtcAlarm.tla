------------------------------ MODULE RtcAlarm ------------------------------
(***************************************************************************)
(* The alarm of the DS3231 clock chip as the program uses it: init_alarm   *)
(* and task_check_alarm of src/main/main.cpp on top of the register        *)
(* operations of src/components/DS3231/DS3231.cpp.                         *)
(*                                                                         *)
(* The chip runs on its own: it raises an alarm flag whenever the time     *)
(* matches its alarm registers, also between the read and the write of a   *)
(* driver operation, each of which is an I2C transaction of its own.  A    *)
(* write of 0 clears a flag, a write of 1 leaves it as it is.  Any         *)
(* transaction may fail, and nobody looks at the error: a failed write     *)
(* leaves the register as it was; a failed read leaves the caller in       *)
(* `while (!Wire.available())' for ever; and when only the write of the    *)
(* register's number fails, another register is read.                      *)
(***************************************************************************)
EXTENDS Naturals

VARIABLES
    STATUS,        \* the flags raised: A1F and A2F
    CONTROL,       \* the bits set, of A1IE, A2IE, INTCN and EOSC
    alarm_1,       \* what the alarm 1 registers hold: the time of an earlier
                   \* "old" session, the "setting" of the user, or "garbage"
    nvs,           \* what the flash holds of the setting
    pc,            \* the operation of the program under way ...
    phase,         \* ... and whether its read or its write is next
    value,         \* the register value it has read
    buffer_status, \* shared with the tasks of AlarmControl
    owed,          \* history: alarm 1 was raised while task_check_alarm looks
                   \* for it, and is not yet reported
    failed         \* history: a transaction has failed

vars == <<STATUS, CONTROL, alarm_1, nvs, pc, phase, value, buffer_status, owed, failed>>

Flags == {"A1F", "A2F"}
Bits  == {"A1IE", "A2IE", "INTCN", "EOSC"}

Init ==
    /\ STATUS \in SUBSET Flags      \* the chip is battery-backed
    /\ CONTROL \in SUBSET Bits
    /\ alarm_1 = "old"
    /\ nvs \in {"closed", "setting", "missing"}
    /\ pc = "begin" /\ phase = "read" /\ value = {}
    /\ buffer_status = 0
    /\ owed = FALSE
    /\ failed = FALSE

-----------------------------------------------------------------------------
(* One register operation: readRegister8, a change of bits, writeRegister8. *)

Works == UNCHANGED failed
Fails == failed' = TRUE

\* bits are those of the register that the operation knows
ReadRegister8(at, register, bits) ==
    /\ pc = at /\ phase = "read"
    /\ \/ Works /\ phase' = "write" /\ value' = register
       \/ Fails /\ phase' = "write" /\ value' \in SUBSET bits
       \/ Fails /\ phase' = "hung" /\ UNCHANGED value

\* the write that ends the operation; the program goes on at `to'
WriteDone(at, to) ==
    /\ pc = at /\ phase = "write"
    /\ pc' = to /\ phase' = "read" /\ value' = {}

Read(at, register, bits) ==
    /\ ReadRegister8(at, register, bits)
    /\ UNCHANGED <<STATUS, CONTROL, alarm_1, nvs, pc, buffer_status, owed>>

WriteControl(at, new, to) ==
    /\ WriteDone(at, to)
    /\ \/ Works /\ CONTROL' = new
       \/ Fails /\ UNCHANGED CONTROL
    /\ UNCHANGED <<STATUS, alarm_1, nvs, buffer_status, owed>>

\* a flag is cleared by a 0 and kept by a 1
WriteStatus(at, new, to) ==
    /\ WriteDone(at, to)
    /\ \/ Works /\ STATUS' = STATUS \cap new
       \/ Fails /\ UNCHANGED STATUS
    /\ UNCHANGED <<CONTROL, alarm_1, nvs, buffer_status, owed>>

\* setBattery(true, false): the oscillator on, the square wave off, and with it
\* the alarm interrupt
SetBattery(at, to) ==
    Read(at, CONTROL, Bits) \/ WriteControl(at, value \ {"INTCN", "EOSC"}, to)

\* (mutant) the parameter is ignored
ArmAlarm1Always(at, armed, to) ==
    Read(at, CONTROL, Bits) \/ WriteControl(at, value \cup {"A1IE"}, to)

ArmAlarm1(at, armed, to) ==
    Read(at, CONTROL, Bits) \/
    WriteControl(at, IF armed THEN value \cup {"A1IE"} ELSE value \ {"A1IE"}, to)

\* (mutant) the whole register is cleared
ClearAlarm1All(at, to) ==
    Read(at, STATUS, Flags) \/ WriteStatus(at, {}, to)

ClearAlarm1(at, to) ==
    Read(at, STATUS, Flags) \/ WriteStatus(at, value \ {"A1F"}, to)

-----------------------------------------------------------------------------
(* init_alarm *)

Begin         == SetBattery("begin", "disarm")
Disarm        == ArmAlarm1("disarm", FALSE, "clear")
ClearAtInit   == ClearAlarm1("clear", "nvs_open")

\* Without the string, nvs_get_str sets neither the size nor the text: calloc of
\* whatever the stack held may fail, and the null string reboots the program; or
\* sscanf reads nothing, and the alarm is set to whatever the stack held.
NvsOpen ==
    /\ pc = "nvs_open"
    /\ \/ nvs = "closed" /\ pc' = "created"
       \/ nvs # "closed" /\ pc' = "set_alarm"
       \/ nvs = "missing" /\ pc' = "begin"
    /\ UNCHANGED <<STATUS, CONTROL, alarm_1, nvs, phase, value, buffer_status, owed, failed>>

\* setAlarm1 writes the registers, arms, and clears
SetAlarm1 ==
    /\ pc = "set_alarm"
    /\ \/ Works /\ alarm_1' = IF nvs = "setting" THEN "setting" ELSE "garbage"
       \/ Fails /\ alarm_1' \in {alarm_1, "garbage"}
    /\ pc' = "arm"
    /\ UNCHANGED <<STATUS, CONTROL, nvs, phase, value, buffer_status, owed>>

Arm           == ArmAlarm1("arm", TRUE, "clear_set")
ClearAfterSet == ClearAlarm1("clear_set", "created")

InitAlarm == Begin \/ Disarm \/ ClearAtInit \/ NvsOpen \/ SetAlarm1 \/ Arm \/ ClearAfterSet

-----------------------------------------------------------------------------
(* task_check_alarm *)

ClearAtStart == ClearAlarm1("created", "get_time")

\* (mutant) the task clears the alarm in its loop
GetDateTimeAndClear ==
    /\ pc = "get_time" /\ phase = "read"
    /\ pc' = "created"
    /\ UNCHANGED <<STATUS, CONTROL, alarm_1, nvs, phase, value, buffer_status, owed, failed>>

\* getDateTime and the display; it reads the chip and changes nothing of it
GetDateTime ==
    /\ pc = "get_time" /\ phase = "read"
    /\ \/ Works /\ pc' = "is_alarm" /\ UNCHANGED phase
       \/ Fails /\ phase' = "hung" /\ UNCHANGED pc
    /\ UNCHANGED <<STATUS, CONTROL, alarm_1, nvs, value, buffer_status, owed>>

\* isAlarm1(true): the flag is read, and cleared by an operation that reads again
IsAlarm1 ==
    /\ pc = "is_alarm" /\ phase = "read"
    /\ \/ /\ Works
          /\ pc' = IF "A1F" \in STATUS THEN "clear_alarm" ELSE "get_time"
          /\ UNCHANGED phase
       \/ Fails /\ pc' \in {"clear_alarm", "get_time"} /\ UNCHANGED phase
       \/ Fails /\ phase' = "hung" /\ UNCHANGED pc
    /\ UNCHANGED <<STATUS, CONTROL, alarm_1, nvs, value, buffer_status, owed>>

ClearWhenRaised == ClearAlarm1("clear_alarm", "triggered")

\* buffer_status = 3; an alarm raised since the clear is owed a report of its own
AlarmTriggered ==
    /\ pc = "triggered"
    /\ pc' = "get_time"
    /\ buffer_status' = 3
    /\ owed' = ("A1F" \in STATUS)
    /\ UNCHANGED <<STATUS, CONTROL, alarm_1, nvs, phase, value, failed>>

CheckAlarm ==
    ClearAtStart \/ GetDateTime \/ IsAlarm1 \/ ClearWhenRaised \/ AlarmTriggered

-----------------------------------------------------------------------------
(* The chip, and the tasks that use up the budget. *)

InLoop == pc \in {"get_time", "is_alarm", "clear_alarm", "triggered"}

Match1 ==
    /\ STATUS' = STATUS \cup {"A1F"}
    /\ owed' = (owed \/ (InLoop /\ "A1F" \notin STATUS))
    /\ UNCHANGED <<CONTROL, alarm_1, nvs, pc, phase, value, buffer_status, failed>>

Match2 ==
    /\ STATUS' = STATUS \cup {"A2F"}
    /\ UNCHANGED <<CONTROL, alarm_1, nvs, pc, phase, value, buffer_status, owed, failed>>

Drained ==
    /\ buffer_status # 0
    /\ buffer_status' = 0
    /\ UNCHANGED <<STATUS, CONTROL, alarm_1, nvs, pc, phase, value, owed, failed>>

Next == InitAlarm \/ CheckAlarm \/ Match1 \/ Match2 \/ Drained

Spec == Init /\ [][Next]_vars

FairSpec == Spec /\ WF_vars(InitAlarm) /\ WF_vars(CheckAlarm)

-----------------------------------------------------------------------------
(* Properties *)

\* Every variable keeps its type.
TypeOK ==
    /\ STATUS \in SUBSET Flags
    /\ CONTROL \in SUBSET Bits
    /\ alarm_1 \in {"old", "setting", "garbage"}
    /\ nvs \in {"closed", "setting", "missing"}
    /\ pc \in {"begin", "disarm", "clear", "nvs_open", "set_alarm", "arm", "clear_set",
               "created", "get_time", "is_alarm", "clear_alarm", "triggered"}
    /\ phase \in {"read", "write", "hung"}
    /\ value \in SUBSET (Flags \cup Bits)
    /\ buffer_status \in {0, 3}
    /\ owed \in BOOLEAN /\ failed \in BOOLEAN

\* isAlarm1 reads the flag, and clearAlarm1 reads it again before it writes: an
\* alarm raised at any point of the loop of task_check_alarm is still in the chip
\* or about to be reported, whatever the bus does.
NoAlarmLost == owed => "A1F" \in STATUS \/ pc = "triggered"

\* clearAlarm1 writes the other flags back as it read them: it loses alarm 2 only
\* when it did not read it, because the chip raised it between the transactions
\* or another register was read.
OtherFlagLostOnlyInWindow ==
    [][("A2F" \in STATUS /\ "A2F" \notin STATUS') =>
            phase = "write" /\ "A2F" \notin value]_vars

\* What init_alarm leaves armed is what it has written, never the alarm of an
\* earlier session that the chip's battery kept, unless a transaction failed.
StaleNeverArmed == InLoop /\ "A1IE" \in CONTROL /\ ~failed => alarm_1 # "old"

\* Unless a transaction fails, every alarm is reported: the task gets to its store
\* to buffer_status, which leaves nothing owed but an alarm raised meanwhile.
AlarmReported ==
    /\ owed ~> pc = "triggered" \/ failed
    /\ pc = "triggered" ~> buffer_status = 3

=============================================================================
