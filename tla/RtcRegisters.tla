---------------------------- MODULE RtcRegisters ----------------------------
(***************************************************************************)
(* The registers of the DS3231 beside its calendar: control, status, the   *)
(* two alarms and the temperature, as src/components/DS3231/DS3231.cpp     *)
(* encodes and decodes them.  Here an operation is a step: what the chip   *)
(* may do between its read and its write is the subject of RtcAlarm.       *)
(*                                                                         *)
(* The registers are independent of each other but for the two bits that   *)
(* setAlarm1 and setAlarm2 change, so that a behaviour uses one of the     *)
(* four parts of the interface.                                            *)
(***************************************************************************)
EXTENDS RtcCalendar

CONSTANTS
    Days, Hours, Sixties,   \* the days, hours, and minutes and seconds of alarms
    Temperatures            \* in quarters of a degree, of ten bits

ASSUME ClockAssumption ==
    /\ Days \subseteq 0 .. 31 /\ Hours \subseteq 0 .. 23 /\ Sixties \subseteq 0 .. 59
    /\ Temperatures \subseteq -512 .. 511

VARIABLES
    part,          \* "settings", "alarm1", "alarm2" or "temperature"
    control, status,
    alarm,         \* the registers of the alarm that is used
    temperature,   \* the sensor's
    converting,    \* forceConversion waits for the end of a conversion
    set            \* history: what was last set, and whether the clock since the alarm

rtcVars == <<part, control, status, alarm, temperature, converting, set>>

\* the control register
A1IE == 1
A2IE == 2
INTCN == 4
RS == 24
CONV == 32
BBSQW == 64
EOSC == 128

\* the status register
A1F == 1
A2F == 2
EN32kHz == 8
OSF == 128

\* the bit of weight w, and b with this bit set or cleared: b | w, b & ~w
Bit(b, w) == (b \div w) % 2
With(b, w, bit) == b + (bit - Bit(b, w)) * w
One(on) == IF on THEN 1 ELSE 0

-----------------------------------------------------------------------------
(* The readers *)

isOutput  == Bit(control, INTCN) = 0
getOutput == (control \div 8) % 4
isArmed1  == Bit(control, A1IE) = 1
isArmed2  == Bit(control, A2IE) = 1
is32kHz   == Bit(status, EN32kHz) = 1

\* in the mode of an alarm, the bit of each value that it ignores
Ignoring == [second |-> 1, minute |-> 2, hour |-> 4, day |-> 8]

\* getAlarm1 and getAlarm2: every register without its bit 7
getAlarm(regs) == [f \in DOMAIN regs |-> bcd2dec(regs[f] % 128)]

\* (mutant) the masks of the alarm's values
getAlarmTypeMasked(regs) ==
    LET dec(f)  == bcd2dec(regs[f] % 128)
        mark(f) == IF f \in DOMAIN regs THEN Bit(dec(f), 64) * Ignoring[f] ELSE 0
    IN  mark("second") + mark("minute") + mark("hour") + mark("day") + Bit(dec("day"), 32) * 16

\* getAlarmType1 and getAlarmType2: of each register bit 6, of the last one bit 5
\* too, but after the conversion from BCD
getAlarmType(regs) ==
    LET dec(f)  == bcd2dec(regs[f])
        mark(f) == IF f \in DOMAIN regs THEN Bit(dec(f), 64) * Ignoring[f] ELSE 0
    IN  mark("second") + mark("minute") + mark("hour") + mark("day") + Bit(dec("day"), 32) * 16

\* In quarters: whole degrees in one register, the quarters on top of the other.
\* The first is shifted as a positive number.
readTemperature ==
    LET msb == (temperature \div 4) % 256
        lsb == (temperature % 4) * 64
    IN  (msb * 256 + lsb) \div 64

-----------------------------------------------------------------------------
(* The setters of the control register *)

\* the settings that a reader returns
Kept(field, value) == set' = [set EXCEPT ![field] = value]

enableOutput(enabled) ==
    /\ control' = With(control, INTCN, One(~enabled))
    /\ Kept("output", enabled)

\* With the oscillator on battery the mask has one zero too many: the output is
\* enabled, and the alarms lose their pin.
setBattery(timeBattery, squareBattery) ==
    LET square == With(control, BBSQW, One(squareBattery))
    IN  IF timeBattery
        THEN control' = With(With(square, EOSC, 0), INTCN, 0) /\ Kept("output", TRUE)
        ELSE control' = With(square, EOSC, 1) /\ UNCHANGED set

setOutput(mode) ==
    /\ control' = control + (mode - getOutput) * 8
    /\ Kept("mode", mode)

armAlarm(bit, field, armed) ==
    /\ control' = With(control, bit, One(armed))
    /\ Kept(field, armed)

\* sets the bit and waits until the chip has cleared it
forceConversion ==
    control' = With(control, CONV, 1) /\ converting' = TRUE /\ UNCHANGED set

\* begin leaves the output enabled, whatever it was
begin == setBattery(TRUE, FALSE)

ControlSet ==
    /\ \/ \E enabled \in BOOLEAN :
             \/ enableOutput(enabled)
             \/ armAlarm(A1IE, "armed1", enabled)
             \/ armAlarm(A2IE, "armed2", enabled)
       \/ \E time, square \in BOOLEAN : setBattery(time, square)
       \/ \E mode \in 0 .. 3 : setOutput(mode)
       \/ begin
    /\ UNCHANGED <<status, converting>>

-----------------------------------------------------------------------------
(* The setters of the status register *)

\* a 0 clears a flag, a 1 leaves it as it is
StatusWritten(value) ==
    LET flag(w) == IF Bit(status, w) = 1 /\ Bit(value, w) = 1 THEN w ELSE 0
    IN  flag(A1F) + flag(A2F) + flag(OSF) + Bit(value, EN32kHz) * EN32kHz

enable32kHz(enabled) ==
    /\ status' = StatusWritten(With(status, EN32kHz, One(enabled)))
    /\ Kept("kHz32", enabled)

clearAlarm(flag) == status' = StatusWritten(With(status, flag, 0)) /\ UNCHANGED set

\* isAlarm1 and isAlarm2
isAlarm(flag, clear) ==
    IF Bit(status, flag) = 1 /\ clear THEN clearAlarm(flag) ELSE UNCHANGED <<status, set>>

StatusSet ==
    /\ \/ \E enabled \in BOOLEAN : enable32kHz(enabled)
       \/ \E flag \in {A1F, A2F} :
             clearAlarm(flag) \/ \E clear \in BOOLEAN : isAlarm(flag, clear)
    /\ UNCHANGED <<control, converting>>

-----------------------------------------------------------------------------
(* The alarms *)

\* DS3231_alarm1_t and DS3231_alarm2_t: Ignoring's bits, and 16 for a day of the week
MATCH_DY == 16
AlarmTypes1 == {15, 14, 12, 8, 0, MATCH_DY}
AlarmTypes2 == {14, 12, 8, 0, MATCH_DY}

NoAlarm == [day |-> 0, hour |-> 0, minute |-> 0, second |-> 0, type |-> -1]

\* alarm 2 has no seconds
AlarmFields == IF part = "alarm1" THEN DOMAIN Ignoring ELSE DOMAIN Ignoring \ {"second"}

\* the register of a field, with bit 7 when the mode ignores it
Matched(a, f) == With(dec2bcd(a[f]), 128, Bit(a.type, Ignoring[f]))

\* the registers that setAlarm1 and setAlarm2 write
AlarmRegisters(a) ==
    [f \in AlarmFields |->
        IF f = "day" /\ a.type = MATCH_DY THEN With(Matched(a, f), 64, 1) ELSE Matched(a, f)]

\* what a caller asks for: days of the week are 1 to 7
Requests ==
    {a \in [day : Days, hour : Hours, minute : Sixties,
            second : IF part = "alarm1" THEN Sixties ELSE {0},
            type : IF part = "alarm1" THEN AlarmTypes1 ELSE AlarmTypes2] :
        /\ a.type = 0 => a.day \in 1 .. 31
        /\ a.type = MATCH_DY => a.day \in 1 .. 7}

\* writes the registers, arms or disarms, and clears the flag
setAlarm(bit, flag, field, a, armed) ==
    /\ alarm' = AlarmRegisters(a)
    /\ control' = With(control, bit, One(armed))
    /\ status' = StatusWritten(With(status, flag, 0))
    /\ set' = [set EXCEPT !.alarm = a, !.clock = FALSE, ![field] = armed]

\* The last byte that setDateTime writes falls on the seconds of alarm 1.
setDateTime(f) ==
    /\ alarm' = IF part = "alarm1" THEN [alarm EXCEPT !.second = TimeRegisters(f)[8]] ELSE alarm
    /\ set' = [set EXCEPT !.clock = TRUE]
    /\ UNCHANGED <<control, status>>

\* bound: once, since every one of its registers is written
AlarmSet ==
    /\ set.alarm = NoAlarm
    /\ \E a \in Requests, armed \in BOOLEAN :
          \/ part = "alarm1" /\ setAlarm(A1IE, A1F, "armed1", a, armed)
          \/ part = "alarm2" /\ setAlarm(A2IE, A2F, "armed2", a, armed)
    /\ UNCHANGED converting

\* the clock is set after the alarm: before it, the alarm's seconds are still to be written
TimeSet ==
    /\ set.alarm # NoAlarm
    /\ \E seconds \in Seconds : setDateTime(FieldsOf(days, seconds))
    /\ UNCHANGED converting

-----------------------------------------------------------------------------
(* The chip and the whole *)

RtcInit ==
    /\ part \in {"settings", "alarm1", "alarm2", "temperature"}
    /\ control \in {INTCN + RS, EOSC + BBSQW}   \* after power-on, and of an earlier session
    /\ status = OSF + EN32kHz
    /\ alarm = <<>>
    /\ temperature \in IF part = "temperature" THEN Temperatures ELSE {0}
    /\ converting = FALSE
    /\ set = [output |-> isOutput, mode |-> getOutput, armed1 |-> isArmed1,
              armed2 |-> isArmed2, kHz32 |-> is32kHz, alarm |-> NoAlarm, clock |-> FALSE]

RaiseAlarm ==
    /\ \E flag \in {A1F, A2F} : status' = With(status, flag, 1)
    /\ UNCHANGED <<control, converting, set>>

ConversionEnds ==
    /\ Bit(control, CONV) = 1
    /\ control' = With(control, CONV, 0)
    /\ UNCHANGED <<status, converting, set>>

ConversionSeen ==
    /\ converting /\ Bit(control, CONV) = 0
    /\ converting' = FALSE
    /\ UNCHANGED <<control, status, set>>

RtcNext ==
    /\ UNCHANGED <<part, temperature>>
    /\ \/ /\ part = "settings" /\ ~converting
          /\ \/ ControlSet \/ StatusSet
             \/ forceConversion /\ UNCHANGED status
          /\ UNCHANGED alarm
       \/ part \in {"alarm1", "alarm2"} /\ (AlarmSet \/ TimeSet)
       \/ part = "settings" /\ (RaiseAlarm \/ ConversionEnds \/ ConversionSeen) /\ UNCHANGED alarm

RtcSpec == RtcInit /\ [][RtcNext]_rtcVars

-----------------------------------------------------------------------------
(* Properties *)

\* Every setting reads back as it was last set, whatever other operation has
\* rewritten its register since; but setBattery(true, ...) also enables the output.
SettingsKept ==
    /\ isOutput = set.output /\ getOutput = set.mode
    /\ isArmed1 = set.armed1 /\ isArmed2 = set.armed2
    /\ is32kHz = set.kHz32

\* the alarm that was set, without what setDateTime takes of alarm 1 when it is called
\* later: its seconds, and the bit that says to ignore them
AlarmLeft ==
    LET a == set.alarm
    IN  IF set.clock /\ part = "alarm1"
        THEN [a EXCEPT !.second = 0, !.type = a.type - Bit(a.type, Ignoring.second)]
        ELSE a

\* An alarm reads back as it was set, with 40 on top of a day of the week: its
\* marker is not masked away.  But alarm 1 loses its seconds when the clock is set.
AlarmTimeReadsBack ==
    set.alarm # NoAlarm =>
        getAlarm(alarm) =
            [f \in AlarmFields |->
                IF f = "day" /\ AlarmLeft.type = MATCH_DY THEN AlarmLeft.day + 40 ELSE AlarmLeft[f]]

\* The type of an alarm reads back, although its bits are taken from the decimal
\* value, exactly when every ignored minute and second is less than 48 and an
\* ignored day less than 16.  But when the clock is set, an alarm 1 of every second
\* becomes one of every minute.
AlarmTypeReadsBack ==
    set.alarm # NoAlarm =>
        LET a == AlarmLeft
        IN  getAlarmType(alarm) = a.type <=>
                /\ Bit(a.type, Ignoring.second) = 1 => a.second < 48
                /\ Bit(a.type, Ignoring.minute) = 1 => a.minute < 48
                /\ Bit(a.type, Ignoring.day) = 1 => a.day < 16

\* A temperature reads back when it is not below zero; one below zero reads 256
\* degrees too high (readTemperature counts in quarters).
TemperatureReadsBack ==
    readTemperature = IF temperature >= 0 THEN temperature ELSE temperature + 1024

\* What the driver has set, each of its readers returns as it was set, but for the
\* differences that the parts above name.
RegistersReadBack ==
    SettingsKept /\ AlarmTimeReadsBack /\ AlarmTypeReadsBack /\ TemperatureReadsBack

=============================================================================
