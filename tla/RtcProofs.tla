------------------------------ MODULE RtcProofs ------------------------------
(***************************************************************************)
(* Theorems about the clock: RtcAlarm, on a bus that may fail,             *)
(* RtcCalendar, on any day up to the end of 2099, and RtcRegisters, for    *)
(* every alarm and temperature.                                            *)
(*                                                                         *)
(* Two facts carry the alarm: an operation on CONTROL has read bits of     *)
(* CONTROL, and nothing is owed before the loop of task_check_alarm, where *)
(* clearAlarm1 takes flags away without a report.  The calendar rests on   *)
(* DateInv, that the days passed are those before the date, and on the     *)
(* loops of setDateTime, which take away what it adds up.  The registers   *)
(* rest on ClockInv, that their bits say what was last set, and on the bits*)
(* that a setter leaves alone.                                             *)
(***************************************************************************)
EXTENDS RtcAlarm, RtcRegisters, Integers, TLAPS, WellFoundedInduction

-----------------------------------------------------------------------------
(* Induction over the natural numbers, for sets instead of predicates: the  *)
(* induction theorems of the library take the predicate as a parameter,     *)
(* which the provers cannot instantiate.                                    *)

Below == {p \in Nat \X Nat : p[1] < p[2]}

LEMMA BelowIsWellFounded == IsWellFoundedOn(Below, Nat)
BY NatLessThanWellFounded DEF OpToRel, Below

\* A set of numbers that is not empty has a least element.
LEMMA Least ==
    ASSUME NEW T \in SUBSET Nat, T # {}
    PROVE  \E x \in T : \A y \in T : x <= y
<1>1. PICK x \in T : \A y \in T : ~ (<<y, x>> \in Below)
    BY BelowIsWellFounded, WFMin
<1>2. ASSUME NEW y \in T PROVE x <= y
    <2>1. ~ (y < x)
        BY <1>1 DEF Below
    <2> QED BY <2>1
<1> QED BY <1>2

\* A set with 0 in it, and with the successor of each number in it, has them all.
LEMMA Induct ==
    ASSUME NEW S, 0 \in S, \A n \in Nat : n \in S => n + 1 \in S
    PROVE  \A n \in Nat : n \in S
<1>1. SUFFICES ASSUME Nat \ S # {} PROVE FALSE
    OBVIOUS
<1>2. PICK x \in Nat \ S : \A y \in Nat \ S : x <= y
    BY <1>1, Least
<1>3. x - 1 \in Nat /\ x - 1 \in S
    BY <1>2
<1> QED BY <1>2, <1>3

-----------------------------------------------------------------------------
(* The alarm. *)

ControlReadsBits ==
    /\ pc \in {"begin", "disarm", "arm"} => value \in SUBSET Bits
    /\ pc \in {"nvs_open", "set_alarm"} => value = {}

OwedInLoop == owed => InLoop

AlarmInv == TypeOK /\ ControlReadsBits /\ OwedInLoop /\ NoAlarmLost

\* At power-on the chip may hold any flags; the program owes nothing.
LEMMA InitAlarmInv == Init => AlarmInv
BY DEF Init, AlarmInv, TypeOK, ControlReadsBits, OwedInLoop, NoAlarmLost, Flags, Bits

Labels == {"begin", "disarm", "clear", "nvs_open", "set_alarm", "arm", "clear_set",
           "created", "get_time", "is_alarm", "clear_alarm", "triggered"}

ControlLabels == {"begin", "disarm", "arm"}
LoopLabels    == {"get_time", "is_alarm", "clear_alarm", "triggered"}

\* The read of a register operation leaves the chip as it is.
LEMMA ReadStep ==
    ASSUME NEW at, NEW bits \in {Flags, Bits}, NEW register \in SUBSET bits,
           AlarmInv, Read(at, register, bits),
           at \notin {"nvs_open", "set_alarm"},
           at \in ControlLabels => bits = Bits
    PROVE  AlarmInv'
<1> USE DEF AlarmInv, Read, ReadRegister8, ControlLabels, Works, Fails
<1>1. TypeOK'
    BY DEF TypeOK
<1>2. ControlReadsBits'
    BY DEF ControlReadsBits
<1>3. OwedInLoop' /\ NoAlarmLost'
    BY DEF OwedInLoop, InLoop, NoAlarmLost
<1> QED
    BY <1>1, <1>2, <1>3

\* A write of CONTROL, which only init_alarm makes, stores bits of it.
LEMMA ControlStep ==
    ASSUME NEW at \in ControlLabels, NEW new \in SUBSET Bits,
           NEW to \in {"disarm", "clear", "clear_set"},
           AlarmInv, WriteControl(at, new, to)
    PROVE  AlarmInv'
<1> USE DEF AlarmInv, WriteControl, WriteDone, Works, Fails
<1>1. CONTROL' \in SUBSET Bits
    BY DEF TypeOK
<1>2. TypeOK'
    BY <1>1 DEF TypeOK
<1>3. ControlReadsBits'
    BY DEF ControlReadsBits
<1>4. ~owed
    BY DEF ControlLabels, OwedInLoop, InLoop
<1> QED
    BY <1>2, <1>3, <1>4 DEF OwedInLoop, NoAlarmLost

\* A write of STATUS takes flags away; in the loop it is followed by the report.
LEMMA StatusStep ==
    ASSUME NEW at, NEW new, NEW to \in Labels \ ControlLabels,
           AlarmInv, WriteStatus(at, new, to),
           at \in LoopLabels => to = "triggered"
    PROVE  AlarmInv'
<1> USE DEF AlarmInv, WriteStatus, WriteDone, Works, Fails
<1>1. STATUS' \subseteq STATUS
    OBVIOUS
<1>2. TypeOK'
    BY <1>1 DEF TypeOK, Labels
<1>3. ControlReadsBits'
    BY DEF ControlReadsBits, ControlLabels
<1>4. owed' => pc' = "triggered"
    BY DEF OwedInLoop, InLoop, LoopLabels
<1> QED
    BY <1>2, <1>3, <1>4 DEF OwedInLoop, InLoop, NoAlarmLost

\* The three operations, for every place of the program that makes them.
LEMMA ClearStep ==
    ASSUME NEW at, NEW to \in Labels \ ControlLabels,
           AlarmInv, ClearAlarm1(at, to),
           at \notin ControlLabels \cup {"nvs_open", "set_alarm"},
           at \in LoopLabels => to = "triggered"
    PROVE  AlarmInv'
<1>1. CASE Read(at, STATUS, Flags)
    BY <1>1, ReadStep DEF AlarmInv, TypeOK
<1>2. CASE WriteStatus(at, value \ {"A1F"}, to)
    BY <1>2, StatusStep
<1> QED
    BY <1>1, <1>2 DEF ClearAlarm1

LEMMA ArmStep ==
    ASSUME NEW at \in ControlLabels, NEW armed \in BOOLEAN,
           NEW to \in {"disarm", "clear", "clear_set"},
           AlarmInv, ArmAlarm1(at, armed, to)
    PROVE  AlarmInv'
<1>1. CASE Read(at, CONTROL, Bits)
    BY <1>1, ReadStep DEF AlarmInv, TypeOK, ControlLabels
<1> DEFINE new == IF armed THEN value \cup {"A1IE"} ELSE value \ {"A1IE"}
<1>2. CASE WriteControl(at, new, to)
    <2>1. value \in SUBSET Bits
        BY <1>2 DEF AlarmInv, ControlReadsBits, ControlLabels, WriteControl, WriteDone
    <2>2. new \in SUBSET Bits
        BY <2>1 DEF Bits
    <2> HIDE DEF new
    <2> QED
        BY <1>2, <2>2, ControlStep
<1> QED
    BY <1>1, <1>2 DEF ArmAlarm1

LEMMA BatteryStep ==
    ASSUME NEW at \in ControlLabels, NEW to \in {"disarm", "clear", "clear_set"},
           AlarmInv, SetBattery(at, to)
    PROVE  AlarmInv'
<1>1. CASE Read(at, CONTROL, Bits)
    BY <1>1, ReadStep DEF AlarmInv, TypeOK, ControlLabels
<1> DEFINE new == value \ {"INTCN", "EOSC"}
<1>2. CASE WriteControl(at, new, to)
    <2>1. new \in SUBSET Bits
        BY <1>2 DEF AlarmInv, ControlReadsBits, ControlLabels, WriteControl, WriteDone
    <2> HIDE DEF new
    <2> QED
        BY <1>2, <2>1, ControlStep
<1> QED
    BY <1>1, <1>2 DEF SetBattery

\* No register operation, at either of its transactions, breaks the invariant.
LEMMA NextAlarmInv == AlarmInv /\ [Next]_vars => AlarmInv'
<1> SUFFICES ASSUME AlarmInv, [Next]_vars PROVE AlarmInv'
    OBVIOUS
<1> USE DEF Labels, ControlLabels, LoopLabels, Works, Fails
<1>1. CASE InitAlarm
    <2>1. CASE Begin
        BY <2>1, BatteryStep DEF Begin
    <2>2. CASE Disarm
        BY <2>2, ArmStep DEF Disarm
    <2>3. CASE ClearAtInit
        BY <2>3, ClearStep DEF ClearAtInit
    <2>4. CASE NvsOpen
        BY <2>4 DEF NvsOpen, AlarmInv, TypeOK, ControlReadsBits, OwedInLoop, InLoop, NoAlarmLost
    <2>5. CASE SetAlarm1
        <3>1. ~owed
            BY <2>5 DEF SetAlarm1, AlarmInv, OwedInLoop, InLoop
        <3>2. value \in SUBSET Bits
            BY <2>5 DEF SetAlarm1, AlarmInv, ControlReadsBits
        <3> QED
            BY <2>5, <3>1 DEF SetAlarm1, AlarmInv, TypeOK, ControlReadsBits, OwedInLoop,
               NoAlarmLost
    <2>6. CASE Arm
        BY <2>6, ArmStep DEF Arm
    <2>7. CASE ClearAfterSet
        BY <2>7, ClearStep DEF ClearAfterSet
    <2> QED
        BY <1>1, <2>1, <2>2, <2>3, <2>4, <2>5, <2>6, <2>7 DEF InitAlarm
<1>2. CASE CheckAlarm
    <2>1. CASE ClearAtStart
        BY <2>1, ClearStep DEF ClearAtStart
    <2>2. CASE GetDateTime
        BY <2>2 DEF GetDateTime, AlarmInv, TypeOK, ControlReadsBits, OwedInLoop, InLoop,
           NoAlarmLost
    <2>3. CASE IsAlarm1
        BY <2>3 DEF IsAlarm1, AlarmInv, TypeOK, ControlReadsBits, OwedInLoop, InLoop,
           NoAlarmLost
    <2>4. CASE ClearWhenRaised
        BY <2>4, ClearStep DEF ClearWhenRaised
    <2>5. CASE AlarmTriggered
        <3>1. owed' \in BOOLEAN /\ (owed' => "A1F" \in STATUS')
            <4>1. owed' = ("A1F" \in STATUS) /\ STATUS' = STATUS
                BY <2>5 DEF AlarmTriggered
            <4>2. CASE "A1F" \in STATUS
                <5>1. owed' = TRUE
                    BY <4>1, <4>2, Zenon
                <5> QED
                    BY <4>1, <4>2, <5>1
            <4>3. CASE "A1F" \notin STATUS
                <5>1. ("A1F" \in STATUS) = FALSE
                    BY <4>3
                <5>2. owed' = FALSE
                    BY <4>1, <5>1
                <5> QED
                    BY <5>2
            <4> QED
                BY <4>2, <4>3
        <3>2. /\ pc' = "get_time" /\ buffer_status' = 3
              /\ UNCHANGED <<STATUS, CONTROL, alarm_1, nvs, phase, value, failed>>
            BY <2>5 DEF AlarmTriggered
        <3> QED
            BY <3>1, <3>2 DEF AlarmInv, TypeOK, ControlReadsBits, OwedInLoop, InLoop,
               NoAlarmLost
    <2> QED
        BY <1>2, <2>1, <2>2, <2>3, <2>4, <2>5 DEF CheckAlarm
<1>3. CASE Match1
    BY <1>3 DEF Match1, AlarmInv, TypeOK, ControlReadsBits, OwedInLoop, InLoop, NoAlarmLost,
       Flags
<1>4. CASE Match2
    BY <1>4 DEF Match2, AlarmInv, TypeOK, ControlReadsBits, OwedInLoop, InLoop, NoAlarmLost,
       Flags
<1>5. CASE Drained
    BY <1>5 DEF Drained, AlarmInv, TypeOK, ControlReadsBits, OwedInLoop, InLoop, NoAlarmLost
<1>6. CASE UNCHANGED vars
    BY <1>6 DEF vars, AlarmInv, TypeOK, ControlReadsBits, OwedInLoop, InLoop, NoAlarmLost
<1> QED
    BY <1>1, <1>2, <1>3, <1>4, <1>5, <1>6 DEF Next

LEMMA AlarmInvariant == Spec => []AlarmInv
BY InitAlarmInv, NextAlarmInv, PTL DEF Spec

\* The registers and the locals keep their types, whatever the bus does.
THEOREM TypeCorrect == Spec => []TypeOK
<1>1. AlarmInv => TypeOK
    BY DEF AlarmInv
<1> QED
    BY <1>1, AlarmInvariant, PTL

\* isAlarm1 loses no alarm that the chip raises in the loop of task_check_alarm.
THEOREM AlarmKept == Spec => []NoAlarmLost
<1>1. AlarmInv => NoAlarmLost
    BY DEF AlarmInv
<1> QED
    BY <1>1, AlarmInvariant, PTL

\* clearAlarm1 loses alarm 2 only when it has not read it.
THEOREM OtherFlagKept == Spec => OtherFlagLostOnlyInWindow
<1> DEFINE Lost == "A2F" \in STATUS /\ "A2F" \notin STATUS'
           Window == phase = "write" /\ "A2F" \notin value
<1>1. [Next]_vars => (Lost => Window)
    <2> SUFFICES ASSUME [Next]_vars, Lost PROVE Window
        OBVIOUS
    <2>1. CASE ClearAtInit \/ ClearAfterSet \/ ClearAtStart \/ ClearWhenRaised
        BY <2>1 DEF ClearAtInit, ClearAfterSet, ClearAtStart, ClearWhenRaised,
                    ClearAlarm1, Read, WriteStatus, WriteDone
    <2>2. CASE Begin \/ Disarm \/ NvsOpen \/ SetAlarm1 \/ Arm
        BY <2>2 DEF Begin, Disarm, NvsOpen, SetAlarm1, Arm, SetBattery, ArmAlarm1,
                    Read, WriteControl
    <2>3. CASE GetDateTime \/ IsAlarm1 \/ AlarmTriggered
        BY <2>3 DEF GetDateTime, IsAlarm1, AlarmTriggered
    <2>4. CASE Match1 \/ Match2 \/ Drained \/ UNCHANGED vars
        BY <2>4 DEF Match1, Match2, Drained, vars
    <2> QED
        BY <2>1, <2>2, <2>3, <2>4 DEF Next, InitAlarm, CheckAlarm
<1> QED
    BY <1>1, PTL DEF Spec, OtherFlagLostOnlyInWindow

-----------------------------------------------------------------------------
(* Unless a transaction fails, what stays armed is what init_alarm wrote. *)

ArmedIsNew ==
    ~failed =>
        /\ pc \notin {"begin", "disarm"} => ("A1IE" \in CONTROL => alarm_1 # "old")
        /\ pc = "arm" => alarm_1 # "old"

\* A write of CONTROL that works takes effect, so a disarmed alarm stays disarmed
\* until setAlarm1 has written its registers.
LEMMA NextArmed == TypeOK /\ ArmedIsNew /\ [Next]_vars => ArmedIsNew'
<1> SUFFICES ASSUME TypeOK, ArmedIsNew, [Next]_vars, ~failed' PROVE ArmedIsNew'
    BY DEF ArmedIsNew
<1> USE DEF ArmedIsNew, Works, Fails
<1>1. CASE Begin
    BY <1>1 DEF Begin, SetBattery, Read, ReadRegister8, WriteControl, WriteDone
<1>2. CASE Disarm
    BY <1>2 DEF Disarm, ArmAlarm1, Read, ReadRegister8, WriteControl, WriteDone
<1>3. CASE NvsOpen \/ SetAlarm1
    BY <1>3 DEF NvsOpen, SetAlarm1
<1>4. CASE Arm
    BY <1>4 DEF Arm, ArmAlarm1, Read, ReadRegister8, WriteControl, WriteDone
<1>5. CASE ClearAtInit \/ ClearAfterSet \/ ClearAtStart \/ ClearWhenRaised
    BY <1>5 DEF ClearAtInit, ClearAfterSet, ClearAtStart, ClearWhenRaised,
                ClearAlarm1, Read, ReadRegister8, WriteStatus, WriteDone
<1>6. CASE GetDateTime \/ IsAlarm1 \/ AlarmTriggered
    BY <1>6 DEF GetDateTime, IsAlarm1, AlarmTriggered
<1>7. CASE Match1 \/ Match2 \/ Drained \/ UNCHANGED vars
    BY <1>7 DEF Match1, Match2, Drained, vars
<1> QED
    BY <1>1, <1>2, <1>3, <1>4, <1>5, <1>6, <1>7 DEF Next, InitAlarm, CheckAlarm

\* task_check_alarm never watches an armed alarm of an earlier session, unless a
\* transaction failed.
THEOREM NothingStaleArmed == Spec => []StaleNeverArmed
<1>1. Init => ArmedIsNew
    BY DEF Init, ArmedIsNew
<1>2. AlarmInv /\ ArmedIsNew /\ [Next]_vars => ArmedIsNew'
    BY NextArmed DEF AlarmInv
<1>3. ArmedIsNew => StaleNeverArmed
    BY DEF ArmedIsNew, StaleNeverArmed, InLoop
<1> QED
    BY <1>1, <1>2, <1>3, AlarmInvariant, PTL DEF Spec

-----------------------------------------------------------------------------
(* The calendar.  The days of a date: YearStart and MonthStart are what the  *)
(* loops of setDateTime add up.                                             *)

LeapDay(year) == IF year % 4 = 0 THEN 1 ELSE 0

YearStart(y) == 365 * y + (y + 3) \div 4

\* Days of a year that lie before a month of it: those of the table daysArray ...
Table ==
    [m \in 1 .. 12 |->
        CASE m = 1 -> 0    [] m = 2 -> 31   [] m = 3 -> 59   [] m = 4 -> 90
          [] m = 5 -> 120  [] m = 6 -> 151  [] m = 7 -> 181  [] m = 8 -> 212
          [] m = 9 -> 243  [] m = 10 -> 273 [] m = 11 -> 304 [] m = 12 -> 334]

\* ... and the leap day
MonthStart(year, m) == Table[m] + IF m > 2 THEN LeapDay(year) ELSE 0

LEMMA Months ==
    ASSUME NEW m \in 1 .. 12
    PROVE  \/ m = 1 \/ m = 2 \/ m = 3 \/ m = 4 \/ m = 5 \/ m = 6
           \/ m = 7 \/ m = 8 \/ m = 9 \/ m = 10 \/ m = 11 \/ m = 12
OBVIOUS

LEMMA Entries ==
    /\ Table[1] = 0 /\ Table[2] = 31 /\ Table[3] = 59 /\ Table[4] = 90
    /\ Table[5] = 120 /\ Table[6] = 151 /\ Table[7] = 181 /\ Table[8] = 212
    /\ Table[9] = 243 /\ Table[10] = 273 /\ Table[11] = 304 /\ Table[12] = 334
BY DEF Table

LEMMA Lengths ==
    /\ daysArray[1] = 31 /\ daysArray[2] = 28 /\ daysArray[3] = 31 /\ daysArray[4] = 30
    /\ daysArray[5] = 31 /\ daysArray[6] = 30 /\ daysArray[7] = 31 /\ daysArray[8] = 31
    /\ daysArray[9] = 30 /\ daysArray[10] = 31 /\ daysArray[11] = 30 /\ daysArray[12] = 31
BY DEF daysArray

LEMMA TableTypes ==
    ASSUME NEW m \in 1 .. 12
    PROVE  Table[m] \in 0 .. 334 /\ daysArray[m] \in 28 .. 31
BY Months, Entries, Lengths

LEMMA TableAdds ==
    /\ \A m \in 2 .. 12 : Table[m] = Table[m - 1] + daysArray[m - 1]
    /\ Table[1] = 0
    /\ Table[12] + daysArray[12] = 365
<1>1. ASSUME NEW m \in 2 .. 12 PROVE Table[m] = Table[m - 1] + daysArray[m - 1]
    <2>1. m \in 1 .. 12 /\ m # 1
        OBVIOUS
    <2> QED BY <2>1, Months, Entries, Lengths
<1> QED BY <1>1, Entries, Lengths

\* daysBefore is the table.
LEMMA BeforeIsTable == \A m \in 1 .. 12 : daysBefore[m] = Table[m]
<1> DEFINE Adds(f) == [m \in 1 .. 12 |-> IF m = 1 THEN 0 ELSE f[m - 1] + daysArray[m - 1]]
<1>1. Table = Adds(Table)
    <2>1. \A m \in 1 .. 12 : Table[m] = Adds(Table)[m]
        BY TableAdds
    <2>2. Table = [m \in 1 .. 12 |-> Table[m]]
        BY DEF Table
    <2> QED BY <2>1, <2>2
<1>2. daysBefore = Adds(daysBefore)
    <2>1. daysBefore = CHOOSE f : f = Adds(f)
        BY DEF daysBefore
    <2> HIDE DEF Adds
    <2> QED BY <1>1, <2>1
<1>3. /\ daysBefore[1] = 0
      /\ \A m \in 2 .. 12 : daysBefore[m] = daysBefore[m - 1] + daysArray[m - 1]
    BY <1>2
<1> HIDE DEF Adds
<1>4. \A m \in 2 .. 12 : daysBefore[m - 1] = Table[m - 1] => daysBefore[m] = Table[m]
    BY <1>3, TableAdds
<1>5. /\ daysBefore[1] = Table[1]
      /\ daysBefore[2] = Table[2] /\ daysBefore[3] = Table[3] /\ daysBefore[4] = Table[4]
      /\ daysBefore[5] = Table[5] /\ daysBefore[6] = Table[6] /\ daysBefore[7] = Table[7]
      /\ daysBefore[8] = Table[8] /\ daysBefore[9] = Table[9] /\ daysBefore[10] = Table[10]
      /\ daysBefore[11] = Table[11] /\ daysBefore[12] = Table[12]
    <2>1. daysBefore[1] = Table[1]
        BY <1>3, TableAdds
    <2>2. \A m \in 1 .. 11 : daysBefore[m] = Table[m] => daysBefore[m + 1] = Table[m + 1]
        <3> SUFFICES ASSUME NEW m \in 1 .. 11, daysBefore[m] = Table[m]
                     PROVE  daysBefore[m + 1] = Table[m + 1]
            OBVIOUS
        <3>1. m + 1 \in 2 .. 12 /\ m + 1 - 1 = m
            OBVIOUS
        <3> QED BY <1>4, <3>1
    <2>3. daysBefore[2] = Table[2]    BY <2>1, <2>2
    <2>4. daysBefore[3] = Table[3]    BY <2>3, <2>2
    <2>5. daysBefore[4] = Table[4]    BY <2>4, <2>2
    <2>6. daysBefore[5] = Table[5]    BY <2>5, <2>2
    <2>7. daysBefore[6] = Table[6]    BY <2>6, <2>2
    <2>8. daysBefore[7] = Table[7]    BY <2>7, <2>2
    <2>9. daysBefore[8] = Table[8]    BY <2>8, <2>2
    <2>10. daysBefore[9] = Table[9]   BY <2>9, <2>2
    <2>11. daysBefore[10] = Table[10] BY <2>10, <2>2
    <2>12. daysBefore[11] = Table[11] BY <2>11, <2>2
    <2>13. daysBefore[12] = Table[12] BY <2>12, <2>2
    <2> QED BY <2>1, <2>3, <2>4, <2>5, <2>6, <2>7, <2>8, <2>9, <2>10, <2>11, <2>12, <2>13
<1> QED BY <1>5

-----------------------------------------------------------------------------
(* The calendar's own invariant: a date, and the number of its day. *)

YearOf == date.year - 2000

DateInv ==
    /\ date \in [year : 2000 .. 2099, month : 1 .. 12, day : 1 .. 31]
    /\ date.day <= MonthLength(date)
    /\ days = YearStart(YearOf) + MonthStart(date.year, date.month) + date.day - 1

\* the driver's length of a month is the calendar's, whichever way the year is counted
LEMMA MonthLengths ==
    ASSUME NEW d \in [year : 2000 .. 2099, month : 1 .. 12, day : 1 .. 31]
    PROVE  /\ MonthLength(d) = daysInMonth(d.year, d.month)
           /\ MonthLength(d) = daysInMonth(d.year - 2000, d.month)
           /\ MonthLength(d) \in 28 .. 31
<1> DEFINE y == d.year
           m == d.month
<1>1. y \in 2000 .. 2099 /\ m \in 1 .. 12
    OBVIOUS
<1>2. \/ m = 1 \/ m = 2 \/ m = 3 \/ m = 4 \/ m = 5 \/ m = 6
      \/ m = 7 \/ m = 8 \/ m = 9 \/ m = 10 \/ m = 11 \/ m = 12
    BY <1>1, Months
<1>3. (y - 2000) % 4 = 0 <=> y % 4 = 0
    BY <1>1
<1> HIDE DEF y, m
<1>4. daysInMonth(y - 2000, m) = daysInMonth(y, m)
    BY <1>3 DEF daysInMonth, isLeapYear
<1>5. MonthLength(d) = daysInMonth(y, m) /\ MonthLength(d) \in 28 .. 31
    <2>1. MonthLength(d) = CASE m = 2 -> IF y % 4 = 0 THEN 29 ELSE 28
                             [] m \in {4, 6, 9, 11} -> 30
                             [] OTHER -> 31
        BY DEF MonthLength, y, m
    <2> QED BY <2>1, <1>2, Lengths DEF daysInMonth, isLeapYear
<1> QED BY <1>4, <1>5 DEF y, m

\* where the next month, and the next year, begin
LEMMA MonthsFollow ==
    ASSUME NEW year \in Int
    PROVE  /\ MonthStart(year, 1) = 0
           /\ \A m \in 1 .. 12 : MonthStart(year, m) \in 0 .. 335
           /\ \A m \in 2 .. 12 :
                  MonthStart(year, m) = MonthStart(year, m - 1) + daysInMonth(year, m - 1)
           /\ MonthStart(year, 12) + daysInMonth(year, 12) = YearLength(year)
<1>1. LeapDay(year) \in {0, 1}
    BY DEF LeapDay
<1>2. \A m \in 1 .. 12 : daysInMonth(year, m) = daysArray[m] + IF m = 2 THEN LeapDay(year) ELSE 0
    BY DEF daysInMonth, isLeapYear, LeapDay
<1>3. YearLength(year) = 365 + LeapDay(year)
    BY DEF YearLength, LeapDay
<1>4. \A m \in 2 .. 12 :
          MonthStart(year, m) = MonthStart(year, m - 1) + daysInMonth(year, m - 1)
    <2> SUFFICES ASSUME NEW m \in 2 .. 12
                 PROVE  MonthStart(year, m) = MonthStart(year, m - 1) + daysInMonth(year, m - 1)
        OBVIOUS
    <2>1. /\ Table[m] = Table[m - 1] + daysArray[m - 1] /\ m - 1 \in 1 .. 12
          /\ Table[m - 1] \in Int /\ daysArray[m - 1] \in Int
        BY TableAdds, TableTypes
    <2>2. daysInMonth(year, m - 1) = daysArray[m - 1] + IF m - 1 = 2 THEN LeapDay(year) ELSE 0
        BY <1>2, <2>1
    <2> QED BY <1>1, <2>1, <2>2 DEF MonthStart
<1>5. \A m \in 1 .. 12 : MonthStart(year, m) \in 0 .. 335
    <2> SUFFICES ASSUME NEW m \in 1 .. 12 PROVE MonthStart(year, m) \in 0 .. 335
        OBVIOUS
    <2>1. Table[m] \in 0 .. 334
        BY TableTypes
    <2> QED BY <1>1, <2>1 DEF MonthStart
<1>6. MonthStart(year, 1) = 0
    BY TableAdds DEF MonthStart
<1>7. MonthStart(year, 12) + daysInMonth(year, 12) = YearLength(year)
    <2>1. MonthStart(year, 12) = 334 + LeapDay(year)
        BY Entries DEF MonthStart
    <2>2. daysInMonth(year, 12) = 31
        BY Lengths DEF daysInMonth
    <2>3. YearLength(year) = 365 + LeapDay(year) /\ LeapDay(year) \in Int
        BY DEF YearLength, LeapDay
    <2> QED BY <2>1, <2>2, <2>3
<1> QED BY <1>4, <1>5, <1>6, <1>7

LEMMA YearsFollow ==
    /\ YearStart(0) = 0
    /\ \A y \in Nat : YearStart(y) >= 365 * y
    /\ \A y \in Nat : YearStart(y) \in Nat
    /\ \A y \in Nat : YearStart(y + 1) = YearStart(y) + YearLength(y)
    /\ \A y \in 0 .. 99 : YearStart(y) <= 36160
    /\ \A y \in Nat : YearLength(y) \in {365, 366} /\ YearLength(y + 2000) = YearLength(y)
<1>1. ASSUME NEW y \in Nat PROVE YearStart(y + 1) = YearStart(y) + YearLength(y)
    <2>1. (y + 4) \div 4 = (y + 3) \div 4 + (IF y % 4 = 0 THEN 1 ELSE 0)
        OBVIOUS
    <2> QED BY <2>1 DEF YearStart, YearLength
<1>2. \A y \in Nat : YearLength(y) \in {365, 366} /\ YearLength(y + 2000) = YearLength(y)
    BY DEF YearLength
<1> QED BY <1>1, <1>2 DEF YearStart

LEMMA DateInitially == CalendarInit => DateInv
<1> SUFFICES ASSUME CalendarInit PROVE DateInv
    OBVIOUS
<1>1. date = [year |-> 2000, month |-> 1, day |-> 1] /\ days = 0
    BY DEF CalendarInit
<1>2. date \in [year : 2000 .. 2099, month : 1 .. 12, day : 1 .. 31]
    BY <1>1
<1>3. date.day <= MonthLength(date)
    BY <1>1, <1>2, MonthLengths
<1>4. YearStart(0) = 0 /\ MonthStart(2000, 1) = 0
    BY MonthsFollow, YearsFollow
<1>5. YearOf = 0
    BY <1>1 DEF YearOf
<1>6. days = YearStart(YearOf) + MonthStart(date.year, date.month) + date.day - 1
    BY <1>1, <1>4, <1>5
<1> QED BY <1>2, <1>3, <1>6 DEF DateInv

LEMMA DateKeeps == DateInv /\ [CalendarNext]_calendarVars => DateInv'
<1> SUFFICES ASSUME DateInv, [CalendarNext]_calendarVars PROVE DateInv'
    OBVIOUS
<1>1. CASE UNCHANGED calendarVars
    BY <1>1 DEF calendarVars, DateInv, YearOf, MonthLength
<1>2. CASE CalendarNext
    <2> DEFINE y == date.year
               m == date.month
               d == date.day
    <2>1. /\ date \in [year : 2000 .. 2099, month : 1 .. 12, day : 1 .. 31]
          /\ date = [year |-> y, month |-> m, day |-> d]
          /\ y \in 2000 .. 2099 /\ m \in 1 .. 12 /\ d \in 1 .. 31 /\ d <= MonthLength(date)
          /\ days = YearStart(y - 2000) + MonthStart(y, m) + d - 1
        BY DEF DateInv, YearOf
    <2>2. /\ days' = days + 1 /\ date'.year <= 2000 + LastYear /\ LastYear \in 0 .. 99
          /\ date' = IF d < MonthLength(date) THEN [year |-> y, month |-> m, day |-> d + 1]
                     ELSE IF m < 12 THEN [year |-> y, month |-> m + 1, day |-> 1]
                     ELSE [year |-> y + 1, month |-> 1, day |-> 1]
        <3>1. /\ days' = days + 1
              /\ date' = IF d < MonthLength(date) THEN [date EXCEPT !.day = @ + 1]
                         ELSE IF m < 12 THEN [year |-> y, month |-> m + 1, day |-> 1]
                         ELSE [year |-> y + 1, month |-> 1, day |-> 1]
            BY <1>2 DEF CalendarNext, Midnight
        <3>2. [date EXCEPT !.day = @ + 1] = [year |-> y, month |-> m, day |-> d + 1]
            BY <2>1
        <3>3. date'.year <= 2000 + LastYear /\ LastYear \in 0 .. 99
            BY <1>2, CalendarAssumption DEF CalendarNext
        <3> HIDE DEF y, m, d
        <3> QED BY <3>1, <3>2, <3>3
    <2>3. /\ MonthLength(date) = daysInMonth(y, m) /\ MonthLength(date) \in 28 .. 31
        BY <2>1, MonthLengths
    <2>4. /\ YearStart(y - 2000) \in Nat /\ MonthStart(y, m) \in Nat
          /\ YearStart(y - 1999) = YearStart(y - 2000) + YearLength(y)
        <3> DEFINE k == y - 2000
        <3>1. k \in Nat /\ k + 1 = y - 1999 /\ k + 2000 = y
            BY <2>1
        <3>2. y \in Int /\ m \in 1 .. 12
            BY <2>1
        <3> HIDE DEF y, m, k
        <3>3. /\ YearStart(k) \in Nat /\ YearLength(k + 2000) = YearLength(k)
              /\ YearStart(k + 1) = YearStart(k) + YearLength(k)
            <4>1. YearStart(k) \in Nat
                BY <3>1 DEF YearStart
            <4>2. YearLength(k + 2000) = YearLength(k)
                BY <3>1, YearsFollow
            <4>3. YearStart(k + 1) = YearStart(k) + YearLength(k)
                BY <3>1, YearsFollow
            <4> QED BY <4>1, <4>2, <4>3
        <3>4. MonthStart(y, m) \in 0 .. 335
            BY <3>2, MonthsFollow
        <3>5. YearStart(k) \in Nat /\ MonthStart(y, m) \in Nat
              /\ YearStart(y - 1999) = YearStart(k) + YearLength(y)
            BY <3>1, <3>3, <3>4
        <3> QED BY <3>5 DEF k
    <2> HIDE DEF y, m, d
    <2>5. CASE d < MonthLength(date)
        <3>1. date' = [year |-> y, month |-> m, day |-> d + 1]
            BY <2>1, <2>2, <2>5
        <3>2. date'.year = y /\ date'.month = m /\ date'.day = d + 1
            BY <3>1
        <3>3. MonthLength(date') = MonthLength(date)
            BY <2>1, <3>2 DEF MonthLength, y, m
        <3> QED BY <2>1, <2>2, <2>3, <2>4, <2>5, <3>1, <3>2, <3>3 DEF DateInv, YearOf
    <2>6. CASE d >= MonthLength(date) /\ m < 12
        <3>1. date' = [year |-> y, month |-> m + 1, day |-> 1]
            BY <2>1, <2>2, <2>3, <2>6
        <3>2. date'.year = y /\ date'.month = m + 1 /\ date'.day = 1
            BY <3>1
        <3>3. date' \in [year : 2000 .. 2099, month : 1 .. 12, day : 1 .. 31]
            BY <2>1, <2>6, <3>1
        <3>4. MonthLength(date') \in 28 .. 31
            BY <3>3, MonthLengths
        <3>5. MonthStart(y, m + 1) = MonthStart(y, m) + daysInMonth(y, m)
            <4>1. m + 1 \in 2 .. 12 /\ m + 1 - 1 = m
                BY <2>1, <2>6
            <4> QED BY <2>1, <4>1, MonthsFollow
        <3>6. days' = YearStart(y - 2000) + MonthStart(y, m + 1) + 1 - 1
            BY <2>1, <2>2, <2>3, <2>4, <2>6, <3>5
        <3> QED BY <3>2, <3>3, <3>4, <3>6 DEF DateInv, YearOf
    <2>7. CASE d >= MonthLength(date) /\ m = 12
        <3>1. date' = [year |-> y + 1, month |-> 1, day |-> 1]
            BY <2>1, <2>2, <2>3, <2>7
        <3>2. date'.year = y + 1 /\ date'.month = 1 /\ date'.day = 1
            BY <3>1
        <3>3. date' \in [year : 2000 .. 2099, month : 1 .. 12, day : 1 .. 31]
            BY <2>1, <2>2, <3>1, <3>2
        <3>4. MonthLength(date') \in 28 .. 31
            BY <3>3, MonthLengths
        <3>5. MonthStart(y, 12) + daysInMonth(y, 12) = YearLength(y) /\ MonthStart(y + 1, 1) = 0
            BY <2>1, MonthsFollow
        <3>6. days' = YearStart(y + 1 - 2000) + MonthStart(y + 1, 1) + 1 - 1
            BY <2>1, <2>2, <2>3, <2>4, <2>7, <3>5
        <3>7. days' = YearStart(date'.year - 2000) + MonthStart(date'.year, date'.month)
                      + date'.day - 1
            <4> HIDE DEF y
            <4>1. y + 1 - 2000 = y - 1999 /\ date'.year - 2000 = y + 1 - 2000
                BY <2>1, <3>2
            <4> QED BY ONLY <3>2, <3>6, <4>1
        <3>8. date'.day <= MonthLength(date')
            BY <3>2, <3>4
        <3> QED BY <3>3, <3>7, <3>8 DEF DateInv, YearOf, MonthLength
    <2> QED BY <2>1, <2>3, <2>5, <2>6, <2>7
<1> QED BY <1>1, <1>2

LEMMA DateAlways == CalendarSpec => []DateInv
BY DateInitially, DateKeeps, PTL DEF CalendarSpec

-----------------------------------------------------------------------------
(* The loops of setDateTime(uint32_t) find the year, and then the month.   *)

LEMMA TakesYears ==
    ASSUME NEW y \in 0 .. 99, NEW n \in Nat,
           YearStart(y) <= n, n < YearStart(y) + YearLength(y)
    PROVE  takeYears(n) = [year |-> y, days |-> n - YearStart(y)]
<1> DEFINE r == n \div 365
           low(k) == IF k <= y THEN k ELSE y
           h == [k \in 0 .. r |-> [year |-> low(k), days |-> n - YearStart(low(k))]]
           Round(l) == IF l.days < YearLength(l.year) THEN l
                       ELSE [year |-> l.year + 1, days |-> l.days - YearLength(l.year)]
           Goes(f) == [k \in 0 .. r |-> IF k = 0 THEN [year |-> 0, days |-> n]
                                        ELSE LET l == f[k - 1]
                                             IN  IF l.days < YearLength(l.year) THEN l
                                                 ELSE [year |-> l.year + 1,
                                                       days |-> l.days - YearLength(l.year)]]
<1>1. r \in Nat /\ y <= r
    <2>1. n >= 365 * y
        BY DEF YearStart
    <2> QED BY <2>1
<1>2. \A k \in Nat : YearStart(k) \in Nat /\ YearLength(k) \in Nat
    BY DEF YearStart, YearLength
<1>3. \A k \in 0 .. r : h[k] = [year |-> low(k), days |-> n - YearStart(low(k))]
    OBVIOUS
<1>4. ASSUME NEW k \in 1 .. r PROVE Round(h[k - 1]) = h[k]
    <2>1. k - 1 \in 0 .. r /\ k \in 0 .. r
        BY <1>1
    <2>2. CASE k <= y
        <3>1. h[k - 1] = [year |-> k - 1, days |-> n - YearStart(k - 1)]
            BY <1>3, <2>1, <2>2
        <3>2. h[k] = [year |-> k, days |-> n - YearStart(k)]
            BY <1>3, <2>1, <2>2
        <3>3. YearStart(k) = YearStart(k - 1) + YearLength(k - 1)
            <4>1. k - 1 \in Nat /\ k - 1 + 1 = k
                OBVIOUS
            <4>2. YearStart(k - 1 + 1) = YearStart(k - 1) + YearLength(k - 1)
                BY <4>1, YearsFollow
            <4> QED BY <4>1, <4>2
        <3>4. YearStart(k) <= YearStart(y)
            BY <2>2 DEF YearStart
        <3>5. YearStart(k - 1) \in Nat /\ YearStart(k) \in Nat /\ YearStart(y) \in Nat
              /\ YearLength(k - 1) \in Nat
            <4>1. k - 1 \in Nat /\ k \in Nat /\ y \in Nat
                OBVIOUS
            <4> QED BY <4>1, <1>2
        <3>6. ~ (n - YearStart(k - 1) < YearLength(k - 1))
            BY <3>3, <3>4, <3>5
        <3>7. n - YearStart(k - 1) - YearLength(k - 1) = n - YearStart(k)
            BY <3>3, <3>5
        <3> HIDE DEF h
        <3> QED BY <3>1, <3>2, <3>6, <3>7
    <2>3. CASE k > y
        <3>1. low(k - 1) = y /\ low(k) = y
            BY <2>3
        <3>2. h[k - 1] = [year |-> y, days |-> n - YearStart(y)]
            BY <1>3, <2>1, <3>1
        <3>3. h[k] = [year |-> y, days |-> n - YearStart(y)]
            BY <1>3, <2>1, <3>1
        <3>4. n - YearStart(y) < YearLength(y)
            <4>1. YearStart(y) \in Nat /\ YearLength(y) \in Nat
                BY <1>2
            <4> QED BY <4>1
        <3> HIDE DEF h
        <3> QED BY <3>2, <3>3, <3>4
    <2> QED BY <2>2, <2>3
<1>5. h[0] = [year |-> 0, days |-> n]
    <2>1. low(0) = 0 /\ 0 \in 0 .. r
        BY <1>1
    <2>2. n - YearStart(0) = n
        BY DEF YearStart
    <2> HIDE DEF h
    <2> QED BY <1>3, <2>1, <2>2
<1>6. h = Goes(h)
    <2>1. \A k \in 0 .. r : h[k] = Goes(h)[k]
        <3> SUFFICES ASSUME NEW k \in 0 .. r PROVE h[k] = Goes(h)[k]
            OBVIOUS
        <3>1. Goes(h)[k] = IF k = 0 THEN [year |-> 0, days |-> n] ELSE Round(h[k - 1])
            <4> HIDE DEF h
            <4> QED OBVIOUS
        <3>2. k # 0 => k \in 1 .. r
            BY <1>1
        <3> HIDE DEF h, Goes, Round
        <3> QED BY <3>1, <3>2, <1>4, <1>5
    <2>2. h = [k \in 0 .. r |-> h[k]]
        OBVIOUS
    <2> HIDE DEF h
    <2> QED BY <2>1, <2>2
<1> DEFINE a == CHOOSE f : f = Goes(f)
<1>7. takeYears(n) = a[r]
    BY DEF takeYears
<1>8. a = Goes(a)
    <2> HIDE DEF Goes, h
    <2>1. a = CHOOSE f : f = Goes(f)
        OBVIOUS
    <2> HIDE DEF a
    <2> QED BY <1>6, <2>1
<1> HIDE DEF a, h
<1>9. /\ a[0] = [year |-> 0, days |-> n]
      /\ \A k \in 1 .. r : a[k] = Round(a[k - 1])
    <2>1. 0 \in 0 .. r /\ \A k \in 1 .. r : k \in 0 .. r /\ k # 0
        BY <1>1
    <2>2. \A k \in 0 .. r : a[k] = Goes(a)[k]
        BY <1>8
    <2> QED BY <2>1, <2>2
<1>10. \A k \in Nat : k \in {j \in Nat : j <= r => a[j] = h[j]}
    <2> DEFINE T == {j \in Nat : j <= r => a[j] = h[j]}
    <2>1. 0 \in T
        BY <1>5, <1>9
    <2>2. ASSUME NEW k \in Nat, k \in T PROVE k + 1 \in T
        <3>1. k + 1 <= r => k + 1 \in 1 .. r /\ k + 1 - 1 = k /\ a[k] = h[k]
            BY <2>2, <1>1
        <3> HIDE DEF Round
        <3>2. k + 1 <= r => a[k + 1] = h[k + 1]
            BY <3>1, <1>4, <1>9
        <3> QED BY <3>2
    <2> HIDE DEF T
    <2>3. \A k \in Nat : k \in T
        BY <2>1, <2>2, Induct
    <2> QED BY <2>3 DEF T
<1>11. a[r] = h[r]
    BY <1>1, <1>10
<1>12. h[r] = [year |-> y, days |-> n - YearStart(y)]
    <2>1. low(r) = y /\ r \in 0 .. r
        BY <1>1
    <2> QED BY <1>3, <2>1
<1> QED BY <1>7, <1>11, <1>12

LEMMA TakesMonths ==
    ASSUME NEW year \in Int, NEW m \in 1 .. 12, NEW n \in Nat,
           MonthStart(year, m) <= n, n < MonthStart(year, m) + daysInMonth(year, m)
    PROVE  takeMonths(n, year) = [month |-> m, days |-> n - MonthStart(year, m)]
<1> DEFINE low(k) == IF k + 1 <= m THEN k + 1 ELSE m
           h == [k \in 0 .. 11 |-> [month |-> low(k), days |-> n - MonthStart(year, low(k))]]
           Round(l) == IF l.days < daysInMonth(year, l.month) THEN l
                       ELSE [month |-> l.month + 1, days |-> l.days - daysInMonth(year, l.month)]
           Goes(f) == [k \in 0 .. 11 |->
                          IF k = 0 THEN [month |-> 1, days |-> n]
                          ELSE LET l == f[k - 1]
                               IN  IF l.days < daysInMonth(year, l.month) THEN l
                                   ELSE [month |-> l.month + 1,
                                         days |-> l.days - daysInMonth(year, l.month)]]
<1>1. \A k \in 1 .. 12 : MonthStart(year, k) \in Nat /\ daysInMonth(year, k) \in Nat
    <2> SUFFICES ASSUME NEW k \in 1 .. 12
                 PROVE  MonthStart(year, k) \in Nat /\ daysInMonth(year, k) \in Nat
        OBVIOUS
    <2>1. daysArray[k] \in 28 .. 31 /\ Table[k] \in 0 .. 334
        BY TableTypes
    <2> QED BY <2>1 DEF daysInMonth, MonthStart, LeapDay
<1>2. \A j, k \in 1 .. 12 : j <= k => MonthStart(year, j) <= MonthStart(year, k)
    <2>1. \A j, k \in 1 .. 12 : j <= k => Table[j] <= Table[k]
        <3>1. \A k \in 1 .. 12 : k = 1 \/ k = 2 \/ k = 3 \/ k = 4 \/ k = 5 \/ k = 6 \/ k = 7
                                    \/ k = 8 \/ k = 9 \/ k = 10 \/ k = 11 \/ k = 12
            OBVIOUS
        <3>2. /\ Table[1] = 0 /\ Table[2] = 31 /\ Table[3] = 59 /\ Table[4] = 90
              /\ Table[5] = 120 /\ Table[6] = 151 /\ Table[7] = 181 /\ Table[8] = 212
              /\ Table[9] = 243 /\ Table[10] = 273 /\ Table[11] = 304 /\ Table[12] = 334
            BY DEF Table
        <3> QED BY <3>1, <3>2
    <2> SUFFICES ASSUME NEW j \in 1 .. 12, NEW k \in 1 .. 12, j <= k
                 PROVE  MonthStart(year, j) <= MonthStart(year, k)
        OBVIOUS
    <2>2. Table[j] \in 0 .. 334 /\ Table[k] \in 0 .. 334 /\ LeapDay(year) \in {0, 1}
        BY TableTypes DEF LeapDay
    <2>3. Table[j] <= Table[k]
        BY <2>1
    <2> DEFINE leap == LeapDay(year)
    <2>4. /\ MonthStart(year, j) = Table[j] + IF j > 2 THEN leap ELSE 0
          /\ MonthStart(year, k) = Table[k] + IF k > 2 THEN leap ELSE 0
        BY DEF MonthStart
    <2> HIDE DEF leap
    <2>5. j > 2 => k > 2
        OBVIOUS
    <2>6. leap \in {0, 1}
        BY <2>2 DEF leap
    <2>7. Table[j] \in Int /\ Table[k] \in Int
        BY <2>2
    <2> QED BY ONLY <2>3, <2>4, <2>5, <2>6, <2>7
<1>3. \A k \in 0 .. 11 : h[k] = [month |-> low(k), days |-> n - MonthStart(year, low(k))]
    OBVIOUS
<1>4. ASSUME NEW k \in 1 .. 11 PROVE Round(h[k - 1]) = h[k]
    <2>1. k - 1 \in 0 .. 11 /\ k \in 0 .. 11 /\ k \in 1 .. 12 /\ k + 1 \in 2 .. 12
        OBVIOUS
    <2>2. CASE k + 1 <= m
        <3>1. h[k - 1] = [month |-> k, days |-> n - MonthStart(year, k)]
            <4>1. low(k - 1) = k
                BY <2>2
            <4> QED BY <1>3, <2>1, <4>1
        <3>2. h[k] = [month |-> k + 1, days |-> n - MonthStart(year, k + 1)]
            BY <1>3, <2>1, <2>2
        <3>3. MonthStart(year, k + 1) = MonthStart(year, k) + daysInMonth(year, k)
            <4>1. MonthStart(year, k + 1)
                      = MonthStart(year, k + 1 - 1) + daysInMonth(year, k + 1 - 1)
                BY <2>1, MonthsFollow
            <4>2. k + 1 - 1 = k
                OBVIOUS
            <4> QED BY <4>1, <4>2
        <3>4. MonthStart(year, k + 1) <= MonthStart(year, m)
            BY <1>2, <2>1, <2>2
        <3>5. MonthStart(year, k) \in Nat /\ MonthStart(year, k + 1) \in Nat
              /\ MonthStart(year, m) \in Nat /\ daysInMonth(year, k) \in Nat
            BY <1>1, <2>1
        <3>6. ~ (n - MonthStart(year, k) < daysInMonth(year, k))
            BY <3>3, <3>4, <3>5
        <3>7. n - MonthStart(year, k) - daysInMonth(year, k) = n - MonthStart(year, k + 1)
            BY <3>3, <3>5
        <3> HIDE DEF h
        <3> QED BY <3>1, <3>2, <3>6, <3>7
    <2>3. CASE k + 1 > m
        <3>1. low(k - 1) = m /\ low(k) = m
            BY <2>3
        <3>2. h[k - 1] = [month |-> m, days |-> n - MonthStart(year, m)]
            BY <1>3, <2>1, <3>1
        <3>3. h[k] = [month |-> m, days |-> n - MonthStart(year, m)]
            BY <1>3, <2>1, <3>1
        <3>4. n - MonthStart(year, m) < daysInMonth(year, m)
            <4>1. MonthStart(year, m) \in Nat /\ daysInMonth(year, m) \in Nat
                BY <1>1
            <4> QED BY <4>1
        <3> HIDE DEF h
        <3> QED BY <3>2, <3>3, <3>4
    <2> QED BY <2>2, <2>3
<1>5. h[0] = [month |-> 1, days |-> n]
    <2>1. low(0) = 1 /\ 0 \in 0 .. 11
        OBVIOUS
    <2>2. n - MonthStart(year, 1) = n
        BY MonthsFollow
    <2> HIDE DEF h
    <2> QED BY <1>3, <2>1, <2>2
<1>6. h = Goes(h)
    <2>1. \A k \in 0 .. 11 : h[k] = Goes(h)[k]
        <3> SUFFICES ASSUME NEW k \in 0 .. 11 PROVE h[k] = Goes(h)[k]
            OBVIOUS
        <3>1. Goes(h)[k] = IF k = 0 THEN [month |-> 1, days |-> n] ELSE Round(h[k - 1])
            <4> HIDE DEF h
            <4> QED OBVIOUS
        <3>2. k # 0 => k \in 1 .. 11
            OBVIOUS
        <3> HIDE DEF h, Goes, Round
        <3> QED BY <3>1, <3>2, <1>4, <1>5
    <2>2. h = [k \in 0 .. 11 |-> h[k]]
        OBVIOUS
    <2> HIDE DEF h
    <2> QED BY <2>1, <2>2
<1> DEFINE a == CHOOSE f : f = Goes(f)
<1>7. takeMonths(n, year) = a[11]
    BY DEF takeMonths
<1>8. a = Goes(a)
    <2> HIDE DEF Goes, h
    <2>1. a = CHOOSE f : f = Goes(f)
        OBVIOUS
    <2> HIDE DEF a
    <2> QED BY <1>6, <2>1
<1> HIDE DEF a, h
<1>9. /\ a[0] = [month |-> 1, days |-> n]
      /\ \A k \in 1 .. 11 : a[k] = Round(a[k - 1])
    <2>1. 0 \in 0 .. 11 /\ \A k \in 1 .. 11 : k \in 0 .. 11 /\ k # 0
        OBVIOUS
    <2>2. \A k \in 0 .. 11 : a[k] = Goes(a)[k]
        BY <1>8
    <2> QED BY <2>1, <2>2
<1>10. \A k \in Nat : k \in {j \in Nat : j <= 11 => a[j] = h[j]}
    <2> DEFINE T == {j \in Nat : j <= 11 => a[j] = h[j]}
    <2>1. 0 \in T
        BY <1>5, <1>9
    <2>2. ASSUME NEW k \in Nat, k \in T PROVE k + 1 \in T
        <3>1. k + 1 <= 11 => k + 1 \in 1 .. 11 /\ k + 1 - 1 = k /\ a[k] = h[k]
            BY <2>2
        <3> HIDE DEF Round
        <3>2. k + 1 <= 11 => a[k + 1] = h[k + 1]
            BY <3>1, <1>4, <1>9
        <3> QED BY <3>2
    <2> HIDE DEF T
    <2>3. \A k \in Nat : k \in T
        BY <2>1, <2>2, Induct
    <2> QED BY <2>3 DEF T
<1>11. a[11] = h[11]
    BY <1>10
<1>12. h[11] = [month |-> m, days |-> n - MonthStart(year, m)]
    <2>1. low(11) = m
        OBVIOUS
    <2> QED BY <1>3, <2>1
<1> QED BY <1>7, <1>11, <1>12

-----------------------------------------------------------------------------
(* The registers hold two decimal digits. *)

LEMMA DigitsReadBack ==
    \A n \in 0 .. 99 : bcd2dec(dec2bcd(n)) = n
<1> SUFFICES ASSUME NEW n \in 0 .. 99 PROVE bcd2dec(dec2bcd(n)) = n
    OBVIOUS
<1> DEFINE q == n \div 10
           u == n % 10
<1>1. q \in 0 .. 9 /\ u \in 0 .. 9 /\ n = 10 * q + u
    OBVIOUS
<1>2. 2^8 = 256
    OBVIOUS
<1>3. dec2bcd(n) = (q * 16 + u) % 256
    BY <1>2 DEF dec2bcd, uint8
<1> HIDE DEF q, u
<1>4. (q * 16 + u) % 256 = q * 16 + u
    BY <1>1
<1>5. (q * 16 + u) \div 16 = q /\ (q * 16 + u) % 16 = u
    BY <1>1
<1>6. bcd2dec(q * 16 + u) = (q * 10 + u) % 256
    BY <1>2, <1>5 DEF bcd2dec, uint8
<1> QED BY <1>1, <1>3, <1>4, <1>6

\* An hour, a minute and a second of a day, put together again.
LEMMA TimeReadsBack ==
    ASSUME NEW s \in Int, 0 <= s, s < DaySeconds
    PROVE  /\ s \div 3600 \in 0 .. 23
           /\ (s \div 60) % 60 \in 0 .. 59
           /\ s % 60 \in 0 .. 59
           /\ (s \div 3600) * 3600 + ((s \div 60) % 60) * 60 + (s % 60) = s
<1> USE DEF DaySeconds
<1>1. s \div 3600 \in 0 .. 23
    OBVIOUS
<1>2. s \div 60 \in 0 .. 1439 /\ s % 60 \in 0 .. 59 /\ s = 60 * (s \div 60) + (s % 60)
    OBVIOUS
<1> DEFINE n == s \div 60
<1>3. n \div 60 = s \div 3600
    OBVIOUS
<1>4. n \in Int
    BY <1>2
<1>5. n % 60 \in 0 .. 59 /\ n = 60 * (n \div 60) + (n % 60)
    <2> HIDE DEF n
    <2> QED BY <1>4
<1> QED BY <1>1, <1>2, <1>3, <1>5

\* the days from 2000-01-01 to a date
DayNumber(year, m, d) == YearStart(year - 2000) + MonthStart(year, m) + d - 1

\* 2000-01-01 was a Saturday
WeekdayOf(n) == ((n + 5) % 7) + 1

\* dow counts the days as the calendar does, from a Saturday.
LEMMA WeekdayIsRight ==
    ASSUME NEW year \in 2000 .. 2099, NEW m \in 1 .. 12, NEW d \in 1 .. 31
    PROVE  dow(year, m, d) = WeekdayOf(DayNumber(year, m, d))
<1> DEFINE y == year - 2000
<1>0. y \in 0 .. 99 /\ year = 2000 + y
    OBVIOUS
<1> HIDE DEF y
<1> DEFINE n == YearStart(y) + MonthStart(year, m) + d - 1
           yy == IF m < 3 THEN 1999 + y ELSE 2000 + y
           v == yy + yy \div 4 - yy \div 100 + yy \div 400 + dowArray[m] + d
<1>1. \/ m = 1 \/ m = 2 \/ m = 3 \/ m = 4 \/ m = 5 \/ m = 6
      \/ m = 7 \/ m = 8 \/ m = 9 \/ m = 10 \/ m = 11 \/ m = 12
    BY Months
<1>2. /\ dowArray[1] = 0 /\ dowArray[2] = 3 /\ dowArray[3] = 2 /\ dowArray[4] = 5
      /\ dowArray[5] = 0 /\ dowArray[6] = 3 /\ dowArray[7] = 5 /\ dowArray[8] = 1
      /\ dowArray[9] = 4 /\ dowArray[10] = 6 /\ dowArray[11] = 2 /\ dowArray[12] = 4
    BY DEF dowArray
<1>3. /\ Table[1] = 0 /\ Table[2] = 31 /\ Table[3] = 59 /\ Table[4] = 90
      /\ Table[5] = 120 /\ Table[6] = 151 /\ Table[7] = 181 /\ Table[8] = 212
      /\ Table[9] = 243 /\ Table[10] = 273 /\ Table[11] = 304 /\ Table[12] = 334
    BY Entries
\* the years up to 2000 are a whole number of weeks
<1>4. yy + yy \div 4 - yy \div 100 + yy \div 400
          = IF m < 3 THEN 2483 + y + (y + 3) \div 4 ELSE 2485 + y + y \div 4
    <2>1. CASE m < 3 /\ y = 0
        <3>1. yy = 1999
            BY <1>0, <2>1
        <3> QED BY <2>1, <3>1
    <2>2. CASE m < 3 /\ y # 0
        <3>1. yy = 1999 + y /\ y \in 1 .. 99
            BY <1>0, <2>2
        <3>2. /\ (1999 + y) \div 4 = 500 + (y - 1) \div 4
              /\ (1999 + y) \div 100 = 20
              /\ (1999 + y) \div 400 = 5
            BY <3>1
        <3>3. (y + 3) \div 4 = 1 + (y - 1) \div 4
            BY <3>1
        <3> HIDE DEF yy
        <3> QED BY <1>0, <2>2, <3>1, <3>2, <3>3
    <2>3. CASE m >= 3
        <3>1. yy = 2000 + y
            BY <1>0, <2>3
        <3>2. /\ (2000 + y) \div 4 = 500 + y \div 4
              /\ (2000 + y) \div 100 = 20
              /\ (2000 + y) \div 400 = 5
            BY <1>0
        <3> HIDE DEF yy
        <3> QED BY <1>0, <2>3, <3>1, <3>2
    <2> QED BY <1>0, <2>1, <2>2, <2>3
<1>5. /\ m < 3 => n = 365 * y + (y + 3) \div 4 + Table[m] + d - 1
      /\ m >= 3 => n = 365 * y + 1 + y \div 4 + Table[m] + d - 1
    <2>1. (y + 3) \div 4 + LeapDay(year) = 1 + y \div 4
        BY <1>0 DEF LeapDay
    <2>2. LeapDay(year) \in {0, 1} /\ Table[m] \in 0 .. 334
        BY TableTypes DEF LeapDay
    <2>3. YearStart(y) = 365 * y + (y + 3) \div 4
        BY DEF YearStart
    <2>4. MonthStart(year, m) = Table[m] + IF m > 2 THEN LeapDay(year) ELSE 0
        BY DEF MonthStart
    <2>5. (y + 3) \div 4 \in Int /\ y \div 4 \in Int
        BY <1>0
    <2>6. CASE m < 3
        BY <1>0, <2>2, <2>3, <2>4, <2>5, <2>6
    <2>7. CASE m >= 3
        <3> DEFINE early == (y + 3) \div 4
                   late == y \div 4
                   leap == LeapDay(year)
                   t == Table[m]
        <3>1. early + leap = 1 + late /\ n = 365 * y + early + (t + leap) + d - 1
            BY <2>1, <2>3, <2>4, <2>7
        <3>2. early \in Int /\ late \in Int /\ leap \in Int /\ t \in Int
            BY <2>2, <2>5
        <3> HIDE DEF early, late, leap, t, n
        <3>3. n = 365 * y + 1 + late + t + d - 1
            BY <1>0, <3>1, <3>2
        <3> QED BY <2>7, <3>3 DEF late, t
    <2> QED BY <2>6, <2>7
<1> HIDE DEF n
<1> DEFINE lp == IF m < 3 THEN (y + 3) \div 4 ELSE y \div 4
           w == IF m < 3 THEN 2483 + dowArray[m] - Table[m] ELSE 2484 + dowArray[m] - Table[m]
<1>6. v = (n + 6) + (w - 5) - 364 * y /\ w \in Int /\ (w - 5) % 7 = 0
    <2>1. lp \in Int
        BY <1>0
    <2>2. v = (IF m < 3 THEN 2483 ELSE 2485) + y + lp + dowArray[m] + d
        BY <1>4
    <2>3. n = 365 * y + lp + (IF m < 3 THEN 0 ELSE 1) + Table[m] + d - 1
        <3>1. CASE m < 3
            <4>1. lp = (y + 3) \div 4
                BY <3>1
            <4>2. n = 365 * y + (y + 3) \div 4 + Table[m] + d - 1
                BY <1>5, <3>1
            <4>3. Table[m] \in Int /\ y \in Int
                BY <1>0, <1>1, <1>3
            <4> HIDE DEF lp
            <4> QED BY <2>1, <3>1, <4>1, <4>2, <4>3
        <3>2. CASE m >= 3
            <4>1. lp = y \div 4
                BY <3>2
            <4>2. n = 365 * y + 1 + y \div 4 + Table[m] + d - 1
                BY <1>5, <3>2
            <4>3. Table[m] \in Int /\ y \in Int
                BY <1>0, <1>1, <1>3
            <4> HIDE DEF lp
            <4> QED BY <2>1, <3>2, <4>1, <4>2, <4>3
        <3> QED BY <3>1, <3>2
    <2>4. dowArray[m] \in Int /\ Table[m] \in Int
        BY <1>1, <1>2, <1>3
    <2>5. w \in Int
        BY <2>4
    <2>6. v = (n + 6) + (w - 5) - 364 * y
        <3> HIDE DEF lp, v
        <3> QED BY <1>0, <2>1, <2>2, <2>3, <2>4
    <2>7. (w - 5) % 7 = 0
        BY <1>1, <1>2, <1>3
    <2> QED BY <2>5, <2>6, <2>7
<1>7. n \in Int /\ v \in Int
    BY <1>0, <1>1, <1>2, <1>3, <1>4, <1>5
<1>8. v % 7 = (n + 6) % 7
    <2> HIDE DEF v, w
    <2> QED BY <1>0, <1>6, <1>7
<1>9. dow(year, m, d) = IF v % 7 = 0 THEN 7 ELSE v % 7
    <2>1. (IF m < 3 THEN year - 1 ELSE year) = yy
        BY <1>0
    <2> HIDE DEF yy
    <2> QED BY <2>1 DEF dow
<1> HIDE DEF v
<1>10. dow(year, m, d) = ((n + 5) % 7) + 1
    BY <1>7, <1>8, <1>9
<1>11. n = DayNumber(year, m, d)
    BY DEF n, y, DayNumber
<1> QED BY <1>10, <1>11 DEF WeekdayOf

\* a month ends within its year
LEMMA MonthsEnd ==
    ASSUME NEW year \in Int, NEW m \in 1 .. 12
    PROVE  MonthStart(year, m) + daysInMonth(year, m) <= YearLength(year)
<1>1. CASE m = 12
    <2>1. MonthStart(year, 12) + daysInMonth(year, 12) = YearLength(year)
        BY MonthsFollow
    <2>2. YearLength(year) \in Int
        BY DEF YearLength
    <2> QED BY ONLY <1>1, <2>1, <2>2
<1>2. CASE m # 12
    <2>1. m + 1 \in 2 .. 12 /\ m + 1 \in 1 .. 12 /\ m + 1 - 1 = m
        BY <1>2
    <2>2. MonthStart(year, m + 1) = MonthStart(year, m + 1 - 1) + daysInMonth(year, m + 1 - 1)
        BY <2>1, MonthsFollow
    <2>3. MonthStart(year, m + 1) \in 0 .. 335 /\ YearLength(year) >= 365
        <3>1. MonthStart(year, m + 1) \in 0 .. 335
            BY <2>1, MonthsFollow
        <3>2. YearLength(year) >= 365
            BY DEF YearLength
        <3> QED BY <3>1, <3>2
    <2>4. MonthStart(year, m + 1) = MonthStart(year, m) + daysInMonth(year, m)
        BY <2>1, <2>2
    <2>5. YearLength(year) \in Int
        BY DEF YearLength
    <2> QED BY <2>3, <2>4, <2>5
<1> QED BY <1>1, <1>2

-----------------------------------------------------------------------------
\* Any second of any day up to 2099 that is set is read back, with its weekday.
THEOREM TimeIsReadBack == CalendarSpec => []SetReadsBack
<1>1. ASSUME DateInv PROVE SetReadsBack
    <2> SUFFICES ASSUME NEW s \in Seconds
                 PROVE  LET dt == DateTimeOf(TimeRegisters(FieldsOf(days, s)))
                        IN  /\ [year |-> dt.year, month |-> dt.month, day |-> dt.day] = date
                            /\ dt.hour * 3600 + dt.minute * 60 + dt.second = s
                            /\ dt.dayOfWeek = ((days + 5) % 7) + 1
        BY DEF SetReadsBack
    <2>0. s \in Int /\ 0 <= s /\ s < DaySeconds
        <3>1. DaySeconds \in Int
            BY DEF DaySeconds
        <3>2. s \in 0 .. DaySeconds - 1
            BY CalendarAssumption
        <3> QED BY ONLY <3>1, <3>2
    <2> DEFINE y == date.year - 2000
               m == date.month
               d == date.day
               f == FieldsOf(days, s)
               dt == DateTimeOf(TimeRegisters(f))
               week == dow(f.year, f.month, f.day)
    <2>1. /\ date = [year |-> 2000 + y, month |-> m, day |-> d]
          /\ y \in 0 .. 99 /\ m \in 1 .. 12 /\ d \in 1 .. 31
          /\ d <= daysInMonth(y, m)
          /\ days = YearStart(y) + MonthStart(2000 + y, m) + d - 1
        <3>1. date \in [year : 2000 .. 2099, month : 1 .. 12, day : 1 .. 31]
            BY <1>1 DEF DateInv
        <3>2. d <= MonthLength(date) /\ MonthLength(date) = daysInMonth(date.year - 2000, m)
            BY <1>1, <3>1, MonthLengths DEF DateInv
        <3>3. days = YearStart(y) + MonthStart(date.year, m) + d - 1
            BY <1>1 DEF DateInv, YearOf
        <3>4. date.year = 2000 + y
            BY <3>1
        <3> QED BY <3>1, <3>2, <3>3, <3>4
    <2> HIDE DEF y, m, d
    <2>3. /\ YearStart(y) \in Nat /\ MonthStart(y, m) \in Nat /\ daysInMonth(y, m) \in Nat
          /\ MonthStart(2000 + y, m) = MonthStart(y, m)
          /\ MonthStart(y, m) + d - 1 < YearLength(y)
          /\ YearLength(y) \in Nat
        <3>1. YearStart(y) \in Nat /\ YearLength(y) \in Nat
            BY <2>1 DEF YearStart, YearLength
        <3>2. MonthStart(2000 + y, m) = MonthStart(y, m)
            <4>1. LeapDay(2000 + y) = LeapDay(y)
                BY <2>1 DEF LeapDay
            <4> QED BY <4>1 DEF MonthStart
        <3>3. MonthStart(y, m) \in Nat /\ daysInMonth(y, m) \in Nat
            <4>1. daysArray[m] \in 28 .. 31 /\ Table[m] \in 0 .. 334
                BY <2>1, TableTypes
            <4> QED BY <2>1, <4>1 DEF daysInMonth, MonthStart, LeapDay
        <3>4. MonthStart(y, m) + daysInMonth(y, m) <= YearLength(y)
            BY <2>1, MonthsEnd
        <3> QED BY <2>1, <3>1, <3>2, <3>3, <3>4
    <2>4. takeYears(days) = [year |-> y, days |-> MonthStart(y, m) + d - 1]
        <3>1. days \in Nat /\ YearStart(y) <= days /\ days < YearStart(y) + YearLength(y)
            BY <2>1, <2>3
        <3>4. y \in 0 .. 99
            BY <2>1
        <3>2. takeYears(days) = [year |-> y, days |-> days - YearStart(y)]
            BY ONLY <3>4, <3>1, TakesYears
        <3>3. days - YearStart(y) = MonthStart(y, m) + d - 1
            BY <2>1, <2>3
        <3> QED BY <3>2, <3>3
    <2>5. takeMonths(MonthStart(y, m) + d - 1, y) = [month |-> m, days |-> d - 1]
        <3> DEFINE n == MonthStart(y, m) + d - 1
        <3>1. n \in Nat /\ MonthStart(y, m) <= n /\ n < MonthStart(y, m) + daysInMonth(y, m)
              /\ n - MonthStart(y, m) = d - 1 /\ y \in Int
            BY <2>1, <2>3
        <3> HIDE DEF n
        <3>2. takeMonths(n, y) = [month |-> m, days |-> n - MonthStart(y, m)]
            BY <2>1, <3>1, TakesMonths
        <3> QED BY <3>1, <3>2 DEF n
    <2>6. f = [year |-> 2000 + y, month |-> m, day |-> d, hour |-> s \div 3600,
               minute |-> (s \div 60) % 60, second |-> s % 60]
        <3>1. y + 2000 = 2000 + y /\ d - 1 + 1 = d
            BY <2>1
        <3> QED BY <2>4, <2>5, <3>1 DEF FieldsOf
    <2>7. /\ f.year = 2000 + y /\ f.month = m /\ f.day = d /\ f.hour = s \div 3600
          /\ f.minute = (s \div 60) % 60 /\ f.second = s % 60 /\ f.year - 2000 = y
        <3> HIDE DEF f
        <3> QED BY <2>1, <2>6
    <2> HIDE DEF f
    <2>8. /\ dt.second = bcd2dec(dec2bcd(f.second)) /\ dt.minute = bcd2dec(dec2bcd(f.minute))
          /\ dt.hour = bcd2dec(dec2bcd(f.hour)) /\ dt.dayOfWeek = bcd2dec(dec2bcd(week))
          /\ dt.day = bcd2dec(dec2bcd(f.day)) /\ dt.month = bcd2dec(dec2bcd(f.month))
          /\ dt.year = bcd2dec(dec2bcd(f.year - 2000)) + 2000
        BY DEF DateTimeOf, TimeRegisters
    <2>9. week = ((days + 5) % 7) + 1
        <3>1. week = dow(2000 + y, m, d)
            BY <2>7
        <3> HIDE DEF week
        <3> DEFINE year == 2000 + y
        <3>2. /\ year \in 2000 .. 2099 /\ m \in 1 .. 12 /\ d \in 1 .. 31
              /\ year - 2000 = y
              /\ days = YearStart(y) + MonthStart(year, m) + d - 1
            BY <2>1
        <3>3. days = DayNumber(year, m, d)
            BY <3>2 DEF DayNumber
        <3> HIDE DEF year
        <3>4. dow(year, m, d) = WeekdayOf(DayNumber(year, m, d))
            <4>1. year \in 2000 .. 2099 /\ m \in 1 .. 12 /\ d \in 1 .. 31
                BY <3>2
            <4> QED BY ONLY <4>1, WeekdayIsRight, SMTT(30)
        <3>5. week = dow(year, m, d)
            BY <3>1 DEF year
        <3> QED BY ONLY <3>3, <3>4, <3>5 DEF WeekdayOf
    <2>10. week \in 0 .. 99
        <3>1. days \in Nat
            BY <2>1, <2>3
        <3> QED BY <2>9, <3>1
    <2> HIDE DEF week, dt
    <2>11. /\ s \div 3600 \in 0 .. 99 /\ (s \div 60) % 60 \in 0 .. 99 /\ s % 60 \in 0 .. 99
           /\ (s \div 3600) * 3600 + ((s \div 60) % 60) * 60 + (s % 60) = s
        <3>1. /\ s \div 3600 \in 0 .. 23 /\ (s \div 60) % 60 \in 0 .. 59 /\ s % 60 \in 0 .. 59
              /\ (s \div 3600) * 3600 + ((s \div 60) % 60) * 60 + (s % 60) = s
            BY ONLY <2>0, TimeReadsBack
        <3>2. \A i : i \in 0 .. 59 \/ i \in 0 .. 23 => i \in 0 .. 99
            OBVIOUS
        <3> QED BY ONLY <3>1, <3>2
    <2>12. dt.year = 2000 + y /\ dt.month = m /\ dt.day = d
        <3>1. y \in 0 .. 99 /\ m \in 0 .. 99 /\ d \in 0 .. 99
            BY <2>1
        <3>2. dt.year = y + 2000 /\ dt.month = m /\ dt.day = d
            BY <2>7, <2>8, <3>1, DigitsReadBack
        <3> QED BY <3>1, <3>2
    <2>13. /\ dt.hour = s \div 3600 /\ dt.minute = (s \div 60) % 60 /\ dt.second = s % 60
           /\ dt.dayOfWeek = week
        BY <2>7, <2>8, <2>10, <2>11, DigitsReadBack
    <2>14. [year |-> dt.year, month |-> dt.month, day |-> dt.day] = date
        BY <2>1, <2>12
    <2>15. dt.hour * 3600 + dt.minute * 60 + dt.second = s
        BY <2>11, <2>13
    <2>16. dt.dayOfWeek = ((days + 5) % 7) + 1
        BY <2>9, <2>13
    <2> QED BY <2>14, <2>15, <2>16 DEF dt, f
<1> QED BY <1>1, DateAlways, PTL

\* unixtime's days are off by one from February on, in leap years, and only there.
THEOREM DaysAreCounted == CalendarSpec => []CountsDaysUpToLeap
<1>1. ASSUME DateInv PROVE CountsDaysUpToLeap
    <2> DEFINE y == date.year - 2000
               m == date.month
               d == date.day
               extra == IF m = 2 /\ isLeapYear(y) THEN 1 ELSE 0
    <2>1. /\ date.year = 2000 + y /\ y \in 0 .. 99 /\ m \in 1 .. 12 /\ d \in 1 .. 31
          /\ days = YearStart(y) + MonthStart(2000 + y, m) + d - 1
        <3>1. date \in [year : 2000 .. 2099, month : 1 .. 12, day : 1 .. 31]
            BY <1>1 DEF DateInv
        <3>2. days = YearStart(y) + MonthStart(date.year, m) + d - 1
            BY <1>1 DEF DateInv, YearOf
        <3>3. date.year = 2000 + y
            BY <3>1
        <3> QED BY <3>1, <3>2, <3>3
    <2>2. date2days(date.year, m, d)
              = (d + Table[m] + extra + 365 * y + (y + 3) \div 4 - 1) % 65536
        <3>1. 2^16 = 65536
            OBVIOUS
        <3>2. daysBefore[m] = Table[m]
            BY <2>1, BeforeIsTable
        <3> HIDE DEF m, d
        <3> QED BY <3>1, <3>2 DEF date2days, uint16
    <2> HIDE DEF y, m, d
    <2>3. Table[m] \in 0 .. 334 /\ extra \in {0, 1}
        BY <2>1, TableTypes
    <2>4. date2days(date.year, m, d) = d + Table[m] + extra + 365 * y + (y + 3) \div 4 - 1
        <3> DEFINE sum == d + Table[m] + extra + 365 * y + (y + 3) \div 4 - 1
        <3>1. sum \in Int /\ sum >= 0 /\ sum <= 65535
            <4> HIDE DEF extra
            <4>1. (y + 3) \div 4 \in 0 .. 25
                BY <2>1
            <4>2. y \in 0 .. 99 /\ d \in 1 .. 31
                BY <2>1
            <4>3. Table[m] \in 0 .. 334 /\ extra \in 0 .. 1
                BY <2>3
            <4> DEFINE t == Table[m]
                       q == (y + 3) \div 4
            <4>4. sum = d + t + extra + 365 * y + q - 1
                OBVIOUS
            <4> HIDE DEF sum, t, q
            <4>5. t \in 0 .. 334 /\ q \in 0 .. 25
                BY <4>1, <4>3 DEF t, q
            <4> QED BY ONLY <4>2, <4>3, <4>4, <4>5
        <3> HIDE DEF sum, extra
        <3>2. sum % 65536 = sum
            BY ONLY <3>1
        <3> QED BY <2>2, <3>2 DEF sum
    <2>5. /\ (2000 + y) % 4 = y % 4
          /\ extra = IF m = 2 /\ (2000 + y) % 4 = 0 THEN 1 ELSE 0
        <3>1. (2000 + y) % 4 = y % 4
            BY <2>1
        <3> QED BY <3>1 DEF isLeapYear
    <2> HIDE DEF extra
    <2>6. days = 365 * y + (y + 3) \div 4 + Table[m]
                     + (IF m > 2 /\ (2000 + y) % 4 = 0 THEN 1 ELSE 0) + d - 1
        BY <2>1, <2>3 DEF YearStart, MonthStart, LeapDay
    <2>7. date2days(date.year, m, d) =
              days + CASE (2000 + y) % 4 # 0 \/ m = 1 -> 0
                       [] (2000 + y) % 4 = 0 /\ m = 2 -> 1
                       [] OTHER -> -1
        <3> DEFINE q == (y + 3) \div 4
                   t == Table[m]
                   leap == (2000 + y) % 4 = 0
        <3>1. q \in Int /\ t \in Int /\ y \in Int /\ m \in 1 .. 12 /\ d \in Int
            BY <2>1, <2>3
        <3>2. /\ date2days(date.year, m, d) = d + t + extra + 365 * y + q - 1
              /\ extra = IF m = 2 /\ leap THEN 1 ELSE 0
              /\ days = 365 * y + q + t + (IF m > 2 /\ leap THEN 1 ELSE 0) + d - 1
            BY <2>4, <2>5, <2>6
        <3>3. date2days(date.year, m, d) =
                  days + CASE ~leap \/ m = 1 -> 0 [] leap /\ m = 2 -> 1 [] OTHER -> -1
            <4> HIDE DEF q, t, leap
            <4> DEFINE n == date2days(date.year, m, d)
            <4> HIDE DEF n
            <4>1. n = d + t + extra + 365 * y + q - 1
                BY <3>2 DEF n
            <4>2. CASE ~leap \/ m = 1
                BY <3>1, <3>2, <4>1, <4>2 DEF n
            <4>3. CASE leap /\ m = 2
                BY <3>1, <3>2, <4>1, <4>3 DEF n
            <4>4. CASE leap /\ m > 2
                BY <3>1, <3>2, <4>1, <4>4 DEF n
            <4> QED BY <3>1, <4>2, <4>3, <4>4
        <3> QED BY <3>3
    <2> QED BY <2>1, <2>7 DEF CountsDaysUpToLeap, m, d
<1> QED BY <1>1, DateAlways, PTL

-----------------------------------------------------------------------------
(* The other registers: bits of a byte, one by one. *)

\* the bits of CONTROL that are set one at a time; the two of setOutput are a field
Weights == {1, 2, 4, 32, 64, 128}

ModeOf(b) == (b \div 8) % 4

\* c is b but for the bit of weight w
Changes(b, w, i, c) ==
    /\ c \in 0 .. 255 /\ Bit(c, w) = i
    /\ ModeOf(c) = ModeOf(b)
    /\ \A v \in Weights \ {w} : Bit(c, v) = Bit(b, v)

LEMMA ChangesOneBit ==
    ASSUME NEW b \in 0 .. 255, NEW w \in Weights, NEW i \in 0 .. 1
    PROVE  Changes(b, w, i, With(b, w, i))
<1> USE DEF With, Bit, ModeOf
<1>1. Changes(b, 1, i, With(b, 1, i))
    <2> DEFINE c == With(b, 1, i)
    <2>1. c \in 0 .. 255 /\ Bit(c, 1) = i /\ ModeOf(c) = ModeOf(b)
        OBVIOUS
    <2>2. /\ Bit(c, 2) = Bit(b, 2) /\ Bit(c, 4) = Bit(b, 4) /\ Bit(c, 32) = Bit(b, 32)
          /\ Bit(c, 64) = Bit(b, 64) /\ Bit(c, 128) = Bit(b, 128)
        OBVIOUS
    <2> HIDE DEF c, With, Bit, ModeOf
    <2> QED BY <2>1, <2>2 DEF Changes, Weights, c
<1>2. Changes(b, 2, i, With(b, 2, i))
    <2> DEFINE c == With(b, 2, i)
    <2>1. c \in 0 .. 255 /\ Bit(c, 2) = i /\ ModeOf(c) = ModeOf(b)
        OBVIOUS
    <2>2. /\ Bit(c, 1) = Bit(b, 1) /\ Bit(c, 4) = Bit(b, 4) /\ Bit(c, 32) = Bit(b, 32)
          /\ Bit(c, 64) = Bit(b, 64) /\ Bit(c, 128) = Bit(b, 128)
        OBVIOUS
    <2> HIDE DEF c, With, Bit, ModeOf
    <2> QED BY <2>1, <2>2 DEF Changes, Weights, c
<1>3. Changes(b, 4, i, With(b, 4, i))
    <2> DEFINE c == With(b, 4, i)
    <2>1. c \in 0 .. 255 /\ Bit(c, 4) = i /\ ModeOf(c) = ModeOf(b)
        OBVIOUS
    <2>2. /\ Bit(c, 1) = Bit(b, 1) /\ Bit(c, 2) = Bit(b, 2) /\ Bit(c, 32) = Bit(b, 32)
          /\ Bit(c, 64) = Bit(b, 64) /\ Bit(c, 128) = Bit(b, 128)
        OBVIOUS
    <2> HIDE DEF c, With, Bit, ModeOf
    <2> QED BY <2>1, <2>2 DEF Changes, Weights, c
<1>4. Changes(b, 32, i, With(b, 32, i))
    <2> DEFINE c == With(b, 32, i)
    <2>1. c \in 0 .. 255 /\ Bit(c, 32) = i /\ ModeOf(c) = ModeOf(b)
        OBVIOUS
    <2>2. /\ Bit(c, 1) = Bit(b, 1) /\ Bit(c, 2) = Bit(b, 2) /\ Bit(c, 4) = Bit(b, 4)
          /\ Bit(c, 64) = Bit(b, 64) /\ Bit(c, 128) = Bit(b, 128)
        OBVIOUS
    <2> HIDE DEF c, With, Bit, ModeOf
    <2> QED BY <2>1, <2>2 DEF Changes, Weights, c
<1>5. Changes(b, 64, i, With(b, 64, i))
    <2> DEFINE c == With(b, 64, i)
    <2>1. c \in 0 .. 255 /\ Bit(c, 64) = i /\ ModeOf(c) = ModeOf(b)
        OBVIOUS
    <2>2. /\ Bit(c, 1) = Bit(b, 1) /\ Bit(c, 2) = Bit(b, 2) /\ Bit(c, 4) = Bit(b, 4)
          /\ Bit(c, 32) = Bit(b, 32) /\ Bit(c, 128) = Bit(b, 128)
        OBVIOUS
    <2> HIDE DEF c, With, Bit, ModeOf
    <2> QED BY <2>1, <2>2 DEF Changes, Weights, c
<1>6. Changes(b, 128, i, With(b, 128, i))
    <2> DEFINE c == With(b, 128, i)
    <2>1. c \in 0 .. 255 /\ Bit(c, 128) = i /\ ModeOf(c) = ModeOf(b)
        OBVIOUS
    <2>2. /\ Bit(c, 1) = Bit(b, 1) /\ Bit(c, 2) = Bit(b, 2) /\ Bit(c, 4) = Bit(b, 4)
          /\ Bit(c, 32) = Bit(b, 32) /\ Bit(c, 64) = Bit(b, 64)
        OBVIOUS
    <2> HIDE DEF c, With, Bit, ModeOf
    <2> QED BY <2>1, <2>2 DEF Changes, Weights, c
<1> HIDE DEF With, Bit, ModeOf
<1> QED BY <1>1, <1>2, <1>3, <1>4, <1>5, <1>6 DEF Weights

LEMMA ChangesMode ==
    ASSUME NEW b \in 0 .. 255, NEW mode \in 0 .. 3, NEW c, c = b + (mode - ModeOf(b)) * 8
    PROVE  /\ c \in 0 .. 255 /\ ModeOf(c) = mode
           /\ \A v \in Weights : Bit(c, v) = Bit(b, v)
<1>1. c \in 0 .. 255 /\ ModeOf(c) = mode
    BY DEF ModeOf
<1>2. /\ Bit(c, 1) = Bit(b, 1) /\ Bit(c, 2) = Bit(b, 2) /\ Bit(c, 4) = Bit(b, 4)
      /\ Bit(c, 32) = Bit(b, 32) /\ Bit(c, 64) = Bit(b, 64) /\ Bit(c, 128) = Bit(b, 128)
    BY DEF Bit, ModeOf
<1> QED BY ONLY <1>1, <1>2 DEF Weights

\* The status register: what is written to it changes EN32kHz alone.
LEMMA ChangesEnable ==
    ASSUME NEW b \in 0 .. 255, NEW i \in 0 .. 1
    PROVE  With(b, 8, i) \in 0 .. 255 /\ Bit(With(b, 8, i), 8) = i
BY DEF With, Bit

LEMMA ChangesFlag ==
    ASSUME NEW b \in 0 .. 255, NEW i \in 0 .. 1, NEW w \in {1, 2}
    PROVE  With(b, w, i) \in 0 .. 255 /\ Bit(With(b, w, i), 8) = Bit(b, 8)
<1>1. CASE w = 1
    BY <1>1 DEF With, Bit
<1>2. CASE w = 2
    BY <1>2 DEF With, Bit
<1> QED BY <1>1, <1>2

LEMMA StatusIsWritten ==
    ASSUME status \in 0 .. 255, NEW v \in 0 .. 255
    PROVE  StatusWritten(v) \in 0 .. 255 /\ Bit(StatusWritten(v), 8) = Bit(v, 8)
<1> DEFINE flag(w) == IF Bit(status, w) = 1 /\ Bit(v, w) = 1 THEN w ELSE 0
           bit == Bit(v, 8)
<1>1. flag(1) \in {0, 1} /\ flag(2) \in {0, 2} /\ flag(128) \in {0, 128}
    OBVIOUS
<1>2. bit \in 0 .. 1
    BY DEF Bit
<1>3. StatusWritten(v) = flag(1) + flag(2) + flag(128) + bit * 8
    BY DEF StatusWritten, A1F, A2F, OSF, EN32kHz
<1> HIDE DEF flag, bit
<1>4. StatusWritten(v) \in 0 .. 255 /\ Bit(StatusWritten(v), 8) = bit
    BY <1>1, <1>2, <1>3 DEF Bit
<1> QED BY <1>4 DEF bit

-----------------------------------------------------------------------------
(* The registers of an alarm: two digits, and bit 7 where its mode ignores them. *)

LEMMA ValueReadsBack ==
    ASSUME NEW n \in 0 .. 59, NEW i \in 0 .. 1, NEW r, r = With(dec2bcd(n), 128, i)
    PROVE  /\ r \in 0 .. 255
           /\ bcd2dec(r % 128) = n
           /\ bcd2dec(r) = n + 80 * i
<1> DEFINE q == n \div 10
           u == n % 10
<1>1. q \in 0 .. 5 /\ u \in 0 .. 9 /\ n = 10 * q + u
    OBVIOUS
<1>2. \A x \in 0 .. 255 : uint8(x) = x
    BY 2^8 = 256 DEF uint8
<1>3. dec2bcd(n) = q * 16 + u
    <2>1. dec2bcd(n) = uint8(q * 16 + u)
        BY DEF dec2bcd
    <2> HIDE DEF q, u
    <2> QED BY <1>1, <1>2, <2>1
<1> HIDE DEF q, u
<1>4. r = q * 16 + u + 128 * i
    <2> DEFINE d == q * 16 + u
    <2>1. d \in 0 .. 127
        BY <1>1
    <2>2. r = With(d, 128, i)
        BY <1>3
    <2> HIDE DEF d
    <2>3. r = d + 128 * i
        BY <2>1, <2>2 DEF With, Bit
    <2> QED BY <2>3 DEF d
<1>5. r % 128 = q * 16 + u
    BY <1>1, <1>4
<1>6. r \div 16 = q + 8 * i /\ r % 16 = u
    BY <1>1, <1>4
<1>7. (r % 128) \div 16 = q /\ (r % 128) % 16 = u
    BY <1>1, <1>5
<1>8. bcd2dec(r) = uint8((q + 8 * i) * 10 + u) /\ bcd2dec(r % 128) = uint8(q * 10 + u)
    BY <1>6, <1>7 DEF bcd2dec
<1>9. (q + 8 * i) * 10 + u \in 0 .. 255 /\ q * 10 + u \in 0 .. 255
    BY <1>1
<1>10. bcd2dec(r) = (q + 8 * i) * 10 + u /\ bcd2dec(r % 128) = q * 10 + u
    BY ONLY <1>2, <1>8, <1>9
<1> QED BY <1>1, <1>4, <1>10

LEMMA WeekdayReadsBack ==
    ASSUME NEW n \in 1 .. 7, NEW r, r = With(With(dec2bcd(n), 128, 0), 64, 1)
    PROVE  bcd2dec(r % 128) = n + 40 /\ bcd2dec(r) = n + 40
<1>1. \A x \in 0 .. 255 : uint8(x) = x
    BY 2^8 = 256 DEF uint8
<1>2. dec2bcd(n) = n
    <2>1. (n \div 10) * 16 + (n % 10) = n
        OBVIOUS
    <2> QED BY <1>1, <2>1 DEF dec2bcd
<1>3. r = n + 64
    BY <1>2 DEF With, Bit
<1>4. r % 128 = r /\ r \div 16 = 4 /\ r % 16 = n
    BY <1>3
<1>5. bcd2dec(r) = uint8(40 + n)
    BY <1>4 DEF bcd2dec
<1> QED BY <1>1, <1>4, <1>5

\* the mark that getAlarmType finds in a value
LEMMA MarkReadsBack ==
    ASSUME NEW n \in 0 .. 59, NEW i \in 0 .. 1
    PROVE  /\ Bit(n + 80 * i, 64) = IF i = 1 /\ n < 48 THEN 1 ELSE 0
           /\ n <= 31 => Bit(n + 80 * i, 32) = IF i = 1 /\ n >= 16 THEN 1 ELSE 0
<1>1. CASE i = 0
    BY <1>1 DEF Bit
<1>2. CASE i = 1
    BY <1>2 DEF Bit
<1> QED BY <1>1, <1>2

-----------------------------------------------------------------------------
(* The invariant: what is said to be set is what the registers hold. *)

Settings ==
    [output : BOOLEAN, mode : 0 .. 3, armed1 : BOOLEAN, armed2 : BOOLEAN, kHz32 : BOOLEAN,
     clock : BOOLEAN,
     alarm : [day : 0 .. 31, hour : 0 .. 23, minute : 0 .. 59, second : 0 .. 59, type : -1 .. 16]]

\* What can be in an alarm's registers: a request, or what setDateTime leaves of it.
Alarms ==
    {a \in [day : 0 .. 31, hour : 0 .. 23, minute : 0 .. 59, second : 0 .. 59,
            type : {15, 14, 12, 8, 0, 16}] :
        /\ a.type = 16 => a.day \in 1 .. 7
        /\ part # "alarm1" => a.type # 15}

\* CONTROL and the settings that are read from it
ControlShows(c, s) ==
    /\ c \in 0 .. 255
    /\ Bit(c, 4) = One(~s.output)
    /\ ModeOf(c) = s.mode
    /\ Bit(c, 1) = One(s.armed1)
    /\ Bit(c, 2) = One(s.armed2)

StatusShows(b, s) == b \in 0 .. 255 /\ Bit(b, 8) = One(s.kHz32)

ClockInv ==
    /\ part \in {"settings", "alarm1", "alarm2", "temperature"}
    /\ set \in Settings
    /\ ControlShows(control, set)
    /\ StatusShows(status, set)
    /\ temperature \in -512 .. 511
    /\ set.alarm # NoAlarm => set.alarm \in Alarms /\ alarm = AlarmRegisters(AlarmLeft)

LEMMA OneOrNot ==
    ASSUME NEW b \in 0 .. 255, NEW w \in {1, 2, 4, 8}, NEW on \in BOOLEAN
    PROVE  /\ Bit(b, w) = One(on) <=> ((Bit(b, w) = 1) = on)
           /\ Bit(b, w) = One(~on) <=> ((Bit(b, w) = 0) = on)
<1>1. Bit(b, w) \in {0, 1}
    BY DEF Bit
<1>2. ASSUME NEW bit \in {0, 1}
      PROVE  /\ bit = One(on) <=> ((bit = 1) = on)
             /\ bit = One(~on) <=> ((bit = 0) = on)
    BY DEF One
<1> QED BY <1>1, <1>2

LEMMA InvReadsBack == ClockInv => SettingsKept
<1> SUFFICES ASSUME ClockInv PROVE SettingsKept
    OBVIOUS
<1>1. /\ set.output \in BOOLEAN /\ set.armed1 \in BOOLEAN /\ set.armed2 \in BOOLEAN
      /\ set.kHz32 \in BOOLEAN /\ control \in 0 .. 255 /\ status \in 0 .. 255
    BY DEF ClockInv, Settings, ControlShows, StatusShows
<1>2. isOutput = set.output /\ isArmed1 = set.armed1 /\ isArmed2 = set.armed2
      /\ getOutput = set.mode
    BY <1>1, OneOrNot DEF ClockInv, ControlShows, isOutput, isArmed1, isArmed2, getOutput, ModeOf,
       INTCN, A1IE, A2IE
<1>3. is32kHz = set.kHz32
    BY <1>1, OneOrNot DEF ClockInv, StatusShows, is32kHz, EN32kHz
<1> QED BY <1>2, <1>3 DEF SettingsKept

LEMMA InitClock == RtcInit => ClockInv
<1> SUFFICES ASSUME RtcInit PROVE ClockInv
    OBVIOUS
<1>1. control \in 0 .. 255 /\ status \in 0 .. 255
    BY DEF RtcInit, INTCN, RS, EOSC, BBSQW, OSF, EN32kHz
<1>2. /\ set.output = isOutput /\ set.armed1 = isArmed1 /\ set.armed2 = isArmed2
      /\ set.kHz32 = is32kHz /\ set.mode = getOutput /\ set.alarm = NoAlarm
    BY DEF RtcInit
<1>3. /\ isOutput \in BOOLEAN /\ isArmed1 \in BOOLEAN /\ isArmed2 \in BOOLEAN /\ is32kHz \in BOOLEAN
      /\ getOutput \in 0 .. 3
    BY <1>1 DEF isOutput, isArmed1, isArmed2, is32kHz, getOutput
<1>4. set \in Settings
    BY <1>3 DEF RtcInit, Settings, NoAlarm
<1>5. ControlShows(control, set)
    <2>1. Bit(control, 4) = One(~set.output) /\ Bit(control, 1) = One(set.armed1)
          /\ Bit(control, 2) = One(set.armed2)
        <3>1. Bit(control, 4) = One(~isOutput)
            BY <1>1, <1>3, OneOrNot DEF isOutput, INTCN
        <3>2. Bit(control, 1) = One(isArmed1)
            BY <1>1, <1>3, OneOrNot DEF isArmed1, A1IE
        <3>3. Bit(control, 2) = One(isArmed2)
            BY <1>1, <1>3, OneOrNot DEF isArmed2, A2IE
        <3> QED BY <1>2, <3>1, <3>2, <3>3
    <2> QED BY <1>1, <1>2, <2>1 DEF ControlShows, getOutput, ModeOf
<1>6. StatusShows(status, set)
    <2>1. Bit(status, 8) = One(is32kHz)
        BY <1>1, <1>3, OneOrNot DEF is32kHz, EN32kHz
    <2> QED BY <1>1, <1>2, <2>1 DEF StatusShows
<1>7. temperature \in -512 .. 511
    BY ClockAssumption DEF RtcInit
<1> QED BY <1>2, <1>4, <1>5, <1>6, <1>7 DEF RtcInit, ClockInv

\* What the setters of CONTROL do to what it shows.
LEMMA ControlKeeps ==
    ASSUME NEW c, NEW s \in Settings, ControlShows(c, s), NEW on \in BOOLEAN
    PROVE  /\ ControlShows(With(c, 4, One(~on)), [s EXCEPT !["output"] = on])
           /\ ControlShows(With(c, 1, One(on)), [s EXCEPT !["armed1"] = on])
           /\ ControlShows(With(c, 2, One(on)), [s EXCEPT !["armed2"] = on])
           /\ \A w \in {32, 64, 128} : ControlShows(With(c, w, One(on)), s)
           /\ \A mode \in 0 .. 3 :
                  ControlShows(c + (mode - ModeOf(c)) * 8, [s EXCEPT !["mode"] = mode])
<1>1. c \in 0 .. 255 /\ One(on) \in 0 .. 1 /\ One(~on) \in 0 .. 1
    BY DEF ControlShows, One
<1>2. ControlShows(With(c, 4, One(~on)), [s EXCEPT !["output"] = on])
    <2>1. Changes(c, 4, One(~on), With(c, 4, One(~on)))
        BY <1>1, ChangesOneBit DEF Weights
    <2> QED BY <2>1 DEF Changes, Weights, ControlShows, Settings
<1>3. ControlShows(With(c, 1, One(on)), [s EXCEPT !["armed1"] = on])
    <2>1. Changes(c, 1, One(on), With(c, 1, One(on)))
        BY <1>1, ChangesOneBit DEF Weights
    <2> QED BY <2>1 DEF Changes, Weights, ControlShows, Settings
<1>4. ControlShows(With(c, 2, One(on)), [s EXCEPT !["armed2"] = on])
    <2>1. Changes(c, 2, One(on), With(c, 2, One(on)))
        BY <1>1, ChangesOneBit DEF Weights
    <2> QED BY <2>1 DEF Changes, Weights, ControlShows, Settings
<1>5. ASSUME NEW w \in {32, 64, 128} PROVE ControlShows(With(c, w, One(on)), s)
    <2>1. w \in Weights
        BY DEF Weights
    <2>2. Changes(c, w, One(on), With(c, w, One(on)))
        BY ONLY <1>1, <2>1, ChangesOneBit
    <2> QED BY <2>2 DEF Changes, Weights, ControlShows
<1>6. ASSUME NEW mode \in 0 .. 3
      PROVE  ControlShows(c + (mode - ModeOf(c)) * 8, [s EXCEPT !["mode"] = mode])
    <2> DEFINE d == c + (mode - ModeOf(c)) * 8
    <2>1. d \in 0 .. 255 /\ ModeOf(d) = mode /\ \A v \in Weights : Bit(d, v) = Bit(c, v)
        BY <1>1, ChangesMode
    <2> HIDE DEF d
    <2>2. ControlShows(d, [s EXCEPT !["mode"] = mode])
        BY <2>1 DEF Weights, ControlShows, Settings
    <2> QED BY <2>2 DEF d
<1> QED BY <1>2, <1>3, <1>4, <1>5, <1>6

LEMMA StatusKeeps ==
    ASSUME ClockInv, NEW on \in BOOLEAN
    PROVE  /\ StatusShows(StatusWritten(With(status, 8, One(on))), [set EXCEPT !["kHz32"] = on])
           /\ \A flag \in {1, 2} :
                  /\ StatusShows(StatusWritten(With(status, flag, 0)), set)
                  /\ StatusShows(With(status, flag, 1), set)
<1>1. /\ status \in 0 .. 255 /\ Bit(status, 8) = One(set.kHz32) /\ set \in Settings
      /\ One(on) \in 0 .. 1
    BY DEF ClockInv, StatusShows, One
<1>2. With(status, 8, One(on)) \in 0 .. 255 /\ Bit(With(status, 8, One(on)), 8) = One(on)
    BY ONLY <1>1, ChangesEnable
<1>3. \A v \in 0 .. 255 : StatusWritten(v) \in 0 .. 255 /\ Bit(StatusWritten(v), 8) = Bit(v, 8)
    BY <1>1, StatusIsWritten
<1>4. StatusShows(StatusWritten(With(status, 8, One(on))), [set EXCEPT !["kHz32"] = on])
    BY <1>1, <1>2, <1>3 DEF StatusShows, Settings
<1>5. ASSUME NEW flag \in {1, 2}
      PROVE  /\ StatusShows(StatusWritten(With(status, flag, 0)), set)
             /\ StatusShows(With(status, flag, 1), set)
    <2>1. ASSUME NEW i \in 0 .. 1
          PROVE  /\ With(status, flag, i) \in 0 .. 255
                 /\ Bit(With(status, flag, i), 8) = Bit(status, 8)
        BY <1>1, ChangesFlag
    <2>2. /\ With(status, flag, 0) \in 0 .. 255 /\ Bit(With(status, flag, 0), 8) = Bit(status, 8)
          /\ With(status, flag, 1) \in 0 .. 255 /\ Bit(With(status, flag, 1), 8) = Bit(status, 8)
        BY <2>1
    <2> QED BY ONLY <1>1, <1>3, <2>2 DEF StatusShows
<1> QED BY <1>4, <1>5

\* A step that leaves the alarm's registers alone.
LEMMA SettingStep ==
    ASSUME ClockInv, UNCHANGED <<part, temperature, alarm>>,
           set' \in Settings, set'.alarm = set.alarm, set'.clock = set.clock,
           ControlShows(control', set'), StatusShows(status', set')
    PROVE  ClockInv'
<1>1. Alarms' = Alarms /\ AlarmRegisters(AlarmLeft)' = AlarmRegisters(AlarmLeft)
    <2>1. AlarmLeft' = AlarmLeft /\ part' = part
        BY DEF AlarmLeft
    <2> QED BY <2>1 DEF Alarms, AlarmRegisters, AlarmFields
<1> QED BY <1>1 DEF ClockInv

LEMMA ControlSetKeeps ==
    ASSUME ClockInv, UNCHANGED <<part, temperature, alarm>>, ControlSet
    PROVE  ClockInv'
<1>1. set \in Settings /\ ControlShows(control, set) /\ StatusShows(status, set) /\ status' = status
    BY DEF ClockInv, ControlSet
<1>2. ASSUME NEW field \in {"output", "armed1", "armed2"}, NEW on \in BOOLEAN,
             set' = [set EXCEPT ![field] = on], ControlShows(control', set')
      PROVE  ClockInv'
    <2>1. set' \in Settings /\ set'.alarm = set.alarm /\ set'.kHz32 = set.kHz32
          /\ set'.clock = set.clock
        BY <1>1, <1>2 DEF Settings
    <2> QED BY <1>1, <1>2, <2>1, SettingStep DEF StatusShows
<1>3. ASSUME set' = set, ControlShows(control', set) PROVE ClockInv'
    BY <1>1, <1>3, SettingStep DEF Settings
<1>4. ASSUME NEW enabled \in BOOLEAN, enableOutput(enabled) PROVE ClockInv'
    <2>1. ControlShows(control', set') /\ set' = [set EXCEPT !["output"] = enabled]
        BY <1>1, <1>4, ControlKeeps DEF enableOutput, Kept, INTCN
    <2> QED BY <1>2, <2>1
<1>5. ASSUME NEW armed \in BOOLEAN, armAlarm(A1IE, "armed1", armed) PROVE ClockInv'
    <2>1. ControlShows(control', set') /\ set' = [set EXCEPT !["armed1"] = armed]
        BY <1>1, <1>5, ControlKeeps DEF armAlarm, Kept, A1IE
    <2> QED BY <1>2, <2>1
<1>6. ASSUME NEW armed \in BOOLEAN, armAlarm(A2IE, "armed2", armed) PROVE ClockInv'
    <2>1. ControlShows(control', set') /\ set' = [set EXCEPT !["armed2"] = armed]
        BY <1>1, <1>6, ControlKeeps DEF armAlarm, Kept, A2IE
    <2> QED BY <1>2, <2>1
<1>7. ASSUME NEW time \in BOOLEAN, NEW square \in BOOLEAN, setBattery(time, square)
      PROVE  ClockInv'
    <2> DEFINE c == With(control, BBSQW, One(square))
               d == With(c, EOSC, 0)
    <2>1. ControlShows(c, set)
        BY <1>1, ControlKeeps DEF BBSQW
    <2>2. One(FALSE) = 0 /\ One(TRUE) = 1 /\ One(~TRUE) = 0
        BY DEF One
    <2>3. /\ time => control' = With(d, INTCN, 0) /\ set' = [set EXCEPT !["output"] = TRUE]
          /\ ~time => control' = With(c, EOSC, 1) /\ set' = set
        BY <1>7 DEF setBattery, Kept
    <2> HIDE DEF c
    <2>4. ControlShows(With(c, 128, One(FALSE)), set) /\ ControlShows(With(c, 128, One(TRUE)), set)
        BY <1>1, <2>1, ControlKeeps
    <2>5. ControlShows(d, set) /\ ControlShows(With(c, EOSC, 1), set)
        BY <2>2, <2>4 DEF EOSC
    <2> HIDE DEF d
    <2>6. ControlShows(With(d, 4, One(~TRUE)), [set EXCEPT !["output"] = TRUE])
        BY <1>1, <2>5, ControlKeeps
    <2>7. CASE time
        <3>1. ControlShows(control', set') /\ set' = [set EXCEPT !["output"] = TRUE]
            BY <2>2, <2>3, <2>6, <2>7 DEF INTCN
        <3> QED BY <1>2, <3>1
    <2>8. CASE ~time
        BY <1>3, <2>3, <2>5, <2>8
    <2> QED BY <2>7, <2>8
<1>8. ASSUME NEW mode \in 0 .. 3, setOutput(mode) PROVE ClockInv'
    <2>1. set' = [set EXCEPT !["mode"] = mode] /\ ControlShows(control', set')
        <3>1. ControlShows(control + (mode - ModeOf(control)) * 8, [set EXCEPT !["mode"] = mode])
            BY <1>1, TRUE \in BOOLEAN, ControlKeeps
        <3> QED BY <1>8, <3>1 DEF setOutput, Kept, getOutput, ModeOf
    <2>2. set' \in Settings /\ set'.alarm = set.alarm /\ set'.kHz32 = set.kHz32
          /\ set'.clock = set.clock
        BY <1>1, <2>1 DEF Settings
    <2> QED BY <1>1, <2>1, <2>2, SettingStep DEF StatusShows
<1>9. begin => ClockInv'
    BY <1>7 DEF begin
<1> QED BY <1>4, <1>5, <1>6, <1>7, <1>8, <1>9 DEF ControlSet

LEMMA StatusSetKeeps ==
    ASSUME ClockInv, UNCHANGED <<part, temperature, alarm>>, StatusSet
    PROVE  ClockInv'
<1>1. set \in Settings /\ ControlShows(control, set) /\ StatusShows(status, set)
      /\ control' = control
    BY DEF ClockInv, StatusSet
<1>2. ASSUME NEW enabled \in BOOLEAN, enable32kHz(enabled) PROVE ClockInv'
    <2>1. set' = [set EXCEPT !["kHz32"] = enabled] /\ StatusShows(status', set')
        BY <1>2, StatusKeeps DEF enable32kHz, Kept, EN32kHz
    <2>2. set' \in Settings /\ set'.alarm = set.alarm /\ set'.clock = set.clock
        BY <1>1, <2>1 DEF Settings
    <2>3. ControlShows(control', set')
        BY <1>1, <2>1 DEF ControlShows, Settings
    <2> QED BY <2>1, <2>2, <2>3, SettingStep
<1>3. ASSUME NEW flag \in {A1F, A2F}, clearAlarm(flag) PROVE ClockInv'
    <2>1. StatusShows(status', set') /\ set' = set
        BY <1>3, TRUE \in BOOLEAN, StatusKeeps DEF clearAlarm, A1F, A2F
    <2> QED BY <1>1, <2>1, SettingStep
<1>4. ASSUME UNCHANGED <<status, set>> PROVE ClockInv'
    BY <1>1, <1>4, SettingStep
<1> QED BY <1>2, <1>3, <1>4 DEF StatusSet, isAlarm

\* An alarm that is set: its request, and what the readers make of its registers.
LEMMA RequestIs ==
    ASSUME NEW a \in Requests
    PROVE  a \in Alarms /\ a # NoAlarm
<1>1. /\ a.day \in Days /\ a.hour \in Hours /\ a.minute \in Sixties
      /\ a.second \in Sixties \cup {0}
      /\ a.type \in {15, 14, 12, 8, 0, 16} /\ (a.type = 16 => a.day \in 1 .. 7)
      /\ part # "alarm1" => a.type # 15
      /\ a = [day |-> a.day, hour |-> a.hour, minute |-> a.minute, second |-> a.second,
              type |-> a.type]
    BY DEF Requests, AlarmTypes1, AlarmTypes2, MATCH_DY
<1>2. a.day \in 0 .. 31 /\ a.hour \in 0 .. 23 /\ a.minute \in 0 .. 59 /\ a.second \in 0 .. 59
    BY <1>1, ClockAssumption
<1>3. a # NoAlarm
    BY <1>1 DEF NoAlarm
<1> QED BY <1>1, <1>2, <1>3 DEF Alarms

LEMMA AlarmIs ==
    ASSUME NEW a \in Alarms
    PROVE  /\ a.day \in 0 .. 31 /\ a.hour \in 0 .. 23
           /\ a.minute \in 0 .. 59 /\ a.second \in 0 .. 59
           /\ a.type \in {15, 14, 12, 8, 0, 16}
           /\ a.type = 16 => a.day \in 1 .. 7
           /\ part # "alarm1" => a.type \in {14, 12, 8, 0, 16}
    BY DEF Alarms

\* an alarm 1 without its seconds and the bit that ignores them
WithoutSeconds(a) == [a EXCEPT !.second = 0, !.type = a.type - Bit(a.type, Ignoring.second)]

\* A byte 0 in the register of the seconds: the alarm without its seconds, which
\* loses nothing more the next time.
LEMMA SecondsLost ==
    ASSUME NEW a \in Alarms, part = "alarm1"
    PROVE  /\ WithoutSeconds(a) \in Alarms
           /\ WithoutSeconds(WithoutSeconds(a)) = WithoutSeconds(a)
           /\ AlarmRegisters(WithoutSeconds(a)) = [AlarmRegisters(a) EXCEPT !.second = 0]
<1> DEFINE b == WithoutSeconds(a)
<1>1. /\ a.type \in {15, 14, 12, 8, 0, 16}
      /\ Ignoring.second = 1 /\ Ignoring.minute = 2 /\ Ignoring.hour = 4 /\ Ignoring.day = 8
    BY AlarmIs DEF Ignoring
<1>2. /\ Bit(a.type, 1) = (IF a.type = 15 THEN 1 ELSE 0)
      /\ b.type = (IF a.type = 15 THEN 14 ELSE a.type)
    <2>1. Bit(a.type, 1) = (IF a.type = 15 THEN 1 ELSE 0)
        BY <1>1 DEF Bit
    <2>2. b.type = a.type - Bit(a.type, 1)
        BY <1>1 DEF WithoutSeconds, Alarms
    <2> QED BY <1>1, <2>1, <2>2
<1>3. /\ b \in Alarms /\ b.second = 0
      /\ b.day = a.day /\ b.hour = a.hour /\ b.minute = a.minute
    <2>1. b = [a EXCEPT !.second = 0, !.type = b.type]
        BY <1>1 DEF WithoutSeconds, Alarms
    <2>2. b.type \in {15, 14, 12, 8, 0, 16} /\ (b.type = 16 => a.type = 16)
        BY <1>1, <1>2
    <2>3. /\ a.day \in 0 .. 31 /\ a.hour \in 0 .. 23 /\ a.minute \in 0 .. 59
          /\ a.type = 16 => a.day \in 1 .. 7
          /\ a = [day |-> a.day, hour |-> a.hour, minute |-> a.minute, second |-> a.second,
                  type |-> a.type]
        BY DEF Alarms
    <2> HIDE DEF b
    <2>4. b = [day |-> a.day, hour |-> a.hour, minute |-> a.minute, second |-> 0,
               type |-> b.type]
        BY <2>1, <2>3
    <2>5. /\ b.second = 0 /\ b.day = a.day /\ b.hour = a.hour /\ b.minute = a.minute
        BY <2>4
    <2>6. b \in [day : 0 .. 31, hour : 0 .. 23, minute : 0 .. 59, second : 0 .. 59,
                 type : {15, 14, 12, 8, 0, 16}]
        BY <2>2, <2>3, <2>4
    <2> QED BY <2>2, <2>3, <2>5, <2>6 DEF Alarms
<1>4. Bit(b.type, 1) = 0
    BY <1>1, <1>2 DEF Bit
<1>5. WithoutSeconds(b) = b
    <2> HIDE DEF b
    <2>1. b.type - Bit(b.type, 1) = b.type
        BY <1>3, <1>4, AlarmIs
    <2> QED BY <1>1, <1>3, <2>1 DEF WithoutSeconds, Alarms
<1>6. /\ Bit(b.type, 2) = Bit(a.type, 2) /\ Bit(b.type, 4) = Bit(a.type, 4)
      /\ Bit(b.type, 8) = Bit(a.type, 8)
      /\ b.type = 16 <=> a.type = 16
    BY <1>1, <1>2 DEF Bit
<1>7. AlarmFields = {"second", "minute", "hour", "day"}
    BY DEF AlarmFields, Ignoring
<1> HIDE DEF b
<1>8. AlarmRegisters(b)["second"] = 0
    <2>1. AlarmRegisters(b)["second"] = With(dec2bcd(0), 128, 0)
        BY <1>1, <1>3, <1>4, <1>7 DEF AlarmRegisters, Matched
    <2> QED BY <2>1 DEF dec2bcd, uint8, With, Bit
<1>9. ASSUME NEW f \in {"minute", "hour", "day"}
      PROVE  AlarmRegisters(b)[f] = AlarmRegisters(a)[f]
    <2>1. b[f] = a[f] /\ Bit(b.type, Ignoring[f]) = Bit(a.type, Ignoring[f])
        BY <1>1, <1>3, <1>6
    <2>2. Matched(b, f) = Matched(a, f)
        BY <2>1 DEF Matched
    <2> QED BY <1>6, <1>7, <2>2 DEF AlarmRegisters, MATCH_DY
<1>10. AlarmRegisters(b) = [AlarmRegisters(a) EXCEPT !.second = 0]
    <2>1. DOMAIN AlarmRegisters(a) = AlarmFields
        BY DEF AlarmRegisters
    <2>2. AlarmRegisters(b) = [f \in AlarmFields |-> AlarmRegisters(b)[f]]
        BY DEF AlarmRegisters
    <2>3. [AlarmRegisters(a) EXCEPT !.second = 0] =
              [f \in AlarmFields |-> IF f = "second" THEN 0 ELSE AlarmRegisters(a)[f]]
        BY <2>1
    <2>4. \A f \in AlarmFields : AlarmRegisters(b)[f] =
              (IF f = "second" THEN 0 ELSE AlarmRegisters(a)[f])
        BY <1>7, <1>8, <1>9
    <2> HIDE DEF AlarmRegisters
    <2> QED BY <2>2, <2>3, <2>4
<1> QED BY <1>3, <1>5, <1>10 DEF b

LEMMA LeftIs ==
    ASSUME set.alarm \in Alarms
    PROVE  /\ AlarmLeft \in Alarms
           /\ AlarmLeft = IF set.clock /\ part = "alarm1" THEN WithoutSeconds(set.alarm)
                          ELSE set.alarm
<1>1. AlarmLeft = IF set.clock /\ part = "alarm1" THEN WithoutSeconds(set.alarm) ELSE set.alarm
    BY DEF AlarmLeft, WithoutSeconds
<1> QED BY <1>1, SecondsLost

LEMMA FieldReadsBack ==
    ASSUME NEW a \in Alarms, NEW f \in AlarmFields, NEW r, r = AlarmRegisters(a)[f]
    PROVE  IF f = "day" /\ a.type = MATCH_DY
           THEN bcd2dec(r % 128) = a.day + 40 /\ bcd2dec(r) = a.day + 40
           ELSE /\ bcd2dec(r % 128) = a[f]
                /\ bcd2dec(r) = a[f] + 80 * Bit(a.type, Ignoring[f])
<1>1. f \in {"second", "minute", "hour", "day"}
    BY DEF AlarmFields, Ignoring
<1>2. a[f] \in 0 .. 59
    BY <1>1, AlarmIs
<1>3. Bit(a.type, Ignoring[f]) \in 0 .. 1
    <2>1. Ignoring[f] \in {1, 2, 4, 8}
        BY <1>1 DEF Ignoring
    <2> QED BY <2>1, AlarmIs DEF Bit
<1>4. CASE f = "day" /\ a.type = MATCH_DY
    <2>1. a.day \in 1 .. 7
        BY <1>4, AlarmIs DEF MATCH_DY
    <2>2. Bit(a.type, Ignoring[f]) = 0
        BY <1>4 DEF Ignoring, MATCH_DY, Bit
    <2>3. r = With(With(dec2bcd(a.day), 128, 0), 64, 1)
        BY <1>4, <2>2 DEF AlarmRegisters, Matched
    <2> QED BY <1>4, <2>1, <2>3, WeekdayReadsBack
<1>5. CASE ~(f = "day" /\ a.type = MATCH_DY)
    <2>1. r = With(dec2bcd(a[f]), 128, Bit(a.type, Ignoring[f]))
        BY <1>5 DEF AlarmRegisters, Matched
    <2> DEFINE n == a[f]
               i == Bit(a.type, Ignoring[f])
    <2>2. n \in 0 .. 59 /\ i \in 0 .. 1 /\ r = With(dec2bcd(n), 128, i)
        BY <1>2, <1>3, <2>1
    <2> HIDE DEF n, i
    <2>3. bcd2dec(r % 128) = n /\ bcd2dec(r) = n + 80 * i
        BY ONLY <2>2, ValueReadsBack
    <2> QED BY <1>5, <2>3 DEF n, i
<1> QED BY <1>4, <1>5

LEMMA TimeIsKept ==
    ASSUME NEW a \in Alarms, AlarmLeft = a, alarm = AlarmRegisters(a)
    PROVE  AlarmTimeReadsBack
<1>1. DOMAIN alarm = AlarmFields
    BY DEF AlarmRegisters
<1>2. ASSUME NEW f \in AlarmFields
      PROVE  bcd2dec(alarm[f] % 128) =
                 IF f = "day" /\ a.type = MATCH_DY THEN a.day + 40 ELSE a[f]
    BY FieldReadsBack
<1> QED BY <1>1, <1>2 DEF AlarmTimeReadsBack, getAlarm

LEMMA TypeIsKept ==
    ASSUME NEW a \in Alarms, AlarmLeft = a, alarm = AlarmRegisters(a)
    PROVE  AlarmTypeReadsBack
<1> DEFINE dec(f) == bcd2dec(alarm[f])
           mark(f) == IF f \in DOMAIN alarm THEN Bit(dec(f), 64) * Ignoring[f] ELSE 0
           ignored(f) == Bit(a.type, Ignoring[f])
<1>1. DOMAIN alarm = AlarmFields /\ {"minute", "hour", "day"} \subseteq AlarmFields
      /\ ("second" \in AlarmFields <=> part = "alarm1")
      /\ Ignoring.second = 1 /\ Ignoring.minute = 2 /\ Ignoring.hour = 4 /\ Ignoring.day = 8
    BY DEF AlarmRegisters, AlarmFields, Ignoring
<1>2. /\ a.day \in 0 .. 31 /\ a.hour \in 0 .. 23 /\ a.minute \in 0 .. 59 /\ a.second \in 0 .. 59
      /\ a.type \in {15, 14, 12, 8, 0, 16} /\ (a.type = 16 => a.day \in 1 .. 7)
      /\ (part # "alarm1" => a.type \in {14, 12, 8, 0, 16})
    BY AlarmIs
<1>3. /\ ignored("second") = (IF a.type = 15 THEN 1 ELSE 0)
      /\ ignored("minute") = (IF a.type \in {15, 14} THEN 1 ELSE 0)
      /\ ignored("hour") = (IF a.type \in {15, 14, 12} THEN 1 ELSE 0)
      /\ ignored("day") = (IF a.type \in {15, 14, 12, 8} THEN 1 ELSE 0)
    BY <1>1, <1>2 DEF Bit
<1>4. \A f \in AlarmFields : ~(f = "day" /\ a.type = 16) => dec(f) = a[f] + 80 * ignored(f)
    BY FieldReadsBack DEF MATCH_DY
<1>5. a.type = 16 => dec("day") = a.day + 40
    BY <1>1, FieldReadsBack DEF MATCH_DY
<1> HIDE DEF dec, ignored
<1>6. mark("minute") = IF ignored("minute") = 1 /\ a.minute < 48 THEN 2 ELSE 0
    <2>1. Bit(dec("minute"), 64) = IF ignored("minute") = 1 /\ a.minute < 48 THEN 1 ELSE 0
        BY <1>1, <1>2, <1>3, <1>4, MarkReadsBack
    <2> QED BY <1>1, <2>1
<1>7. mark("hour") = IF ignored("hour") = 1 THEN 4 ELSE 0
    <2>1. Bit(dec("hour"), 64) = IF ignored("hour") = 1 THEN 1 ELSE 0
        BY <1>1, <1>2, <1>3, <1>4, MarkReadsBack
    <2> QED BY <1>1, <2>1
<1>8. mark("second") = IF ignored("second") = 1 /\ a.second < 48 THEN 1 ELSE 0
    <2>1. CASE part = "alarm1"
        <3>1. Bit(dec("second"), 64) = IF ignored("second") = 1 /\ a.second < 48 THEN 1 ELSE 0
            BY <1>1, <1>2, <1>3, <1>4, <2>1, MarkReadsBack
        <3> QED BY <1>1, <2>1, <3>1
    <2>2. CASE part # "alarm1"
        BY <1>1, <1>2, <1>3, <2>2
    <2> QED BY <2>1, <2>2
<1>9. /\ mark("day") = IF ignored("day") = 1 THEN 8 ELSE 0
      /\ Bit(dec("day"), 32) = IF a.type = 16 \/ (ignored("day") = 1 /\ a.day >= 16) THEN 1 ELSE 0
    <2>1. CASE a.type = 16
        <3>1. dec("day") = a.day + 40 /\ a.day \in 1 .. 7
            BY <1>2, <1>5, <2>1
        <3>2. Bit(dec("day"), 64) = 0 /\ Bit(dec("day"), 32) = 1
            BY <3>1 DEF Bit
        <3> QED BY <1>1, <1>3, <2>1, <3>2
    <2>2. CASE a.type # 16
        <3>1. /\ Bit(dec("day"), 64) = (IF ignored("day") = 1 THEN 1 ELSE 0)
              /\ Bit(dec("day"), 32) = (IF ignored("day") = 1 /\ a.day >= 16 THEN 1 ELSE 0)
            BY <1>1, <1>2, <1>3, <1>4, <2>2, MarkReadsBack
        <3> QED BY <1>1, <2>2, <3>1
    <2> QED BY <2>1, <2>2
<1>10. getAlarmType(alarm) =
           mark("second") + mark("minute") + mark("hour") + mark("day") + Bit(dec("day"), 32) * 16
    BY DEF getAlarmType, dec
<1> HIDE DEF mark
<1>11. getAlarmType(alarm) = a.type <=>
           /\ ignored("second") = 1 => a.second < 48
           /\ ignored("minute") = 1 => a.minute < 48
           /\ ignored("day") = 1 => a.day < 16
    BY <1>2, <1>3, <1>6, <1>7, <1>8, <1>9, <1>10
<1> QED BY <1>11 DEF AlarmTypeReadsBack, ignored

LEMMA TemperatureIsKept ==
    ASSUME temperature \in -512 .. 511
    PROVE  TemperatureReadsBack
<1> DEFINE q == temperature \div 4
           u == temperature % 4
           m == q % 256
<1>1. q \in -128 .. 127 /\ u \in 0 .. 3 /\ temperature = 4 * q + u
    OBVIOUS
<1>2. m = IF temperature >= 0 THEN q ELSE q + 256
    <2> HIDE DEF q, u
    <2> QED BY <1>1
<1>3. readTemperature = (m * 256 + u * 64) \div 64
    BY DEF readTemperature
<1> HIDE DEF q, u, m
<1>4. (m * 256 + u * 64) \div 64 = 4 * m + u
    BY <1>1, <1>2
<1> QED BY <1>1, <1>2, <1>3, <1>4 DEF TemperatureReadsBack

LEMMA AlarmSetKeeps ==
    ASSUME ClockInv, UNCHANGED <<part, temperature>>, AlarmSet
    PROVE  ClockInv'
<1>1. ASSUME NEW a \in Requests, NEW armed \in BOOLEAN,
             NEW bit \in {1, 2}, NEW field \in {"armed1", "armed2"},
             bit = 1 <=> field = "armed1", NEW flag \in {1, 2},
             setAlarm(bit, flag, field, a, armed)
      PROVE  ClockInv'
    <2> DEFINE s == [set EXCEPT ![field] = armed]
    <2>1. set \in Settings /\ ControlShows(control, set) /\ StatusShows(status, set)
        BY DEF ClockInv
    <2>2. s \in Settings /\ set' = [s EXCEPT !.alarm = a, !.clock = FALSE] /\ s.kHz32 = set.kHz32
        BY <1>1, <2>1 DEF setAlarm, Settings
    <2>3. ControlShows(control', s)
        <3>1. CASE bit = 1
            BY <1>1, <2>1, <3>1, ControlKeeps DEF setAlarm
        <3>2. CASE bit = 2
            BY <1>1, <2>1, <3>2, ControlKeeps DEF setAlarm
        <3> QED BY <3>1, <3>2
    <2>4. StatusShows(status', set)
        BY <1>1, TRUE \in BOOLEAN, StatusKeeps DEF setAlarm
    <2> HIDE DEF s
    <2>5. /\ a \in Alarms
          /\ a \in [day : 0 .. 31, hour : 0 .. 23, minute : 0 .. 59, second : 0 .. 59, type : -1 .. 16]
        <3>1. {15, 14, 12, 8, 0, 16} \subseteq -1 .. 16
            OBVIOUS
        <3> QED BY <3>1, RequestIs DEF Alarms
    <2>6. set' \in Settings /\ ControlShows(control', set') /\ StatusShows(status', set')
          /\ set'.alarm = a /\ set'.clock = FALSE
        BY <2>2, <2>3, <2>4, <2>5 DEF Settings, ControlShows, StatusShows
    <2>7. Alarms' = Alarms /\ AlarmLeft' = a
        BY <2>6 DEF Alarms, AlarmLeft
    <2>8. alarm' = AlarmRegisters(a) /\ part' = part
        BY <1>1 DEF setAlarm
    <2>9. alarm' = AlarmRegisters(AlarmLeft)'
        BY <2>7, <2>8 DEF AlarmRegisters, AlarmFields
    <2> QED BY <2>5, <2>6, <2>7, <2>8, <2>9 DEF ClockInv
<1> QED BY <1>1 DEF AlarmSet, A1IE, A2IE, A1F, A2F

LEMMA TimeSetKeeps ==
    ASSUME ClockInv, UNCHANGED <<part, temperature>>, TimeSet
    PROVE  ClockInv'
<1> DEFINE a == set.alarm
<1>1. PICK seconds \in Seconds : setDateTime(FieldsOf(days, seconds))
    BY DEF TimeSet
<1> DEFINE r == TimeRegisters(FieldsOf(days, seconds))
<1>2. r[8] = 0
    BY DEF TimeRegisters, DS3231_REG_TIME
<1> HIDE DEF r
<1>3. /\ alarm' = IF part = "alarm1" THEN [alarm EXCEPT !.second = 0] ELSE alarm
      /\ set' = [set EXCEPT !.clock = TRUE] /\ UNCHANGED <<control, status>>
    BY <1>1, <1>2 DEF setDateTime, r
<1>4. /\ set \in Settings /\ ControlShows(control, set) /\ StatusShows(status, set)
      /\ a \in Alarms /\ alarm = AlarmRegisters(AlarmLeft)
    BY DEF ClockInv, TimeSet
<1>5. /\ set' \in Settings /\ ControlShows(control', set') /\ StatusShows(status', set')
      /\ set'.alarm = a /\ set'.clock = TRUE
    BY <1>3, <1>4 DEF Settings, ControlShows, StatusShows
<1>6. AlarmLeft' = IF part = "alarm1" THEN WithoutSeconds(a) ELSE a
    BY <1>5 DEF AlarmLeft, WithoutSeconds
<1>7. alarm' = AlarmRegisters(AlarmLeft')
    <2>1. CASE part = "alarm1"
        <3>1. /\ AlarmLeft \in Alarms
              /\ WithoutSeconds(AlarmLeft) = WithoutSeconds(a)
            BY <1>4, <2>1, LeftIs, SecondsLost
        <3>2. AlarmRegisters(WithoutSeconds(AlarmLeft)) =
                  [AlarmRegisters(AlarmLeft) EXCEPT !.second = 0]
            BY <2>1, <3>1, SecondsLost
        <3> QED BY ONLY <1>3, <1>4, <1>6, <2>1, <3>1, <3>2
    <2>2. CASE part # "alarm1"
        BY <1>3, <1>4, <1>6, <2>2, LeftIs
    <2> QED BY <2>1, <2>2
<1>8. Alarms' = Alarms /\ alarm' = AlarmRegisters(AlarmLeft)'
    BY <1>7 DEF Alarms, AlarmRegisters, AlarmFields
<1> QED BY <1>4, <1>5, <1>8 DEF ClockInv

LEMMA ChipKeeps ==
    ASSUME ClockInv, UNCHANGED <<part, temperature, alarm>>,
           \/ forceConversion /\ UNCHANGED status
           \/ RaiseAlarm \/ ConversionEnds \/ ConversionSeen
    PROVE  ClockInv'
<1>1. set \in Settings /\ ControlShows(control, set) /\ StatusShows(status, set)
    BY DEF ClockInv
<1>2. ASSUME UNCHANGED <<status, set>>, ControlShows(control', set) PROVE ClockInv'
    BY <1>1, <1>2, SettingStep
<1>3. One(TRUE) = 1 /\ One(FALSE) = 0
    BY DEF One
<1>4. /\ ControlShows(With(control, 32, One(TRUE)), set)
      /\ ControlShows(With(control, 32, One(FALSE)), set)
    BY <1>1, ControlKeeps
<1>5. forceConversion /\ UNCHANGED status => ClockInv'
    BY <1>2, <1>3, <1>4 DEF forceConversion, CONV
<1>6. ConversionEnds => ClockInv'
    BY <1>2, <1>3, <1>4 DEF ConversionEnds, CONV
<1>7. ConversionSeen => ClockInv'
    BY <1>1, <1>2 DEF ConversionSeen
<1>8. CASE RaiseAlarm
    <2>1. StatusShows(status', set) /\ set' = set /\ control' = control
        BY <1>8, TRUE \in BOOLEAN, StatusKeeps DEF RaiseAlarm, A1F, A2F
    <2> QED BY <1>1, <2>1, SettingStep
<1> QED BY <1>5, <1>6, <1>7, <1>8

\* Whatever the driver has set is read back as it was set, but for what the parts of
\* RegistersReadBack name: a day of the week, the type of an alarm whose ignored values
\* are large, the seconds of alarm 1 once the clock is set, a temperature below zero.
THEOREM RegistersAreReadBack == RtcSpec => []RegistersReadBack
<1>1. ClockInv /\ [RtcNext]_rtcVars => ClockInv'
    <2> SUFFICES ASSUME ClockInv, [RtcNext]_rtcVars PROVE ClockInv'
        OBVIOUS
    <2>1. CASE UNCHANGED rtcVars
        BY <2>1, SettingStep DEF rtcVars, ClockInv
    <2> QED BY <2>1, ControlSetKeeps, StatusSetKeeps, AlarmSetKeeps, TimeSetKeeps, ChipKeeps
        DEF RtcNext
<1>2. ClockInv => RegistersReadBack
    <2> SUFFICES ASSUME ClockInv PROVE RegistersReadBack
        OBVIOUS
    <2>1. AlarmTimeReadsBack /\ AlarmTypeReadsBack
        <3>1. CASE set.alarm = NoAlarm
            BY <3>1 DEF AlarmTimeReadsBack, AlarmTypeReadsBack
        <3>2. CASE set.alarm # NoAlarm
            BY <3>2, LeftIs, TimeIsKept, TypeIsKept DEF ClockInv
        <3> QED BY <3>1, <3>2
    <2> QED BY <2>1, InvReadsBack, TemperatureIsKept DEF RegistersReadBack, ClockInv
<1> QED BY <1>1, <1>2, InitClock, PTL DEF RtcSpec

==============================================================================
