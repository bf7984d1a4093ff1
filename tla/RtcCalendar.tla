----------------------------- MODULE RtcCalendar -----------------------------
(***************************************************************************)
(* The calendar arithmetic of the clock driver                             *)
(* (src/components/DS3231/DS3231.cpp), walked through day by day: the      *)
(* chip counts the days of the Gregorian calendar, the driver converts     *)
(* between its BCD registers, dates and seconds since 1970.                *)
(*                                                                         *)
(* A uint32_t time is a pair, days since 2000-01-01 and second of the day: *)
(* the offset 946681200 is added and subtracted again, and the wrap of the *)
(* 32 bit sum days * 86400 + seconds is undone by the same modulus.        *)
(***************************************************************************)
EXTENDS Integers

CONSTANTS
    LastYear,  \* the last year walked to, counted from 2000; the registers hold 99
    Seconds    \* seconds of the day to try

DaySeconds == 86400

ASSUME CalendarAssumption ==
    /\ LastYear \in 0 .. 99
    /\ Seconds \subseteq 0 .. DaySeconds - 1

daysArray == <<31, 28, 31, 30, 31, 30, 31, 31, 30, 31, 30, 31>>
dowArray  == <<0, 3, 2, 5, 0, 3, 5, 1, 4, 6, 2, 4>>

uint8(n)  == n % 2^8
uint16(n) == n % 2^16

bcd2dec(bcd) == uint8((bcd \div 16) * 10 + (bcd % 16))
dec2bcd(dec) == uint8((dec \div 10) * 16 + (dec % 10))

\* year counts from 2000, or is the year itself
isLeapYear(year) == year % 4 = 0

daysInMonth(year, month) ==
    daysArray[month] + IF month = 2 /\ isLeapYear(year) THEN 1 ELSE 0

\* the days of the months before this one, in a year of 365
daysBefore[month \in 1 .. 12] ==
    IF month = 1 THEN 0 ELSE daysBefore[month - 1] + daysArray[month - 1]

\* (mutant) the years' leap days are rounded down
date2daysRoundedDown(year, month, day) ==
    LET y == year - 2000
        leap == IF month = 2 /\ isLeapYear(y) THEN 1 ELSE 0
    IN  uint16(day + daysBefore[month] + leap + 365 * y + y \div 4 - 1)

date2days(year, month, day) ==
    LET y == year - 2000
        leap == IF month = 2 /\ isLeapYear(y) THEN 1 ELSE 0
    IN  uint16(day + daysBefore[month] + leap + 365 * y + (y + 3) \div 4 - 1)

\* (mutant) January and February count for their own year
dowOwnYear(y, m, d) ==
    LET r == (y + y \div 4 - y \div 100 + y \div 400 + dowArray[m] + d) % 7
    IN  IF r = 0 THEN 7 ELSE r

dow(y, m, d) ==
    LET yy == IF m < 3 THEN y - 1 ELSE y
        r  == (yy + yy \div 4 - yy \div 100 + yy \div 400 + dowArray[m] + d) % 7
    IN  IF r = 0 THEN 7 ELSE r

-----------------------------------------------------------------------------
(* setDateTime(uint32_t): the loops that take whole years, then whole       *)
(* months, off the days.                                                    *)

YearLength(year) == 365 + IF year % 4 = 0 THEN 1 ELSE 0

\* Where each loop is after k rounds; it stops at the first year, or month, with more days
\* than are left.  A round takes 365 days at least.
takeYears(days) ==
    LET after[k \in 0 .. days \div 365] ==
            IF k = 0 THEN [year |-> 0, days |-> days]
            ELSE LET l == after[k - 1]
                 IN  IF l.days < YearLength(l.year) THEN l
                     ELSE [year |-> l.year + 1, days |-> l.days - YearLength(l.year)]
    IN  after[days \div 365]

takeMonths(days, year) ==
    LET after[k \in 0 .. 11] ==
            IF k = 0 THEN [month |-> 1, days |-> days]
            ELSE LET l == after[k - 1]
                 IN  IF l.days < daysInMonth(year, l.month) THEN l
                     ELSE [month |-> l.month + 1, days |-> l.days - daysInMonth(year, l.month)]
    IN  after[11]

\* the fields the loops and divisions compute
FieldsOf(days, seconds) ==
    LET y == takeYears(days)
        m == takeMonths(y.days, y.year)
    IN  [year |-> y.year + 2000, month |-> m.month, day |-> m.days + 1,
         hour |-> seconds \div 3600, minute |-> (seconds \div 60) % 60,
         second |-> seconds % 60]

\* The number of the clock's first register.  It ends the transmission, too.
DS3231_REG_TIME == 0

\* setDateTime(year, ...): what it writes to the registers 0..7, the seven of the
\* clock and, of alarm 1, the seconds
TimeRegisters(f) ==
    <<dec2bcd(f.second), dec2bcd(f.minute), dec2bcd(f.hour),
      dec2bcd(dow(f.year, f.month, f.day)),
      dec2bcd(f.day), dec2bcd(f.month), dec2bcd(f.year - 2000), DS3231_REG_TIME>>

\* getDateTime: what it reads back from the clock's
DateTimeOf(regs) ==
    [year |-> bcd2dec(regs[7]) + 2000, month |-> bcd2dec(regs[6]),
     day |-> bcd2dec(regs[5]), dayOfWeek |-> bcd2dec(regs[4]),
     hour |-> bcd2dec(regs[3]), minute |-> bcd2dec(regs[2]),
     second |-> bcd2dec(regs[1])]

\* setDateTime(date, time): the month of __DATE__, from its three letters
monthOf(name) ==
    CASE name[1] = "J" -> IF name[3] = "n" THEN 6 ELSE 7  \* month = 1 is overwritten
      [] name[1] = "F" -> 2
      [] name[1] = "A" -> IF name[3] = "r" THEN 4 ELSE 8
      [] name[1] = "M" -> IF name[3] = "r" THEN 3 ELSE 5
      [] name[1] = "S" -> 9
      [] name[1] = "O" -> 10
      [] name[1] = "N" -> 11
      [] name[1] = "D" -> 12

-----------------------------------------------------------------------------
VARIABLES
    days,  \* days since 2000-01-01
    date   \* the date a calendar shows after that many midnights

calendarVars == <<days, date>>

CalendarInit == days = 0 /\ date = [year |-> 2000, month |-> 1, day |-> 1]

\* The calendar of the chip: of 2000..2099 every fourth year is a leap year.
MonthLength(d) ==
    CASE d.month = 2 -> IF d.year % 4 = 0 THEN 29 ELSE 28
      [] d.month \in {4, 6, 9, 11} -> 30
      [] OTHER -> 31

Midnight ==
    /\ days' = days + 1
    /\ date' = IF date.day < MonthLength(date) THEN [date EXCEPT !.day = @ + 1]
               ELSE IF date.month < 12
               THEN [year |-> date.year, month |-> date.month + 1, day |-> 1]
               ELSE [year |-> date.year + 1, month |-> 1, day |-> 1]

CalendarNext == Midnight /\ date'.year <= 2000 + LastYear

CalendarSpec == CalendarInit /\ [][CalendarNext]_calendarVars

-----------------------------------------------------------------------------
(* Properties *)

\* setDateTime(uint32_t), the registers and getDateTime agree with the calendar:
\* a time that is set is read back as the date, weekday and time it is.
SetReadsBack ==
    \A s \in Seconds :
        LET dt == DateTimeOf(TimeRegisters(FieldsOf(days, s)))
        IN  /\ [year |-> dt.year, month |-> dt.month, day |-> dt.day] = date
            /\ dt.hour * 3600 + dt.minute * 60 + dt.second = s
            /\ dt.dayOfWeek = ((days + 5) % 7) + 1  \* 2000-01-01 was a Saturday

\* unixtime() of a date that was read is that day's time, but for leap years: the
\* whole of February counts one day too many, the rest of the year one too few.
CountsDaysUpToLeap ==
    date2days(date.year, date.month, date.day) =
        days + CASE date.year % 4 # 0 \/ date.month = 1 -> 0
                 [] date.year % 4 = 0 /\ date.month = 2 -> 1
                 [] OTHER -> -1

\* The comment above the months of setDateTime(date, time) (DS3231.cpp:151) says
\* "month = date[1] == 'a' ? 1 : ...".  The code makes June of "Jan".
MonthName == << <<"J","a","n">>, <<"F","e","b">>, <<"M","a","r">>, <<"A","p","r">>,
                <<"M","a","y">>, <<"J","u","n">>, <<"J","u","l">>, <<"A","u","g">>,
                <<"S","e","p">>, <<"O","c","t">>, <<"N","o","v">>, <<"D","e","c">> >>

ParsesMonth == monthOf(MonthName[date.month]) = date.month

=============================================================================
