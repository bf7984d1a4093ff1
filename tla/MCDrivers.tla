------------------------------- MODULE MCDrivers -------------------------------
(***************************************************************************)
(* The arithmetic of the two chip drivers: a behaviour walks either through *)
(* the days of the clock (RtcCalendar), through the settings of its other  *)
(* registers (RtcRegisters), or through those of one register of the       *)
(* motion sensor (MpuRegisters).                                           *)
(***************************************************************************)
EXTENDS RtcRegisters, MpuRegisters

VARIABLE driver

\* of ten bits, two of them behind the point
AllTemperatures == -512 .. 511

driverVars == <<calendarVars, rtcVars, registerVars, driver>>

DriversInit ==
    /\ driver \in {"calendar", "DS3231", "MPU6050"}
    /\ CalendarInit
    /\ RtcInit
    /\ driver # "DS3231" => part = "temperature" /\ temperature = 0 /\ control = INTCN + RS
    /\ IF driver = "MPU6050" THEN RegisterInit ELSE reg = 0 /\ byte = 0 /\ asked = <<>>

DriversNext ==
    /\ \/ driver = "calendar" /\ CalendarNext /\ UNCHANGED <<rtcVars, registerVars>>
       \/ driver = "DS3231" /\ RtcNext /\ UNCHANGED <<calendarVars, registerVars>>
       \/ driver = "MPU6050" /\ RegisterNext /\ UNCHANGED <<calendarVars, rtcVars>>
    /\ UNCHANGED driver

DriversSpec == DriversInit /\ [][DriversNext]_driverVars

=============================================================================
