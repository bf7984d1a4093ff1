\* Every day the clock's registers can show, with the seconds at which a field
\* carries; alarms on both sides of what their types depend on; every register of
\* the sensor, with arguments that do not fit a field.
CONSTANTS
    LastYear = 99
    Seconds = {0, 59, 60, 3599, 3600, 43200, 86399}
    Days = {0, 1, 7, 15, 16, 31}
    Hours = {0, 23}
    Sixties = {30, 47, 48, 59}
    Temperatures <- AllTemperatures
    Written = {0, 6, 43605}
    Strays = {0, 165}
SPECIFICATION DriversSpec
INVARIANTS
    SetReadsBack
    CountsDaysUpToLeap
    RegistersReadBack
    SettingsHold
CHECK_DEADLOCK FALSE
