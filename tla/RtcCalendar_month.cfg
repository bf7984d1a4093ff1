CONSTANTS
    LastYear = 0
    Seconds = {0}
SPECIFICATION CalendarSpec
INVARIANTS
    ParsesMonth
CHECK_DEADLOCK FALSE
