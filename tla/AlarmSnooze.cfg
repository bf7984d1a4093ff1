\* Small delays (only their order matters when tasks may be late), the real cap.
CONSTANTS
    Cap = 4
    Limit = 3
    ButtonDelay = 1
    MinusDelay = 2
    ControlDelay = 2
    SuspendDelay = 3
    CheckDelay = 2
    Snooze = 3
    Alarms = TRUE
    Prompt = FALSE
SPECIFICATION SnoozeSpec
INVARIANTS
    SettledInRange
    AlarmHonoured
PROPERTIES
    SuspendedIsJustified
    SessionSpec
