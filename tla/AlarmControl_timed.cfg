\* The delays of main.cpp in units of 100 ms, its cap and its limit.
CONSTANTS
    Cap = 4
    Limit = 20
    ButtonDelay = 1
    MinusDelay = 10
    ControlDelay = 10
    SuspendDelay = 50
    CheckDelay = 10
    Snooze = 3
    Alarms = FALSE
    Prompt = TRUE
SPECIFICATION TimedSpec
INVARIANTS
    LeftAloneDrains
    HeldCompletes
    HeldIsSilent
