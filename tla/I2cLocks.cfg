SPECIFICATION Spec
CONSTANTS
    BufLen = 3
    MaxQueue = 2
    Sizes = {0, 1, 2}
    Others = TRUE
    MaxChanges = 1
INVARIANTS WireTypeOK FreshReads SentAsWritten CountsAgree StuckOnlyInEmbrace
PROPERTIES ClockSteady
CHECK_DEADLOCK FALSE
