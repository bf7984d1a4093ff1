SPECIFICATION Spec
CONSTANTS
    Slots = 6
    BlkMax = 1
    FifoLen = 3
    TxThreshold = 1
    RxThreshold = 2
    MaxEntries = 2
    Writes = {5}
    Reads = {2}
    AddrReqs = {1, 2}
    FaultSets = {{"slave"}, {"wait"}, {"wakeup"}}
INVARIANTS TypeOK SuccessIsWhole CleanSucceeds NakBlamed ListWellFormed
