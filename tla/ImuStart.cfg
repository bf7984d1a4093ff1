\* As in the sensor, packets that are no divisor of the FIFO; an image that ends
\* inside its third bank, and chunks that the end of a bank cuts.
CONSTANTS
    FifoLen = 11
    PacketLen = 4
    ImageLen = 9
    BankLen = 4
    ChunkLen = 3
    MaxFaults = 3
SPECIFICATION StartFairSpec
INVARIANTS
    NeverReadsEmpty
    SizedTornOnce
    UploadIsVerified
    FailedStartIsQuiet
    StartSucceeds
PROPERTIES
    WaitEnds
