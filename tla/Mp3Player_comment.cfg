CONSTANTS
    RingLen = 3
    MusicLen = 3
    Chunk = 2
    QueueLen = 1
    MaxTimeouts = 0
SPECIFICATION FairSpec
PROPERTIES
    HeldPlaysMusic
