CONSTANTS
    RingLen = 1
    MusicLen = 2
    Chunk = 1
    QueueLen = 2
    MaxTimeouts = 1
SPECIFICATION HeardFairSpec
INVARIANTS
    CopyInsideTrack
    NothingSkipped
    ClockFollowsDecoder
PROPERTIES
    HeldSelectsMusic
