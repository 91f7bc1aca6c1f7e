CONSTANTS
    Buffers = {b1, b2, b3, b4}
    NoBuffer = NoBuffer
    MaxFrames = 4
    Limits <- AnyLimit
SPECIFICATION FairSpec
INVARIANTS
    SenderFrameIsStable
PROPERTIES
    MailboxSpec
    PendingIsTaken
    StopEnds
