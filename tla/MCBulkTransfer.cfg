SPECIFICATION Spec
CONSTANTS
    Modulus = 64
    Payloads <- MCPayloads
    Senders = {"userspace", "timeouts", "kernel"}
    MaxSends <- MCMaxSends
    MaxPacket = 4
    CommandSize = 2
INVARIANTS
    CompletedAreWhole
    SentArrivesOnce
    NoMixing
CHECK_DEADLOCK FALSE
