\* The number of an earlier call in a start message.
CONSTANTS
    Conditions <- CallLine
    PowerUp <- OnHookLine
    Callers = {a}
    NoCid = NoCid
    Garbled = Garbled
    CidLen = 2
    MaxRings = 2
    U8 = 5
    SampleTicks = 1
    DisconTicks = 1
    OffhookTicks = 2
    RingTicks = 1
    ShortDelay = 1
    LongDelay = 2
SPECIFICATION Spec
PROPERTIES StartCarriesCaller
