\* Every order of voltages, rings and ticks on a line that may be unplugged.
CONSTANTS
    Conditions <- AnyLine
    PowerUp <- OnHookLine
    Callers = {}
    NoCid = NoCid
    Garbled = Garbled
    CidLen = 0
    MaxRings = 9
    U8 = 5
    SampleTicks = 1
    DisconTicks = 1
    OffhookTicks = 2
    RingTicks = 1
    ShortDelay = 1
    LongDelay = 2
SPECIFICATION Spec
INVARIANTS TypeOK OneLineState
PROPERTIES ReportsCalls NoFalseHangup OffhookDebounced
