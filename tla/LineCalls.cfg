\* Calls with and without an announced number on a plugged-in line whose
\* ring counter does not wrap, with room in the buffer for something before
\* the announcement.  The thresholds are the smallest ones.
CONSTANTS
    Conditions <- CallLine
    PowerUp <- OnHookLine
    Callers = {a}
    NoCid = NoCid
    Garbled = Garbled
    CidLen = 3
    MaxRings = 2
    U8 = 4
    SampleTicks = 1
    DisconTicks = 1
    OffhookTicks = 1
    RingTicks = 1
    ShortDelay = 1
    LongDelay = 1
SPECIFICATION FairSpec
PROPERTIES FreshNumberWins HangupClosesRecording
