\* Scaled-down thresholds; the counters wrap above them.
CONSTANTS
    U8 = 5
    KeyTicks = 2
    DtmfTicks = 1
    LongPress = 2
    TicksPerTurn = 2
SPECIFICATION FairSpec
INVARIANT TypeOK
PROPERTIES NoShortReset InitDebounced DigitOnce NetlinkSettles
