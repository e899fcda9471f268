\* Changes, resets, cables and power losses between any two pages, and the
\* end of every write.
CONSTANTS
    Fields <- ThreePages
    Values = {v}
    Factory = Factory
    Zero = Zero
    PageTicks = 2
SPECIFICATION FairSpec
INVARIANTS TypeOK OnlyLateChangesAreLost
PROPERTIES WriteEnds
