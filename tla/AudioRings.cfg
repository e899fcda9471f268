\* Rings of four of their eight slots: a fifth frame in either runs over.
CONSTANTS
    N = 4
    MaxFrames = 6
SPECIFICATION Spec
INVARIANTS TypeOK StaleBounded
PROPERTIES SentInOrder PlayedInOrder
