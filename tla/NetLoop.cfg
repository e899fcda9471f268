\* Both rings with four of their eight slots.
CONSTANTS
    N = 4
    MaxReceived = 6
    MaxBuilt = 5
    PerTurn = 2
SPECIFICATION FairSpec
INVARIANTS TypeOK HandledWhole
PROPERTIES ReceiveIsQueue TransmitIsQueue AnswersInOrder
CHECK_DEADLOCK FALSE
