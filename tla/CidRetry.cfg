\* Every order of events, datagrams, ticks and stores.
CONSTANTS
    Reports = {"start", "offhook", "stop"}
    NoType = NoType
    Datagrams <- AnyServer
    MaxRetry = 3
    Timeout = 2
    MaxReports = 3
SPECIFICATION FairSpec
INVARIANTS TypeOK WaitIsTimed RetransmitsLatest
PROPERTIES GivesUpLast UnregisteredGivesUp RetryIsServed
