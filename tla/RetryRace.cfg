\* The report of an ended call, unanswered when the next call comes in.
CONSTANTS
    Reports = {"stop"}
    NoType = NoType
    Datagrams <- Registrar
    MaxRetry = 3
    Timeout = 2
    MaxReports = 1
SPECIFICATION Spec
PROPERTIES RetryIsSent
