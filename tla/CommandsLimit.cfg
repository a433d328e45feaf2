CONSTANTS
    Thread = {"worker", "recovery"}
    Calls <- MCCalls
    WorkerCalls = {"script", "format"}
    MaxChunks = 3
    Capacity = 1
    Locale = "es"
    Env = {"hang"}
SPECIFICATION FairSpec
PROPERTY LimitHolds
CHECK_DEADLOCK FALSE
