CONSTANTS
    Thread = {"worker", "recovery"}
    Calls <- MCCalls
    WorkerCalls = {"exec", "script", "format", "repair"}
    MaxChunks = 3
    Capacity = 1
    Locale = "es"
    Env = {"fail", "slow", "hang"}
SPECIFICATION FairSpec
INVARIANTS OutputIsWhole ReturnsAfterCommand PipesHaveReaders
PROPERTIES CallsReturn
CHECK_DEADLOCK FALSE
