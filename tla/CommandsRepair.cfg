CONSTANTS
    Thread = {"worker", "recovery"}
    Calls <- MCCalls
    WorkerCalls = {"exec", "repair"}
    MaxChunks = 3
    Capacity = 1
    Locale = "es"
    Env = {}
SPECIFICATION FairSpec
PROPERTY RepairIsJudged
