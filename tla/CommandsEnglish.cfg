CONSTANTS
    Thread = {"worker", "recovery"}
    Calls <- MCCalls
    WorkerCalls = {"exec", "repair"}
    MaxChunks = 3
    Capacity = 1
    Locale = "en"
    Env = {}
SPECIFICATION FairSpec
PROPERTY PromptIsAnswered
