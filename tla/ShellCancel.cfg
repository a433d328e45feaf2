CONSTANTS
    Entries = {"window"}
    MaxPending = 2
    Env = {}
SPECIFICATION Spec
INVARIANT CancelIsAwaited
