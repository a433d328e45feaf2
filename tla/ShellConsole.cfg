CONSTANTS
    Entries = {"console"}
    MaxPending = 2
    Env = {}
SPECIFICATION Spec
INVARIANT PrintedIsOver
