CONSTANTS
    Entries = {"window"}
    MaxPending = 2
    Env = {"spaceLost"}
SPECIFICATION Spec
INVARIANT BusyHasAnEnd
