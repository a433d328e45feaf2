CONSTANTS
    Entries = {"window"}
    MaxPending = 2
    Env = {"behind"}
SPECIFICATION Spec
INVARIANT BusyIsShown
