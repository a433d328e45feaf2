CONSTANTS
    Entries = {"window", "console"}
    MaxPending = 2
    Env = {"faults", "repair", "behind", "overlap", "slowInit"}
SPECIFICATION FairSpec
INVARIANTS TypeOK BusyHasAnEnd WindowFollows RecoverNotRefused ThreadsHaveManagers
    NewProgramFindsThemGone
PROPERTIES ProgramEnds
