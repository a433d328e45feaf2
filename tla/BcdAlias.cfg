CONSTANTS
    g1 = g1
    g2 = g2
    g3 = g3
    Id = {g1, g2, g3}
    User = {"win", "linux"}
    UserEntry <- MCUserEntry
    UserWindows = "win"
    Arch = "amd64"
    UserDefault = "linux"
    UserTimeout = 5
    Strategies = {"ramdisk"}
    Env = {"overlap"}
    Windows = "Windows 11"
SPECIFICATION Spec
SYMMETRY IdSymmetry
INVARIANTS UserEntriesKept
