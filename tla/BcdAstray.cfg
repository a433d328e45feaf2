CONSTANTS
    g1 = g1
    g2 = g2
    g3 = g3
    g4 = g4
    g5 = g5
    Id = {g1, g2, g3, g4, g5}
    User = {"win", "linux"}
    UserEntry <- MCUserEntry
    UserWindows = "win"
    Arch = "amd64"
    UserDefault = "linux"
    UserTimeout = 5
    Strategies = {"ramdisk", "extracted"}
    Env = {"crash", "astray"}
    Windows = "Windows 11"
SPECIFICATION Spec
SYMMETRY IdSymmetry
INVARIANTS LabelsTellTheTruth
