CONSTANTS
    g1 = g1
    g2 = g2
    g3 = g3
    g4 = g4
    Id = {g1, g2, g3, g4}
    User = {"win", "linux"}
    UserEntry <- MCUserEntry
    UserWindows = "win"
    Arch = "amd64"
    UserDefault = "linux"
    UserTimeout = 5
    Isos = {"setup", "other"}
    WithBootWim = {"setup", "other"}
    WithInstall = {"setup", "other"}
    WithSdi = {"setup", "other"}
    WithPrograms = {}
    WithBootFile = {"setup", "other"}
    LooksWindows = {"setup", "other"}
    Formats = {"NTFS"}
    CopyEnv = {"crash"}
    MenuEnv = {"crash"}
SPECIFICATION Spec
SYMMETRY IdSymmetry
INVARIANTS TypeOK LabelsTellTheTruth SuccessBootsImage RecoverCleans
