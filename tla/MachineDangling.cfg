CONSTANTS
    g1 = g1
    g2 = g2
    g3 = g3
    Id = {g1, g2, g3}
    User = {"win", "linux"}
    UserEntry <- MCUserEntry
    UserWindows = "win"
    Arch = "amd64"
    UserDefault = "linux"
    UserTimeout = 5
    Isos = {"setup", "pe", "install"}
    WithBootWim = {"setup", "pe"}
    WithInstall = {"setup", "install"}
    WithSdi = {"setup", "pe"}
    WithPrograms = {}
    WithBootFile = {"setup", "pe", "install"}
    LooksWindows = {"setup", "pe", "install"}
    Formats = {"NTFS"}
    CopyEnv = {"crash"}
    MenuEnv = {"crash"}
SPECIFICATION Spec
SYMMETRY IdSymmetry
INVARIANTS DefaultIsAlwaysThere
