SPECIFICATION Spec
CONSTANTS
    Isos = {"setup", "pe", "seven", "linux"}
    WithBootWim = {"setup", "pe", "seven"}
    WithInstall = {"setup", "seven"}
    WithSdi = {"setup", "seven"}
    WithPrograms = {"pe"}
    WithBootFile = {"setup", "pe", "linux"}
    LooksWindows = {"setup", "pe", "seven"}
    Formats = {"NTFS"}
    Env = {}
INVARIANTS
    SetupWimOnEsp
    BootFileIsOfImage
PROPERTY InjectedDriversStay
