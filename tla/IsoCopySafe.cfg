SPECIFICATION Spec
CONSTANTS
    Isos = {"seven", "pe", "linux", "udf", "install"}
    WithBootWim = {"seven", "pe"}
    WithInstall = {"seven", "install"}
    WithSdi = {"seven", "install"}
    WithPrograms = {"pe"}
    WithBootFile = {"pe", "linux", "install"}
    LooksWindows = {"seven", "pe", "udf", "install"}
    Formats = {"NTFS"}
    Env = {"faults", "silent", "crash"}
INVARIANTS TypeOK HashNamesBootWim CopiedIsBootable EspWimIsProcessed
