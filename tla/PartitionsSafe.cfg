CONSTANTS
    o1 = o1
    o2 = o2
    o3 = o3
    Own = {o1, o2, o3}
    Foreign = {"esp"}
    ForeignVol <- MCForeignVol
    Letter = {"Y", "Z"}
    Formats = {"NTFS", "EXFAT"}
    Isos = {"iso1", "iso2"}
    Modes = {"RAM"}
    Booted = {}
    Locale = "es"
    PartThreeIsC = TRUE
    Env = {"faults", "crash", "mount", "errors"}
    EspLabel = "SYSTEM"
    MaxRegions = 4
    CInit = 26000
    CUsed = 15000
SPECIFICATION Spec
SYMMETRY OwnSymmetry
INVARIANTS TypeOK DataDriveReady
PROPERTIES ForeignKept
