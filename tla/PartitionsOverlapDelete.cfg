CONSTANTS
    o1 = o1
    o2 = o2
    o3 = o3
    Own = {o1, o2, o3}
    Foreign = {"usb"}
    ForeignVol <- MCForeignVol
    Letter = {"Y", "Z"}
    Formats = {"NTFS"}
    Isos = {"iso1"}
    Modes = {"RAM"}
    Booted = {}
    Locale = "es"
    PartThreeIsC = TRUE
    Env = {"overlap", "crash", "mount"}
    EspLabel = "other"
    MaxRegions = 4
    CInit = 37000
    CUsed = 15000
SPECIFICATION Spec
SYMMETRY OwnSymmetry
PROPERTIES ForeignKept
