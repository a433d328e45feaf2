CONSTANTS
    o1 = o1
    o2 = o2
    o3 = o3
    Own = {o1, o2, o3}
    Foreign = {"esp"}
    ForeignVol <- MCForeignVol
    Letter = {"X", "Y", "Z"}
    Formats = {"NTFS"}
    Isos = {"iso1"}
    Modes = {"RAM"}
    Booted = {"esp"}
    Locale = "es"
    PartThreeIsC = TRUE
    Env = {"reboot"}
    EspLabel = "SYSTEM"
    MaxRegions = 4
    CInit = 26000
    CUsed = 15000
SPECIFICATION Spec
SYMMETRY OwnSymmetry
PROPERTIES DuplicatesOnly
