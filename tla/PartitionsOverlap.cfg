CONSTANTS
    o1 = o1
    o2 = o2
    o3 = o3
    Own = {o1, o2, o3}
    Foreign = {"esp"}
    ForeignVol <- MCForeignVol
    Letter = {"Z"}
    Formats = {"NTFS"}
    Isos = {"iso1"}
    Modes = {"RAM"}
    Booted = {"esp"}
    Locale = "es"
    PartThreeIsC = TRUE
    Env = {"faults", "overlap", "crash"}
    EspLabel = "other"
    MaxRegions = 3
    CInit = 36300
    CUsed = 15000
SPECIFICATION Spec
SYMMETRY OwnSymmetry
INVARIANTS AtMostOneIsoBoot
