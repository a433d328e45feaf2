CONSTANTS
    o1 = o1
    o2 = o2
    Own = {o1, o2}
    Foreign = {"esp"}
    ForeignVol <- MCForeignVol
    Letter = {"Z"}
    Formats = {"NTFS"}
    Isos = {"iso1"}
    Modes = {"RAM"}
    Booted = {}
    Locale = "es"
    PartThreeIsC = TRUE
    Env = {"faults", "crash", "errors"}
    EspLabel = "SYSTEM"
    MaxRegions = 4
    CInit = 36200
    CUsed = 15000
SPECIFICATION FairSpec
INVARIANTS AtMostOneIsoBoot
PROPERTIES ProcessEnds
