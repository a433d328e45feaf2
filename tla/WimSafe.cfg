CONSTANTS
    Iso = {"win", "pe", "first"}
    Setup <- MCSetup
    Editions <- MCEditions
    WithPrograms = {"pe"}
    WithCustom = {"pe"}
    WithIni = {"pe"}
    Pecmd = {"pe"}
    MaxIndex = 2
    Locale = "en"
    Env = {"faults", "unreadable", "crash", "cleanup"}
SPECIFICATION FairSpec
INVARIANTS TypeOK CommittedIsWhole
PROPERTIES ServiceSpec
