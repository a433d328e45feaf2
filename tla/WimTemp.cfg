CONSTANTS
    Iso = {"win", "pe"}
    Setup <- MCSetup
    Editions <- MCEditions
    WithPrograms = {"pe"}
    WithCustom = {"win", "pe"}
    WithIni = {"pe"}
    Pecmd = {"pe"}
    MaxIndex = 2
    Locale = "en"
    Env = {"faults"}
SPECIFICATION FairSpec
INVARIANTS CustomDriversAreItsOwn

