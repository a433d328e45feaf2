CONSTANTS
    Iso = {"win"}
    Setup <- MCSetup
    Editions <- MCEditions
    WithPrograms = {"pe"}
    WithCustom = {}
    WithIni = {"pe"}
    Pecmd = {"pe"}
    MaxIndex = 2
    Locale = "en"
    Env = {"faults"}
SPECIFICATION FairSpec
INVARIANTS EachEditionInjected

