SPECIFICATION Spec
CONSTANTS
    Platform = "nrf52"
    FirstFiles <- MCFirstFiles
    Pastes     <- MCPastes
    Editable   <- MCRefused
    NewValues  <- MCNewValues
    MaxCrashes = 1
    MaxFaults  = 1
    MaxChanges = 2
INVARIANTS
    CleanMeansSaved
    CrashOnlyResets
PROPERTY
    BootSettles
