SPECIFICATION Spec
CONSTANTS
    Platform = "tbeam1w"
    FirstFiles <- MCEarlyFiles
    Pastes     <- MCPastes
    Editable   <- MCRate
    NewValues  <- MCNewValues
    MaxCrashes = 1
    MaxFaults  = 1
    MaxChanges = 2
INVARIANTS
    CleanMeansSaved
    CrashOnlyResets
PROPERTY
    BootSettles
