SPECIFICATION Spec
CONSTANTS
    Platform = "tbeam1w"
    FirstFiles <- MCFirstFiles
    Pastes     <- MCPastes
    Editable   <- MCRaised
    NewValues  <- MCNewValues
    MaxCrashes = 1
    MaxFaults  = 1
    MaxChanges = 2
INVARIANT
    OnlyDefaultRaised
