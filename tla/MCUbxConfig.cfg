SPECIFICATION FairSpec
CONSTANTS
    Tries = 3
    StdCmds = 3
    MaxFaults = 5
INVARIANTS
    NavEnabled
PROPERTIES
    SwitchIsReal
    AgreementReturns
CHECK_DEADLOCK FALSE
