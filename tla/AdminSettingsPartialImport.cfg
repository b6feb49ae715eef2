\* One command at a time, every kind of dcc-ops directory.
CONSTANTS
    k1 = k1
    k2 = k2
    p1 = p1
    p2 = p2
    NONE = NONE
    Keys <- MCKeys
    AccountId = k1
    AccountSecret = k2
    EnvNames <- MCEnvNames
    EnvValues <- MCKeys
    Procs <- MCOneProc
    DccOpsDirs <- MCAllDirs
    MaxInterrupts = 0
SPECIFICATION Spec
INVARIANT FailedImportLeavesSettings
