\* One invocation at a time, with stale lookups after a delete and one failing remote call.
CONSTANTS
    k1 = k1
    k2 = k2
    p1 = p1
    p2 = p2
    u1 = u1
    u2 = u2
    NONE = NONE
    Keys <- MCKeys
    AccountId = k1
    AccountSecret = k2
    EnvNames <- MCEnvNames
    EnvValues <- MCKeys
    Procs <- MCOneProc
    DccOpsDirs <- MCAllDirs
    MaxInterrupts = 0
    Uuids <- MCUuids
    EventualDeletes = TRUE
    MaxFailures = 1
    MaxLogLines = 3
SPECIFICATION Spec
INVARIANT TypeOK
INVARIANT RedactedListSound
