\* One invocation at a time: every command, every kind of dcc-ops directory,
\* up to two interrupts; no remote failure and consistent lookups.
CONSTANTS
    k1 = k1
    k2 = k2
    p1 = p1
    p2 = p2
    u1 = u1
    u2 = u2
    NONE = NONE
    Keys <- MCKeys
    AccountId = k1
    AccountSecret = k2
    EnvNames <- MCEnvNames
    EnvValues <- MCKeys
    Procs <- MCOneProc
    DccOpsDirs <- MCAllDirs
    MaxInterrupts = 2
    Uuids <- MCUuids
    EventualDeletes = FALSE
    MaxFailures = 0
    MaxLogLines = 2
SPECIFICATION Spec
PROPERTY ImplementsAtomicDeletion
INVARIANT SavedKeysPersist
INVARIANT SaveCompletesUnlessInterrupted
