\* Two icgc-delete invocations for the same uuid against a consistent bucket.
CONSTANTS
    u1 = u1
    u2 = u2
    u3 = u3
    p1 = p1
    p2 = p2
    NONE = NONE
    Uuids <- MCUuids
    Procs <- MCTwoProcs
    EventualDeletes = FALSE
    MaxFailures = 0
    MaxLogLines = 3
SPECIFICATION Spec
INVARIANT RedactedListNoDuplicates
