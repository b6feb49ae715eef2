\* Two hosts sharing the audit bucket, two overlapping cron runs on one of
\* them, log rotation, a crash, archive/ present or missing on each host.
CONSTANTS
    h1 = h1
    h2 = h2
    r1 = r1
    r2 = r2
    r3 = r3
    readme = readme
    NONE = NONE
    Hosts <- MCTwoHosts
    Runs <- MCRuns
    HostOf <- MCRunsHostOf
    Instance <- MCInstance
    Other <- MCOther
    MaxLogs = 2
    ArchiveDirInit = {TRUE, FALSE}
    MaxCrashes = 1
SPECIFICATION FairSpec
INVARIANT TypeOK
PROPERTY EveryLogHarvested
PROPERTY HarvestRefines
\* Once MaxLogs logs are rotated and harvested, a cron run lists nothing
\* and changes nothing: the harvester really stops.
CHECK_DEADLOCK FALSE
