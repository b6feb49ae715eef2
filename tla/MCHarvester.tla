---------------------------- MODULE MCHarvester ----------------------------
EXTENDS Harvester, TLC

CONSTANTS h1, h2, r1, r2, r3, readme

MCOneHost == {h1}
MCTwoHosts == {h1, h2}
\* Two overlapping cron runs on one host.
MCOverlapRuns == {r1, r2}
MCOverlapHostOf == (r1 :> h1) @@ (r2 :> h1)
\* One run on each of two hosts sharing the audit bucket.
MCHostRuns == {r1, r2}
MCHostRunsHostOf == (r1 :> h1) @@ (r2 :> h2)
\* Two overlapping cron runs on h1 and one on h2, sharing the audit bucket.
MCRuns == {r1, r2, r3}
MCRunsHostOf == (r1 :> h1) @@ (r2 :> h1) @@ (r3 :> h2)
\* h1 leaves OBJECTSTORE_INSTANCE unset; h2 sets it.
MCInstance == (h1 :> "default") @@ (h2 :> "dcc")
MCOther == {readme}
=============================================================================
