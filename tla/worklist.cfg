CONSTANTS
    Procs = {systemd, byhand}
    MaxWorks = 2
    Allowed = {1}
    Lease = 1
    Horizon = 2
    MaxCrashes = 1
SPECIFICATION FairSpec
INVARIANTS WokenAtMostOnce FinishesItsOwnClaim ExactlyOneAlert
PROPERTY EveryRowEnds
