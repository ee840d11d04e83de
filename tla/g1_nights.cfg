\* Three specs, one of them from before the lifecycle table; two turns a night.
CONSTANTS
    SpecIds = {s1, s2, s3}
    OldSpecs = {s1}
    MaxCrashes = 1
    MaxG1Turns = 2
SPECIFICATION FairSpec
INVARIANTS AnnouncedOnce VerdictForShown
PROPERTIES LegIsLoud QueueDrains
