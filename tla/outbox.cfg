CONSTANTS
    Drainers = {run_day, dispatcher}
    Scheduled = run_day
    Channels = {risk}
    Risk = risk
    Unrenderable = unrenderable
    MaxEvents = 2
    MaxFaults = 1
SPECIFICATION FairSpec
INVARIANTS DuplicatesNeedFaults NothingLost
PROPERTIES InOrder EveryEventSettles DrainTerminates
