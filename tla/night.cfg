\* Three calls, d3 the orchestrator's own; one turn a night, one failure or
\* kill, one program by hand.
CONSTANTS
    Calls = {d1, d2, d3}
    Defaults = {d3}
    Horizon = 1
    Lookback = 1
    MaxTurns = 1
    MaxFaults = 1
    MaxHands = 1
SPECIFICATION FairSpec
INVARIANTS SilentTurnIsLoud
PROPERTIES NoTurnForWritten ReflectedOrNamed ScoredForGood
