\* The spec's promise that an open stream has no gap between its history
\* and its live events.
CONSTANTS
    MaxEvents = 4
    Capacity = 2
    Clients = {c1}
    Worlds = {w1, w2}
    Stages = {sWA, sWF}
    w1 = w1
    w2 = w2
    sWA = sWA
    sWF = sWF
    None = None
    EventWorld <- MCEventWorld
    EventStage <- MCEventStage
    Queries <- MCQueries
SPECIFICATION Spec
INVARIANT StreamGapFree
CHECK_DEADLOCK FALSE
