\* Safety and progress of the event hub with the code's ordering: two SSE
\* clients interleaved with publishing and ingestion.
CONSTANTS
    MaxEvents = 4
    Capacity = 2
    Clients = {c1, c2}
    Worlds = {w1, w2}
    Stages = {sWA, sWF}
    w1 = w1
    w2 = w2
    sWA = sWA
    sWF = sWF
    None = None
    EventWorld <- MCEventWorld
    EventStage <- MCEventStage
    Queries <- MCQueries
SPECIFICATION Spec
INVARIANT TypeOK
INVARIANT NoDuplicateDelivery
PROPERTY IngestionProgress
\* Once the bounded run of events is published and every receiver has
\* caught up, each task waits in recv().await: the server's idle state.
CHECK_DEADLOCK FALSE
