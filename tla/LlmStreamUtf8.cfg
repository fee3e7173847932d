\* Every way of cutting the bodies of MCUpstreams into chunks.
CONSTANTS
    Done = Done
    DoneEvent = Done
    Upstreams <- MCUpstreams
    EndpointOk = {TRUE, FALSE}
SPECIFICATION Spec
INVARIANT TokensRelayed
\* The stream ends: every behaviour stops once the response is complete.
CHECK_DEADLOCK FALSE
