\* Two workers, two emit_receipt rows and a row of an unknown type, an
\* endpoint that is set (and rejects, times out or accepts) or unset.
CONSTANTS
    Workers = {w1, w2}
    Events = {e1, e2, e3}
    e1 = e1  e2 = e2  e3 = e3
    EventType <- MCEventType
    EndpointSettings = {TRUE, FALSE}
    BatchSize = 2
    MaxAttempts = 2
    None = None
SPECIFICATION Spec
INVARIANT TypeOK
INVARIANT DeliveredWasReceived
INVARIANT NoRedeliveryWithoutTimeout
PROPERTY EventuallyDelivered
