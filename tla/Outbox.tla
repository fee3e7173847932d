-------------------------------- MODULE Outbox --------------------------------
(***************************************************************************)
(* The outbox path of the gate.  The WF commit writes one pending outbox   *)
(* row per event (DurableStore, modelled from the spec); main.rs spawns    *)
(* UBL_OUTBOX_WORKERS tasks that loop on OutboxDispatcher::run_once_async  *)
(* (batch of 64, backoff base 2 s, cap 300 s), handing each row to a       *)
(* closure that calls deliver_emit_receipt_event (outbox.rs) for           *)
(* emit_receipt rows and fails every other type.  A delivery POSTs         *)
(* {event_id, event_type, attempt, payload} with a 10 s client timeout.    *)
(*                                                                         *)
(* received counts the POSTs the endpoint accepted and processed; an       *)
(* answer lost to the client timeout still counts there.                   *)
(***************************************************************************)
EXTENDS Naturals, Sequences, FiniteSets

CONSTANTS
    Workers,             \* the spawned dispatcher tasks (UBL_OUTBOX_WORKERS)
    Events,              \* outbox row ids
    EventType,           \* [Events -> {"emit_receipt", "other"}]
    EndpointSettings,    \* the values of "UBL_OUTBOX_ENDPOINT is set" to check
    BatchSize,           \* run_once_async batch limit (64 in main.rs)
    MaxAttempts,         \* bound on the attempts counter kept by the model
    None

ASSUME EndpointSettings \subseteq BOOLEAN /\ EndpointSettings # {}

ASSUME BatchSize \in Nat \ {0} /\ MaxAttempts \in Nat \ {0}

VARIABLES
    row,       \* per event: [state, attempts, due, owner]
    wpc,       \* per worker: "poll" | "deliver"
    batch,     \* per worker: the claimed rows still to hand to the closure
    received,  \* per event: POSTs the endpoint processed (capped)
    endpoint,  \* outbox_endpoint_from_env() is Some, read once at startup
    timedOut   \* per event: POSTs the endpoint processed whose answer the
               \*   client timeout cut off (history, capped)

vars == <<row, wpc, batch, received, endpoint, timedOut>>

Absent == [state |-> "absent", attempts |-> 0, due |-> FALSE, owner |-> None]

Bump(n) == IF n >= MaxAttempts THEN MaxAttempts ELSE n + 1

-----------------------------------------------------------------------------
(* DurableStore and OutboxDispatcher (from the spec, section 4.10-4.11)    *)

\* commit_wf_atomically writes the row in state pending.
Enqueue(e) ==
    /\ row[e].state = "absent"
    /\ row' = [row EXCEPT ![e] = [state |-> "pending", attempts |-> 0,
                                  due |-> TRUE, owner |-> None]]
    /\ UNCHANGED <<wpc, batch, received, endpoint, timedOut>>

\* Mutation: the claim does not skip rows another worker has locked.
ClaimableUnlocked == {e \in Events : row[e].state = "pending" /\ row[e].due}

\* Pending rows whose next attempt is due and that no worker holds.
Claimable == {e \in Events : row[e].state = "pending" /\ row[e].due /\ row[e].owner = None}

\* Mutation: the batch limit is not applied.
PollUnlimited(w) ==
    /\ wpc[w] = "poll"
    /\ Claimable # {}
    /\ \E order \in [1..Cardinality(Claimable) -> Claimable] :
        /\ \A i, j \in DOMAIN order : i # j => order[i] # order[j]
        /\ batch' = [batch EXCEPT ![w] = order]
    /\ row' = [e \in Events |-> IF e \in Claimable THEN [row[e] EXCEPT !.owner = w] ELSE row[e]]
    /\ wpc' = [wpc EXCEPT ![w] = "deliver"]
    /\ UNCHANGED <<received, endpoint, timedOut>>

\* run_once_async(64, f) locks the due rows, at most 64 of them, in an
\* order the spec leaves open; a worker that finds none returns Ok(0) and
\* sleeps 500 ms (no state change).
Poll(w) ==
    /\ wpc[w] = "poll"
    /\ Claimable # {}
    /\ \E S \in SUBSET Claimable :
        /\ Cardinality(S) = IF Cardinality(Claimable) < BatchSize
                            THEN Cardinality(Claimable) ELSE BatchSize
        /\ \E order \in [1..Cardinality(S) -> S] :
            /\ \A i, j \in DOMAIN order : i # j => order[i] # order[j]
            /\ batch' = [batch EXCEPT ![w] = order]
        /\ row' = [e \in Events |-> IF e \in S THEN [row[e] EXCEPT !.owner = w] ELSE row[e]]
    /\ wpc' = [wpc EXCEPT ![w] = "deliver"]
    /\ UNCHANGED <<received, endpoint, timedOut>>

\* The closure returned Ok: the row is marked delivered and unlocked.
MarkDelivered(e) == [row EXCEPT ![e] = [@ EXCEPT !.state = "delivered", !.owner = None]]

\* The closure returned Err: attempts + 1, next attempt after the backoff.
MarkFailed(e) == [row EXCEPT ![e] = [@ EXCEPT !.attempts = Bump(@), !.due = FALSE,
                                               !.owner = None]]

\* The backoff delay base * 2^min(attempts, cap) elapses.
BackoffElapsed(e) ==
    /\ row[e].state = "pending"
    /\ ~row[e].due
    /\ row' = [row EXCEPT ![e].due = TRUE]
    /\ UNCHANGED <<wpc, batch, received, endpoint, timedOut>>

\* The next row of the batch, and the worker's state once it is handled:
\* after the last one the loop publishes outbox_pending and polls again.
NextOf(w) == Head(batch[w])
Advance(w) ==
    /\ batch' = [batch EXCEPT ![w] = Tail(@)]
    /\ wpc' = [wpc EXCEPT ![w] = IF Tail(batch[w]) = <<>> THEN "poll" ELSE "deliver"]

\* The endpoint processes a POST of row e.
Processed(e) ==
    received' = [received EXCEPT ![e] = Bump(@)]

-----------------------------------------------------------------------------
(* The worker closure and deliver_emit_receipt_event (outbox.rs)           *)

\* Mutation: the closure compares against the wrong type name.
IsEmitReceiptTypo(e) == EventType[e] = "receipt_emit"

\* The closure's type test: emit_receipt rows go to the delivery function.
IsEmitReceipt(e) == EventType[e] = "emit_receipt"

\* Any other type: inc_outbox_retry, Err("unknown outbox event type").
DeliverUnknownType(w) ==
    /\ wpc[w] = "deliver"
    /\ ~IsEmitReceipt(NextOf(w))
    /\ row' = MarkFailed(NextOf(w))
    /\ Advance(w)
    /\ UNCHANGED <<received, endpoint, timedOut>>

\* No endpoint configured: warn "emit_receipt dropped" and return Ok.
DeliverDropped(w) ==
    /\ wpc[w] = "deliver"
    /\ IsEmitReceipt(NextOf(w))
    /\ ~endpoint
    /\ row' = MarkDelivered(NextOf(w))
    /\ Advance(w)
    /\ UNCHANGED <<received, endpoint, timedOut>>

\* Mutation: a 2xx answer is taken for a failure.
DeliverOkAsErr(w) ==
    /\ wpc[w] = "deliver"
    /\ IsEmitReceipt(NextOf(w))
    /\ endpoint
    /\ Processed(NextOf(w))
    /\ row' = MarkFailed(NextOf(w))
    /\ Advance(w)
    /\ UNCHANGED <<endpoint, timedOut>>

\* The POST is answered 2xx: Ok.
DeliverOk(w) ==
    /\ wpc[w] = "deliver"
    /\ IsEmitReceipt(NextOf(w))
    /\ endpoint
    /\ Processed(NextOf(w))
    /\ row' = MarkDelivered(NextOf(w))
    /\ Advance(w)
    /\ UNCHANGED <<endpoint, timedOut>>

\* Mutation: a non-2xx answer is taken for success.
DeliverRejectedAsOk(w) ==
    /\ wpc[w] = "deliver"
    /\ IsEmitReceipt(NextOf(w))
    /\ endpoint
    /\ row' = MarkDelivered(NextOf(w))
    /\ Advance(w)
    /\ UNCHANGED <<received, endpoint, timedOut>>

\* The send fails or the answer is not 2xx: Err, nothing processed.
DeliverRejected(w) ==
    /\ wpc[w] = "deliver"
    /\ IsEmitReceipt(NextOf(w))
    /\ endpoint
    /\ row' = MarkFailed(NextOf(w))
    /\ Advance(w)
    /\ UNCHANGED <<received, endpoint, timedOut>>

\* The endpoint processed the POST but the 10 s client timeout fired first:
\* Err, and the row will be sent again.
DeliverTimedOut(w) ==
    /\ wpc[w] = "deliver"
    /\ IsEmitReceipt(NextOf(w))
    /\ endpoint
    /\ Processed(NextOf(w))
    /\ timedOut' = [timedOut EXCEPT ![NextOf(w)] = Bump(@)]
    /\ row' = MarkFailed(NextOf(w))
    /\ Advance(w)
    /\ UNCHANGED endpoint

-----------------------------------------------------------------------------

Init ==
    /\ row = [e \in Events |-> Absent]
    /\ wpc = [w \in Workers |-> "poll"]
    /\ batch = [w \in Workers |-> <<>>]
    /\ received = [e \in Events |-> 0]
    /\ endpoint \in EndpointSettings
    /\ timedOut = [e \in Events |-> 0]

Deliver(w) ==
    \/ DeliverUnknownType(w) \/ DeliverDropped(w) \/ DeliverOk(w)
    \/ DeliverRejected(w) \/ DeliverTimedOut(w)

Next ==
    \/ \E e \in Events : Enqueue(e) \/ BackoffElapsed(e)
    \/ \E w \in Workers : Poll(w) \/ Deliver(w)

\* Each worker is a spawned task that the runtime keeps polling; the clock
\* makes every backoff elapse; and the endpoint, retried forever, accepts
\* eventually (the spec's P7: "once the endpoint succeeds").
Fairness ==
    /\ \A w \in Workers : WF_vars(Poll(w)) /\ WF_vars(Deliver(w)) /\ SF_vars(DeliverOk(w))
    /\ \A e \in Events : WF_vars(BackoffElapsed(e))

Spec == Init /\ [][Next]_vars /\ Fairness

-----------------------------------------------------------------------------
(* Properties                                                              *)

TypeOK ==
    /\ row \in [Events -> [state : {"absent", "pending", "delivered"},
                           attempts : 0..MaxAttempts, due : BOOLEAN,
                           owner : Workers \cup {None}]]
    /\ wpc \in [Workers -> {"poll", "deliver"}]
    /\ \A w \in Workers : batch[w] \in Seq(Events) /\ Len(batch[w]) <= BatchSize
    /\ received \in [Events -> 0..MaxAttempts]
    /\ endpoint \in BOOLEAN
    /\ timedOut \in [Events -> 0..MaxAttempts]

\* At-least-once delivery (spec 4.11, P7): with UBL_OUTBOX_ENDPOINT set, a
\* row leaves the pending index as delivered only after the endpoint
\* processed a POST of it.  (Without an endpoint the code drops the event on
\* purpose and says so at startup.)
DeliveredWasReceived ==
    endpoint => \A e \in Events : row[e].state = "delivered" => received[e] >= 1

\* At-least-once, never more than the protocol needs: the endpoint gets a
\* second POST of a row only after a POST of it that it processed was cut
\* off by the 10 s client timeout.  A row answered 2xx is marked delivered
\* and never sent again, also with UBL_OUTBOX_WORKERS > 1 sharing the rows.
NoRedeliveryWithoutTimeout ==
    \A e \in Events : received[e] <= 1 + timedOut[e]

\* Every emit_receipt row that is committed is eventually marked delivered,
\* across rejected POSTs, timeouts, backoffs and the other workers.
EventuallyDelivered ==
    \A e \in Events :
        EventType[e] = "emit_receipt" =>
            (row[e].state = "pending" ~> row[e].state = "delivered")

=============================================================================
