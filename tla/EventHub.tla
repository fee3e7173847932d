------------------------------- MODULE EventHub -------------------------------
(***************************************************************************)
(* The gate's event hub (services/ubl_gate): the pipeline publishes every  *)
(* ReceiptEvent on a bounded tokio broadcast channel; one spawned task     *)
(* (main.rs) subscribes and appends each event to the EventStore; each     *)
(* GET /v1/events request (events.rs, stream_events) queries the store for *)
(* the matching history, subscribes to the channel, yields the history and *)
(* then relays the matching live events.                                   *)
(*                                                                         *)
(* Events are numbered 1..MaxEvents in publication order.  The broadcast   *)
(* channel is an append-only log (published) with one read cursor per      *)
(* receiver; it retains only the Capacity newest messages, and a receiver  *)
(* whose cursor points at a message already overwritten gets Lagged and is *)
(* moved to the oldest retained one (tokio::sync::broadcast semantics).    *)
(***************************************************************************)
EXTENDS Naturals, Sequences, SequencesExt, FiniteSets

CONSTANTS
    MaxEvents,   \* bound on the number of events the pipeline publishes
    Capacity,    \* capacity of the broadcast channel (messages retained)
    Clients,     \* SSE clients of GET /v1/events
    Worlds,      \* @world values of events (model values)
    Stages,      \* normalized stages of events (model values)
    EventWorld,  \* [1..MaxEvents -> Worlds]
    EventStage,  \* [1..MaxEvents -> Stages]
    None,        \* an absent query parameter
    Queries      \* the filter combinations clients send

ASSUME Capacity \in Nat \ {0} /\ MaxEvents \in Nat \ {0}

Events == 1..MaxEvents

\* EventStreamQuery restricted to the filters the model tells apart.
Filters == [world : Worlds \cup {None}, stage : Stages \cup {None}]

ASSUME Queries \subseteq Filters

VARIABLES
    published,   \* number of events sent on the broadcast channel
    ingCursor,   \* next message index of the ingestion task's receiver
    store,       \* EventStore contents, in append order
    ingLost,     \* history: events the ingestion task skipped or failed
    phase,       \* per client: "idle" | "queried" | "streaming" | "closed"
    filter,      \* per client: its EventStreamQuery
    hist,        \* per client: historical events returned by store.query
    cursor,      \* per client: next message index of its receiver
    delivered    \* per client: the ubl.event SSE frames sent, in order

vars == <<published, ingCursor, store, ingLost, phase, filter, hist,
          cursor, delivered>>

-----------------------------------------------------------------------------
(* Helpers                                                                 *)

\* A message is still in the channel's ring buffer.
Retained(i) == i > published - Capacity

\* Index of the oldest retained message.
Oldest == IF published > Capacity THEN published - Capacity + 1 ELSE 1

\* hub_matches_query: every present filter field must equal the event's.
HubMatchesQuery(e, f) ==
    /\ f.world = None \/ EventWorld[e] = f.world
    /\ f.stage = None \/ EventStage[e] = f.stage

\* EventStore::query with the stream's filters: matching stored events.
QueryStore(f) == SelectSeq(store, LAMBDA e : HubMatchesQuery(e, f))

-----------------------------------------------------------------------------
(* The producer: UblPipeline publishes on event_bus.                       *)

Publish ==
    /\ published < MaxEvents
    /\ published' = published + 1
    /\ UNCHANGED <<ingCursor, store, ingLost, phase, filter, hist, cursor, delivered>>

-----------------------------------------------------------------------------
(* The ingestion task spawned in main.rs: loop { rx.recv().await ... }.    *)

\* Ok(event): to_hub_event, then store.append_event_json succeeds.
IngestAppend ==
    /\ ingCursor <= published
    /\ Retained(ingCursor)
    /\ store' = Append(store, ingCursor)
    /\ ingCursor' = ingCursor + 1
    /\ UNCHANGED <<published, ingLost, phase, filter, hist, cursor, delivered>>

\* Ok(event) but append_event_json returns Err: warn! and go on.
IngestAppendFails ==
    /\ ingCursor <= published
    /\ Retained(ingCursor)
    /\ ingLost' = ingLost \cup {ingCursor}
    /\ ingCursor' = ingCursor + 1
    /\ UNCHANGED <<published, store, phase, filter, hist, cursor, delivered>>

\* Mutation: the lag is counted but the receiver is not resynchronised.
IngestLaggedStuck ==
    /\ ingCursor <= published
    /\ ~Retained(ingCursor)
    /\ UNCHANGED vars

\* Err(Lagged(skipped)): count hub_lagged; the receiver resumes at the
\* oldest retained message.
IngestLagged ==
    /\ ingCursor <= published
    /\ ~Retained(ingCursor)
    /\ ingLost' = ingLost \cup (ingCursor..(Oldest - 1))
    /\ ingCursor' = Oldest
    /\ UNCHANGED <<published, store, phase, filter, hist, cursor, delivered>>

-----------------------------------------------------------------------------
(* stream_events, one client at a time.                                    *)

\* store.query(&db_query) with the request's filters succeeds.
StreamQuery(c, f) ==
    /\ phase[c] = "idle"
    /\ filter' = [filter EXCEPT ![c] = f]
    /\ hist' = [hist EXCEPT ![c] = QueryStore(f)]
    /\ phase' = [phase EXCEPT ![c] = "queried"]
    /\ UNCHANGED <<published, ingCursor, store, ingLost, cursor, delivered>>

\* store.query returns Err: 500 INTERNAL_ERROR, no stream.
StreamQueryFails(c) ==
    /\ phase[c] = "idle"
    /\ phase' = [phase EXCEPT ![c] = "closed"]
    /\ UNCHANGED <<published, ingCursor, store, ingLost, filter, hist, cursor, delivered>>

\* Mutation: the receiver replays the retained backlog on subscription.
StreamSubscribeFromOldest(c) ==
    /\ phase[c] = "queried"
    /\ cursor' = [cursor EXCEPT ![c] = Oldest]
    /\ delivered' = [delivered EXCEPT ![c] = hist[c]]
    /\ phase' = [phase EXCEPT ![c] = "streaming"]
    /\ UNCHANGED <<published, ingCursor, store, ingLost, filter, hist>>

\* event_bus.subscribe(): the receiver sees only messages sent from now
\* on.  The stream body then yields every historical event before its
\* first recv(), so the history is delivered here.
StreamSubscribe(c) ==
    /\ phase[c] = "queried"
    /\ cursor' = [cursor EXCEPT ![c] = published + 1]
    /\ delivered' = [delivered EXCEPT ![c] = hist[c]]
    /\ phase' = [phase EXCEPT ![c] = "streaming"]
    /\ UNCHANGED <<published, ingCursor, store, ingLost, filter, hist>>

\* Mutation: recv() does not wait for a message to have been sent.
StreamRecvEager(c) ==
    /\ phase[c] = "streaming"
    /\ Retained(cursor[c])
    /\ delivered' = [delivered EXCEPT ![c] =
                        IF cursor[c] \in Events /\ HubMatchesQuery(cursor[c], filter[c])
                        THEN Append(@, cursor[c]) ELSE @]
    /\ cursor' = [cursor EXCEPT ![c] = @ + 1]
    /\ UNCHANGED <<published, ingCursor, store, ingLost, phase, filter, hist>>

\* Ok(receipt_event): to_hub_event; yield it when it matches the filters.
StreamRecv(c) ==
    /\ phase[c] = "streaming"
    /\ cursor[c] <= published
    /\ Retained(cursor[c])
    /\ delivered' = [delivered EXCEPT ![c] =
                        IF HubMatchesQuery(cursor[c], filter[c])
                        THEN Append(@, cursor[c]) ELSE @]
    /\ cursor' = [cursor EXCEPT ![c] = @ + 1]
    /\ UNCHANGED <<published, ingCursor, store, ingLost, phase, filter, hist>>

\* Err(Lagged(_)): count client_lagged and keep streaming.
StreamLagged(c) ==
    /\ phase[c] = "streaming"
    /\ cursor[c] <= published
    /\ ~Retained(cursor[c])
    /\ cursor' = [cursor EXCEPT ![c] = Oldest]
    /\ UNCHANGED <<published, ingCursor, store, ingLost, phase, filter, hist, delivered>>

\* The SSE client disconnects; the stream and its receiver are dropped.
StreamClose(c) ==
    /\ phase[c] \in {"queried", "streaming"}
    /\ phase' = [phase EXCEPT ![c] = "closed"]
    /\ UNCHANGED <<published, ingCursor, store, ingLost, filter, hist, cursor, delivered>>

-----------------------------------------------------------------------------

Init ==
    /\ published = 0
    /\ ingCursor = 1
    /\ store = <<>>
    /\ ingLost = {}
    /\ phase = [c \in Clients |-> "idle"]
    /\ filter = [c \in Clients |-> [world |-> None, stage |-> None]]
    /\ hist = [c \in Clients |-> <<>>]
    /\ cursor = [c \in Clients |-> 0]
    /\ delivered = [c \in Clients |-> <<>>]

Ingest == IngestAppend \/ IngestAppendFails \/ IngestLagged

Next ==
    \/ Publish
    \/ Ingest
    \/ \E c \in Clients :
        \/ \E f \in Queries : StreamQuery(c, f)
        \/ StreamQueryFails(c)
        \/ StreamSubscribe(c)
        \/ StreamRecv(c)
        \/ StreamLagged(c)
        \/ StreamClose(c)

\* The ingestion loop and every stream's recv loop are spawned tokio
\* tasks that the runtime keeps polling while a message is ready.
Fairness ==
    /\ WF_vars(Ingest)
    /\ \A c \in Clients : WF_vars(StreamRecv(c) \/ StreamLagged(c))

Spec == Init /\ [][Next]_vars /\ Fairness

-----------------------------------------------------------------------------
(* Properties                                                              *)

TypeOK ==
    /\ published \in 0..MaxEvents
    /\ ingCursor \in 1..(MaxEvents + 1)
    /\ store \in Seq(Events)
    /\ ingLost \subseteq Events
    /\ phase \in [Clients -> {"idle", "queried", "streaming", "closed"}]
    /\ filter \in [Clients -> Filters]
    /\ hist \in [Clients -> Seq(Events)]
    /\ cursor \in [Clients -> 0..(MaxEvents + 1)]
    /\ delivered \in [Clients -> Seq(Events)]

\* A stream never sends the same event twice: the history (what the
\* ingestion task had stored when stream_events queried) and the live
\* relay (what was published after it subscribed) never overlap.
NoDuplicateDelivery ==
    \A c \in Clients :
        \A i, j \in DOMAIN delivered[c] :
            i # j => delivered[c][i] # delivered[c][j]

\* The last event of a client's history, 0 when there is none.
LastHist(c) == IF hist[c] = <<>> THEN 0 ELSE Last(hist[c])

\* A stream that is still open has no gap: every matching event published
\* after the last historical event it sent and before the live position
\* its receiver has reached was sent to it (the spec: the stream drains
\* the history, then relays live events; a lagged subscriber is dropped).
StreamGapFree ==
    \A c \in Clients :
        phase[c] = "streaming" =>
            \A e \in Events :
                (/\ LastHist(c) < e
                 /\ e < cursor[c]
                 /\ HubMatchesQuery(e, filter[c]))
                => \E i \in DOMAIN delivered[c] : delivered[c][i] = e

\* Every published event is eventually stored by the ingestion task or
\* accounted as lost (channel lag or a failed append): the task never
\* stalls on the channel.
IngestionProgress ==
    \A e \in Events :
        (published >= e) ~> (\E i \in DOMAIN store : store[i] = e) \/ e \in ingLost

=============================================================================
