# TLA+ models of the UBL gate

This directory holds TLA+ models of the concurrent parts of UBL-CORE. The
focus is the gate service (`src/services/ubl_gate`). Each model comes with
TLC configurations that check it. `PROJECT.json` is the machine-readable
index. It lists:

- the components;
- the runs;
- the mutants;
- the map from each definition to the source lines it models;
- the findings;
- the hazards.

## The system and its parts

The gate is an axum HTTP server built around a `UblPipeline`. The pipeline
lives in `ubl_runtime` and is not under `src/`. The parts below change state
or run concurrently.

| # | Part | Source | State | Operations |
|---|------|--------|-------|------------|
| 1 | Event hub | `events.rs`, `main.rs` 194-222 | tokio broadcast channel (bounded ring), EventStore, one receiver per task | pipeline publishes; ingestion task recv → append / lag; `GET /v1/events` query → subscribe → history → live recv / lag / disconnect |
| 2 | Write admission | `chip.rs` 22-305, `state.rs` `WriteAccessPolicy`, `utils.rs` `resolve_session_bearer`, `world_scope_allows`, `deny_write_with_receipt` | session tokens (issued, revoked, expired), API keys, public worlds/types | knock → bearer token → scope → world → API key / public lane → canon rate limit → pipeline; every refusal after knock writes a deny receipt |
| 3 | MCP | `mcp.rs` | WebSocket sessions with the auth resolved at upgrade | `tools/call` over HTTP or WS, 30 s timeout; `ubl.deliver` calls `submit_chip_bytes` with `trusted_write = ws_auth.is_some()` |
| 4 | MCP token rate limiter | `state.rs` 37-84 | per-token deque of admission instants | `check`: drop entries at least 60 s old; refuse with retry_after when `len >= per_minute`; otherwise record now |
| 5 | Outbox workers | `main.rs` 109-176, `outbox.rs` | durable outbox rows (attempts, next attempt) | N workers loop on `run_once_async(64)`; delivery POSTs to the endpoint; unknown types fail; sleeps of 500 ms / 1 s |
| 6 | Receipt reads and advisories | `receipt.rs`, `chip.rs` 346-501, `mcp.rs` read tools, `utils.rs` `verify_receipt_auth_chain` | durable store (receipts), chip store (chips, advisory chips) | ETag / 304, lookup, tamper check of the auth chain; narration, optionally persisted as an advisory chip; advisory listing and verification |
| 7 | Adapter validation | `pipeline/types.rs` 18-106 | pure | ordered checks of the `adapter` object: `wasm_sha256`, `abi_version` |
| 8 | Registry | `registry.rs` | meta chips in the chip store | `materialize_registry`: register, describe and deprecate passes sorted by `created_at`; `POST /registry/_kat_test` replays a KAT input through `submit_chip_bytes`; read pages |
| 9 | LLM stream relay | `llm.rs` 484-590 | line buffer of one SSE relay | POST to the upstream; per chunk: `from_utf8`, append, handle every complete `data:` line; `[DONE]` returns; end or error yields `done` |
| 10 | Advisor, audit, console, templates, other LLM pages, CLI | `advisor.rs`, `audit.rs`, `console.rs`, `templates.rs`, `llm.rs`, `ubl_cli` | read models or formatting | folds over stored chips; rendering |

How the parts interact:

- Admission (2), whether reached directly or through MCP (3), feeds the
  pipeline.
- The pipeline publishes a receipt event for each chip. The event hub (1)
  stores it and fans it out.
- When durability is on, the pipeline also enqueues `emit_receipt` rows that
  the outbox workers (5) deliver.
- Meta chips committed through admission (2) are what the registry (8)
  materialises, and the registry's KAT test submits its inputs back
  through admission.

The behaviours that are hard to test:

- the order "query history, then subscribe" in `stream_events`;
- lag on the bounded channel;
- a WebSocket session whose token is checked only at upgrade;
- concurrent callers of one rate-limit bucket;
- retries and redelivery in the outbox.
- the pass order of `materialize_registry`, which decides which KATs a
  version carries.

`PROJECT.json` lists each of these at its line under "hazards".

## Modules

### EventHub (part 1)

`EventHub.tla` models the channel as an append-only log of event numbers,
`published`. It keeps one read cursor per receiver and retains only the
`Capacity` newest messages, as `tokio::sync::broadcast` does:

- `Retained(i)` is true while message `i` is still in the ring.
- A receiver whose message was overwritten gets `Lagged` and resumes at
  `Oldest`.

The variables correspond to the code as follows:

| Variable | Code |
|----------|------|
| `ingCursor`, `store`, `ingLost` | the ingestion task spawned in `main.rs`: its receiver and the EventStore |
| `phase`, `filter`, `hist`, `cursor`, `delivered` | one `stream_events` call per client: the request's filters, the history returned by `store.query`, the receiver subscribed after the query, and the SSE frames yielded |

The actions correspond to the code as follows:

| Action | Code |
|--------|------|
| `Publish` | the pipeline's `event_bus.publish`, modelled from the spec |
| `IngestAppend`, `IngestAppendFails`, `IngestLagged` | the three arms of the ingestion loop |
| `StreamQuery`, `StreamQueryFails` | `store.query` succeeds, or fails and returns 500 |
| `StreamSubscribe` | `subscribe()` and the history drain before the first `recv` |
| `StreamRecv`, `StreamLagged` | the live loop |
| `StreamClose` | the client dropping the stream |

Filters are restricted to `world` and `stage`. The other filter fields
compare further event attributes in the same way and add nothing to the
interleavings.

`MCEventHub.tla` fixes the model:

- four events over two worlds and two stages;
- three queries: no filter, a world, and a world with a stage.

Fairness is weak fairness on the ingestion task and on each stream's receive
loop. Both are spawned tokio tasks that the runtime polls whenever their
receiver has a message. Publishing and client actions get no fairness.
Deadlock checking is off: once the bounded run of events has been consumed,
every task waits in `recv().await`, which is the server's idle state.

### WriteAdmission (parts 2 and 3)

`WriteAdmission.tla` follows one write request at a time through
`submit_chip_bytes` (`chip.rs` 22-305). A per-request program counter `pc`
walks the code's steps in order:

| pc | Code | Exits |
|----|------|-------|
| `knock` | `ubl_runtime::knock` | `KnockRejected` (deny receipt, 422), `KnockAccepted` |
| `admit` | the `!trusted_write` block | `AdmitViaToken` (Bearer: `resolve_session_bearer`, scope, world), `AdmitViaPolicy` (`authorize_write`: API key or public lane) |
| `process` | canon rate limiter, then `pipeline.process_chip_with_context` | `CanonLimited` (429, no receipt), `PipelineCommit` (WF receipt), `PipelineError` |
| `mcp` | `handle_mcp_rpc_request` | `McpRateLimited`, `McpScopeDenied`, `McpDispatch` (`ubl.deliver`), `McpTimeout` (30 s) |

The variables are split as follows:

- `inp` is the request: transport, `Authorization` header (scheme and
  credential), whether `X-API-Key` carries the configured key, target
  world, chip type, the DID in the body, the knock outcome and the WS
  session. The header is read as the code reads it: `parse_bearer_token`
  takes a non-blank credential of the Bearer scheme, and `extract_api_key`
  takes `X-API-Key`, else the credential of the ApiKey, Api-Key or Bearer
  scheme. The HTTP inputs send the API key both as `ApiKey k1`, which
  `authorize_write` accepts, and as `Bearer k1`, which goes down the
  token path and is refused 401.
- `revokedTokens`, `revokedUsers` and `expired` are the session store, which
  an admin changes concurrently (`RevokeToken`, `RevokeUser`, `Expire`).
- `session` holds the token each open WebSocket resolved at upgrade
  (`WsUpgrade`, `validate_mcp_ws_bearer`).
- `receipts` holds the deny and WF receipts written.
- `staleAtArrival` is a history variable. It records whether the presented
  token was already unusable when the request arrived, so a revocation that
  races an in-flight request is not counted against the code.

`ResolveOutcomes` is `resolve_session_bearer`. With `StoreFaults` it also
yields the outcomes of its error arms:

- the revocation queries fail open (`unwrap_or(false)`);
- the user lookup failing drops the DID.

Deny receipts can fail to be written (`DenyWithReceipt` err branch).

The registry's KAT test (`registry.rs` 183-343) is a fourth way into
`submit_chip_bytes`:

- `metaChips` is the set of `ubl/meta.register`, `ubl/meta.describe` and
  `ubl/meta.deprecate` chips in the store. `Init` seeds it with any subset
  of `MetaPool`. A request whose input carries a meta body (`meta`) adds
  its chip when `PipelineCommit` stores it (`StoreChip`), stamped with a
  `created_at` later than every stored one (`NextAt`). The registry and
  the write path are therefore composed: what one client commits is what
  the next registry read and KAT test see.
- `Registry` is `materialize_registry`. It is three `FoldLeft`s:
  `ApplyRegister` over the registers, then `ApplyDescribe` over the
  describes, then `ApplyDeprecate` over the deprecates, each sorted by
  `created_at` (`ByCreatedAt`, `SetToSortSeq`). A register sets the type's
  `latest_version` and that version's KATs. A describe with KATs replaces
  those of the latest version, if it has an entry. A deprecate only makes
  sure the type has a view; its flag, deprecation record and `last_cid`
  are fields no status depends on.
- The read handlers are one action each: `RegistryTypes` and
  `RegistryTablePartial` (200), `RegistryTypePage` and `RegistryTypeDetail`
  (404 without a view of the type), `RegistryTypeVersion` (404 also without
  the version). Each answers 500 when a ChipStore query of the
  materialisation fails (`RegistryAnswer`). The `?world=` filter of the two
  lists only narrows the rows of a 200 and is left out.
- `KatTest(r, f)` is the whole handler: 500 when materialisation fails,
  404 for a missing type, version or KAT index, 400 for a KAT without
  `input`. Otherwise it submits the KAT input with no headers and
  `trusted_write = true`, so `KnockAccepted` sends it straight to `process`.

### ReceiptReads (part 6 and the MCP read tools)

`ReceiptReads.tla` holds the stores the read handlers look at:

| Variable | Code |
|----------|------|
| `durable` | `state.durable_store.is_some()`, fixed at startup |
| `rstore` | the durable store: per receipt CID absent, valid or tampered |
| `cstore` | the chip store: per chip CID absent, valid or tampered |
| `astore` | advisory chips in the chip store, with the receipt they narrate |
| `answer` | the last answer: endpoint, CID, status or JSON-RPC code, whether it vouches for what it read, and what the store held |

The writers are modelled from the spec and marked `spec_modelled`:

- `Commit` is the WF commit: the chip, and the receipt when durability is on.
- `TamperReceipt`, `TamperChip` and `TamperAdvisory` alter a stored record
  on disk (spec scenario 6).

The stage-chain HMAC is abstracted to its promise: a stored receipt verifies
(`Verifies`) exactly when it is the one committed. `Read` adds the error
outcome of a store read when `StoreFaults` holds.

Each handler is one action, with its early returns as disjuncts or CASE arms:

- HTTP: `GetReceipt` (with If-None-Match), `GetReceiptUrl`,
  `GetReceiptTrace`, `GetChip`, `VerifyChip`, `Narrate`, `NarrateStream`,
  `ListAdvisories`, `VerifyAdvisory`.
- MCP: `McpReceipt`, `McpReceiptTrace`, `McpChipTool` (`ubl.query`,
  `ubl.verify`), `McpNarrate`.

With `persist`, `Narrate` and `McpNarrate` store a new advisory chip
(`PersistNarration`). This is the only write among the handlers.

### LlmStream (part 9)

`LlmStream.tla` is `call_real_llm_stream_sse`. It sits behind
`/ui/_llm/stream`, and behind the narrate stream when the LLM is enabled.

The upstream body is a sequence of abstract bytes:

- `P` is `data: `, `{` and `}` are the JSON envelope of a delta, `DONE` is
  `[DONE]`, `NL` is a newline, and `a` is an ASCII content character.
- `h` `t` are the lead and continuation byte of a two-byte character.
- A chunk boundary inside an ASCII run changes nothing the code does. So
  `Chunkings` (RECURSIVE) cuts the body between symbols, in every way.

The state and actions correspond to the code as follows:

| Definition | Code |
|------------|------|
| `Init` | chooses an upstream (`MCLlmStream`: one or two events) and a chunking |
| `Unavailable`, `UpstreamError`, `Connected` | the answers before the stream: 503, 502, or the start of the SSE response |
| `Recv` | one turn of `while let Some(chunk)`: a chunk that fails `ValidUtf8` is skipped; otherwise it is appended to `buf` and `Drain` (RECURSIVE) handles the complete lines |
| `RecvErr`, `Eof` | the `break` on a transport error and the end of the body; both send `done` |

`Drain` follows the inner loop:

- a line without `data: ` is skipped;
- `[DONE]` returns;
- data that does not parse (`IsDelta`) or has empty content is skipped;
- otherwise the content is yielded.

The reference, `Deltas`, reads the upstream's events whole. It keeps the
non-empty deltas up to `[DONE]`.

### AdapterValidation (part 7)

`AdapterValidation.tla` models `AdapterRuntimeInfo::parse_optional`. JSON
values are abstracted to what the checks read: a missing key, a non-string,
or a string as a sequence of characters. `CodeChecks` lists the code's early
returns in order, and `ParseOptional` answers with the code of the first
check that fails (`SelectInSeq`). The reference is `SpecOutcome`, a
RECURSIVE walk over the checks of spec section 4.7 in the spec's order.
`Init` takes every adapter built from strings of up to `HashLen + 1`
characters.

### McpTokenRateLimiter (part 4)

`McpTokenRateLimiter.tla` is `check(token_id)` (`state.rs` 37-84) under its
write lock:

- Each token's deque holds the ages of its admitted instants, in ticks of
  half a second.
- `PopExpired` is the front-popping loop, written RECURSIVE.
- `Limited` is `len >= per_minute`.
- `RetryAfter` is `(window - elapsed).as_secs() + 1`.
- `Tick` advances time.
- `admits`, `refusedAgo` and `hintSecs` are history variables that the
  properties read.

`SlidingWindowLimiter.tla` is the limiter's promise, with no deque: per
token, the ages of the calls admitted within the window. `Admit` needs
room, `Refuse` needs a full window, and `Age` moves time on.
`McpTokenRateLimiter` instantiates it as `Abstract` with this mapping:

- `window` is each bucket's ages below the window. A capped age equal to
  the window is an instant the next `check` pops.
- `last` is `lastResult`.

`LimiterImplementsSlidingWindow == Abstract!Spec` is checked as a
PROPERTY. Every check and tick of the code is then a step of the abstract
limiter, or a stutter.

### Outbox (part 5)

`Outbox.tla` models the workers spawned in `main.rs` 109-176 and
`deliver_emit_receipt_event` (`outbox.rs`):

- `Poll` is `run_once_async(64, ..)`. It claims up to `BatchSize` due,
  unlocked rows, in any order.
- `Deliver(w)` hands the next row of the batch to the closure. It has one
  disjunct per way the closure returns:
  - unknown type (Err);
  - no endpoint (Ok, nothing sent);
  - 2xx;
  - send error or non-2xx;
  - the 10 s client timeout firing after the endpoint processed the POST.
- `received` counts the POSTs the endpoint processed.
- `timedOut` is a history variable: per row, the POSTs the endpoint
  processed whose answer the client timeout cut off.

The claim, mark and backoff of the durable store are in `ubl_runtime`, which
is not under `src/`. They are modelled from the spec (sections 4.10-4.11)
and marked `spec_modelled` in the map. The endpoint setting is read once at
startup, so `Init` chooses it.

Fairness:

- Each worker is weakly fair on `Poll` and `Deliver`, because it is a tokio
  task in an endless loop.
- The clock is weakly fair on each row's backoff.
- Each worker is strongly fair on `DeliverOk`. This is the spec's assumption
  (P7) that the endpoint eventually accepts. Without it, a rejecting
  endpoint keeps a row pending forever, which the code does on purpose.

## Runs

| Run | cfg | Properties | Result |
|-----|-----|------------|--------|
| eventhub | `EventHub.cfg` (2 clients) | `TypeOK`, `NoDuplicateDelivery`, `IngestionProgress` | pass |
| eventhub_gap | `EventHubGap.cfg` (1 client) | `StreamGapFree` | violation |
| admission_http | `WriteAdmissionHttp.cfg` (2 HTTP requests) | `AdmittedWritesAuthorized` | pass |
| admission_all | `WriteAdmissionAll.cfg` (1 request, any transport, registry reads, store faults) | `TypeOK`, `LatestIsNewestRegister` | pass |
| admission_trusted_write | `WriteAdmissionTrusted.cfg` (a meta register, then the KAT lane) | `AdmittedWritesAuthorized` | violation |
| admission_revoke_fail_open | `WriteAdmissionFailOpen.cfg` | `AdmittedWritesAuthorized` | violation |
| mcp_token_limiter | `McpTokenRateLimiter.cfg` | `TypeOK`, `SlidingWindowBound`, `LimiterImplementsSlidingWindow`, `RetryAfterHonoured` | pass |
| outbox | `Outbox.cfg` (endpoint set or not) | `TypeOK`, `DeliveredWasReceived`, `NoRedeliveryWithoutTimeout`, `EventuallyDelivered` | pass |
| adapter_error_order | `AdapterValidationOrder.cfg` | `RejectsWithSpecCode` | violation |
| reads_tamper | `ReceiptReads.cfg` | `TamperNeverVouched` | pass |
| reads_mcp_tamper | `ReceiptReadsMcp.cfg` | `TamperNeverVouchedAnySurface` | violation |
| llm_stream_utf8 | `LlmStreamUtf8.cfg` | `TokensRelayed` | violation |

Every property of a passing run has a mutant in `PROJECT.json`. A mutant is
a plausible bug in the mapped code, and TLC finds the property violated
under it.

### The bounds

EventHub:

- `Capacity = 2` with four events is enough for two things: the ingestion
  task and a stream can both lag, and a lag can skip one or two messages.
- Two clients give two streams whose query and subscribe steps interleave
  with ingestion. The same run checks the liveness property.

WriteAdmission has two tokens:

- `t1` is limited to world `a/demo` with scope `mcp:write`, and its user has
  a DID.
- `t2` has the wildcard world and scope `read` only, and its user has no DID.

Requests target a world inside and a world outside `a/demo`, and carry a
public type, an onboarding type or a private type. Two concurrent requests,
with admin revocations interleaved, reach every race between revocation and
admission. The all-transports run uses one request, because two requests
over every transport with store faults run to tens of millions of states;
the receipts property is per request.

The KAT lane's meta pool has four chips for `app/order`:

1. a register of 1.0 with one KAT, whose input writes into `a/private`;
2. a describe with a KAT that has no input;
3. a later register of 2.0 without KATs;
4. a deprecate of the type.

The all-transports run also lets `t1` commit, over HTTP into `a/demo`, a
register of 1.0 carrying the same KAT (`MCPlantInputs`). Stored after a
seeded register of 2.0, it makes 1.0 the latest version again. Registry
queries cover both lists, both type lookups and both versions.

Any subset of them may be stored. Forms ask for either version and for KAT
index 0 or 1. Together these reach:

- every answer of the handler;
- a describe replacing the KATs of 1.0 or of 2.0, depending on which
  registers are stored.

The HTTP runs have an empty pool.

LlmStream takes every chunking of every upstream of one or two events.
Each delta is one ASCII character, one two-byte character, or empty, and a
second event may be `[DONE]`. Bodies are at most 14 symbols long, so there
are up to 8192 chunkings each. One two-byte character is enough for a cut
to fall inside it. Two events let a dropped chunk carry a newline and
merge two lines.

McpTokenRateLimiter:

- A window of 3 s at two ticks per second, with `per_minute = 2`, reaches
  refusals, the exact-boundary instant (age equal to the window) and the
  rounding of `as_secs`.
- Two tokens show that buckets are independent.

Outbox:

- Two workers, a batch size of 2, and three rows (two `emit_receipt`, one of
  an unknown type) let a worker hold a partial batch while the other polls.
- Attempts are capped at 2. The cap only stops the counters, never a step.

ReceiptReads:

- Two chips with their own receipts, so a tampered record sits beside an
  intact one.
- A path CID without `b3:` and an MCP call without `cid`.
- Durability on and off, and failing store reads.
- Two advisory CIDs, so a narration can be persisted twice. A persist is
  disabled once both are used; this bounds the model, not the code.

AdapterValidation: a hash length of 2 instead of 64. Strings of up to three
characters over `0`, `F` and `g` cover every way the hex check can fail:
too short, too long, and a non-hex character. The `abi_version` values are
`1.0`, another version and the empty string, each also missing and
non-string.

### What the runs show

**eventhub: all hold.**

- A stream never sends an event twice. This holds because the receiver
  subscribes after the query, so the history and the live part cannot
  overlap.
- Every published event is eventually stored by the ingestion task, or is
  lost to lag or to a failed append.

**eventhub_gap: `StreamGapFree` is violated.** This is a finding. The
counterexample:

1. An event is published.
2. A client queries before the ingestion task has stored the event.
3. The client then subscribes after the event was sent.

The event is in neither the history nor the live part. A lagged stream
(events.rs 122-124) also keeps streaming with a gap, although the spec says
a lagged subscriber is dropped.

**admission_http: `AdmittedWritesAuthorized` holds.** Every WF receipt of
an HTTP write was admitted by one of two routes:

- a token that existed, was usable when the request arrived, had write
  scope and covered the target world;
- `authorize_write` (API key or the public lane).

**admission_all: `LatestIsNewestRegister` holds.** Every read and KAT test sees, as a
type's `latest_version`, the version of its most recently stored register,
including one committed through the gate after the seeded ones. The
mutant that sorts newest first breaks it.

**admission_trusted_write: violated (finding).** `submit_chip_bytes`
skips all of admission when `trusted_write` is true (`chip.rs` 84). Two
callers pass true:

- `ubl.deliver` over a WebSocket (`mcp.rs` 375). A session opened with a
  token limited to `a/demo` commits into `a/private`. A token revoked after
  the upgrade keeps writing.
- `POST /registry/_kat_test` (`registry.rs` 288), which is routed without
  authentication (`main.rs` 279).

Spec section 6 and line 250 allow neither write. The cfg starts from an
empty registry, and TLC's counterexample is an escalation in two requests:

1. `t1`, a token limited to `a/demo`, commits into `a/demo` a
   `ubl/meta.register` of `app/order` 1.0. Its KAT input is a chip for
   `a/private`. The world check passes, because it looks at the meta
   chip's own world.
2. A client with no token and no API key posts the KAT test form for that
   KAT.
3. The KAT input is committed into `a/private` with `trusted_write`.

With `MetaWrites = {}` and `Inputs <- MCWsInputs`, the same cfg prints the
WebSocket case.

**admission_revoke_fail_open: violated (finding).** When the revocation
query fails, `unwrap_or(false)` (`utils.rs` 431, 469) treats the token as
not revoked, and a revoked token writes.

**mcp_token_limiter: all hold.**

- No token gets more than `per_minute` calls within one window.
- The code refines `SlidingWindowLimiter`. Each refusal is backed by
  `per_minute` admissions of that token inside the window, and each
  admission by fewer. The mutant that keeps an instant exactly one window
  old refuses a call the abstract limiter admits.
- A caller that waits the `retry_after` it was given is admitted. The `+ 1`
  covers the truncation of `as_secs`, and the mutant without it fails.

**outbox: all hold.** `Init` takes the endpoint set and unset. With an endpoint configured:

- a row is marked delivered only after the endpoint processed a POST of it;
- the endpoint receives a row a second time only after a POST of it that
  it processed was cut off by the 10 s client timeout (`timedOut` counts
  those). With two workers sharing the rows, a row answered 2xx is never
  sent again. The mutant that reads a 2xx answer as a failure, and the one
  that claims rows without the row lock, both break it.

Client timeouts therefore are the only cause of redelivery, which
at-least-once delivery permits.
Without `UBL_OUTBOX_ENDPOINT`, `deliver_emit_receipt_event` returns `Ok`
and the row is consumed unsent (`outbox.rs` 18-24). Startup warns about
this, so it is listed as a deliberate hazard and not as a finding.

Every committed `emit_receipt` row is eventually delivered, with or
without an endpoint (`EventuallyDelivered`).

**adapter_error_order: violated (finding).** `parse_optional` checks the
hash (`types.rs` 81) before `abi_version`. An adapter with a bad hash and
`abi_version` "9.9" is therefore refused with `WASM_VERIFY_HASH_MISMATCH`.
In the order of spec 4.7 it would be `WASM_ABI_UNSUPPORTED_VERSION`.

**reads_tamper: holds.** No HTTP answer with status 200 vouches for a
tampered receipt. This covers:

- `GET /v1/receipts/{cid}` and its `/url`;
- a trace or chip verification with `auth_chain_verified = true`.

`verify_advisory` reports `verified` only for an advisory whose stored bytes
still hash to its CID. A 304 is not counted: If-None-Match is answered
before the store is read, and it only confirms the client's own copy.

**reads_mcp_tamper: violated (finding).** The MCP tool `ubl.receipt`
returns the stored receipt without `verify_receipt_auth_chain`
(`mcp.rs` 469). Every HTTP route and `ubl.receipt.trace` refuse a tampered
receipt. The counterexample is a commit, a tamper, then `ubl.receipt`.

**llm_stream_utf8: violated (finding).** Each chunk is decoded on its own
with `from_utf8`, and a chunk that fails is skipped (`llm.rs` 554). The
counterexample:

1. The upstream sends one delta, "é".
2. The body arrives as `data: {..` plus the lead byte, then the
   continuation byte plus `..}` and the newlines.
3. Neither chunk is valid UTF-8, so both are dropped.
4. The stream ends with `done` and no token.

The prompts ask for Portuguese, so multi-byte characters are common. With
ASCII content only (for example, `Accent` removed from `MCUpstreams`),
every chunking relays the deltas exactly, so the line buffering itself is
right.

The code ends the stream in two ways. On `[DONE]` it returns without the
`done` event. At the end of the body, or on an error, it sends `done`.
This is listed as a hazard. No client in the repository states which
ending it expects.

## Plan

Done: EventHub, WriteAdmission (with the registry reads, meta chips
committed through the gate and the KAT lane), LlmStream,
McpTokenRateLimiter and its refinement of SlidingWindowLimiter, Outbox,
ReceiptReads (with narration and advisories) and AdapterValidation.

Next:

1. **Pipeline / DurableStore** (from the spec): the stage chain, idempotent
   replay and the atomic commit. An abstract "one receipt per chip" spec is
   refined by the detailed model (INSTANCE ... WITH). The runs are capped,
   so this needs runs merged.
2. **The auth-chain fold** (`verify_auth_chain`) as a RECURSIVE operator,
   checked against a reference over bounded stage lists.
3. **Registry snapshots**: `materialize_registry` as three separate
   queries interleaved with commits, and `created_at` ties (hazards at
   `registry.rs` 555 and 607).

## Not modelled

- Rendering and formatting: the console, the templates, the heuristic
  analysis, and the non-streaming LLM call (`call_real_llm`,
  `parse_llm_text`). These have no state of their own.
- The advisor and audit reports (`advisor.rs`, `audit.rs`). They aggregate
  stored chips and events and write one report through the pipeline. The
  aggregation is over `EventStore::query` and chip queries, whose
  semantics live in crates outside `src/`, and the report has no state of
  its own between calls.
- Registry fields no answer depends on: description, docs URL, the
  deprecation record and `last_cid`. `registry_page` renders a template
  without reading state.
- `search_events` (`events.rs` 180-260). It passes its parameters to
  `EventStore::query`, whose `since` semantics live in a crate outside
  `src/`. Its pagination cannot be modelled from the code.
- The growth of the MCP token-bucket map (`state.rs` 61). A bucket is
  created per token id and never removed. Growth over unbounded token ids
  is outside what a finite model checks.
- The CLI (`ubl_cli`). It is a sequential client.
- `ubl.cid` and `rb.execute`. These are pure computations in crates
  outside `src/`.
- Environment configuration and metrics.
