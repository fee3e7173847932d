---------------------------- MODULE WriteAdmission ----------------------------
(***************************************************************************)
(* Write admission in the gate (services/ubl_gate).  A chip reaches        *)
(* submit_chip_bytes (chip.rs) from three transports: POST /v1/chips,      *)
(* MCP JSON-RPC over HTTP (mcp_rpc) and MCP over a WebSocket session       *)
(* (mcp_ws_session).  After knock, a write that is not "trusted" is        *)
(* admitted through a session bearer token (resolve_session_bearer in     *)
(* utils.rs), else through WriteAccessPolicy::authorize_write (state.rs):  *)
(* an API key or the public onboarding lane.  Every refusal after knock    *)
(* writes a deny receipt (deny_write_with_receipt).  The canon rate        *)
(* limiter and the pipeline follow.  A WebSocket session resolves its      *)
(* bearer once, at upgrade, and ubl.deliver passes                        *)
(* trusted_write = ws_auth.is_some() (mcp.rs).  POST /registry/_kat_test  *)
(* (registry.rs) replays a KAT input of a registered chip type through     *)
(* submit_chip_bytes with no headers and trusted_write = true.             *)
(*                                                                         *)
(* Tokens and users are revoked, and tokens expire, concurrently with the  *)
(* requests (ubl/revoke chips written by other requests; the clock).       *)
(* Worlds are sequences of path segments, so "prefix containment" of the   *)
(* spec is IsPrefix on segments (world_scope_allows).                      *)
(***************************************************************************)
EXTENDS Naturals, Sequences, SequencesExt, FiniteSets, TLC

CONSTANTS
    Reqs,              \* concurrent write requests
    Sessions,          \* MCP WebSocket connections
    Tokens,            \* ubl/token chips (their @id)
    NotAToken,         \* a Bearer value naming no ubl/token chip
    Users,             \* ubl/user chips that tokens belong to
    TokenWorld,        \* [Tokens -> Seq(segment)]: the token chip's @world
    TokenScope,        \* [Tokens -> SUBSET scope strings]
    TokenUser,         \* [Tokens -> Users]: SessionToken.user_cid
    UserDid,           \* [Users -> Dids \cup {None}]: the user chip's "did"
    Dids,              \* explicit "did:" values
    AnonDid,           \* did:ubl:anon:... built from claims and hints
    None,
    AuthRequired,      \* UBL_WRITE_AUTH_REQUIRED
    ApiKeysConfigured, \* UBL_WRITE_API_KEYS is not empty
    PublicWorlds,      \* UBL_PUBLIC_WRITE_WORLDS
    PublicTypes,       \* UBL_PUBLIC_WRITE_TYPES
    OnboardingTypes,   \* ubl_runtime::auth::is_onboarding_type
    Inputs,            \* the requests clients send (see Input below)
    StoreFaults,       \* whether ChipStore queries may fail
    ChipTypes,         \* target_type values of meta chips
    Versions,          \* type_version values of meta chips
    MetaPool,          \* meta chips that may be stored at startup (see
                       \*   MetaChip below)
    MetaWrites,        \* meta chip bodies that requests may carry
    KatForms,          \* the KAT test forms clients post
    RegistryQueries    \* the registry reads clients send

Wildcard == <<"*">>

\* The credential of an Authorization header: a token id, a value naming
\* no token, the configured API key "k1", or blank.
Credentials == Tokens \cup {NotAToken, "k1", ""}

\* An Authorization header (None when absent): its scheme, compared without
\* case by the code, and its credential.
AuthHeader == [scheme : {"bearer", "apikey", "basic"}, cred : Credentials]

\* A request: its transport, its Authorization header, whether X-API-Key
\* carries the configured key "k1", the chip's @world,
\* @type and explicit DID, whether knock accepts the bytes, and for the
\* WebSocket transport the session it arrives on, and for a ubl/meta.* chip
\* the body the registry parses from it.
Input == [via : {"http", "mcp_http", "ws", "kat"}, authz : AuthHeader \cup {None},
          apiKey : BOOLEAN, world : Seq(STRING), type : STRING,
          did : Dids \cup {None}, knockOk : BOOLEAN, session : Sessions \cup {None},
          meta : MetaWrites \cup {None}]

\* The body of a meta chip that parses (parse_register, parse_describe,
\* parse_deprecate): its kind, target_type, type_version (registers only)
\* and its kats, each a chip Input or None when the KAT has no "input".
MetaBody == [kind : {"register", "describe", "deprecate"}, target : ChipTypes,
             ver : Versions, kats : Seq(Input \cup {None})]

\* A stored meta chip: its body and its created_at.
MetaChip == [kind : {"register", "describe", "deprecate"}, at : Nat,
             target : ChipTypes, ver : Versions, kats : Seq(Input \cup {None})]

ASSUME Inputs \subseteq Input /\ MetaWrites \subseteq MetaBody

\* The RegistryKatTestForm: chip_type, version, kat_index (0-based).
KatForm == [type : ChipTypes, ver : Versions, idx : Nat]

\* A registry read: GET /v1/registry/types and the registry table,
\* GET /v1/registry/types/{type} and the type page, and
\* GET /v1/registry/types/{type}/versions/{ver}.  The ?world= filter of the
\* two lists only narrows the list a 200 carries and is left out.
RegistryQuery == [ep : {"types", "table"}]
                 \cup [ep : {"detail", "page"}, type : ChipTypes]
                 \cup [ep : {"version"}, type : ChipTypes, ver : Versions]

ASSUME MetaPool \subseteq MetaChip /\ KatForms \subseteq KatForm
       /\ RegistryQueries \subseteq RegistryQuery

VARIABLES
    pc,            \* per request: "idle" | "knock" | "admit" | "process" | "done"
    inp,           \* per request: its Input
    resp,          \* per request: the answer sent
    presented,     \* per request: the token it carries (Bearer or WebSocket)
    hint,          \* per request: subject_did_from_token_hint
    staleAtArrival,\* per request: tokens unusable when the request arrived
    receipts,      \* receipts written: [req, kind, subject]
    revokedTokens, \* tokens with a ubl/revoke chip targeting them
    revokedUsers,  \* users with a ubl/revoke chip targeting them
    expired,       \* tokens whose expires_at has passed
    session,       \* per WebSocket: the McpWsAuth token, or None
    metaChips      \* the meta chips in the ChipStore

vars == <<pc, inp, resp, presented, hint, staleAtArrival, receipts,
          revokedTokens, revokedUsers, expired, session, metaChips>>

-----------------------------------------------------------------------------
(* Helpers translated from utils.rs and state.rs                           *)

\* world_scope_allows: "*" or a segment-wise prefix of the target world.
world_scope_allows(scope, target) ==
    /\ scope # <<>>
    /\ target # <<>>
    /\ scope = Wildcard \/ IsPrefix(scope, target)

\* scope_allows_any
scope_allows_any(scope, required) == "*" \in scope \/ scope \cap required # {}

\* The scopes that submit_chip_bytes and mcp_scope_allows_write accept.
ChipWriteScopes == {"write", "chip:write", "mcp:write"}
McpWriteScopes == {"write", "mcp:write"}

\* WriteAccessPolicy::allows_public_unauthenticated
allows_public_unauthenticated(type, world) ==
    \/ type \in OnboardingTypes
    \/ world \in PublicWorlds /\ type \in PublicTypes

\* parse_bearer_token: the credential of an Authorization header with the
\* Bearer scheme, unless it is blank.
parse_bearer_token(i) ==
    IF i.authz # None /\ i.authz.scheme = "bearer" /\ i.authz.cred # ""
    THEN i.authz.cred ELSE None

\* extract_api_key: X-API-Key when present, else the credential of an
\* Authorization header with the ApiKey, Api-Key or Bearer scheme.
extract_api_key(i) ==
    CASE i.apiKey                                                   -> "k1"
      [] i.authz # None /\ i.authz.scheme \in {"apikey", "bearer"}
                       /\ i.authz.cred # ""                         -> i.authz.cred
      [] OTHER                                                      -> None

\* WriteAccessPolicy::authorize_write; matches_api_key compares the key
\* extract_api_key finds with the configured ones.
authorize_write(i) ==
    \/ ~AuthRequired /\ ~ApiKeysConfigured
    \/ ApiKeysConfigured /\ extract_api_key(i) = "k1"
    \/ allows_public_unauthenticated(i.type, i.world)

\* Tokens resolve_session_bearer refuses in the current state, when every
\* ChipStore query succeeds: expired, revoked, or of a revoked user.
Unusable == expired \cup revokedTokens \cup {t \in Tokens : TokenUser[t] \in revokedUsers}

\* resolve_subject_did: an explicit DID of the body, else the anonymous DID.
resolve_subject_did(i) == IF i.did # None THEN i.did ELSE AnonDid

\* Mutation: the expires_at check is missing.
ResolveOutcomesNoExpiry(t) ==
    IF t \notin Tokens \/ TokenWorld[t] = <<>>
    THEN {[ok |-> FALSE, did |-> None]}
    ELSE {[ok |-> ~(t \in revokedTokens \/ TokenUser[t] \in revokedUsers),
           did |-> UserDid[TokenUser[t]]]}

\* The outcomes of resolve_session_bearer for token t: "ok" with the
\* subject DID it found (None when the user lookup finds none), or "err".
\* A failing revoke query counts as "not revoked" (.unwrap_or(false)) and a
\* failing user lookup as "no DID" (_ => None).
ResolveOutcomes(t) ==
    IF t \notin Tokens \/ t \in expired \/ TokenWorld[t] = <<>>
    THEN {[ok |-> FALSE, did |-> None]}
    ELSE LET revokeSeen == IF StoreFaults THEN {TRUE, FALSE} ELSE {TRUE}
             didSeen == IF StoreFaults THEN {UserDid[TokenUser[t]], None}
                                       ELSE {UserDid[TokenUser[t]]}
         IN  {[ok |-> ~(seen /\ (t \in revokedTokens \/ TokenUser[t] \in revokedUsers)),
               did |-> d] : seen \in revokeSeen, d \in didSeen}
         \cup (IF StoreFaults THEN {[ok |-> FALSE, did |-> None]} ELSE {})

-----------------------------------------------------------------------------
(* Concurrent state changes: revocation and expiry                         *)

RevokeToken(t) ==
    /\ t \notin revokedTokens
    /\ revokedTokens' = revokedTokens \cup {t}
    /\ UNCHANGED <<metaChips, pc, inp, resp, presented, hint, staleAtArrival, receipts,
                   revokedUsers, expired, session>>

RevokeUser(u) ==
    /\ u \notin revokedUsers
    /\ revokedUsers' = revokedUsers \cup {u}
    /\ UNCHANGED <<metaChips, pc, inp, resp, presented, hint, staleAtArrival, receipts,
                   revokedTokens, expired, session>>

Expire(t) ==
    /\ t \notin expired
    /\ expired' = expired \cup {t}
    /\ UNCHANGED <<metaChips, pc, inp, resp, presented, hint, staleAtArrival, receipts,
                   revokedTokens, revokedUsers, session>>

-----------------------------------------------------------------------------
(* MCP over WebSocket: mcp_ws_upgrade, mcp_ws_session                      *)

\* Mutation: the upgrade keeps the Bearer without looking the token up.
WsUpgradeUnchecked(s, t) ==
    /\ session[s] = None
    /\ session' = [session EXCEPT ![s] = t]
    /\ UNCHANGED <<metaChips, pc, inp, resp, presented, hint, staleAtArrival, receipts,
                   revokedTokens, revokedUsers, expired>>

\* The scopes validate_mcp_ws_bearer accepts for an MCP session.
McpSessionScopes == {"mcp", "read", "write", "mcp:write"}

\* mcp_ws_upgrade: validate_mcp_ws_bearer resolves the Bearer once and
\* checks the session scope; the session keeps the McpWsAuth for its life.
WsUpgrade(s, t) ==
    /\ session[s] = None
    /\ \E o \in ResolveOutcomes(t) : o.ok
    /\ scope_allows_any(TokenScope[t], McpSessionScopes)
    /\ session' = [session EXCEPT ![s] = t]
    /\ UNCHANGED <<metaChips, pc, inp, resp, presented, hint, staleAtArrival, receipts,
                   revokedTokens, revokedUsers, expired>>

\* A frame of session s is being handled: the session loop awaits
\* handle_mcp_rpc_request before its next socket.recv().
Busy(s) == \E r \in Reqs : pc[r] \notin {"idle", "done"} /\ inp[r].session = s

\* The socket closes while the session loop waits in socket.recv().
WsClose(s) ==
    /\ session[s] # None
    /\ ~Busy(s)
    /\ session' = [session EXCEPT ![s] = None]
    /\ UNCHANGED <<metaChips, pc, inp, resp, presented, hint, staleAtArrival, receipts,
                   revokedTokens, revokedUsers, expired>>

-----------------------------------------------------------------------------
(* A write request arrives                                                 *)

\* POST /v1/chips or mcp_rpc: straight to submit_chip_bytes.  A WebSocket
\* text frame: handle_mcp_rpc_request with the session's McpWsAuth; the
\* session loop handles one frame at a time.
Arrive(r, i) ==
    /\ pc[r] = "idle"
    /\ IF i.via = "ws"
       THEN /\ i.session # None
            /\ session[i.session] # None
            /\ ~Busy(i.session)
            /\ presented' = [presented EXCEPT ![r] = session[i.session]]
            /\ pc' = [pc EXCEPT ![r] = "mcp"]
       ELSE /\ i.session = None
            /\ presented' = [presented EXCEPT ![r] = parse_bearer_token(i)]
            /\ pc' = [pc EXCEPT ![r] = "knock"]
    /\ inp' = [inp EXCEPT ![r] = i]
    /\ staleAtArrival' = [staleAtArrival EXCEPT ![r] = Unusable]
    /\ UNCHANGED <<metaChips, resp, hint, receipts, revokedTokens, revokedUsers, expired, session>>

\* handle_mcp_rpc_request, tools/call with ws_auth: the token rate limiter
\* refuses (-32006), or the scope lacks write|mcp:write (PolicyDenied), or
\* dispatch_tool_call runs ubl.deliver.
McpRateLimited(r) ==
    /\ pc[r] = "mcp"
    /\ pc' = [pc EXCEPT ![r] = "done"]
    /\ resp' = [resp EXCEPT ![r] = "mcp_limited"]
    /\ UNCHANGED <<metaChips, inp, presented, hint, staleAtArrival, receipts,
                   revokedTokens, revokedUsers, expired, session>>

McpScopeDenied(r) ==
    /\ pc[r] = "mcp"
    /\ ~scope_allows_any(TokenScope[presented[r]], McpWriteScopes)
    /\ pc' = [pc EXCEPT ![r] = "done"]
    /\ resp' = [resp EXCEPT ![r] = "mcp_denied"]
    /\ UNCHANGED <<metaChips, inp, presented, hint, staleAtArrival, receipts,
                   revokedTokens, revokedUsers, expired, session>>

McpDispatch(r) ==
    /\ pc[r] = "mcp"
    /\ scope_allows_any(TokenScope[presented[r]], McpWriteScopes)
    /\ pc' = [pc EXCEPT ![r] = "knock"]
    /\ UNCHANGED <<metaChips, inp, resp, presented, hint, staleAtArrival, receipts,
                   revokedTokens, revokedUsers, expired, session>>

\* tokio::time::timeout(30 s) drops the dispatch future at an await point:
\* what it already wrote stays, the caller gets -32000.
McpTimeout(r) ==
    /\ pc[r] \in {"knock", "admit", "process"}
    /\ inp[r].via \in {"mcp_http", "ws"}
    /\ pc' = [pc EXCEPT ![r] = "done"]
    /\ resp' = [resp EXCEPT ![r] = "timeout"]
    /\ UNCHANGED <<metaChips, inp, presented, hint, staleAtArrival, receipts,
                   revokedTokens, revokedUsers, expired, session>>

-----------------------------------------------------------------------------
(* submit_chip_bytes                                                       *)

\* trusted_write: ubl.deliver over a WebSocket session, and the KAT lane.
Trusted(r) == inp[r].via \in {"ws", "kat"}

\* The end of the request with a status and no receipt.
Answer(r, code) ==
    /\ pc' = [pc EXCEPT ![r] = "done"]
    /\ resp' = [resp EXCEPT ![r] = code]

\* process_knock_rejection writes a ubl/knock.deny.v1 receipt and the
\* handler answers code; when the pipeline fails it answers its error.
DenyWithReceipt(r, code, subject) ==
    /\ pc' = [pc EXCEPT ![r] = "done"]
    /\ \/ /\ receipts' = receipts \cup {[req |-> r, kind |-> "deny", subject |-> subject]}
          /\ resp' = [resp EXCEPT ![r] = code]
       \/ /\ StoreFaults
          /\ resp' = [resp EXCEPT ![r] = "err"]
          /\ UNCHANGED receipts

-----------------------------------------------------------------------------
(* POST /registry/_kat_test: materialize_registry, then submit_chip_bytes  *)

\* The part of RegistryView the KAT lane reads: the types with an entry,
\* each type's latest_version, and the kats of each (type, version), None
\* where the version has no entry.
EmptyView ==
    [types |-> {}, latest |-> [t \in ChipTypes |-> None],
     kats |-> [k \in ChipTypes \X Versions |-> None]]

\* One ubl/meta.register in the first pass: type_entry, latest_version and
\* versions.insert(type_version, kats).
ApplyRegister(v, m) ==
    [v EXCEPT !.types = @ \cup {m.target},
              !.latest[m.target] = m.ver,
              !.kats[<<m.target, m.ver>>] = m.kats]

\* One ubl/meta.describe in the second pass: type_entry, and non-empty kats
\* replace those of the entry of latest_version when there is one.
ApplyDescribe(v, m) ==
    LET t == m.target
        cur == IF v.latest[t] = None THEN None ELSE v.kats[<<t, v.latest[t]>>]
    IN  IF m.kats # <<>> /\ cur # None
        THEN [v EXCEPT !.types = @ \cup {t}, !.kats[<<t, v.latest[t]>>] = m.kats]
        ELSE [v EXCEPT !.types = @ \cup {t}]

\* One ubl/meta.deprecate in the third pass: type_entry; the deprecated
\* flag, deprecation and last_cid it sets are data no answer here tells
\* apart, and it leaves latest_version and the versions alone.
ApplyDeprecate(v, m) == [v EXCEPT !.types = @ \cup {m.target}]

\* Mutation: the chips sorted newest first.
ByCreatedAtDesc(kind) ==
    SetToSortSeq({m \in metaChips : m.kind = kind}, LAMBDA a, b : a.at > b.at)

\* get_chips_by_type(kind) followed by sort_by(created_at).
ByCreatedAt(kind) ==
    SetToSortSeq({m \in metaChips : m.kind = kind}, LAMBDA a, b : a.at < b.at)

\* materialize_registry(state, None): the register pass, then the describe
\* pass, then the deprecate pass, each over its kind in created_at order.
Registry ==
    FoldLeft(ApplyDeprecate,
             FoldLeft(ApplyDescribe,
                      FoldLeft(ApplyRegister, EmptyView, ByCreatedAt("register")),
                      ByCreatedAt("describe")),
             ByCreatedAt("deprecate"))

\* The KAT of form f, as registry_kat_test looks it up: its status is
\* "no_type", "no_version", "no_kat" or "found", and a found KAT is an
\* input chip, or None when the KAT has no "input".
KatLookup(f) ==
    LET v == Registry
        ks == v.kats[<<f.type, f.ver>>]
    IN  CASE f.type \notin v.types -> [status |-> "no_type"]
          [] ks = None             -> [status |-> "no_version"]
          [] f.idx >= Len(ks)      -> [status |-> "no_kat"]
          [] OTHER                 -> [status |-> "found", kat |-> ks[f.idx + 1]]

\* registry_kat_test: a failed materialisation is 500, a missing type,
\* version or KAT index 404, a KAT without input 400 (rendered); otherwise
\* submit_chip_bytes(&state, None, true, input).
KatTest(r, f) ==
    /\ pc[r] = "idle"
    /\ LET k == KatLookup(f)
       IN  \/ /\ StoreFaults
              /\ Answer(r, "500")
              /\ UNCHANGED <<inp, presented, staleAtArrival>>
           \/ /\ k.status \in {"no_type", "no_version", "no_kat"}
              /\ Answer(r, "404")
              /\ UNCHANGED <<inp, presented, staleAtArrival>>
           \/ /\ k.status = "found"
              /\ k.kat = None
              /\ Answer(r, "400")
              /\ UNCHANGED <<inp, presented, staleAtArrival>>
           \/ /\ k.status = "found"
              /\ k.kat # None
              /\ inp' = [inp EXCEPT ![r] = k.kat]
              /\ presented' = [presented EXCEPT ![r] = None]
              /\ staleAtArrival' = [staleAtArrival EXCEPT ![r] = Unusable]
              /\ pc' = [pc EXCEPT ![r] = "knock"]
              /\ UNCHANGED resp
    /\ UNCHANGED <<metaChips, hint, receipts, revokedTokens, revokedUsers, expired, session>>

-----------------------------------------------------------------------------
(* Registry reads: materialize_registry, then a lookup                    *)

\* A registry read: materialize_registry fails on a ChipStore query (500
\* INTERNAL_ERROR) or the handler answers status.  Nothing is written;
\* inp records the query served.
RegistryAnswer(r, q, status) ==
    /\ pc[r] = "idle"
    /\ inp' = [inp EXCEPT ![r] = q]
    /\ \/ StoreFaults /\ Answer(r, "500")
       \/ Answer(r, status)
    /\ UNCHANGED <<metaChips, presented, hint, staleAtArrival, receipts,
                   revokedTokens, revokedUsers, expired, session>>

\* GET /registry/types: the JSON list of every type view, 200.
RegistryTypes(r, q) ==
    /\ q.ep = "types"
    /\ RegistryAnswer(r, q, "200")

\* GET /registry/_table: the console table of every type view, 200.
RegistryTablePartial(r, q) ==
    /\ q.ep = "table"
    /\ RegistryAnswer(r, q, "200")

\* GET /registry/{type} (console page): 404 NOT_FOUND without a view of
\* the type.
RegistryTypePage(r, q) ==
    /\ q.ep = "page"
    /\ RegistryAnswer(r, q, IF q.type \in Registry.types THEN "200" ELSE "404")

\* GET /registry/types/{type}: 404 NOT_FOUND without a view of the type.
RegistryTypeDetail(r, q) ==
    /\ q.ep = "detail"
    /\ RegistryAnswer(r, q, IF q.type \in Registry.types THEN "200" ELSE "404")

\* GET /registry/types/{type}/versions/{ver}: 404 without a view of the
\* type, and 404 without that entry in its versions.
RegistryTypeVersion(r, q) ==
    /\ q.ep = "version"
    /\ RegistryAnswer(r, q, IF /\ q.type \in Registry.types
                            /\ Registry.kats[<<q.type, q.ver>>] # None
                         THEN "200" ELSE "404")

\* knock::knock rejects the bytes: 422 KNOCK_REJECTED with a deny receipt.
KnockRejected(r) ==
    /\ pc[r] = "knock"
    /\ ~inp[r].knockOk
    /\ DenyWithReceipt(r, "422", AnonDid)
    /\ UNCHANGED <<metaChips, inp, presented, hint, staleAtArrival, revokedTokens,
                   revokedUsers, expired, session>>

\* knock accepts: a trusted write skips the whole `if !trusted_write` block.
KnockAccepted(r) ==
    /\ pc[r] = "knock"
    /\ inp[r].knockOk
    /\ pc' = [pc EXCEPT ![r] = IF Trusted(r) THEN "process" ELSE "admit"]
    /\ UNCHANGED <<metaChips, inp, resp, presented, hint, staleAtArrival, receipts,
                   revokedTokens, revokedUsers, expired, session>>

\* A Bearer is present: resolve_session_bearer, then the scope check and the
\* world check; the first failure is a deny receipt (401, 403, 403).
AdmitViaToken(r) ==
    /\ pc[r] = "admit"
    /\ parse_bearer_token(inp[r]) # None
    /\ \E o \in ResolveOutcomes(parse_bearer_token(inp[r])) :
        LET t == parse_bearer_token(inp[r])
            subj == IF o.did # None THEN o.did ELSE resolve_subject_did(inp[r])
        IN  \/ /\ ~o.ok
               /\ DenyWithReceipt(r, "401", resolve_subject_did(inp[r]))
               /\ UNCHANGED hint
            \/ /\ o.ok
               /\ ~scope_allows_any(TokenScope[t], ChipWriteScopes)
               /\ DenyWithReceipt(r, "403", subj)
               /\ UNCHANGED hint
            \/ /\ o.ok
               /\ scope_allows_any(TokenScope[t], ChipWriteScopes)
               /\ ~world_scope_allows(TokenWorld[t], inp[r].world)
               /\ DenyWithReceipt(r, "403", subj)
               /\ UNCHANGED hint
            \/ /\ o.ok
               /\ scope_allows_any(TokenScope[t], ChipWriteScopes)
               /\ world_scope_allows(TokenWorld[t], inp[r].world)
               /\ hint' = [hint EXCEPT ![r] = o.did]
               /\ pc' = [pc EXCEPT ![r] = "process"]
               /\ UNCHANGED <<resp, receipts>>
    /\ UNCHANGED <<metaChips, inp, presented, staleAtArrival, revokedTokens, revokedUsers,
                   expired, session>>

\* No Bearer: WriteAccessPolicy::authorize_write, 401 with a deny receipt.
AdmitViaPolicy(r) ==
    /\ pc[r] = "admit"
    /\ parse_bearer_token(inp[r]) = None
    /\ IF authorize_write(inp[r])
       THEN /\ pc' = [pc EXCEPT ![r] = "process"]
            /\ UNCHANGED <<resp, receipts>>
       ELSE DenyWithReceipt(r, "401", resolve_subject_did(inp[r]))
    /\ UNCHANGED <<metaChips, inp, presented, hint, staleAtArrival, revokedTokens,
                   revokedUsers, expired, session>>

\* The canon rate limiter refuses the payload: 429, no receipt.
CanonLimited(r) ==
    /\ pc[r] = "process"
    /\ Answer(r, "429")
    /\ UNCHANGED <<metaChips, inp, presented, hint, staleAtArrival, receipts,
                   revokedTokens, revokedUsers, expired, session>>

\* The subject DID handed to the pipeline: the token's user DID when the
\* write is not trusted and the token gave one, else the body's.
SubjectDid(r) ==
    IF ~Trusted(r) /\ hint[r] # None THEN hint[r] ELSE resolve_subject_did(inp[r])

\* created_at of a chip stored now: later than every stored meta chip.
NextAt == IF metaChips = {} THEN 1 ELSE Max({m.at : m \in metaChips}) + 1

\* The meta chips after the pipeline stores the chip of request r: a
\* ubl/meta.* chip joins those materialize_registry reads.
StoreChip(r) ==
    IF inp[r].meta = None THEN metaChips
    ELSE LET b == inp[r].meta
         IN  metaChips \cup {[kind |-> b.kind, at |-> NextAt, target |-> b.target,
                              ver |-> b.ver, kats |-> b.kats]}

\* process_chip_with_context commits the WF receipt and stores the chip
\* in the ChipStore: 200.
PipelineCommit(r) ==
    /\ pc[r] = "process"
    /\ receipts' = receipts \cup {[req |-> r, kind |-> "wf", subject |-> SubjectDid(r)]}
    /\ metaChips' = StoreChip(r)
    /\ Answer(r, "200")
    /\ UNCHANGED <<inp, presented, hint, staleAtArrival, revokedTokens,
                   revokedUsers, expired, session>>

\* process_chip_with_context returns Err: its error status, no receipt.
PipelineError(r) ==
    /\ pc[r] = "process"
    /\ Answer(r, "err")
    /\ UNCHANGED <<metaChips, inp, presented, hint, staleAtArrival, receipts,
                   revokedTokens, revokedUsers, expired, session>>

-----------------------------------------------------------------------------

Init ==
    /\ pc = [r \in Reqs |-> "idle"]
    /\ inp = [r \in Reqs |-> None]
    /\ resp = [r \in Reqs |-> None]
    /\ presented = [r \in Reqs |-> None]
    /\ hint = [r \in Reqs |-> None]
    /\ staleAtArrival = [r \in Reqs |-> {}]
    /\ receipts = {}
    /\ revokedTokens = {}
    /\ revokedUsers = {}
    /\ expired = {}
    /\ session = [s \in Sessions |-> None]
    /\ metaChips \in SUBSET MetaPool

Next ==
    \/ \E t \in Tokens : RevokeToken(t) \/ Expire(t)
    \/ \E u \in Users : RevokeUser(u)
    \/ \E s \in Sessions : \/ \E t \in Tokens \cup {NotAToken} : WsUpgrade(s, t)
                           \/ WsClose(s)
    \/ \E r \in Reqs :
        \/ \E f \in KatForms : KatTest(r, f)
        \/ \E q \in RegistryQueries :
              \/ RegistryTypes(r, q) \/ RegistryTablePartial(r, q)
              \/ RegistryTypePage(r, q) \/ RegistryTypeDetail(r, q)
              \/ RegistryTypeVersion(r, q)
        \/ \E i \in Inputs : Arrive(r, i)
        \/ McpRateLimited(r) \/ McpScopeDenied(r) \/ McpDispatch(r)
        \/ McpTimeout(r)
        \/ KnockRejected(r) \/ KnockAccepted(r)
        \/ AdmitViaToken(r) \/ AdmitViaPolicy(r)
        \/ CanonLimited(r) \/ PipelineCommit(r) \/ PipelineError(r)

Spec == Init /\ [][Next]_vars

-----------------------------------------------------------------------------
(* Properties                                                              *)

TypeOK ==
    /\ pc \in [Reqs -> {"idle", "mcp", "knock", "admit", "process", "done"}]
    /\ \A r \in Reqs : pc[r] \in {"mcp", "knock", "admit", "process"} => inp[r] \in Input
    /\ presented \in [Reqs -> Credentials \cup {None}]
    /\ hint \in [Reqs -> Dids \cup {None}]
    /\ staleAtArrival \in [Reqs -> SUBSET Tokens]
    /\ receipts \subseteq [req : Reqs, kind : {"wf", "deny"}, subject : Dids \cup {AnonDid}]
    /\ revokedTokens \subseteq Tokens /\ expired \subseteq Tokens
    /\ revokedUsers \subseteq Users
    /\ session \in [Sessions -> Tokens \cup {None}]
    /\ metaChips \subseteq MetaChip

\* The spec's auth modes (section 6): a write that reaches the WF commit
\* while carrying a token was authorised by that token: the token chip
\* exists, was neither expired nor revoked (nor its user) when the request
\* arrived, has a write scope, and its @world prefixes the chip's @world;
\* a write without a token passed authorize_write.  Revocation racing a
\* request already past resolve_session_bearer is allowed.
AdmittedWritesAuthorized ==
    \A w \in receipts :
        w.kind = "wf" =>
            LET r == w.req
                t == presented[r]
            IN  IF t = None
                THEN authorize_write(inp[r])
                ELSE /\ t \in Tokens
                     /\ t \notin staleAtArrival[r]
                     /\ scope_allows_any(TokenScope[t], ChipWriteScopes)
                     /\ world_scope_allows(TokenWorld[t], inp[r].world)

\* materialize_registry sorts each kind by created_at before folding it: the
\* latest_version every registry read and KAT test sees for a type is the
\* type_version of its most recently stored ubl/meta.register, including
\* one committed through submit_chip_bytes after the store was seeded.
LatestIsNewestRegister ==
    \A t \in ChipTypes :
        LET regs == {m \in metaChips : m.kind = "register" /\ m.target = t}
        IN  regs # {} =>
                \E m \in regs : /\ \A o \in regs : o.at <= m.at
                                /\ Registry.latest[t] = m.ver

=============================================================================
