---------------------------- MODULE ReceiptReads ----------------------------
(***************************************************************************)
(* The read handlers of receipts and chips: get_receipt,                   *)
(* get_receipt_public_url and get_receipt_trace (receipt.rs), get_chip and *)
(* verify_chip (chip.rs).  Each reads the durable store (receipts, when    *)
(* SQLite durability is on) and the chip store, and answers.  The pipeline *)
(* commits chips with their receipts, and a stored receipt or chip may be  *)
(* corrupted on disk, which verify_receipt_auth_chain is there to detect.  *)
(*                                                                         *)
(* The stage-chain HMAC (spec 4.5) is abstracted to its promise: a stored  *)
(* receipt verifies iff it is the one committed.  Bodies, headers and      *)
(* messages are left out; an answer keeps its status and what it vouches   *)
(* for.                                                                    *)
(***************************************************************************)
EXTENDS Integers, FiniteSets

CONSTANTS
    Receipts,          \* receipt CIDs ("b3:...")
    Chips,             \* chip CIDs ("b3:...")
    ReceiptOf,         \* [Chips -> Receipts]: chip.receipt_cid
    BadCid,            \* a path CID without the b3: prefix
    NoCid,             \* an MCP tool call without a "cid" argument
    TamperMcpCode,     \* ErrorCode::TamperDetected.mcp_code() (ubl_runtime)
    Advisories,        \* CIDs of advisory chips a narration may persist
    DurableSettings,   \* values of "DurableStore::from_env() is Some"
    StoreFaults        \* whether store reads may fail

VARIABLES
    durable,   \* state.durable_store.is_some(), fixed at startup
    rstore,    \* durable store: per receipt "absent" | "valid" | "tampered"
    cstore,    \* chip store: per chip "absent" | "valid" | "tampered"
    answer,    \* the last answer: [ep, cid, code, vouches, seen]
    astore     \* chip store, advisory chips: per CID [state, input receipt]

vars == <<durable, rstore, cstore, answer, astore>>

Stored == {"absent", "valid", "tampered"}

\* Outcomes of one store read: the stored state, or "err" when reads fail.
Read(s) == IF StoreFaults THEN {s, "err"} ELSE {s}

\* verify_receipt_auth_chain: parse, then verify_auth_chain.
Verifies(s) == s = "valid"

\* An answer: `vouches` is what it asserts about the receipt or chip read
\* (a 200 carrying it, a 304 confirming the client's copy, a verification
\* reporting the chain verified); `seen` is what the store held.
Answer(ep, cid, code, vouches, seen) ==
    answer' = [ep |-> ep, cid |-> cid, code |-> code, vouches |-> vouches, seen |-> seen]

NoAnswer == [ep |-> "none", cid |-> BadCid, code |-> 0, vouches |-> FALSE, seen |-> "absent"]

\* The stored receipt under a path CID (a CID without b3: is never stored).
RS(c) == IF c \in Receipts THEN rstore[c] ELSE "absent"

\* get_chip_by_receipt_cid(c) finds a chip.
ChipByReceipt(c) == \E ch \in Chips : ReceiptOf[ch] = c /\ cstore[ch] # "absent"

-----------------------------------------------------------------------------
(* The pipeline and the disk (outside src/)                                *)

\* The WF commit stores the receipt (when durable) and the chip.
Commit(ch) ==
    /\ cstore[ch] = "absent"
    /\ cstore' = [cstore EXCEPT ![ch] = "valid"]
    /\ rstore' = IF durable THEN [rstore EXCEPT ![ReceiptOf[ch]] = "valid"] ELSE rstore
    /\ UNCHANGED <<durable, answer, astore>>

\* A stored record is altered (spec scenario 6: a stage's auth_token).
TamperReceipt(r) ==
    /\ rstore[r] = "valid"
    /\ rstore' = [rstore EXCEPT ![r] = "tampered"]
    /\ UNCHANGED <<durable, cstore, answer, astore>>

TamperChip(ch) ==
    /\ cstore[ch] = "valid"
    /\ cstore' = [cstore EXCEPT ![ch] = "tampered"]
    /\ UNCHANGED <<durable, rstore, answer, astore>>

TamperAdvisory(a) ==
    /\ astore[a].state = "valid"
    /\ astore' = [astore EXCEPT ![a].state = "tampered"]
    /\ UNCHANGED <<durable, rstore, cstore, answer>>

-----------------------------------------------------------------------------
(* The handlers                                                            *)

\* If-None-Match equal to "<cid>" (or the bare cid) on a b3: CID.
NotModified(ep, c, seen) == Answer(ep, c, 304, TRUE, seen)

\* GET /v1/receipts/{cid}: prefix, If-None-Match, store, lookup, verify.
GetReceipt(c, inm) ==
    \/ c = BadCid /\ Answer("receipt", c, 400, FALSE, "absent")
    \/ c # BadCid /\ inm /\ NotModified("receipt", c, RS(c))
    \/ /\ c # BadCid /\ ~inm
       /\ IF ~durable THEN Answer("receipt", c, 503, FALSE, rstore[c])
          ELSE \E s \in Read(rstore[c]) :
                 CASE s = "err"    -> Answer("receipt", c, 500, FALSE, rstore[c])
                   [] s = "absent" -> Answer("receipt", c, 404, FALSE, s)
                   [] OTHER        -> IF Verifies(s) THEN Answer("receipt", c, 200, TRUE, s)
                                      ELSE Answer("receipt", c, 422, FALSE, s)

\* GET /v1/receipts/{cid}/url: prefix, store, lookup, verify, link.
GetReceiptUrl(c) ==
    \/ c = BadCid /\ Answer("url", c, 400, FALSE, "absent")
    \/ c # BadCid /\ ~durable /\ Answer("url", c, 503, FALSE, RS(c))
    \/ /\ c # BadCid /\ durable
       /\ \E s \in Read(RS(c)) :
            CASE s = "err"      -> Answer("url", c, 500, FALSE, RS(c))
              [] s = "absent"   -> Answer("url", c, 404, FALSE, s)
              [] s = "tampered" -> Answer("url", c, 422, FALSE, s)
              \* build_public_receipt_link may fail on the receipt or config
              [] OTHER          -> \E ok \in BOOLEAN :
                                     Answer("url", c, IF ok THEN 200 ELSE 500, ok, s)

\* GET /v1/receipts/{cid}/trace: no prefix check; with a durable store the
\* receipt is looked up and verified first, then the chip store is asked
\* for the chip; auth_chain_verified is durable_store.is_some().
\* Mutation: auth_chain_verified reported true whatever was checked.
TraceChipVerifiedConst(c, verified) ==
    \E found \in IF StoreFaults THEN {"yes", "no", "err"} ELSE {"yes", "no"} :
        /\ found = "yes" => ChipByReceipt(c)
        /\ found = "no" => ~ChipByReceipt(c)
        /\ Answer("trace", c, CASE found = "yes" -> 200 [] found = "no" -> 404 [] OTHER -> 500,
                  found = "yes", RS(c))

TraceChip(c, verified) ==
    \E found \in IF StoreFaults THEN {"yes", "no", "err"} ELSE {"yes", "no"} :
        /\ found = "yes" => ChipByReceipt(c)
        /\ found = "no" => ~ChipByReceipt(c)
        /\ Answer("trace", c, CASE found = "yes" -> 200 [] found = "no" -> 404 [] OTHER -> 500,
                  found = "yes" /\ verified, RS(c))

GetReceiptTrace(c) ==
    \/ ~durable /\ TraceChip(c, FALSE)
    \/ /\ durable
       /\ \E s \in Read(RS(c)) :
            CASE s = "err"      -> Answer("trace", c, 500, FALSE, RS(c))
              [] s = "absent"   -> Answer("trace", c, 404, FALSE, s)
              [] s = "tampered" -> Answer("trace", c, 422, FALSE, s)
              [] OTHER          -> TraceChip(c, TRUE)

\* GET /v1/chips/{cid}: prefix, If-None-Match, lookup.  The chip is served
\* as stored (the endpoint does not recompute the CID).
GetChip(ch, inm) ==
    \/ ch = BadCid /\ Answer("chip", ch, 400, FALSE, "absent")
    \/ ch # BadCid /\ inm /\ NotModified("chip", ch, cstore[ch])
    \/ /\ ch # BadCid /\ ~inm
       /\ \E s \in Read(cstore[ch]) :
            CASE s = "err"    -> Answer("chip", ch, 500, FALSE, cstore[ch])
              [] s = "absent" -> Answer("chip", ch, 404, FALSE, s)
              [] OTHER        -> Answer("chip", ch, 200, FALSE, s)

\* GET /v1/chips/{cid}/verify: prefix, chip lookup, CID recomputation, then
\* the receipt: verified in the durable store (422 on tamper), or only
\* looked up in the chip store without one (auth_chain_verified null).
VerifyChip(ch) ==
    \/ ch = BadCid /\ Answer("verify", ch, 400, FALSE, "absent")
    \/ /\ ch # BadCid
       /\ \E s \in Read(cstore[ch]) :
            CASE s = "err"    -> Answer("verify", ch, 500, FALSE, RS(ReceiptOf[ch]))
              [] s = "absent" -> Answer("verify", ch, 404, FALSE, RS(ReceiptOf[ch]))
              [] OTHER ->
                   IF ~durable THEN Answer("verify", ch, 200, FALSE, RS(ReceiptOf[ch]))
                   ELSE \E rs \in Read(RS(ReceiptOf[ch])) :
                     CASE rs = "err"      -> Answer("verify", ch, 500, FALSE, RS(ReceiptOf[ch]))
                       [] rs = "tampered" -> Answer("verify", ch, 422, FALSE, rs)
                       [] rs = "absent"   -> Answer("verify", ch, 200, FALSE, rs)
                       [] OTHER           -> Answer("verify", ch, 200, TRUE, rs)

-----------------------------------------------------------------------------
(* The MCP read tools (mcp.rs dispatch_tool_call).  An answer with code    *)
(* 200 is a JSON-RPC result; otherwise the code is the JSON-RPC error.     *)

\* A JSON-RPC error answer of tool ep.
McpError(ep, c, code, seen) == Answer(ep, c, code, FALSE, seen)

\* ubl.receipt: the stored receipt JSON is returned as the result.
McpReceipt(c) ==
    \/ c = NoCid /\ McpError("mcp_receipt", c, -32602, "absent")
    \/ c # NoCid /\ ~durable /\ McpError("mcp_receipt", c, -32000, RS(c))
    \/ /\ c # NoCid /\ durable
       /\ \E s \in Read(RS(c)) :
            CASE s = "err"    -> McpError("mcp_receipt", c, -32603, RS(c))
              [] s = "absent" -> McpError("mcp_receipt", c, -32004, s)
              [] OTHER        -> Answer("mcp_receipt", c, 200, TRUE, s)

\* ubl.receipt.trace: as get_receipt_trace, with JSON-RPC errors; the
\* result carries the chip's execution metadata.
McpReceiptTrace(c) ==
    \/ c = NoCid /\ McpError("mcp_trace", c, -32602, "absent")
    \/ /\ c # NoCid
       /\ \/ /\ ~durable
             /\ \E found \in IF StoreFaults THEN {"yes", "no", "err"} ELSE {"yes", "no"} :
                  /\ found = "yes" => ChipByReceipt(c)
                  /\ found = "no" => ~ChipByReceipt(c)
                  /\ Answer("mcp_trace", c,
                            CASE found = "yes" -> 200 [] found = "no" -> -32004 [] OTHER -> -32603,
                            FALSE, RS(c))
          \/ /\ durable
             /\ \E s \in Read(RS(c)) :
                  CASE s = "err"    -> McpError("mcp_trace", c, -32603, RS(c))
                    [] s = "absent" -> McpError("mcp_trace", c, -32004, s)
                    [] ~Verifies(s) -> McpError("mcp_trace", c, TamperMcpCode, s)
                    [] OTHER        ->
                         \E found \in IF StoreFaults THEN {"yes", "no", "err"} ELSE {"yes", "no"} :
                           /\ found = "yes" => ChipByReceipt(c)
                           /\ found = "no" => ~ChipByReceipt(c)
                           /\ Answer("mcp_trace", c,
                                     CASE found = "yes" -> 200 [] found = "no" -> -32004
                                       [] OTHER -> -32603,
                                     FALSE, s)

\* ubl.query and ubl.verify: the chip as stored, and whether its CID
\* recomputes (the receipt is not read).
McpChipTool(ep, ch) ==
    \E s \in Read(cstore[ch]) :
        CASE s = "err"    -> McpError(ep, ch, -32603, cstore[ch])
          [] s = "absent" -> McpError(ep, ch, -32004, s)
          [] OTHER        -> Answer(ep, ch, 200, FALSE, s)

-----------------------------------------------------------------------------
(* Narration and advisories (receipt.rs, mcp.rs ubl.narrate).  A narration *)
(* is built from the chip found by receipt CID, which is not verified; with *)
(* persist it is stored as a new ubl/advisory chip through                 *)
(* store_executed_chip.                                                    *)

\* get_chip_by_receipt_cid(c): "yes", "no", or "err" when reads fail.
ChipLookup(c) ==
    {f \in IF StoreFaults THEN {"yes", "no", "err"} ELSE {"yes", "no"} :
        /\ f = "yes" => ChipByReceipt(c)
        /\ f = "no" => ~ChipByReceipt(c)}

\* persist: Advisory::new(passport, "narrate", c, ...) stored under a fresh
\* CID (generated_at differs); a failing store answers errCode.
PersistNarration(ep, c, errCode) ==
    \/ \E a \in Advisories :
         /\ astore[a].state = "absent"
         /\ astore' = [astore EXCEPT ![a] = [state |-> "valid", input |-> c]]
         /\ Answer(ep, c, 200, FALSE, RS(c))
    \/ /\ StoreFaults
       /\ Answer(ep, c, errCode, FALSE, RS(c))
       /\ UNCHANGED astore

\* The narration result, persisted or not.
Narration(ep, c, persist, errCode) ==
    IF persist THEN PersistNarration(ep, c, errCode)
    ELSE Answer(ep, c, 200, FALSE, RS(c)) /\ UNCHANGED astore

\* GET /v1/receipts/{cid}/narrate?persist=: lookup (404, 500), summary
\* (from the LLM when enabled, else the template), optional persist (500).
Narrate(c, persist) ==
    \E f \in ChipLookup(c) :
        CASE f = "err" -> Answer("narrate", c, 500, FALSE, RS(c)) /\ UNCHANGED astore
          [] f = "no"  -> Answer("narrate", c, 404, FALSE, RS(c)) /\ UNCHANGED astore
          [] OTHER     -> Narration("narrate", c, persist, 500)

\* GET /v1/receipts/{cid}/narrate/stream: the same lookup, then an SSE
\* stream of the summary; nothing is stored.
NarrateStream(c) ==
    /\ \E f \in ChipLookup(c) :
         Answer("narrate_stream", c, CASE f = "yes" -> 200 [] f = "no" -> 404 [] OTHER -> 500,
                FALSE, RS(c))
    /\ UNCHANGED astore

\* ubl.narrate: missing cid (-32602), lookup (-32004, -32603), optional
\* persist (-32603).
McpNarrate(c, persist) ==
    \/ c = NoCid /\ McpError("mcp_narrate", c, -32602, "absent") /\ UNCHANGED astore
    \/ /\ c # NoCid
       /\ \E f \in ChipLookup(c) :
            CASE f = "err" -> McpError("mcp_narrate", c, -32603, RS(c)) /\ UNCHANGED astore
              [] f = "no"  -> McpError("mcp_narrate", c, -32004, RS(c)) /\ UNCHANGED astore
              [] OTHER     -> Narration("mcp_narrate", c, persist, -32603)

\* GET /v1/passports/{cid}/advisories: a ChipStore query (ubl/advisory,
\* tag passport_cid, limit 100), 200 with the list or 500.
ListAdvisories ==
    \E s \in Read("valid") :
        Answer("advisories", BadCid, IF s = "err" THEN 500 ELSE 200, FALSE, "absent")

\* The stored state of chip CID x, advisory or not.
ChipState(x) == IF x \in Advisories THEN astore[x].state ELSE cstore[x]

\* GET /v1/advisories/{cid}/verify: lookup (404, 500), type check (400),
\* Advisory::from_chip_body (422), NRF encoding and CID (500), then
\* verified = (computed CID = path CID).  Passport and input existence are
\* reported beside it and do not change `verified`.
VerifyAdvisory(x) ==
    \E s \in Read(ChipState(x)) :
        CASE s = "err"         -> Answer("verify_advisory", x, 500, FALSE, ChipState(x))
          [] s = "absent"      -> Answer("verify_advisory", x, 404, FALSE, s)
          [] x \notin Advisories -> Answer("verify_advisory", x, 400, FALSE, s)
          [] s = "valid"       -> Answer("verify_advisory", x, 200, TRUE, s)
          \* altered bytes may no longer parse or encode
          [] OTHER             -> \E code \in {422, 500, 200} :
                                     Answer("verify_advisory", x, code, FALSE, s)

-----------------------------------------------------------------------------

Init ==
    /\ durable \in DurableSettings
    /\ rstore = [r \in Receipts |-> "absent"]
    /\ cstore = [ch \in Chips |-> "absent"]
    /\ answer = NoAnswer
    /\ astore = [a \in Advisories |-> [state |-> "absent", input |-> NoCid]]

Next ==
    \/ \E ch \in Chips : Commit(ch) \/ TamperChip(ch)
    \/ \E r \in Receipts : TamperReceipt(r)
    \/ \E a \in Advisories : TamperAdvisory(a)
    \/ \E c \in Receipts \cup {BadCid}, inm \in BOOLEAN :
         /\ GetReceipt(c, inm) \/ GetReceiptUrl(c) \/ GetReceiptTrace(c)
         /\ UNCHANGED <<durable, rstore, cstore, astore>>
    \/ \E ch \in Chips \cup {BadCid}, inm \in BOOLEAN :
         /\ GetChip(ch, inm) \/ VerifyChip(ch)
         /\ UNCHANGED <<durable, rstore, cstore, astore>>
    \/ \E c \in Receipts \cup {NoCid} :
         /\ McpReceipt(c) \/ McpReceiptTrace(c)
         /\ UNCHANGED <<durable, rstore, cstore, astore>>
    \/ \E ch \in Chips, ep \in {"mcp_query", "mcp_verify"} :
         /\ McpChipTool(ep, ch)
         /\ UNCHANGED <<durable, rstore, cstore, astore>>
    \/ \E c \in Receipts \cup {BadCid}, persist \in BOOLEAN :
         /\ Narrate(c, persist) \/ NarrateStream(c)
         /\ UNCHANGED <<durable, rstore, cstore>>
    \/ \E c \in Receipts \cup {NoCid}, persist \in BOOLEAN :
         /\ McpNarrate(c, persist)
         /\ UNCHANGED <<durable, rstore, cstore>>
    \/ \E x \in Chips \cup Advisories :
         /\ VerifyAdvisory(x)
         /\ UNCHANGED <<durable, rstore, cstore, astore>>
    \/ ListAdvisories /\ UNCHANGED <<durable, rstore, cstore, astore>>

Spec == Init /\ [][Next]_vars

-----------------------------------------------------------------------------
(* Properties                                                              *)

\* A successful answer of one of the endpoints eps that carries a receipt
\* or vouches for its auth chain was given while the stored receipt
\* verified.
NeverVouchedBy(eps) ==
    answer.ep \in eps /\ answer.code = 200 /\ answer.vouches => answer.seen = "valid"

\* Tamper detection on read over HTTP (spec 7, P4): no answer of
\* GET /v1/receipts/{cid}, its /url, its /trace with auth_chain_verified,
\* or GET /v1/chips/{cid}/verify with auth_chain_verified = true is given
\* while the stored receipt does not verify; and GET /v1/advisories/{cid}/
\* verify reports verified only while the stored advisory is the one the
\* narration persisted.
TamperNeverVouched ==
    NeverVouchedBy({"receipt", "url", "trace", "verify", "verify_advisory"})

\* The same over every read surface of the gate, the MCP tools included
\* (ubl.receipt, ubl.receipt.trace, ubl.query, ubl.verify).
TamperNeverVouchedAnySurface ==
    NeverVouchedBy({"receipt", "url", "trace", "verify",
                    "mcp_receipt", "mcp_trace", "mcp_query", "mcp_verify"})

====
