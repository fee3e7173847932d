------------------------------ MODULE LlmStream ------------------------------
(***************************************************************************)
(* call_real_llm_stream_sse (services/ubl_gate/src/llm.rs), behind         *)
(* GET /ui/_llm/stream and, with the LLM enabled, the narrate stream of a  *)
(* receipt.  The gate POSTs a streaming chat request and relays the        *)
(* upstream's server-sent events: every chunk of the response body is      *)
(* decoded with from_utf8 and appended to a line buffer; every complete    *)
(* line "data: {..}" yields the delta's content as a "token" event,        *)
(* "data: [DONE]" ends the stream, and the end of the body (or a transport *)
(* error) yields a final "done" event.                                     *)
(*                                                                         *)
(* The body is a sequence of abstract bytes.  A run of ASCII bytes that    *)
(* the code only ever copies is one symbol: "P" is the prefix "data: ",    *)
(* "{" and "}" the JSON envelope around the delta's content, "DONE" the    *)
(* text [DONE], "NL" a newline, "a" an ASCII character of content.  A      *)
(* two-byte UTF-8 character of content is the two symbols "h" (its lead    *)
(* byte) and "t" (its continuation byte).  A chunk boundary inside an      *)
(* ASCII run changes nothing the code does, so chunks are cut only between *)
(* symbols; they are cut there in every possible way.                     *)
(***************************************************************************)
EXTENDS Naturals, Sequences, SequencesExt

CONSTANTS
    Upstreams,   \* the upstream event sequences to try (see IsEvent below)
    DoneEvent,   \* the upstream's "data: [DONE]" event
    EndpointOk   \* the values of "resolve_llm_endpoint() is Ok" to try

\* Content bytes: an ASCII character, or the lead and continuation byte of
\* a two-byte character.
ContentBytes == {"a", "h", "t"}

\* An upstream event: a delta whose content is a sequence of content bytes,
\* or the end marker.
IsEvent(e) == e = DoneEvent \/ e \in Seq(ContentBytes)

ASSUME /\ \A u \in Upstreams : \A i \in DOMAIN u : IsEvent(u[i])
       /\ EndpointOk \subseteq BOOLEAN

\* The upstream writes each event as "data: <payload>\n\n".
EncodeEvent(e) ==
    IF e = DoneEvent THEN <<"P", "DONE", "NL", "NL">>
    ELSE <<"P", "{">> \o e \o <<"}", "NL", "NL">>

Body(evs) == FoldLeft(LAMBDA acc, e : acc \o EncodeEvent(e), <<>>, evs)

\* Every way of cutting a body into non-empty chunks: a first chunk of any
\* length, then a cutting of the rest.
RECURSIVE Chunkings(_)
Chunkings(b) ==
    IF b = <<>> THEN {<<>>}
    ELSE UNION {{<<SubSeq(b, 1, k)>> \o r : r \in Chunkings(SubSeq(b, k + 1, Len(b)))}
                : k \in 1..Len(b)}

VARIABLES
    upstream,  \* the events the upstream sends
    chunks,    \* the chunks of the body not yet read by bytes_stream
    buf,       \* the line buffer `buf`
    out,       \* the contents of the "token" events yielded so far
    status,    \* "request" | "503" | "502" | "open" | "returned" | "ended"
    failed     \* a transport error ended the body early

vars == <<upstream, chunks, buf, out, status, failed>>

-----------------------------------------------------------------------------
(* The code                                                                *)

\* std::str::from_utf8(&bytes) is Ok: every lead byte is followed by its
\* continuation byte inside the chunk, and no chunk starts with one.
ValidUtf8(ch) ==
    \A i \in DOMAIN ch :
        /\ ch[i] = "h" => i < Len(ch) /\ ch[i + 1] = "t"
        /\ ch[i] = "t" => i > 1 /\ ch[i - 1] = "h"

\* serde_json::from_str and the choices[0].delta.content lookup: the data
\* is one JSON envelope around content bytes.
IsDelta(d) ==
    /\ Len(d) >= 2 /\ d[1] = "{" /\ d[Len(d)] = "}"
    /\ \A i \in 2..Len(d) - 1 : d[i] \in ContentBytes

Content(d) == SubSeq(d, 2, Len(d) - 1)

\* while let Some(nl) = buf.find('\n'): take the line, skip it unless it
\* starts with "data: ", return on [DONE], skip data that does not parse
\* or has empty content, else yield the content.
RECURSIVE Drain(_)
Drain(s) ==
    LET nl == SelectInSeq(s.buf, LAMBDA x : x = "NL")
        line == SubSeq(s.buf, 1, nl - 1)
        next == [s EXCEPT !.buf = SubSeq(s.buf, nl + 1, Len(s.buf))]
    IN  CASE nl = 0                                    -> s
          [] line = <<>> \/ Head(line) # "P"           -> Drain(next)
          [] Tail(line) = <<"DONE">>                   -> [next EXCEPT !.returned = TRUE]
          [] ~IsDelta(Tail(line))                      -> Drain(next)
          [] Content(Tail(line)) = <<>>                -> Drain(next)
          [] OTHER -> Drain([next EXCEPT !.out = Append(@, Content(Tail(line)))])

\* resolve_llm_endpoint fails: 503 LLM_UNAVAILABLE.
Unavailable ==
    /\ status = "request"
    /\ FALSE \in EndpointOk
    /\ status' = "503"
    /\ UNCHANGED <<upstream, chunks, buf, out, failed>>

\* The POST fails or answers a non-2xx status: 502.
UpstreamError ==
    /\ status = "request"
    /\ TRUE \in EndpointOk
    /\ status' = "502"
    /\ UNCHANGED <<upstream, chunks, buf, out, failed>>

\* The POST answers 2xx: the SSE response starts.
Connected ==
    /\ status = "request"
    /\ TRUE \in EndpointOk
    /\ status' = "open"
    /\ UNCHANGED <<upstream, chunks, buf, out, failed>>

\* byte_stream.next() yields Ok(bytes): a chunk that is not valid UTF-8 is
\* skipped (continue); otherwise it is appended and the complete lines in
\* buf are handled.
Recv ==
    /\ status = "open"
    /\ chunks # <<>>
    /\ chunks' = Tail(chunks)
    /\ IF ValidUtf8(Head(chunks))
       THEN LET s == Drain([buf |-> buf \o Head(chunks), out |-> out, returned |-> FALSE])
            IN  /\ buf' = s.buf
                /\ out' = s.out
                /\ status' = IF s.returned THEN "returned" ELSE "open"
       ELSE UNCHANGED <<buf, out, status>>
    /\ UNCHANGED <<upstream, failed>>

\* byte_stream.next() yields Err: break, then the "done" event.
RecvErr ==
    /\ status = "open"
    /\ chunks # <<>>
    /\ status' = "ended"
    /\ failed' = TRUE
    /\ UNCHANGED <<upstream, chunks, buf, out>>

\* The body ends: the "done" event; a partial last line in buf is dropped.
Eof ==
    /\ status = "open"
    /\ chunks = <<>>
    /\ status' = "ended"
    /\ UNCHANGED <<upstream, chunks, buf, out, failed>>

Init ==
    /\ upstream \in Upstreams
    /\ chunks \in Chunkings(Body(upstream))
    /\ buf = <<>>
    /\ out = <<>>
    /\ status = "request"
    /\ failed = FALSE

Next == Unavailable \/ UpstreamError \/ Connected \/ Recv \/ RecvErr \/ Eof

Spec == Init /\ [][Next]_vars

-----------------------------------------------------------------------------
(* The reference: the upstream's deltas, up to [DONE], read whole          *)

RECURSIVE Deltas(_)
Deltas(evs) ==
    CASE evs = <<>>            -> <<>>
      [] Head(evs) = DoneEvent -> <<>>
      [] Head(evs) = <<>>      -> Deltas(Tail(evs))
      [] OTHER                 -> <<Head(evs)>> \o Deltas(Tail(evs))

-----------------------------------------------------------------------------
(* Properties                                                              *)

\* The token events relay the upstream's deltas: what has been yielded is
\* always a prefix of the deltas, and a stream that ends without a
\* transport error yielded every one of them, each with its exact content,
\* however the network cut the body into chunks.
TokensRelayed ==
    /\ IsPrefix(out, Deltas(upstream))
    /\ status \in {"returned", "ended"} /\ ~failed => out = Deltas(upstream)

=============================================================================
