------------------------- MODULE McpTokenRateLimiter -------------------------
(***************************************************************************)
(* McpTokenRateLimiter (services/ubl_gate/src/state.rs): each MCP tool call *)
(* over a WebSocket session runs check(token_id) (mcp.rs,                  *)
(* handle_mcp_rpc_request).  Under the buckets' write lock, check drops    *)
(* from the front of the token's deque every instant at least `window` old, *)
(* refuses with retry_after = (window - elapsed(oldest)).as_secs() + 1     *)
(* when per_minute instants remain, and otherwise records now.             *)
(*                                                                         *)
(* Time advances in ticks of 1/TicksPerSec second; a deque holds the ages  *)
(* of its instants in ticks, so Duration::as_secs is integer division by   *)
(* TicksPerSec.  Ages stop growing at the window, where they are dropped.  *)
(***************************************************************************)
EXTENDS Naturals, Sequences, SequencesExt

CONSTANTS
    TokenIds,     \* token_id values of MCP sessions
    PerMinute,    \* per_minute: UBL_MCP_TOKEN_RPM, at least 1
    WindowSecs,   \* window: Duration::from_secs(60) in the code
    TicksPerSec   \* clock resolution of the model

ASSUME PerMinute \in Nat \ {0} /\ WindowSecs \in Nat \ {0} /\ TicksPerSec \in Nat \ {0}

Window == WindowSecs * TicksPerSec

\* Longest wait a refusal can ask for, in ticks.
MaxWait == (WindowSecs + 1) * TicksPerSec

VARIABLES
    bucket,       \* per token: the ages of the instants in its VecDeque
    admits,       \* history: per token, ages of every admitted call, capped
    refusedAgo,   \* history: ticks since the token's last refusal, when no
                  \*   call of it was admitted since; -1 otherwise
    hintSecs,     \* history: retry_after of that refusal
    lastResult    \* history: per token, the result of its last check

vars == <<bucket, admits, refusedAgo, hintSecs, lastResult>>

Cap(a) == IF a >= Window THEN Window ELSE a

-----------------------------------------------------------------------------
(* check(token_id)                                                         *)

\* Mutation: the window is one second short.
ExpiredEarly(age) == age >= Window - TicksPerSec

\* Mutation: an instant exactly `window` old is kept.
ExpiredStrict(age) == age > Window

\* now.duration_since(*ts) >= window
Expired(age) == age >= Window

\* while bucket.front() is expired { bucket.pop_front() }: the deque is in
\* admission order, so the expired instants are a prefix.
RECURSIVE PopExpired(_)
PopExpired(q) == IF q # <<>> /\ Expired(Head(q)) THEN PopExpired(Tail(q)) ELSE q

\* Mutation: the remaining time is not rounded up.
RetryAfterNoSlack(q) == (Window - Head(q)) \div TicksPerSec

\* window.saturating_sub(elapsed).as_secs().saturating_add(1)
RetryAfter(q) == (Window - Head(q)) \div TicksPerSec + 1

\* Mutation: the limit admits one call too many.
CheckOverAdmit(q) == Len(q) > PerMinute

\* bucket.len() >= self.per_minute
Limited(q) == Len(q) >= PerMinute

\* check: Some(retry_after) when limited, else None after push_back(now).
Check(k) ==
    LET q == PopExpired(bucket[k])
    IN  IF Limited(q)
        THEN /\ bucket' = [bucket EXCEPT ![k] = q]
             /\ refusedAgo' = [refusedAgo EXCEPT ![k] = 0]
             /\ hintSecs' = [hintSecs EXCEPT ![k] = RetryAfter(q)]
             /\ lastResult' = [lastResult EXCEPT ![k] = "limited"]
             /\ UNCHANGED admits
        ELSE /\ bucket' = [bucket EXCEPT ![k] = Append(q, 0)]
             /\ admits' = [admits EXCEPT ![k] = Append(@, 0)]
             /\ refusedAgo' = [refusedAgo EXCEPT ![k] = -1]
             /\ lastResult' = [lastResult EXCEPT ![k] = "admitted"]
             /\ UNCHANGED hintSecs

\* Time passes by one tick.  History ages past the window are forgotten.
Tick ==
    /\ bucket' = [k \in TokenIds |-> [i \in DOMAIN bucket[k] |-> Cap(bucket[k][i] + 1)]]
    /\ admits' = [k \in TokenIds |->
                    SelectSeq([i \in DOMAIN admits[k] |-> admits[k][i] + 1],
                              LAMBDA a : a < Window)]
    /\ refusedAgo' = [k \in TokenIds |->
                        IF refusedAgo[k] < 0 THEN -1
                        ELSE IF refusedAgo[k] >= MaxWait THEN MaxWait
                        ELSE refusedAgo[k] + 1]
    /\ UNCHANGED <<hintSecs, lastResult>>

Init ==
    /\ bucket = [k \in TokenIds |-> <<>>]
    /\ admits = [k \in TokenIds |-> <<>>]
    /\ refusedAgo = [k \in TokenIds |-> -1]
    /\ hintSecs = [k \in TokenIds |-> 0]
    /\ lastResult = [k \in TokenIds |-> "none"]

Next == Tick \/ \E k \in TokenIds : Check(k)

Spec == Init /\ [][Next]_vars

-----------------------------------------------------------------------------
(* Properties                                                              *)

TypeOK ==
    /\ bucket \in [TokenIds -> Seq(0..Window)]
    /\ \A k \in TokenIds : Len(bucket[k]) <= PerMinute
    /\ admits \in [TokenIds -> Seq(0..Window)]
    /\ refusedAgo \in [TokenIds -> -1..MaxWait]
    /\ hintSecs \in [TokenIds -> 0..(WindowSecs + 1)]
    /\ lastResult \in [TokenIds -> {"none", "admitted", "limited"}]

\* Admitted calls of a token younger than the window.
InWindow(k) == Len(SelectSeq(admits[k], LAMBDA a : a < Window))

\* The limiter's promise (UBL_MCP_TOKEN_RPM): no token has more than
\* per_minute calls admitted within any 60 s.
SlidingWindowBound == \A k \in TokenIds : InWindow(k) <= PerMinute

\* The abstract limiter seen through the deque: a token's window is the
\* instants of its bucket younger than the window (capped ages at Window
\* are the ones the next check pops).
Abstract == INSTANCE SlidingWindowLimiter
    WITH window <- [k \in TokenIds |-> SelectSeq(bucket[k], LAMBDA a : a < Window)],
         last <- lastResult

\* check implements the sliding window: every admission, refusal and tick
\* of the deque-based limiter is a step of SlidingWindowLimiter, so a call
\* is refused only when per_minute calls of the same token were admitted
\* within the last 60 s, and admitted only when fewer were.  Buckets of
\* different tokens are not coupled, and an instant a full window old no
\* longer counts.
LimiterImplementsSlidingWindow == Abstract!Spec

\* Retry-After is honest: a token refused with retry_after seconds, that
\* waits that long and calls again (no call of it admitted in between),
\* is admitted.
RetryAfterHonoured ==
    [][\A k \in TokenIds :
         (/\ refusedAgo[k] >= 0
          /\ refusedAgo[k] >= hintSecs[k] * TicksPerSec
          /\ Check(k))
         => lastResult'[k] = "admitted"]_vars

=============================================================================
