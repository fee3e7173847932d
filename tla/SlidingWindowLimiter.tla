------------------------- MODULE SlidingWindowLimiter -------------------------
(***************************************************************************)
(* What the MCP token rate limiter promises (UBL_MCP_TOKEN_RPM, spec 6): a *)
(* token's tool call is admitted exactly when fewer than PerMinute of its  *)
(* calls were admitted within the last Window; otherwise it is refused.    *)
(* The state is, per token, the ages of its admitted calls still inside    *)
(* the window, and the result of its last call.  No deque, no clock value  *)
(* and no pruning order: only the window itself.                           *)
(***************************************************************************)
EXTENDS Naturals, Sequences

CONSTANTS TokenIds, PerMinute, Window

VARIABLES
    window,   \* per token: ages of its admitted calls younger than Window
    last      \* per token: "none" | "admitted" | "limited"

\* A call of token k is admitted: the window has room for it.
Admit(k) ==
    /\ Len(window[k]) < PerMinute
    /\ window' = [window EXCEPT ![k] = Append(@, 0)]
    /\ last' = [last EXCEPT ![k] = "admitted"]

\* A call of token k is refused: the window is full.
Refuse(k) ==
    /\ Len(window[k]) >= PerMinute
    /\ last' = [last EXCEPT ![k] = "limited"]
    /\ UNCHANGED window

\* Time passes: every call ages, and a call Window old leaves the window.
Age ==
    /\ window' = [k \in TokenIds |->
                    SelectSeq([i \in DOMAIN window[k] |-> window[k][i] + 1],
                              LAMBDA a : a < Window)]
    /\ UNCHANGED last

Init ==
    /\ window = [k \in TokenIds |-> <<>>]
    /\ last = [k \in TokenIds |-> "none"]

Next == Age \/ \E k \in TokenIds : Admit(k) \/ Refuse(k)

Spec == Init /\ [][Next]_<<window, last>>

=============================================================================
