---------------------------- MODULE MCLlmStream ----------------------------
(* Model of LlmStream for TLC: upstreams of at most two events.            *)
EXTENDS LlmStream

CONSTANTS Done

\* Delta contents: one ASCII character, one two-byte character (e.g. the
\* "é" of a Portuguese answer), or empty.
Ascii == <<"a">>
Accent == <<"h", "t">>

\* One or two events: deltas, possibly followed by [DONE].
MCUpstreams ==
    {<<d>> : d \in {Ascii, Accent, <<>>}}
    \cup {<<d, e>> : d \in {Ascii, Accent}, e \in {Ascii, Accent, Done}}
=============================================================================
