-------------------------- MODULE AdapterValidation --------------------------
(***************************************************************************)
(* AdapterRuntimeInfo::parse_optional (ubl_runtime pipeline/types.rs): the *)
(* validation of the optional `adapter` object of a chip body before the   *)
(* WASM host runs it.  The code is a sequence of early returns; the spec   *)
(* (section 4.7) lists the same checks "in order", each with its error     *)
(* code.  Both are written here as an ordered list of checks, and a chip's *)
(* outcome is the code of the first check that fails.                      *)
(*                                                                         *)
(* JSON values are abstracted to what the checks read: a missing key, a    *)
(* value that is not a string, or a string given as a sequence of          *)
(* characters.  The fields the function copies without checking            *)
(* (wasm_cid, wasm_b64, fuel_budget, ...) do not change the outcome.       *)
(***************************************************************************)
EXTENDS Naturals, Sequences, SequencesExt

CONSTANTS
    Chars,        \* characters strings are made of
    HexDigits,    \* the ASCII hex digits among them
    HashLen,      \* 64 in the code: the length of a hex SHA-256
    AbiStrings,   \* abi_version strings to try
    Absent,       \* the body has no "adapter" key
    NotObject,    \* "adapter" is present but not a JSON object
    Missing,      \* a field of the adapter object is absent
    NotString     \* a field is present but not a JSON string

ASSUME HexDigits \subseteq Chars /\ HashLen \in Nat \ {0}

\* Strings up to one character longer than a hash.
Strings == BoundedSeq(Chars, HashLen + 1)

FieldValues(S) == S \cup {Missing, NotString}

Adapters ==
    {Absent, NotObject} \cup
    [wasm_sha256 : FieldValues(Strings), abi_version : FieldValues(AbiStrings)]

VARIABLES
    adapter,   \* the "adapter" value of the chip body
    outcome    \* "pending", then "none", "ok" or the error code returned

vars == <<adapter, outcome>>

-----------------------------------------------------------------------------
(* The code                                                                *)

\* .and_then(|v| v.as_str()): None for a missing key and for a non-string.
AsStr(v) == v \notin {Missing, NotString}

\* wasm_sha256.len() == 64 && wasm_sha256.chars().all(|c| c.is_ascii_hexdigit())
IsHex(s) == Len(s) = HashLen /\ \A i \in DOMAIN s : s[i] \in HexDigits

\* The checks of parse_optional on the adapter object, in the order of its
\* early returns, each
\* with the predicate under which it returns (sha_hex is reached only with a
\* string, sha_present having passed).
CodeFails(check, a) ==
    CASE check = "sha_present" -> ~AsStr(a.wasm_sha256)
      [] check = "abi_present" -> ~AsStr(a.abi_version)
      [] check = "sha_hex"     -> AsStr(a.wasm_sha256) /\ ~IsHex(a.wasm_sha256)
      [] check = "abi_version" -> a.abi_version # "1.0"

CodeChecks == <<"sha_present", "abi_present", "sha_hex", "abi_version">>

CodeError ==
    [sha_present |-> "WASM_ABI_INVALID_PAYLOAD",
     abi_present |-> "WASM_ABI_MISSING_VERSION", sha_hex |-> "WASM_VERIFY_HASH_MISMATCH",
     abi_version |-> "WASM_ABI_UNSUPPORTED_VERSION"]

\* parse_optional(body): Ok(None) without an adapter, INVALID_PAYLOAD when
\* as_object fails, then the code of the first failing check, or
\* Ok(Some(info)).
ParseOptional(a) ==
    IF a = Absent THEN "none"
    ELSE IF a = NotObject THEN "WASM_ABI_INVALID_PAYLOAD"
    ELSE LET i == SelectInSeq(CodeChecks, LAMBDA c : CodeFails(c, a))
         IN  IF i = 0 THEN "ok" ELSE CodeError[CodeChecks[i]]

-----------------------------------------------------------------------------
(* The reference: the order of spec section 4.7.  A missing or non-string  *)
(* wasm_sha256 is counted as a payload that does not decode, the reading   *)
(* most favourable to the code.                                            *)

SpecHex(v) == v \in [1..HashLen -> HexDigits]

\* The checks of section 4.7, in the spec's order.
SpecFails(n, a) ==
    CASE n = 1 -> a = NotObject \/ a.wasm_sha256 \in {Missing, NotString}
      [] n = 2 -> a.abi_version \in {Missing, NotString}
      [] n = 3 -> a.abi_version # "1.0"
      [] n = 4 -> ~SpecHex(a.wasm_sha256)

SpecCode == <<"WASM_ABI_INVALID_PAYLOAD", "WASM_ABI_MISSING_VERSION",
              "WASM_ABI_UNSUPPORTED_VERSION", "WASM_VERIFY_HASH_MISMATCH">>

RECURSIVE SpecFirstFailure(_, _)
SpecFirstFailure(a, n) ==
    IF n > Len(SpecCode) THEN "ok"
    ELSE IF SpecFails(n, a) THEN SpecCode[n]
    ELSE SpecFirstFailure(a, n + 1)

SpecOutcome(a) == IF a = Absent THEN "none" ELSE SpecFirstFailure(a, 1)

-----------------------------------------------------------------------------

Init ==
    /\ adapter \in Adapters
    /\ outcome = "pending"

\* CHECK+TR parses the adapter of the chip it is processing.
Parse ==
    /\ outcome = "pending"
    /\ outcome' = ParseOptional(adapter)
    /\ UNCHANGED adapter

Next == Parse

Spec == Init /\ [][Next]_vars

-----------------------------------------------------------------------------
(* Properties                                                              *)

\* A refused adapter gets the error code of the first check of section 4.7
\* that it fails.
RejectsWithSpecCode ==
    outcome # "pending" => outcome = SpecOutcome(adapter)

====
