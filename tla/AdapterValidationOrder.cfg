\* Every adapter whose wasm_sha256 is a string of at most HashLen + 1 of
\* three characters, or missing, or not a string, against every abi_version.
CONSTANTS
    Chars <- MCChars
    HexDigits <- MCHexDigits
    AbiStrings <- MCAbiStrings
    HashLen = 2
    Absent = Absent
    NotObject = NotObject
    Missing = Missing
    NotString = NotString
SPECIFICATION Spec
\* Parsing is one step; every behaviour ends with the outcome returned.
CHECK_DEADLOCK FALSE

INVARIANT RejectsWithSpecCode
