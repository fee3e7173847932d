\* Two chips with their receipts, a path CID without b3:, durability on and
\* off, failing store reads; every handler, with and without If-None-Match.
CONSTANTS
    r1 = r1  r2 = r2  c1 = c1  c2 = c2  a1 = a1  a2 = a2
    Receipts = {r1, r2}
    Chips = {c1, c2}
    Advisories = {a1, a2}
    ReceiptOf <- MCReceiptOf
    BadCid = BadCid
    NoCid = NoCid
    TamperMcpCode = TamperMcpCode
    DurableSettings = {TRUE, FALSE}
    StoreFaults = TRUE
SPECIFICATION Spec
INVARIANT TamperNeverVouched
