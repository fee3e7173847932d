---------------------------- MODULE MCReceiptReads ----------------------------
EXTENDS ReceiptReads, TLC

CONSTANTS r1, r2, c1, c2, a1, a2

\* Each chip has its own receipt.
MCReceiptOf == (c1 :> r1) @@ (c2 :> r2)

====
