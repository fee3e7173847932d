------------------------------- MODULE MCOutbox -------------------------------
(* Model of Outbox for TLC: two emit_receipt rows and one of another type.  *)
EXTENDS Outbox, TLC

CONSTANTS e1, e2, e3

MCEventType == (e1 :> "emit_receipt") @@ (e2 :> "emit_receipt") @@ (e3 :> "other")
=============================================================================
