-------------------------- MODULE MCOutboxDelivery --------------------------
(* Small instances of OutboxDelivery for TLC. *)
EXTENDS OutboxDelivery

CONSTANTS k1, w1, w2, o1, nobody
=============================================================================
