-------------------------- MODULE MCAuditDelivery --------------------------
(* A small instance of AuditDelivery: a few events, a batch smaller than the  *)
(* outbox can grow, and one restart.                                          *)
EXTENDS AuditDelivery

CONSTANT NumEvents

MCEvents == 1..NumEvents
=============================================================================
