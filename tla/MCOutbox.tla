------------------------------- MODULE MCOutbox -------------------------------
(* Outbox with as many notifications as fit a batch, and two replicas.      *)
EXTENDS Outbox
=============================================================================
