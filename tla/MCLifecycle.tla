------------------------------ MODULE MCLifecycle ------------------------------
(* DriverLifecycle for TLC. *)
EXTENDS DriverLifecycle
=============================================================================
