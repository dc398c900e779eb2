----------------------------- MODULE MCStandalone -----------------------------
(* Five programs that may be cut off anywhere, and enrollments of two samples. *)
EXTENDS StandaloneSession
=============================================================================
