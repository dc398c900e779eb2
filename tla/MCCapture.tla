------------------------------ MODULE MCCapture ------------------------------
(* Five captures, each of which may be abandoned at any transfer. *)
EXTENDS CaptureEngine
=============================================================================
