----------------------------- MODULE MCBootstrap -----------------------------
(* Two chunks of two blocks, a sealed PSK that may come in two replies. *)
EXTENDS BootstrapEngine
=============================================================================
