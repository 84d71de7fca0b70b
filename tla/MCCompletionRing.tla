-------------------------- MODULE MCCompletionRing --------------------------
(* A completion queue on a small instance.  See MCCompletionRing.cfg.      *)
EXTENDS CompletionRing
=============================================================================
