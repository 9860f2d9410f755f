-------------------------- MODULE MCContextWindow --------------------------
(* An instance of ContextWindow for TLC. *)
EXTENDS ContextWindow
=============================================================================
