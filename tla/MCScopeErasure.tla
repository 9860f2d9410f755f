--------------------------- MODULE MCScopeErasure ---------------------------
(* Instances of ScopeErasure for TLC. *)
EXTENDS ScopeErasure
=============================================================================
