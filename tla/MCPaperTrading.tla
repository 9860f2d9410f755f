--------------------------- MODULE MCPaperTrading ---------------------------
(* Instances of PaperTrading for TLC. *)
EXTENDS PaperTrading
=============================================================================
