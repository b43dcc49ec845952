--------------------------- MODULE MCPcrudSession ---------------------------
(* Both clients, with lists in which any object may need no writing.       *)
EXTENDS PcrudSession
=============================================================================
