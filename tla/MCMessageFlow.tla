--------------------------- MODULE MCMessageFlow ---------------------------
(* A small instance of the messages' way for TLC.                          *)
EXTENDS MessageFlow
=============================================================================
