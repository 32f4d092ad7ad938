--------------------------- MODULE MCSctpTransfer --------------------------
(* Small instances of the SCTP test, with the clients as model values. *)
EXTENDS SctpTransfer, TLC
=============================================================================
