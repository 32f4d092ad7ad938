--------------------------- MODULE MCDccpTransfer --------------------------
(* Small instances of the DCCP test, with the clients as model values. *)
EXTENDS DccpTransfer, TLC
=============================================================================
