--------------------------- MODULE MCUdpTransfer ---------------------------
(* Small instances of the UDP test, with the clients as model values.      *)
EXTENDS UdpTransfer, TLC
=============================================================================
