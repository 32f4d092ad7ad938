--------------------------- MODULE MCTcpTransfer ---------------------------
(* Small instances of the TCP test.  The clients are interchangeable.      *)
EXTENDS TcpTransfer, TLC

ClientSymmetry == Permutations(Clients)
=============================================================================
