-------------------------- MODULE MCSenderContent --------------------------
(* Payload of three bytes over a two-letter alphabet: chunks and alphabet  *)
(* are out of step, as 1024 and 26 are, and the lengths reach every        *)
(* remainder of a chunk, several chunks, zero and a negative length.       *)
EXTENDS SenderContent

MCLengths == -1 .. 8
=============================================================================
