--------------------------- MODULE MCFrameParser ---------------------------
(* Traces of an SCTP test: an acknowledgement, data in one and in two      *)
(* chunks, a heartbeat alone and one with data, an ARP frame.              *)
EXTENDS FrameParser, TLC

F(protocols, heartbeat, length, data) ==
    [protocols |-> protocols, heartbeat |-> heartbeat, length |-> length, data |-> data]

Kinds == {F({"ip", "sctp"}, FALSE, 5, << >>),
          F({"ip", "sctp"}, FALSE, 7, <<2>>),
          F({"ip", "sctp"}, FALSE, 9, <<2, 1>>),
          F({"ip", "sctp"}, TRUE, 6, << >>),
          F({"ip", "sctp"}, TRUE, 8, <<3>>),
          F({"arp"}, FALSE, 4, << >>)}
=============================================================================
