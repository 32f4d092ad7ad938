----------------------------- MODULE MCCampaign -----------------------------
(* A campaign of three rounds that may be interrupted and started again,   *)
(* with settings that can be told apart.                                   *)
EXTENDS Campaign

AllKinds == {"files", "pcap", "txt", "netanim"}

SomeSettings ==
    {[t |-> 5, u |-> u, s |-> 4, b |-> 7 * u, n |-> u + 1, p |-> 250, r |-> 251] : u \in {0, 1}}
=============================================================================
