----------------------------- MODULE ByteCount -----------------------------
(***************************************************************************)
(* What a test over a reliable protocol promises, connection by            *)
(* connection: every byte the client offers is counted once, never before  *)
(* it was offered, and the count is reported once, after the client has    *)
(* ended the connection and all of its bytes have been counted.            *)
(***************************************************************************)
EXTENDS Integers

CONSTANTS Conns, Payload

VARIABLES offered, ended, counted, reported

countVars == <<offered, ended, counted, reported>>

Init ==
    /\ offered = [s \in Conns |-> 0]
    /\ ended = [s \in Conns |-> FALSE]
    /\ counted = [s \in Conns |-> 0]
    /\ reported = [s \in Conns |-> FALSE]

Offer(s) ==
    /\ ~ ended[s]
    /\ \E n \in 1 .. Payload : offered' = [offered EXCEPT ![s] = @ + n]
    /\ UNCHANGED <<ended, counted, reported>>

End(s) ==
    /\ ended' = [ended EXCEPT ![s] = TRUE]
    /\ UNCHANGED <<offered, counted, reported>>

Account(s) ==
    /\ \E n \in 1 .. (offered[s] - counted[s]) :
            counted' = [counted EXCEPT ![s] = @ + n]
    /\ UNCHANGED <<offered, ended, reported>>

Report(s) ==
    /\ ended[s] /\ ~ reported[s]
    /\ counted[s] = offered[s]
    /\ reported' = [reported EXCEPT ![s] = TRUE]
    /\ UNCHANGED <<offered, ended, counted>>

Next == \E s \in Conns : Offer(s) \/ End(s) \/ Account(s) \/ Report(s)

Spec == Init /\ [][Next]_countVars
=============================================================================
