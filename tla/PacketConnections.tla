------------------------- MODULE PacketConnections -------------------------
(***************************************************************************)
(* What the clients and servers of the SCTP and DCCP tests see of the      *)
(* kernel: a listening socket with a bounded queue, and connections from   *)
(* clients to the server that carry whole messages.  Only their sizes      *)
(* matter, so the messages on their way and those in the receive buffer    *)
(* are bags of sizes: any of them may be next, as it is with streams and   *)
(* unordered delivery (SCTP) and with reordered datagrams (DCCP).          *)
(***************************************************************************)
EXTENDS Integers, Sequences, FiniteSetsExt

CONSTANTS
    Conns,     \* the connections that clients make
    Payload,   \* bytes of a full message
    Backlog,   \* connections that can wait for accept()
    Lossy,     \* may messages be lost: DCCP, and SCTP with a time to live
    EndWaits,  \* the end of a connection waits for its messages (SCTP)
    Faults     \* may connections break and system calls fail?

VARIABLES
    link,     \* the connection as its client sees it
    sent,     \* bytes of the messages that were handed to the kernel
    air,      \* messages on their way
    inbox,    \* messages in the server's receive buffer
    rx,       \* what the server meets behind these messages
    lost,     \* bytes of the messages that were dropped
    backlog   \* connections waiting for accept(), oldest first

netVars == <<link, sent, air, inbox, rx, lost, backlog>>

Sizes == 1 .. Payload
Empty == [z \in Sizes |-> 0]
Volume(bag) == SumFunction([z \in Sizes |-> z * bag[z]])
With(bag, z) == [bag EXCEPT ![z] = @ + 1]
Without(bag, z) == [bag EXCEPT ![z] = @ - 1]

NetTypeOK ==
    /\ link \in [Conns -> {"none", "up", "fin", "reset"}]
    /\ air \in [Conns -> [Sizes -> Nat]] /\ inbox \in [Conns -> [Sizes -> Nat]]
    /\ sent \in [Conns -> Nat] /\ lost \in [Conns -> Nat]
    /\ rx \in [Conns -> {"more", "eof", "err"}]
    /\ backlog \in Seq(Conns)

NetInit ==
    /\ link = [s \in Conns |-> "none"] /\ rx = [s \in Conns |-> "more"]
    /\ air = [s \in Conns |-> Empty] /\ inbox = [s \in Conns |-> Empty]
    /\ sent = [s \in Conns |-> 0] /\ lost = [s \in Conns |-> 0]
    /\ backlog = << >>

(* connect() has put the connection into the queue; it is refused while    *)
(* the queue is full.                                                      *)
Establish(s) ==
    /\ Len(backlog) < Backlog
    /\ link' = [link EXCEPT ![s] = "up"]
    /\ backlog' = Append(backlog, s)
    /\ UNCHANGED <<sent, air, inbox, rx, lost>>

(* A message is handed to the kernel. *)
Launch(s, z) ==
    /\ sent' = [sent EXCEPT ![s] = @ + z]
    /\ air' = [air EXCEPT ![s] = With(@, z)]
    /\ UNCHANGED <<link, inbox, rx, lost, backlog>>

(* close(), also of the sockets of a process that ends. *)
Closed(S) == [s \in Conns |-> IF s \in S /\ link[s] = "up" THEN "fin" ELSE link[s]]
CloseConns(S) == link' = Closed(S) /\ UNCHANGED <<sent, air, inbox, rx, lost, backlog>>

Deliver(s) ==
    /\ rx[s] = "more"
    /\ \E z \in Sizes :
        /\ air[s][z] > 0
        /\ air' = [air EXCEPT ![s] = Without(@, z)]
        /\ inbox' = [inbox EXCEPT ![s] = With(@, z)]
    /\ UNCHANGED <<link, sent, rx, lost, backlog>>

Lose(s) ==
    /\ Lossy
    /\ \E z \in Sizes :
        /\ air[s][z] > 0
        /\ air' = [air EXCEPT ![s] = Without(@, z)]
        /\ lost' = [lost EXCEPT ![s] = @ + z]
    /\ UNCHANGED <<link, sent, inbox, rx, backlog>>

(* Nothing arrives behind `end': what is on its way is dropped. *)
CutOff(s, end) ==
    /\ rx' = [rx EXCEPT ![s] = end]
    /\ air' = [air EXCEPT ![s] = Empty]
    /\ lost' = [lost EXCEPT ![s] = @ + Volume(air[s])]
    /\ UNCHANGED <<sent, inbox, backlog>>

DeliverEnd(s) ==
    /\ link[s] = "fin" /\ rx[s] = "more"
    /\ EndWaits => air[s] = Empty
    /\ CutOff(s, "eof")
    /\ UNCHANGED link

Break(s) ==
    /\ Faults /\ link[s] = "up"
    /\ link' = [link EXCEPT ![s] = "reset"]
    /\ CutOff(s, "err")

NetMoves(s) == Deliver(s) \/ Lose(s) \/ DeliverEnd(s)

(* The server process ends: its connections are reset, what it holds goes. *)
DropAll ==
    /\ link' = [s \in Conns |-> IF link[s] = "up" THEN "reset" ELSE link[s]]
    /\ rx' = [s \in Conns |-> "eof"]
    /\ air' = [s \in Conns |-> Empty] /\ inbox' = [s \in Conns |-> Empty]
    /\ lost' = [s \in Conns |-> lost[s] + Volume(air[s]) + Volume(inbox[s])]
    /\ backlog' = << >>
    /\ UNCHANGED sent
=============================================================================
