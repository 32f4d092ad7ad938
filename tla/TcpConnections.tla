-------------------------- MODULE TcpConnections ---------------------------
(***************************************************************************)
(* What the client and the server of the TCP test see of the kernel: a     *)
(* listening socket with a bounded queue of established connections, and   *)
(* reliable in-order byte streams from the clients to the server.  Only    *)
(* the number of bytes matters here; which bytes they are is the subject   *)
(* of SenderContent.  The server never writes, so a connection carries     *)
(* data in one direction only.                                             *)
(***************************************************************************)
EXTENDS Integers, Sequences, FiniteSets

CONSTANTS
    Clients,     \* the client nodes
    NumSockets,  \* num_sockets: the sockets each client opens
    Backlog,     \* connections that can wait for accept()
    Window,      \* bytes a connection holds before send() blocks
    Faults       \* TRUE: connections may break and system calls may fail

ASSUME ClientsAssumption == IsFiniteSet(Clients)
ASSUME NumSocketsAssumption == NumSockets \in Nat \ {0}
ASSUME BacklogAssumption == Backlog \in Nat \ {0}
ASSUME FaultsAssumption == Faults \in BOOLEAN

Sockets == 0 .. (NumSockets - 1)

(* One connection per socket of a client. *)
Conns == Clients \X Sockets

VARIABLES
    link,     \* the connection as its client sees it
    sent,     \* bytes the client's send() calls have accepted
    wire,     \* bytes of those that have not reached the server's kernel
    unread,   \* bytes in the server's receive buffer
    rx,       \* what the server's read() meets behind the unread bytes
    backlog   \* the connections waiting for accept(), oldest first

netVars == <<link, sent, wire, unread, rx, backlog>>

NetTypeOK ==
    /\ link \in [Conns -> {"none", "up", "fin", "reset"}]
    /\ sent \in [Conns -> Nat]
    /\ wire \in [Conns -> Nat]
    /\ unread \in [Conns -> Nat]
    /\ rx \in [Conns -> {"more", "eof", "err"}]
    /\ backlog \in Seq(Conns)

NetInit ==
    /\ link = [s \in Conns |-> "none"]
    /\ sent = [s \in Conns |-> 0]
    /\ wire = [s \in Conns |-> 0]
    /\ unread = [s \in Conns |-> 0]
    /\ rx = [s \in Conns |-> "more"]
    /\ backlog = <<>>

(* A read() of the connection would return at once. *)
Readable(s) == unread[s] > 0 \/ rx[s] # "more"

(* Segments arrive in order; any number of bytes may arrive together. *)
Deliver(s) ==
    /\ \E n \in 1 .. wire[s] :
            /\ wire' = [wire EXCEPT ![s] = @ - n]
            /\ unread' = [unread EXCEPT ![s] = @ + n]
    /\ UNCHANGED <<link, sent, rx, backlog>>

(* The end of the stream arrives behind the last byte. *)
DeliverFin(s) ==
    /\ link[s] = "fin" /\ wire[s] = 0 /\ rx[s] = "more"
    /\ rx' = [rx EXCEPT ![s] = "eof"]
    /\ UNCHANGED <<link, sent, wire, unread, backlog>>

(* The connection breaks: bytes on their way are lost, and the server's    *)
(* next read() behind the unread bytes fails.                              *)
Break(s) ==
    /\ Faults
    /\ link[s] = "up"
    /\ link' = [link EXCEPT ![s] = "reset"]
    /\ wire' = [wire EXCEPT ![s] = 0]
    /\ rx' = [rx EXCEPT ![s] = "err"]
    /\ UNCHANGED <<sent, unread, backlog>>

(* The server process ends: its kernel drops what it holds and resets the  *)
(* connections that are still open.                                        *)
DropAll ==
    /\ link' = [s \in Conns |-> IF link[s] = "up" THEN "reset" ELSE link[s]]
    /\ wire' = [s \in Conns |-> 0]
    /\ unread' = [s \in Conns |-> 0]
    /\ rx' = [s \in Conns |-> "eof"]
    /\ backlog' = <<>>
    /\ UNCHANGED sent
=============================================================================
