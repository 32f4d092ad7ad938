----------------------------- MODULE TcpClient -----------------------------
(***************************************************************************)
(* dce-client-tcp.cc: each client connects its sockets one after the       *)
(* other, then sends num_cycles texts, message by message, round robin     *)
(* over the sockets, and closes the sockets.  All calls block.  The pause  *)
(* between cycles (usleep) only delays the client.                         *)
(***************************************************************************)
EXTENDS TcpConnections

CONSTANTS
    BytesToTransfer,  \* -d: length of the text of one cycle
    NumCycles,        \* -n: texts to send
    Payload           \* buffer_size - 1: bytes of a full message

ASSUME BytesAssumption == BytesToTransfer \in Nat
ASSUME NumCyclesAssumption == NumCycles \in Nat
ASSUME PayloadAssumption == Payload \in Nat \ {0} /\ Payload <= Window
ASSUME WindowAssumption == Window \in Nat \ {0}

VARIABLES
    client,          \* where each client is
    current_socket,
    current_cycle,
    position         \* the text's bytes handed out so far (SenderContent::i)

clientVars == <<client, current_socket, current_cycle, position>>

Running == {"connect", "send", "close"}
Stopped == {"done", "failed", "killed"}

ClientTypeOK ==
    /\ client \in [Clients -> Running \cup Stopped]
    /\ current_socket \in [Clients -> Sockets]
    /\ current_cycle \in [Clients -> 0 .. NumCycles]
    /\ position \in [Clients -> 0 .. BytesToTransfer]

ClientInit ==
    /\ client = [c \in Clients |-> "connect"]
    /\ current_socket = [c \in Clients |-> 0]
    /\ current_cycle = [c \in Clients |-> 0]
    /\ position = [c \in Clients |-> 0]

(* The kernel closes the sockets of a process that ends. *)
Closing(c, State) ==
    [s \in Conns |->
        IF s[1] = c /\ State[s] = "up" THEN "fin" ELSE State[s]]

-----------------------------------------------------------------------------
(* connect() returns once the connection is in the server's queue; while   *)
(* the queue is full it blocks.  After the last socket the sending loop is *)
(* entered.                                                                *)
Connect(c) ==
    /\ client[c] = "connect"
    /\ Len(backlog) < Backlog
    /\ LET s == <<c, current_socket[c]>>
       IN  /\ link' = [link EXCEPT ![s] = "up"]
           /\ backlog' = Append(backlog, s)
    /\ \/ /\ current_socket[c] + 1 < NumSockets
          /\ current_socket' = [current_socket EXCEPT ![c] = @ + 1]
          /\ UNCHANGED client
       \/ /\ current_socket[c] + 1 = NumSockets
          /\ current_socket' = [current_socket EXCEPT ![c] = 0]
          /\ client' = [client EXCEPT ![c] =
                            IF NumCycles > 0 THEN "send" ELSE "close"]
    /\ UNCHANGED <<current_cycle, position>>
    /\ UNCHANGED <<sent, wire, unread, rx>>

(* connect() fails: exit(EXIT_FAILURE). *)
ConnectFails(c) ==
    /\ client[c] = "connect"
    /\ client' = [client EXCEPT ![c] = "failed"]
    /\ link' = Closing(c, link)
    /\ UNCHANGED <<current_socket, current_cycle, position>>
    /\ UNCHANGED <<sent, wire, unread, rx, backlog>>

(* content.fill(): the size of the next message. *)
MessageSize(c) ==
    IF BytesToTransfer - position[c] < Payload
    THEN BytesToTransfer - position[c] ELSE Payload

HasMessage(c) == client[c] = "send" /\ position[c] < BytesToTransfer

(* Mistake: every message on the same socket. *)
AdvanceSameSocket(c) ==
    /\ position' = [position EXCEPT ![c] = @ + MessageSize(c)]
    /\ UNCHANGED <<current_socket, current_cycle>>

(* What the body of the sending loop does whatever send() returned. *)
Advance(c) ==
    /\ position' = [position EXCEPT ![c] = @ + MessageSize(c)]
    /\ current_socket' = [current_socket EXCEPT ![c] = (@ + 1) % NumSockets]
    /\ UNCHANGED current_cycle

(* send() takes the message once the connection has room for it. *)
Send(c) ==
    /\ HasMessage(c)
    /\ LET s == <<c, current_socket[c]>>
       IN  /\ link[s] = "up"
           /\ wire[s] + unread[s] + MessageSize(c) <= Window
           /\ sent' = [sent EXCEPT ![s] = @ + MessageSize(c)]
           /\ wire' = [wire EXCEPT ![s] = @ + MessageSize(c)]
    /\ Advance(c)
    /\ UNCHANGED client
    /\ UNCHANGED <<link, unread, rx, backlog>>

(* send() on a broken connection returns -1, which is not looked at, so    *)
(* the message is skipped; ...                                             *)
SendFails(c) ==
    /\ HasMessage(c)
    /\ link[<<c, current_socket[c]>>] = "reset"
    /\ Advance(c)
    /\ UNCHANGED client
    /\ UNCHANGED netVars

(* ... or the kernel raises SIGPIPE, which the client does not handle.     *)
BrokenPipe(c) ==
    /\ HasMessage(c)
    /\ link[<<c, current_socket[c]>>] = "reset"
    /\ client' = [client EXCEPT ![c] = "killed"]
    /\ link' = Closing(c, link)
    /\ UNCHANGED <<current_socket, current_cycle, position>>
    /\ UNCHANGED <<sent, wire, unread, rx, backlog>>

(* Mistakes: the last, shorter message left out; every cycle started on    *)
(* the first socket.                                                       *)
EndCycleEarly(c) ==
    /\ client[c] = "send" /\ position[c] + Payload >= BytesToTransfer
    /\ current_cycle' = [current_cycle EXCEPT ![c] = @ + 1]
    /\ \/ /\ current_cycle[c] + 1 < NumCycles
          /\ position' = [position EXCEPT ![c] = 0]
          /\ UNCHANGED <<client, current_socket>>
       \/ /\ current_cycle[c] + 1 = NumCycles
          /\ client' = [client EXCEPT ![c] = "close"]
          /\ current_socket' = [current_socket EXCEPT ![c] = 0]
          /\ UNCHANGED position
    /\ UNCHANGED netVars

EndCycleRewinds(c) ==
    /\ client[c] = "send" /\ position[c] >= BytesToTransfer
    /\ current_cycle' = [current_cycle EXCEPT ![c] = @ + 1]
    /\ \/ /\ current_cycle[c] + 1 < NumCycles
          /\ position' = [position EXCEPT ![c] = 0]
          /\ current_socket' = [current_socket EXCEPT ![c] = 0]
          /\ UNCHANGED client
       \/ /\ current_cycle[c] + 1 = NumCycles
          /\ client' = [client EXCEPT ![c] = "close"]
          /\ current_socket' = [current_socket EXCEPT ![c] = 0]
          /\ UNCHANGED position
    /\ UNCHANGED netVars

(* fill() returned 0: the next cycle starts a new text; the round robin    *)
(* over the sockets goes on where it is.  After the last cycle the closing *)
(* loop is entered.                                                        *)
EndCycle(c) ==
    /\ client[c] = "send" /\ position[c] >= BytesToTransfer
    /\ current_cycle' = [current_cycle EXCEPT ![c] = @ + 1]
    /\ \/ /\ current_cycle[c] + 1 < NumCycles
          /\ position' = [position EXCEPT ![c] = 0]
          /\ UNCHANGED <<client, current_socket>>
       \/ /\ current_cycle[c] + 1 = NumCycles
          /\ client' = [client EXCEPT ![c] = "close"]
          /\ current_socket' = [current_socket EXCEPT ![c] = 0]
          /\ UNCHANGED position
    /\ UNCHANGED netVars

(* close() of the next socket; after the last one main() returns. *)
Close(c) ==
    /\ client[c] = "close"
    /\ LET s == <<c, current_socket[c]>>
       IN  link' = [link EXCEPT ![s] = IF @ = "up" THEN "fin" ELSE @]
    /\ \/ /\ current_socket[c] + 1 < NumSockets
          /\ current_socket' = [current_socket EXCEPT ![c] = @ + 1]
          /\ UNCHANGED client
       \/ /\ current_socket[c] + 1 = NumSockets
          /\ client' = [client EXCEPT ![c] = "done"]
          /\ UNCHANGED current_socket
    /\ UNCHANGED <<current_cycle, position>>
    /\ UNCHANGED <<sent, wire, unread, rx, backlog>>
=============================================================================
