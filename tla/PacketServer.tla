---------------------------- MODULE PacketServer ---------------------------
(***************************************************************************)
(* The select() loop of dce-server-sctp.cc and dce-server-dccp.cc: an      *)
(* iteration blocks in select(), accepts at most one connection, and then  *)
(* receives one message from each connection that was ready.  What the     *)
(* servers do when select() or accept() fails is their difference.         *)
(***************************************************************************)
EXTENDS PacketConnections

CONSTANTS
    MAX_CLIENTS,  \* entries of client_socket and client_reads
    MaxOpen,      \* connections the process can have open
    BufferSize,   \* sizeof(buffer) of the server
    Free, Bad     \* the 0 and the -1 that client_socket may hold

(* What the programs and the tests fix: a message fits into the buffer.    *)
ServerConstants ==
    /\ {Payload, MAX_CLIENTS} \subseteq Nat \ {0} /\ {Backlog, MaxOpen} \subseteq Nat
    /\ BufferSize \in Nat /\ BufferSize >= Payload
    /\ IsFiniteSet(Conns) /\ Free \notin Conns /\ Bad \notin Conns
    /\ {Lossy, EndWaits, Faults} \subseteq BOOLEAN

VARIABLES
    srv,            \* "select", "accept", "scan", "exited"
    at,             \* i of the scan
    client_socket,  \* per entry: a connection, Free or Bad
    client_reads,   \* bytes counted for each entry
    readfds,        \* the connections the last select() left in the set
    open,           \* connections whose descriptor is open
    total           \* per connection, the total its "Disconnected" line gave

serverVars == <<srv, at, client_socket, client_reads, readfds, open, total>>

Entries == 0 .. (MAX_CLIENTS - 1)
NoTotal == -2

ServerTypeOK ==
    /\ srv \in {"select", "accept", "scan", "exited"}
    /\ at \in Entries
    /\ client_socket \in [Entries -> Conns \cup {Free, Bad}]
    /\ client_reads \in [Entries -> Int] /\ total \in [Conns -> Int]
    /\ readfds \subseteq Conns /\ open \subseteq Conns

ServerInit ==
    /\ srv = "select" /\ at = 0
    /\ client_socket = [e \in Entries |-> Free]
    /\ client_reads = [e \in Entries |-> 0]
    /\ readfds = {} /\ open = {}
    /\ total = [s \in Conns |-> NoTotal]

Readable(s) == inbox[s] # Empty \/ rx[s] # "more"
Watched == {s \in open : \E e \in Entries : client_socket[e] = s}
ReadySet == {s \in Watched : Readable(s)}

-----------------------------------------------------------------------------
(* Block until the master socket or a connection is ready. *)
Select ==
    /\ srv = "select"
    /\ backlog # << >> \/ ReadySet # {}
    /\ readfds' = ReadySet
    /\ srv' = IF backlog # << >> THEN "accept" ELSE "scan"
    /\ UNCHANGED <<at, client_socket, client_reads, open, total, netVars>>

(* The first free entry, when there is one, gets what accept() returned. *)
FirstFree(e) ==
    /\ client_socket[e] = Free
    /\ \A x \in Entries : x < e => client_socket[x] # Free
Store(v) ==
    client_socket' = [e \in Entries |-> IF FirstFree(e) THEN v ELSE client_socket[e]]

CanOpen == Cardinality(open) < MaxOpen

Accept ==
    /\ srv = "accept"
    /\ backlog # << >> /\ CanOpen
    /\ Store(Head(backlog))
    /\ open' = open \cup {Head(backlog)}
    /\ backlog' = Tail(backlog)
    /\ srv' = "scan"
    /\ UNCHANGED <<at, client_reads, readfds, total, link, sent, air, inbox, rx, lost>>

(* Mistake: the bound of the scan one too large. *)
NextEntryTooFar ==
    IF at < MAX_CLIENTS THEN at' = at + 1 /\ UNCHANGED srv
                        ELSE at' = 0 /\ srv' = "select"

(* for (i = 0; i < max_clients; i++) *)
NextEntry ==
    IF at + 1 < MAX_CLIENTS THEN at' = at + 1 /\ UNCHANGED srv
                            ELSE at' = 0 /\ srv' = "select"

sd == client_socket[at]

(* FD_ISSET() is false.  Of a -1 it is undefined; what recvmsg(-1) would   *)
(* take off the entry's count is never printed, so it is left out.         *)
Skip ==
    /\ srv = "scan" /\ sd \notin readfds
    /\ NextEntry
    /\ UNCHANGED <<client_socket, client_reads, readfds, open, total, netVars>>

(* Mistake: no byte of the buffer left for the last byte of the message. *)
ReceiveShort ==
    /\ srv = "scan" /\ sd \in readfds
    /\ \E z \in Sizes :
        /\ inbox[sd][z] > 0
        /\ inbox' = [inbox EXCEPT ![sd] = Without(@, z)]
        /\ client_reads' = [client_reads EXCEPT ![at] = @ +
                                IF z < Payload THEN z ELSE Payload - 1]
    /\ NextEntry
    /\ UNCHANGED <<client_socket, readfds, open, total, link, sent, air, rx, lost, backlog>>

(* One message is received and counted. *)
Receive ==
    /\ srv = "scan" /\ sd \in readfds
    /\ \E z \in Sizes :
        /\ inbox[sd][z] > 0
        /\ inbox' = [inbox EXCEPT ![sd] = Without(@, z)]
        /\ client_reads' = [client_reads EXCEPT ![at] = @ +
                                IF z < BufferSize THEN z ELSE BufferSize]
    /\ NextEntry
    /\ UNCHANGED <<client_socket, readfds, open, total, link, sent, air, rx, lost, backlog>>

(* Mistake: client_reads of the freed entry kept. *)
ReceiveEndKeepsCount ==
    /\ srv = "scan" /\ sd \in readfds
    /\ inbox[sd] = Empty /\ rx[sd] = "eof"
    /\ total' = [total EXCEPT ![sd] = client_reads[at]]
    /\ open' = open \ {sd}
    /\ client_socket' = [client_socket EXCEPT ![at] = Free]
    /\ NextEntry
    /\ UNCHANGED <<client_reads, readfds, netVars>>

(* The call returns 0: the total is printed and the entry is free again. *)
ReceiveEnd ==
    /\ srv = "scan" /\ sd \in readfds
    /\ inbox[sd] = Empty /\ rx[sd] = "eof"
    /\ total' = [total EXCEPT ![sd] = client_reads[at]]
    /\ open' = open \ {sd}
    /\ client_socket' = [client_socket EXCEPT ![at] = Free]
    /\ client_reads' = [client_reads EXCEPT ![at] = 0]
    /\ NextEntry
    /\ UNCHANGED <<readfds, netVars>>

(* The call returns -1, once, which is added to the count. *)
ReceiveError ==
    /\ srv = "scan" /\ sd \in readfds
    /\ inbox[sd] = Empty /\ rx[sd] = "err"
    /\ client_reads' = [client_reads EXCEPT ![at] = @ - 1]
    /\ rx' = [rx EXCEPT ![sd] = "eof"]
    /\ NextEntry
    /\ UNCHANGED <<client_socket, readfds, open, total, link, sent, air, inbox, lost, backlog>>

Serve == Select \/ Accept \/ Skip \/ Receive \/ ReceiveEnd \/ ReceiveError

(* exit(EXIT_FAILURE) *)
ServerExit ==
    /\ srv' = "exited" /\ open' = {}
    /\ DropAll
    /\ UNCHANGED <<at, client_socket, client_reads, readfds, total>>

(* Every byte a client got rid of is counted or lost; the one failed call  *)
(* of a connection that broke counts for -1.                               *)
TotalIsWhatArrived ==
    \A s \in Conns : total[s] # NoTotal =>
        total[s] + lost[s] = IF link[s] = "reset" THEN sent[s] - 1 ELSE sent[s]

-----------------------------------------------------------------------------
(* The inductive invariant behind TotalIsWhatArrived.                      *)
InTable(s) == \E e \in Entries : client_socket[e] = s

(* What the failed call of a broken connection took off its count.         *)
Debt(s) == IF link[s] = "reset" /\ rx[s] = "eof" THEN 1 ELSE 0

(* A byte sent is dropped, on its way, in the receive buffer or counted.   *)
Books(s, counted) ==
    sent[s] = lost[s] + Volume(air[s]) + Volume(inbox[s]) + counted + Debt(s)

(* Nothing is on its way on a connection whose end the server can see.     *)
EndInv ==
    \A s \in Conns :
        /\ rx[s] # "more" => air[s] = Empty /\ link[s] # "up"
        /\ rx[s] # "more" /\ srv # "exited" => link[s] # "none"
        /\ rx[s] = "err" => link[s] = "reset"

(* A connection waits in the queue, then is in the table, then has its     *)
(* total, and none of these twice.                                         *)
PlaceInv ==
    /\ \A k, n \in DOMAIN backlog : backlog[k] = backlog[n] => k = n
    /\ \A k \in DOMAIN backlog :
            /\ link[backlog[k]] # "none" /\ total[backlog[k]] = NoTotal
            /\ ~ InTable(backlog[k])
    /\ srv # "exited" =>
        \A e \in Entries : client_socket[e] \in Conns =>
            /\ link[client_socket[e]] # "none" /\ total[client_socket[e]] = NoTotal
            /\ \A x \in Entries : client_socket[x] = client_socket[e] => x = e

(* The books are kept before, while and after a connection is counted.     *)
CountInv ==
    /\ srv # "exited" =>
        /\ \A e \in Entries : client_socket[e] = Free => client_reads[e] = 0
        /\ \A e \in Entries : client_socket[e] \in Conns =>
                /\ Books(client_socket[e], client_reads[e])
                /\ client_reads[e] + Debt(client_socket[e]) >= 0
        /\ \A s \in Conns : total[s] = NoTotal /\ ~ InTable(s) =>
                Books(s, 0) /\ Debt(s) = 0
    /\ \A s \in Conns : total[s] # NoTotal =>
            /\ rx[s] = "eof" /\ link[s] \in {"fin", "reset"}
            /\ inbox[s] = Empty /\ Books(s, total[s])

ServerInv == NetTypeOK /\ ServerTypeOK /\ EndInv /\ PlaceInv /\ CountInv
=============================================================================
