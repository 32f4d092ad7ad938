----------------------------- MODULE TcpServer -----------------------------
(***************************************************************************)
(* dce-server-tcp.cc: one process that serves every connection from a      *)
(* select() loop.  An iteration rebuilds the descriptor set, blocks in     *)
(* select(), accepts at most one connection, and then goes through the     *)
(* table of client sockets and reads once from each that was ready.  The   *)
(* clients and the network run between any two system calls.               *)
(***************************************************************************)
EXTENDS TcpConnections

CONSTANTS
    MAX_CLIENTS,  \* entries of client_socket and client_reads
    FdLimit,      \* descriptors the process may have open
    BufferSize,   \* sizeof(buffer) of the server
    NoConn        \* a descriptor that is not open

ASSUME MaxClientsAssumption == MAX_CLIENTS \in Nat \ {0}
ASSUME BufferSizeAssumption == BufferSize \in Nat \ {0}
ASSUME FdLimitAssumption == FdLimit \in Nat
ASSUME NoConnAssumption == NoConn \notin Conns

(* Descriptors 0, 1 and 2 are the standard streams. *)
master_socket == 3
Fds == (master_socket + 1) .. (FdLimit - 1)
Entries == 0 .. (MAX_CLIENTS - 1)

VARIABLES
    srv,            \* where the server is: "select", "accept", "scan", "exited"
    at,             \* i of the scan, the entry it looks at next
    client_socket,  \* descriptor of each entry, 0 when the entry is free
    client_reads,   \* bytes counted for each entry
    readfds,        \* the descriptors the last select() left in the set
    fdConn,         \* the process's descriptor table
    total           \* per connection, the total its "Disconnected" line gave

serverVars == <<srv, at, client_socket, client_reads, readfds, fdConn, total>>

NoTotal == -2

ServerTypeOK ==
    /\ srv \in {"select", "accept", "scan", "exited"}
    /\ at \in Entries
    /\ client_socket \in [Entries -> {0} \cup Fds]
    /\ client_reads \in [Entries -> Int]
    /\ readfds \subseteq ({master_socket} \cup Fds)
    /\ fdConn \in [Fds -> Conns \cup {NoConn}]
    /\ total \in [Conns -> Int]

(* The master socket is bound and listening before any client starts       *)
(* (my-simulator starts the server half a second earlier).                 *)
ServerInit ==
    /\ srv = "select"
    /\ at = 0
    /\ client_socket = [e \in Entries |-> 0]
    /\ client_reads = [e \in Entries |-> 0]
    /\ readfds = {}
    /\ fdConn = [f \in Fds |-> NoConn]
    /\ total = [s \in Conns |-> NoTotal]

-----------------------------------------------------------------------------
(* exit(EXIT_FAILURE) *)
ServerExit ==
    /\ srv' = "exited"
    /\ fdConn' = [f \in Fds |-> NoConn]
    /\ DropAll
    /\ UNCHANGED <<at, client_socket, client_reads, readfds, total>>

(* The set select() is called with: FD_SET of every valid descriptor. *)
Watched == {master_socket} \cup
           {client_socket[e] : e \in {x \in Entries : client_socket[x] > 0}}

(* The set select() leaves: the members that are ready. *)
Ready(fd) == IF fd = master_socket THEN backlog # <<>> ELSE Readable(fdConn[fd])
ReadySet == {fd \in Watched : Ready(fd)}

(* Mistake: the set that was asked about used as the answer. *)
SelectIgnoresAnswer ==
    /\ srv = "select"
    /\ ReadySet # {}
    /\ readfds' = Watched
    /\ srv' = IF master_socket \in ReadySet THEN "accept" ELSE "scan"
    /\ UNCHANGED <<at, client_socket, client_reads, fdConn, total>>
    /\ UNCHANGED netVars

(* Rebuild the set and block until a descriptor is ready. *)
Select ==
    /\ srv = "select"
    /\ ReadySet # {}
    /\ readfds' = ReadySet
    /\ srv' = IF master_socket \in ReadySet THEN "accept" ELSE "scan"
    /\ UNCHANGED <<at, client_socket, client_reads, fdConn, total>>
    /\ UNCHANGED netVars

SelectFails ==
    /\ Faults
    /\ srv = "select"
    /\ ServerExit

FreeFds == {f \in Fds : fdConn[f] = NoConn}

(* Mistake: the break left out, every free entry is taken. *)
EveryFree(e) == client_socket[e] = 0

(* The first free entry, when there is one. *)
FirstFree(e) ==
    /\ client_socket[e] = 0
    /\ \A x \in Entries : x < e => client_socket[x] # 0

(* Mistake: the new descriptor put into the set select() has answered. *)
AcceptIntoSet ==
    /\ srv = "accept"
    /\ \E new_socket \in FreeFds :
            /\ \A f \in FreeFds : new_socket <= f
            /\ fdConn' = [fdConn EXCEPT ![new_socket] = Head(backlog)]
            /\ client_socket' = [e \in Entries |->
                    IF FirstFree(e) THEN new_socket ELSE client_socket[e]]
            /\ readfds' = readfds \cup {new_socket}
    /\ backlog' = Tail(backlog)
    /\ srv' = "scan"
    /\ UNCHANGED <<at, client_reads, total>>
    /\ UNCHANGED <<link, sent, wire, unread, rx>>

(* accept() gives the lowest free descriptor to the oldest connection; the *)
(* descriptor goes to the first free entry, or nowhere when all are taken. *)
Accept ==
    /\ srv = "accept"
    /\ \E new_socket \in FreeFds :
            /\ \A f \in FreeFds : new_socket <= f
            /\ fdConn' = [fdConn EXCEPT ![new_socket] = Head(backlog)]
            /\ client_socket' = [e \in Entries |->
                    IF FirstFree(e) THEN new_socket ELSE client_socket[e]]
    /\ backlog' = Tail(backlog)
    /\ srv' = "scan"
    /\ UNCHANGED <<at, client_reads, readfds, total>>
    /\ UNCHANGED <<link, sent, wire, unread, rx>>

(* accept() fails when the descriptor table is full, or for a fault. *)
AcceptFails ==
    /\ srv = "accept"
    /\ Faults \/ FreeFds = {}
    /\ ServerExit

-----------------------------------------------------------------------------
(* Mistake: i <= MAX_CLIENTS. *)
NextEntryTooFar ==
    IF at + 1 <= MAX_CLIENTS
    THEN at' = at + 1 /\ UNCHANGED srv
    ELSE at' = 0 /\ srv' = "select"

(* for (i = 0; i < MAX_CLIENTS; i++): on to the next entry, or to the next *)
(* iteration of the server's loop.                                         *)
NextEntry ==
    IF at + 1 < MAX_CLIENTS
    THEN at' = at + 1 /\ UNCHANGED srv
    ELSE at' = 0 /\ srv' = "select"

sd == client_socket[at]

(* Mistake: i++ only after a read. *)
SkipInPlace ==
    /\ srv = "scan"
    /\ sd \notin readfds
    /\ UNCHANGED serverVars
    /\ UNCHANGED netVars

(* FD_ISSET(sd, &readfds) is false, as it is for the 0 of a free entry. *)
Skip ==
    /\ srv = "scan"
    /\ sd \notin readfds
    /\ NextEntry
    /\ UNCHANGED <<client_socket, client_reads, readfds, fdConn, total>>
    /\ UNCHANGED netVars

(* Mistake: the count replaced and not added to. *)
ReadDataReplaces ==
    /\ srv = "scan"
    /\ sd \in readfds
    /\ LET s == fdConn[sd]
           bytes_read == IF unread[s] < BufferSize THEN unread[s] ELSE BufferSize
       IN  /\ bytes_read > 0
           /\ unread' = [unread EXCEPT ![s] = @ - bytes_read]
           /\ client_reads' = [client_reads EXCEPT ![at] = bytes_read]
    /\ NextEntry
    /\ UNCHANGED <<client_socket, readfds, fdConn, total>>
    /\ UNCHANGED <<link, sent, wire, rx, backlog>>

(* read() returns bytes: they are added to the entry's count. *)
ReadData ==
    /\ srv = "scan"
    /\ sd \in readfds
    /\ LET s == fdConn[sd]
           bytes_read == IF unread[s] < BufferSize THEN unread[s] ELSE BufferSize
       IN  /\ bytes_read > 0
           /\ unread' = [unread EXCEPT ![s] = @ - bytes_read]
           /\ client_reads' = [client_reads EXCEPT ![at] = @ + bytes_read]
    /\ NextEntry
    /\ UNCHANGED <<client_socket, readfds, fdConn, total>>
    /\ UNCHANGED <<link, sent, wire, rx, backlog>>

(* Mistakes: the count of a freed entry kept for the next connection; the  *)
(* end of the stream taken for data.                                       *)
ReadEofKeepsCount ==
    /\ srv = "scan"
    /\ sd \in readfds
    /\ unread[fdConn[sd]] = 0 /\ rx[fdConn[sd]] = "eof"
    /\ total' = [total EXCEPT ![fdConn[sd]] = client_reads[at]]
    /\ fdConn' = [fdConn EXCEPT ![sd] = NoConn]
    /\ client_socket' = [client_socket EXCEPT ![at] = 0]
    /\ NextEntry
    /\ UNCHANGED <<client_reads, readfds>>
    /\ UNCHANGED netVars

ReadEofAsData ==
    /\ srv = "scan"
    /\ sd \in readfds
    /\ unread[fdConn[sd]] = 0 /\ rx[fdConn[sd]] = "eof"
    /\ NextEntry
    /\ UNCHANGED <<client_socket, client_reads, readfds, fdConn, total>>
    /\ UNCHANGED netVars

(* read() returns 0: the total is printed, the descriptor is closed and    *)
(* the entry is free again.                                                *)
ReadEof ==
    /\ srv = "scan"
    /\ sd \in readfds
    /\ unread[fdConn[sd]] = 0 /\ rx[fdConn[sd]] = "eof"
    /\ total' = [total EXCEPT ![fdConn[sd]] = client_reads[at]]
    /\ fdConn' = [fdConn EXCEPT ![sd] = NoConn]
    /\ client_socket' = [client_socket EXCEPT ![at] = 0]
    /\ client_reads' = [client_reads EXCEPT ![at] = 0]
    /\ NextEntry
    /\ UNCHANGED readfds
    /\ UNCHANGED netVars

(* read() returns -1, which takes the branch of the data; the error is     *)
(* then cleared and the next read() meets the end of the stream.           *)
ReadError ==
    /\ srv = "scan"
    /\ sd \in readfds
    /\ unread[fdConn[sd]] = 0 /\ rx[fdConn[sd]] = "err"
    /\ client_reads' = [client_reads EXCEPT ![at] = @ - 1]
    /\ rx' = [rx EXCEPT ![fdConn[sd]] = "eof"]
    /\ NextEntry
    /\ UNCHANGED <<client_socket, readfds, fdConn, total>>
    /\ UNCHANGED <<link, sent, wire, unread, backlog>>

ServerStep == \/ Select \/ SelectFails
              \/ Accept \/ AcceptFails
              \/ Skip \/ ReadData \/ ReadEof \/ ReadError
=============================================================================
