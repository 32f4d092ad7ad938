---------------------------- MODULE TcpTransfer ----------------------------
(***************************************************************************)
(* The TCP test as RunSimulation() (my-simulator.cc) sets it up: one       *)
(* server process and one client process per client node, joined by the    *)
(* network.  What the test measures is the bytes the server counts.        *)
(***************************************************************************)
EXTENDS TcpServer, TcpClient, FiniteSetsExt

INSTANCE MessagePlan

vars == <<netVars, serverVars, clientVars>>

Init == NetInit /\ ServerInit /\ ClientInit

(* While the server runs connections can be made; they are refused when it *)
(* has exited and may time out when the network is at fault.               *)
ClientConnect(c) ==
    \/ srv # "exited" /\ Connect(c)
    \/ (srv = "exited" \/ Faults) /\ ConnectFails(c)

ClientStep(c) ==
    /\ \/ ClientConnect(c)
       \/ Send(c) \/ SendFails(c) \/ BrokenPipe(c)
       \/ EndCycle(c)
       \/ Close(c)
    /\ UNCHANGED serverVars

NetStep(s) ==
    /\ Deliver(s) \/ DeliverFin(s) \/ Break(s)
    /\ UNCHANGED <<serverVars, clientVars>>

(* The server waits in select() for good, or has exited. *)
AllStopped == \A c \in Clients : client[c] \in Stopped
Accepted(s) == \E f \in Fds : fdConn[f] = s
Finished ==
    /\ AllStopped
    /\ \/ srv = "exited"
       \/ srv = "select" /\ backlog = <<>> /\ \A s \in Conns : ~ Accepted(s)
    /\ UNCHANGED vars

Next ==
    \/ ServerStep /\ UNCHANGED clientVars
    \/ \E c \in Clients : ClientStep(c)
    \/ \E s \in Conns : NetStep(s)
    \/ Finished

Spec == Init /\ [][Next]_vars

(* Every process runs when it can and the network delivers.  Nothing       *)
(* forces a fault: not accept() to fail while there are descriptors, not   *)
(* connect() to fail while there is a server, not a connection to break.   *)
ServerProgress ==
    /\ \/ Select \/ Accept \/ (FreeFds = {} /\ AcceptFails)
       \/ Skip \/ ReadData \/ ReadEof \/ ReadError
    /\ UNCHANGED clientVars

ClientProgress(c) ==
    /\ \/ srv # "exited" /\ Connect(c)
       \/ srv = "exited" /\ ConnectFails(c)
       \/ Send(c) \/ SendFails(c) \/ BrokenPipe(c)
       \/ EndCycle(c) \/ Close(c)
    /\ UNCHANGED serverVars

NetProgress(s) ==
    /\ Deliver(s) \/ DeliverFin(s)
    /\ UNCHANGED <<serverVars, clientVars>>

Fairness ==
    /\ WF_vars(ServerProgress)
    /\ \A c \in Clients : WF_vars(ClientProgress(c))
    /\ \A s \in Conns : WF_vars(NetProgress(s))

FairSpec == Spec /\ Fairness

-----------------------------------------------------------------------------
TypeOK == NetTypeOK /\ ServerTypeOK /\ ClientTypeOK

(* The table entry a connection is counted in, if it has one. *)
EntryOf(e, s) == client_socket[e] # 0 /\ fdConn[client_socket[e]] = s

(* read() never blocks the server: a descriptor that the scan finds in the *)
(* set is open and has something to read now, although connections were    *)
(* accepted and closed, and descriptors reused, since select() returned.   *)
NoBlockingRead ==
    srv = "scan" /\ sd \in readfds =>
        /\ sd \in Fds
        /\ fdConn[sd] \in Conns
        /\ Readable(fdConn[sd])

(* The table cannot overflow when the process may not open more            *)
(* descriptors than it has entries, or when there are too few connections. *)
TableSuffices ==
    Cardinality(Fds) <= MAX_CLIENTS \/ Cardinality(Conns) <= MAX_CLIENTS

(* No connection is served from two entries of client_socket, and none is  *)
(* forgotten: after accept() has returned a descriptor it is in the table  *)
(* until it is closed, unless the table can overflow.                      *)
OneEntryEach ==
    \A f \in Fds : fdConn[f] # NoConn =>
        /\ \A e, x \in Entries : client_socket[e] = f /\ client_socket[x] = f => e = x
        /\ TableSuffices => \E e \in Entries : client_socket[e] = f

(* The "total %d bytes" of a connection's last line is what its client     *)
(* sent.  When the connection broke, the -1 of the failed read() has been  *)
(* added to the count as if it were a length, so the total is short.       *)
TotalIsWhatWasSent ==
    \A s \in Conns : total[s] # NoTotal =>
        IF link[s] = "reset" THEN total[s] < sent[s] ELSE total[s] = sent[s]

(* A client whose connections held has spread its messages over its        *)
(* sockets in turn, across the cycles (MessagePlan).                       *)
RoundRobin ==
    \A c \in Clients :
        (client[c] = "done" /\ \A k \in Sockets : link[<<c, k>>] = "fin") =>
            \A k \in Sockets : sent[<<c, k>>] = Share(k)

(* What RunSimulation() tells the data parser to expect: number_of_clients *)
(* * (transfer_data_bytes * num_cycles).  The totals add up to it.         *)
TotalsAddUp ==
    (\A s \in Conns : total[s] # NoTotal /\ link[s] = "fin") /\ AllStopped =>
        SumFunction(total) = Cardinality(Clients) * (BytesToTransfer * NumCycles)

(* Every connection's total is printed in the end: nobody waits for ever   *)
(* in connect(), send() or select(), whatever the sizes of the queues.     *)
EveryTotalPrinted == <>(\A s \in Conns : total[s] # NoTotal)

(* Whatever breaks, every client's process ends. *)
ClientsStop == <>AllStopped

-----------------------------------------------------------------------------
(* The inductive invariant behind NoBlockingRead and TotalIsWhatWasSent.   *)

(* While the server runs, the table, the descriptors and the connections   *)
(* are in step: one descriptor for a connection, one entry for a           *)
(* descriptor, none of them closed, nothing counted in a free entry.       *)
TableInv ==
    /\ \A f, g \in Fds : fdConn[f] # NoConn /\ fdConn[f] = fdConn[g] => f = g
    /\ srv # "exited" =>
         \A e \in Entries :
            /\ client_socket[e] # 0 => fdConn[client_socket[e]] # NoConn
            /\ client_socket[e] = 0 => client_reads[e] = 0
            /\ \A x \in Entries :
                  client_socket[e] # 0 /\ client_socket[e] = client_socket[x] => e = x

(* A connection is first unconnected, then in the queue, then accepted,    *)
(* and none of these twice; a total is only printed after that.            *)
QueueInv ==
    /\ \A k, n \in DOMAIN backlog : backlog[k] = backlog[n] => k = n
    /\ \A k \in DOMAIN backlog :
            /\ link[backlog[k]] # "none"
            /\ total[backlog[k]] = NoTotal
            /\ \A f \in Fds : fdConn[f] # backlog[k]
    /\ \A f \in Fds : fdConn[f] # NoConn =>
            link[fdConn[f]] # "none" /\ total[fdConn[f]] = NoTotal
    /\ \A c \in Clients : client[c] = "connect" =>
            \A k \in Sockets : k >= current_socket[c] => link[<<c, k>>] = "none"

(* What select() answered is still true of the entries the scan has not    *)
(* reached: nobody but the server takes bytes out of a connection, and a   *)
(* descriptor that accept() returns was closed when select() answered.     *)
SelectInv ==
    /\ srv \in {"select", "accept"} => at = 0
    /\ srv = "accept" =>
            /\ backlog # <<>>
            /\ \A f \in Fds : f \in readfds => fdConn[f] # NoConn
    /\ srv \in {"accept", "scan"} =>
            \A e \in Entries : e >= at /\ client_socket[e] \in readfds =>
                Readable(fdConn[client_socket[e]])

(* Bytes are conserved: of a connection that holds, what was sent and is   *)
(* not counted is in the receive buffer or on its way; of a broken one     *)
(* some may be lost, and a failed read() has taken one off the count.      *)
Conserved(s, counted) ==
    IF link[s] = "reset"
    THEN counted + unread[s] + (IF rx[s] = "eof" THEN 1 ELSE 0) <= sent[s]
    ELSE counted + unread[s] + wire[s] = sent[s]

StreamInv(s) ==
    /\ rx[s] = "err" => link[s] = "reset"
    /\ rx[s] = "eof" /\ link[s] # "reset" => link[s] = "fin" /\ wire[s] = 0
    /\ link[s] = "reset" => wire[s] = 0 /\ rx[s] # "more"
    /\ link[s] = "none" => Conserved(s, 0) /\ rx[s] = "more"

CountInv ==
    srv # "exited" =>
        /\ \A s \in Conns : StreamInv(s)
        /\ \A k \in DOMAIN backlog : Conserved(backlog[k], 0)
        /\ \A e \in Entries : client_socket[e] # 0 =>
                Conserved(fdConn[client_socket[e]], client_reads[e])

(* A total is only printed of a connection that has ended. *)
TotalInv ==
    \A s \in Conns : total[s] # NoTotal => link[s] \in {"fin", "reset"}

IInv == /\ TypeOK /\ TableInv /\ QueueInv /\ SelectInv /\ CountInv
        /\ TotalInv /\ TotalIsWhatWasSent

(* The inductive invariant behind RoundRobin: with i messages of its cycle *)
(* behind it a client is at message n of its plan, and each of its sockets *)
(* that holds has its share of the n messages.                             *)
InTurn(c, i) ==
    LET n == current_cycle[c] * PerCycle + i
    IN  /\ IF current_cycle[c] < NumCycles
           THEN position[c] = IF i < PerCycle THEN i * Payload ELSE BytesToTransfer
           ELSE i = 0
        /\ client[c] = "connect" => current_cycle[c] = 0 /\ i = 0
        /\ client[c] = "send" => current_socket[c] = n % NumSockets
        /\ \A k \in Sockets :
                link[<<c, k>>] # "reset" => sent[<<c, k>>] = ShareUpTo(k, n)

(* A client that has not come to its end has a socket to show for it. *)
Cycling(c) ==
    /\ client[c] = "send" => current_cycle[c] < NumCycles
    /\ client[c] \in {"close", "done"} => current_cycle[c] = NumCycles
    /\ client[c] = "failed" => \E k \in Sockets : link[<<c, k>>] = "none"
    /\ client[c] = "killed" => \E k \in Sockets : link[<<c, k>>] = "reset"

ClientPlan(c) == Cycling(c) /\ \E i \in 0 .. PerCycle : InTurn(c, i)
PlanInv == \A c \in Clients : ClientPlan(c)

(* The one behind TotalsAddUp: as long as every connection holds, the      *)
(* kernel has all bytes that the clients are done with.                    *)
Handed(c) ==
    IF current_cycle[c] < NumCycles
    THEN current_cycle[c] * BytesToTransfer + position[c] ELSE NumCycles * BytesToTransfer

SumInv ==
    (\A s \in Conns : link[s] # "reset") =>
        SumFunction(sent) = SumFunction([c \in Clients |-> Handed(c)])

(* The one behind CountSpec: nothing fails. *)
Intact == srv # "exited" /\ \A s \in Conns : link[s] # "reset"

-----------------------------------------------------------------------------
(* The bytes the server has counted for a connection. *)
Counted(s) ==
    IF total[s] # NoTotal THEN total[s]
    ELSE IF \E e \in Entries : EntryOf(e, s)
         THEN client_reads[CHOOSE e \in Entries : EntryOf(e, s)]
         ELSE 0

(* Without faults and with room for every connection, the test is an exact *)
(* count of what was offered.                                              *)
Count == INSTANCE ByteCount WITH
    offered  <- sent,
    ended    <- [s \in Conns |-> link[s] = "fin"],
    counted  <- [s \in Conns |-> Counted(s)],
    reported <- [s \in Conns |-> total[s] # NoTotal]

CountSpec == Count!Spec
=============================================================================
