------------------------- MODULE TcpTransferProofs -------------------------
(***************************************************************************)
(* Proofs about TcpTransfer, for every number of clients, sockets, cycles  *)
(* and bytes and every size of the queues and tables.  IInv is preserved   *)
(* by every step (one lemma per action, StepIInv puts them together), and  *)
(* the type invariant, NoBlockingRead and TotalIsWhatWasSent follow from   *)
(* it.  OneEntryEach is inductive relative to IInv; its last conjunct      *)
(* rests on the pigeonhole principle (FreeEntry).  PlanInv gives           *)
(* RoundRobin, and with SumInv TotalsAddUp.  The last part shows that the  *)
(* test implements ByteCount when nothing fails.                           *)
(***************************************************************************)
EXTENDS TcpTransfer, FiniteSums

(* A used entry of client_socket holds an open descriptor.                 *)
LEMMA EntryOpen ==
    ASSUME TypeOK, TableInv, srv # "exited", NEW e \in Entries, client_socket[e] # 0
    PROVE  /\ client_socket[e] \in Fds
           /\ fdConn[client_socket[e]] \in Conns
  BY DEF TypeOK, ServerTypeOK, TableInv

(* No free entry is in the set select() left: 0 is never put into it.      *)
LEMMA SetEntry ==
    ASSUME TypeOK, NEW e \in Entries, client_socket[e] \in readfds
    PROVE  client_socket[e] # 0 /\ client_socket[e] \in Fds
  BY DEF TypeOK, ServerTypeOK, Fds, master_socket

(* A step of a client or of the network that takes nothing out of a        *)
(* receive buffer leaves select()'s answer true.                           *)
LEMMA NetKeepsSelectInv ==
    ASSUME TypeOK, TableInv, SelectInv, UNCHANGED <<serverVars, backlog>>,
           \A s \in Conns : Readable(s) => Readable(s)'
    PROVE  SelectInv'
<1>1. ASSUME srv \in {"accept", "scan"}, NEW e \in Entries, e >= at,
             client_socket[e] \in readfds
      PROVE  Readable(fdConn[client_socket[e]])'
  BY <1>1, EntryOpen, SetEntry DEF SelectInv, serverVars
<1> QED BY <1>1 DEF SelectInv, serverVars

(* A step of a client or of the network that conserves the bytes of every  *)
(* connection keeps the server's counts right.                             *)
LEMMA NetKeepsCountInv ==
    ASSUME TypeOK, TableInv, CountInv, UNCHANGED <<serverVars, backlog>>,
           \A s \in Conns : StreamInv(s)',
           \A s \in Conns, n \in Int : Conserved(s, n) => Conserved(s, n)'
    PROVE  CountInv'
<1> SUFFICES ASSUME srv # "exited" PROVE CountInv'
  BY DEF CountInv, serverVars
<1>1. ASSUME NEW k \in DOMAIN backlog PROVE Conserved(backlog[k], 0)'
  BY DEF CountInv, serverVars, TypeOK, NetTypeOK
<1>2. ASSUME NEW e \in Entries, client_socket[e] # 0
      PROVE  Conserved(fdConn[client_socket[e]], client_reads[e])'
  BY <1>2, EntryOpen DEF CountInv, serverVars, TypeOK, ServerTypeOK
<1> QED BY <1>1, <1>2 DEF CountInv, serverVars

(* Bytes arrive at the server.                                             *)
LEMMA DeliverKeeps ==
    ASSUME IInv, NEW s \in Conns, Deliver(s), UNCHANGED <<serverVars, clientVars>>
    PROVE  IInv'
<1> USE DEF Deliver, serverVars, clientVars
<1>0. PICK n \in 1 .. wire[s] :
            /\ wire' = [wire EXCEPT ![s] = @ - n]
            /\ unread' = [unread EXCEPT ![s] = @ + n]
  OBVIOUS
<1>t. TypeOK BY DEF IInv
<1>1. TypeOK'
  <2>1. NetTypeOK' BY <1>0, <1>t DEF TypeOK, NetTypeOK
  <2>2. ServerTypeOK' BY <1>t DEF TypeOK, ServerTypeOK
  <2>3. ClientTypeOK' BY <1>t DEF TypeOK, ClientTypeOK
  <2> QED BY <2>1, <2>2, <2>3 DEF TypeOK
<1>2. TableInv' BY DEF IInv, TableInv
<1>3. QueueInv' BY DEF IInv, QueueInv
<1>4. SelectInv' 
  <2>1. \A x \in Conns : Readable(x) => Readable(x)'
    BY <1>0, <1>t DEF Readable, TypeOK, NetTypeOK
  <2> QED BY <2>1, NetKeepsSelectInv DEF IInv
<1>5. CountInv'
  <2> SUFFICES ASSUME srv # "exited" PROVE CountInv'
    BY DEF CountInv
  <2>1. \A x \in Conns : StreamInv(x)'
    BY <1>0, <1>t DEF StreamInv, Conserved, TypeOK, NetTypeOK, IInv, CountInv
  <2>2. \A x \in Conns, m \in Int : Conserved(x, m) => Conserved(x, m)'
    BY <1>0, <1>t DEF Conserved, TypeOK, NetTypeOK, IInv, CountInv, StreamInv
  <2> QED BY <2>1, <2>2, NetKeepsCountInv DEF IInv
<1>6. TotalInv' BY DEF IInv, TotalInv
<1>7. TotalIsWhatWasSent' BY DEF IInv, TotalIsWhatWasSent
<1> QED BY <1>1, <1>2, <1>3, <1>4, <1>5, <1>6, <1>7 DEF IInv

(* The end of a stream arrives at the server.                              *)
LEMMA DeliverFinKeeps ==
    ASSUME IInv, NEW s \in Conns, DeliverFin(s), UNCHANGED <<serverVars, clientVars>>
    PROVE  IInv'
<1> USE DEF DeliverFin, serverVars, clientVars
<1>t. TypeOK BY DEF IInv
<1>1. TypeOK'
  <2>1. NetTypeOK' BY <1>t DEF TypeOK, NetTypeOK
  <2>2. ServerTypeOK' BY <1>t DEF TypeOK, ServerTypeOK
  <2>3. ClientTypeOK' BY <1>t DEF TypeOK, ClientTypeOK
  <2> QED BY <2>1, <2>2, <2>3 DEF TypeOK
<1>2. TableInv' BY DEF IInv, TableInv
<1>3. QueueInv' BY DEF IInv, QueueInv
<1>4. SelectInv'
  <2>1. \A x \in Conns : Readable(x) => Readable(x)'
    BY <1>t DEF Readable, TypeOK, NetTypeOK
  <2> QED BY <2>1, NetKeepsSelectInv DEF IInv
<1>5. CountInv'
  <2> SUFFICES ASSUME srv # "exited" PROVE CountInv'
    BY DEF CountInv
  <2>1. \A x \in Conns : StreamInv(x)'
    BY <1>t DEF StreamInv, Conserved, TypeOK, NetTypeOK, IInv, CountInv
  <2>2. \A x \in Conns, m \in Int : Conserved(x, m) => Conserved(x, m)'
    BY <1>t DEF Conserved, TypeOK, NetTypeOK
  <2> QED BY <2>1, <2>2, NetKeepsCountInv DEF IInv
<1>6. TotalInv' BY DEF IInv, TotalInv
<1>7. TotalIsWhatWasSent' BY DEF IInv, TotalIsWhatWasSent
<1> QED BY <1>1, <1>2, <1>3, <1>4, <1>5, <1>6, <1>7 DEF IInv

(* A connection breaks and loses the bytes on their way.                   *)
LEMMA BreakKeeps ==
    ASSUME IInv, NEW s \in Conns, Break(s), UNCHANGED <<serverVars, clientVars>>
    PROVE  IInv'
<1> USE DEF Break, serverVars, clientVars
<1>t. TypeOK BY DEF IInv
<1>l. /\ link[s] = "up" /\ link'[s] = "reset"
      /\ \A x \in Conns \ {s} : link'[x] = link[x]
  BY <1>t DEF TypeOK, NetTypeOK
<1>1. TypeOK'
  <2>1. NetTypeOK' BY <1>t DEF TypeOK, NetTypeOK
  <2>2. ServerTypeOK' BY <1>t DEF TypeOK, ServerTypeOK
  <2>3. ClientTypeOK' BY <1>t DEF TypeOK, ClientTypeOK
  <2> QED BY <2>1, <2>2, <2>3 DEF TypeOK
<1>2. TableInv' BY DEF IInv, TableInv
<1>3. QueueInv' BY <1>l, <1>t DEF IInv, QueueInv, TypeOK, NetTypeOK, ServerTypeOK, Conns
<1>4. SelectInv'
  <2>1. \A x \in Conns : Readable(x) => Readable(x)'
    BY <1>t DEF Readable, TypeOK, NetTypeOK
  <2> QED BY <2>1, NetKeepsSelectInv DEF IInv
<1>5. CountInv'
  <2> SUFFICES ASSUME srv # "exited" PROVE CountInv'
    BY DEF CountInv
  <2>1. \A x \in Conns : StreamInv(x)'
    BY <1>t DEF StreamInv, Conserved, TypeOK, NetTypeOK, IInv, CountInv
  <2>2. \A x \in Conns, m \in Int : Conserved(x, m) => Conserved(x, m)'
    BY <1>t DEF Conserved, TypeOK, NetTypeOK
  <2> QED BY <2>1, <2>2, NetKeepsCountInv DEF IInv
<1>6. TotalInv' BY <1>l DEF IInv, TotalInv
<1>7. TotalIsWhatWasSent' BY <1>l DEF IInv, TotalIsWhatWasSent, TotalInv
<1> QED BY <1>1, <1>2, <1>3, <1>4, <1>5, <1>6, <1>7 DEF IInv

(* What the steps of a client that at most end its connections have in     *)
(* common: exit(), SIGPIPE, close(), a failed send(), the end of a cycle.  *)
LEMMA LocalStepKeeps ==
    ASSUME IInv, NetTypeOK', UNCHANGED <<serverVars, sent, wire, unread, rx, backlog>>,
           \A s \in Conns : \/ link'[s] = link[s]
                            \/ link[s] = "up" /\ link'[s] = "fin",
           \A c \in Clients : client'[c] = "connect" =>
                client[c] = "connect" /\ current_socket'[c] = current_socket[c]
    PROVE  /\ TableInv' /\ QueueInv' /\ SelectInv' /\ CountInv'
           /\ TotalInv' /\ TotalIsWhatWasSent'
<1> USE DEF serverVars
<1>t. TypeOK BY DEF IInv
<1>2. TableInv' BY DEF IInv, TableInv
<1>3. QueueInv'
  <2>1. \A s \in Conns : link'[s] = "none" <=> link[s] = "none"
    OBVIOUS
  <2>2. ASSUME NEW k \in DOMAIN backlog PROVE link'[backlog[k]] # "none"
    BY <2>1, <1>t DEF IInv, QueueInv, TypeOK, NetTypeOK
  <2>3. ASSUME NEW f \in Fds, fdConn[f] # NoConn PROVE link'[fdConn[f]] # "none"
    BY <2>1, <2>3, <1>t DEF IInv, QueueInv, TypeOK, ServerTypeOK
  <2>4. ASSUME NEW c \in Clients, client'[c] = "connect",
               NEW k \in Sockets, k >= current_socket[c]
        PROVE  link'[<<c, k>>] = "none"
    BY <2>1, <2>4 DEF IInv, QueueInv, Conns
  <2> QED BY <2>2, <2>3, <2>4 DEF IInv, QueueInv
<1>4. SelectInv'
  <2>1. \A x \in Conns : Readable(x) => Readable(x)'
    BY <1>t DEF Readable, TypeOK, NetTypeOK
  <2> QED BY <2>1, NetKeepsSelectInv DEF IInv
<1>5. CountInv'
  <2> SUFFICES ASSUME srv # "exited" PROVE CountInv'
    BY DEF CountInv
  <2>1. \A x \in Conns : StreamInv(x)'
    BY <1>t DEF StreamInv, Conserved, TypeOK, NetTypeOK, IInv, CountInv
  <2>2. \A x \in Conns, m \in Int : Conserved(x, m) => Conserved(x, m)'
    BY <1>t DEF Conserved, TypeOK, NetTypeOK
  <2> QED BY <2>1, <2>2, NetKeepsCountInv DEF IInv
<1>6. TotalInv' BY DEF IInv, TotalInv
<1>7. TotalIsWhatWasSent' BY DEF IInv, TotalIsWhatWasSent, TotalInv
<1> QED BY <1>2, <1>3, <1>4, <1>5, <1>6, <1>7

(* connect() fails and the client exits.                                   *)
LEMMA ConnectFailsKeeps ==
    ASSUME IInv, NEW c \in Clients, ConnectFails(c), UNCHANGED serverVars
    PROVE  IInv'
<1> USE DEF ConnectFails, Closing
<1>t. TypeOK BY DEF IInv
<1>1. NetTypeOK' BY <1>t DEF TypeOK, NetTypeOK
<1>2. ServerTypeOK' BY <1>t DEF TypeOK, ServerTypeOK, serverVars
<1>3. ClientTypeOK' BY <1>t DEF TypeOK, ClientTypeOK, Running, Stopped
<1>4. \A d \in Clients : client'[d] = "connect" =>
            client[d] = "connect" /\ current_socket'[d] = current_socket[d]
  BY <1>t DEF TypeOK, ClientTypeOK
<1> QED BY <1>1, <1>2, <1>3, <1>4, LocalStepKeeps DEF IInv, TypeOK

(* The client is killed by SIGPIPE.                                        *)
LEMMA BrokenPipeKeeps ==
    ASSUME IInv, NEW c \in Clients, BrokenPipe(c), UNCHANGED serverVars
    PROVE  IInv'
<1> USE DEF BrokenPipe, Closing
<1>t. TypeOK BY DEF IInv
<1>1. NetTypeOK' BY <1>t DEF TypeOK, NetTypeOK
<1>2. ServerTypeOK' BY <1>t DEF TypeOK, ServerTypeOK, serverVars
<1>3. ClientTypeOK' BY <1>t DEF TypeOK, ClientTypeOK, Running, Stopped
<1>4. \A d \in Clients : client'[d] = "connect" =>
            client[d] = "connect" /\ current_socket'[d] = current_socket[d]
  BY <1>t DEF TypeOK, ClientTypeOK
<1> QED BY <1>1, <1>2, <1>3, <1>4, LocalStepKeeps DEF IInv, TypeOK

(* The client closes its next socket.                                      *)
LEMMA CloseKeeps ==
    ASSUME IInv, NEW c \in Clients, Close(c), UNCHANGED serverVars
    PROVE  IInv'
<1> USE DEF Close, Sockets
<1>t. TypeOK BY DEF IInv
<1>1. NetTypeOK' BY <1>t DEF TypeOK, NetTypeOK
<1>2. ServerTypeOK' BY <1>t DEF TypeOK, ServerTypeOK, serverVars
<1>3. ClientTypeOK' 
  BY <1>t, NumSocketsAssumption DEF TypeOK, ClientTypeOK, Running, Stopped
<1>4. \A d \in Clients : client'[d] = "connect" =>
            client[d] = "connect" /\ current_socket'[d] = current_socket[d]
  BY <1>t DEF TypeOK, ClientTypeOK
<1>5. \A x \in Conns : link'[x] = link[x] \/ (link[x] = "up" /\ link'[x] = "fin")
  <2> SUFFICES ASSUME NEW x \in Conns
               PROVE  link'[x] = link[x] \/ (link[x] = "up" /\ link'[x] = "fin")
    OBVIOUS
  <2>1. link \in [Conns -> {"none", "up", "fin", "reset"}]
    BY <1>t DEF TypeOK, NetTypeOK
  <2>2. CASE x = <<c, current_socket[c]>> BY <2>1, <2>2
  <2>3. CASE x # <<c, current_socket[c]>> BY <2>1, <2>3
  <2> QED BY <2>2, <2>3
<1> QED BY <1>1, <1>2, <1>3, <1>4, <1>5, LocalStepKeeps DEF IInv, TypeOK

(* A message is not empty, not longer than the text and fits the payload.  *)
LEMMA MessageSizeType ==
    ASSUME TypeOK, NEW c \in Clients
    PROVE  /\ MessageSize(c) \in 0 .. Payload
           /\ position[c] + MessageSize(c) \in 0 .. BytesToTransfer
           /\ HasMessage(c) => MessageSize(c) > 0
  BY PayloadAssumption, BytesAssumption
     DEF TypeOK, ClientTypeOK, MessageSize, HasMessage

(* (current_socket + 1) % num_sockets is the number of a socket.           *)
LEMMA NextSocket ==
    ASSUME NEW k \in Sockets
    PROVE  (k + 1) % NumSockets \in Sockets
<1>1. \A m \in Nat \ {0}, x \in Nat : x % m \in 0 .. (m - 1)
  OBVIOUS
<1> QED BY <1>1, NumSocketsAssumption DEF Sockets

(* The sending loop keeps its position and its socket in range.            *)
LEMMA AdvanceType ==
    ASSUME TypeOK, NEW c \in Clients, Advance(c)
    PROVE  /\ position' \in [Clients -> 0 .. BytesToTransfer]
           /\ current_socket' \in [Clients -> Sockets]
           /\ current_cycle' \in [Clients -> 0 .. NumCycles]
  BY MessageSizeType, NextSocket DEF TypeOK, ClientTypeOK, Advance

(* send() fails and the message is skipped.                                *)
LEMMA SendFailsKeeps ==
    ASSUME IInv, NEW c \in Clients, SendFails(c), UNCHANGED serverVars
    PROVE  IInv'
<1> USE DEF SendFails, netVars
<1>t. TypeOK BY DEF IInv
<1>1. NetTypeOK' BY <1>t DEF TypeOK, NetTypeOK
<1>2. ServerTypeOK' BY <1>t DEF TypeOK, ServerTypeOK, serverVars
<1>3. ClientTypeOK' BY <1>t, AdvanceType DEF TypeOK, ClientTypeOK
<1>4. \A d \in Clients : client'[d] = "connect" =>
            client[d] = "connect" /\ current_socket'[d] = current_socket[d]
  BY <1>t DEF TypeOK, ClientTypeOK, HasMessage, Advance
<1> QED BY <1>1, <1>2, <1>3, <1>4, LocalStepKeeps DEF IInv, TypeOK

(* fill() returned 0 and the next cycle starts.                            *)
LEMMA EndCycleKeeps ==
    ASSUME IInv, NEW c \in Clients, EndCycle(c), UNCHANGED serverVars
    PROVE  IInv'
<1> USE DEF EndCycle, netVars
<1>t. TypeOK BY DEF IInv
<1>1. NetTypeOK' BY <1>t DEF TypeOK, NetTypeOK
<1>2. ServerTypeOK' BY <1>t DEF TypeOK, ServerTypeOK, serverVars
<1>3. ClientTypeOK'
  BY <1>t, NumSocketsAssumption, NumCyclesAssumption, BytesAssumption
     DEF TypeOK, ClientTypeOK, Running, Stopped, Sockets
<1>4. \A d \in Clients : client'[d] = "connect" =>
            client[d] = "connect" /\ current_socket'[d] = current_socket[d]
  BY <1>t DEF TypeOK, ClientTypeOK
<1> QED BY <1>1, <1>2, <1>3, <1>4, LocalStepKeeps DEF IInv, TypeOK

(* send() puts a message on the wire.                                      *)
LEMMA SendKeeps ==
    ASSUME IInv, NEW c \in Clients, Send(c), UNCHANGED serverVars
    PROVE  IInv'
<1>t. TypeOK BY DEF IInv
<1>s. PICK s \in Conns : s = <<c, current_socket[c]>>
  BY <1>t DEF TypeOK, ClientTypeOK, Conns
<1>m. PICK m \in Nat : m = MessageSize(c)
  BY <1>t, MessageSizeType, PayloadAssumption
<1>a. /\ link[s] = "up"
      /\ sent' = [sent EXCEPT ![s] = @ + m]
      /\ wire' = [wire EXCEPT ![s] = @ + m]
      /\ UNCHANGED <<client, link, unread, rx, backlog, serverVars>>
      /\ client[c] = "send"
      /\ Advance(c)
  BY <1>s, <1>m DEF Send, HasMessage
<1>1. TypeOK'
  <2>1. NetTypeOK' BY <1>t, <1>s, <1>m, <1>a DEF TypeOK, NetTypeOK
  <2>2. ServerTypeOK' BY <1>t, <1>a DEF TypeOK, ServerTypeOK, serverVars
  <2>3. ClientTypeOK' BY <1>t, <1>a, AdvanceType DEF TypeOK, ClientTypeOK
  <2> QED BY <2>1, <2>2, <2>3 DEF TypeOK
<1>2. TableInv' BY <1>a DEF IInv, TableInv, serverVars
<1>3. QueueInv'
  <2>1. \A d \in Clients : client'[d] = "connect" =>
            client[d] = "connect" /\ current_socket'[d] = current_socket[d]
    BY <1>t, <1>a DEF TypeOK, ClientTypeOK, Advance
  <2> QED BY <2>1, <1>a DEF IInv, QueueInv, serverVars
<1>4. SelectInv'
  <2>1. \A x \in Conns : Readable(x) => Readable(x)'
    BY <1>a DEF Readable
  <2> QED BY <2>1, <1>a, NetKeepsSelectInv DEF IInv
<1>5. CountInv'
  <2> SUFFICES ASSUME srv # "exited" PROVE CountInv'
    BY <1>a DEF CountInv, serverVars
  <2>1. \A x \in Conns : StreamInv(x)'
    BY <1>t, <1>a, <1>s, <1>m DEF StreamInv, Conserved, TypeOK, NetTypeOK, IInv, CountInv
  <2>2. ASSUME NEW x \in Conns, NEW n \in Int, Conserved(x, n)
        PROVE  Conserved(x, n)'
    <3>1. CASE x = s
      BY <3>1, <2>2, <1>t, <1>a, <1>s, <1>m DEF Conserved, TypeOK, NetTypeOK
    <3>2. CASE x # s
      BY <3>2, <2>2, <1>t, <1>a, <1>s DEF Conserved, TypeOK, NetTypeOK
    <3> QED BY <3>1, <3>2
  <2> QED BY <2>1, <2>2, <1>a, NetKeepsCountInv DEF IInv
<1>6. TotalInv' BY <1>a DEF IInv, TotalInv, serverVars
<1>7. TotalIsWhatWasSent'
  BY <1>a, <1>t DEF IInv, TotalIsWhatWasSent, TotalInv, serverVars, TypeOK, NetTypeOK
<1> QED BY <1>1, <1>2, <1>3, <1>4, <1>5, <1>6, <1>7 DEF IInv

(* A new connection enters the listen queue; it has not been there         *)
(* before.                                                                 *)
LEMMA ConnectKeeps ==
    ASSUME IInv, NEW c \in Clients, srv # "exited", Connect(c), UNCHANGED serverVars
    PROVE  IInv'
<1>t. TypeOK BY DEF IInv
<1>s. PICK s \in Conns : s = <<c, current_socket[c]>>
  BY <1>t DEF TypeOK, ClientTypeOK, Conns
<1>a. /\ client[c] = "connect"
      /\ link' = [link EXCEPT ![s] = "up"]
      /\ backlog' = Append(backlog, s)
      /\ UNCHANGED <<sent, wire, unread, rx, serverVars>>
  BY <1>s DEF Connect
<1>n. link[s] = "none"
  BY <1>a, <1>s, <1>t DEF IInv, QueueInv, TypeOK, ClientTypeOK, Sockets
<1>b. /\ DOMAIN backlog' = 1 .. (Len(backlog) + 1)
      /\ DOMAIN backlog = 1 .. Len(backlog)
      /\ Len(backlog) \in Nat
      /\ \A k \in DOMAIN backlog' : backlog'[k] = IF k = Len(backlog) + 1 THEN s ELSE backlog[k]
  BY <1>a, <1>s, <1>t DEF TypeOK, NetTypeOK
<1>l. \A x \in Conns : link'[x] = IF x = s THEN "up" ELSE link[x]
  BY <1>a, <1>t DEF TypeOK, NetTypeOK
<1>k. current_socket[c] \in 0 .. (NumSockets - 1) /\ NumSockets \in Nat \ {0}
  BY <1>t, NumSocketsAssumption DEF TypeOK, ClientTypeOK, Sockets
<1>c. \A d \in Clients : client'[d] = "connect" =>
            /\ client[d] = "connect"
            /\ current_socket'[d] = IF d = c THEN current_socket[c] + 1 ELSE current_socket[d]
  <2>1. CASE current_socket[c] + 1 < NumSockets
    BY <2>1, <1>k, <1>t DEF Connect, TypeOK, ClientTypeOK
  <2>2. CASE current_socket[c] + 1 = NumSockets
    BY <2>2, <1>k, <1>t DEF Connect, TypeOK, ClientTypeOK
  <2> QED BY <2>1, <2>2, <1>k
<1>p. ClientTypeOK'
  <2>1. CASE current_socket[c] + 1 < NumSockets
    BY <2>1, <1>k, <1>t DEF Connect, TypeOK, ClientTypeOK, Sockets
  <2>2. CASE current_socket[c] + 1 = NumSockets
    <3>1. client' \in [Clients -> Running \cup Stopped]
      BY <2>2, <1>k, <1>t DEF Connect, TypeOK, ClientTypeOK, Running
    <3>2. current_socket' \in [Clients -> Sockets]
      BY <2>2, <1>k, <1>t DEF Connect, TypeOK, ClientTypeOK, Sockets
    <3> QED BY <3>1, <3>2, <1>t DEF Connect, TypeOK, ClientTypeOK
  <2> QED BY <2>1, <2>2, <1>k
<1>1. TypeOK'
  <2>1. NetTypeOK' BY <1>t, <1>a, <1>s DEF TypeOK, NetTypeOK
  <2>2. ServerTypeOK' BY <1>t, <1>a DEF TypeOK, ServerTypeOK, serverVars
  <2> QED BY <2>1, <2>2, <1>p DEF TypeOK
<1>2. TableInv' BY <1>a DEF IInv, TableInv, serverVars
<1>d. \A k \in DOMAIN backlog : backlog[k] \in Conns /\ backlog[k] # s
  <2>1. \A k \in DOMAIN backlog : backlog[k] \in Conns
    BY <1>t DEF TypeOK, NetTypeOK
  <2>2. \A k \in DOMAIN backlog : link[backlog[k]] # "none"
    BY DEF IInv, QueueInv
  <2> QED BY <2>1, <2>2, <1>n
<1>f. \A f \in Fds : fdConn[f] # s
  BY <1>n, <1>s, NoConnAssumption DEF IInv, QueueInv
<1>q. \A k \in DOMAIN backlog' : \/ k = Len(backlog) + 1 /\ backlog'[k] = s
                                 \/ k \in DOMAIN backlog /\ backlog'[k] = backlog[k]
  BY <1>b
<1>3. QueueInv'
  <2>1. ASSUME NEW k \in DOMAIN backlog', NEW n \in DOMAIN backlog', backlog'[k] = backlog'[n]
        PROVE  k = n
    BY <1>q, <1>d, <2>1 DEF IInv, QueueInv
  <2>2. ASSUME NEW k \in DOMAIN backlog'
        PROVE  /\ link'[backlog'[k]] # "none"
               /\ total'[backlog'[k]] = NoTotal
               /\ \A f \in Fds : fdConn'[f] # backlog'[k]
    <3>1. CASE backlog'[k] = s
      BY <3>1, <1>l, <1>s, <1>n, <1>f, <1>a DEF IInv, TotalInv, serverVars
    <3>2. CASE k \in DOMAIN backlog /\ backlog'[k] = backlog[k]
      BY <3>2, <1>l, <1>d, <1>a DEF IInv, QueueInv, serverVars
    <3> QED BY <3>1, <3>2, <1>q
  <2>3. ASSUME NEW f \in Fds, fdConn[f] # NoConn
        PROVE  link'[fdConn[f]] # "none" /\ total[fdConn[f]] = NoTotal
    BY <2>3, <1>l, <1>t DEF IInv, QueueInv, TypeOK, ServerTypeOK
  <2>4. ASSUME NEW d \in Clients, client'[d] = "connect",
               NEW k \in Sockets, k >= current_socket'[d]
        PROVE  link'[<<d, k>>] = "none"
    <3>1. <<d, k>> \in Conns BY DEF Conns
    <3>2. <<d, k>> # s /\ k >= current_socket[d]
      BY <2>4, <1>s, <1>k, <1>c, <1>t DEF TypeOK, ClientTypeOK, Sockets
    <3> QED BY <3>1, <3>2, <2>4, <1>c, <1>l DEF IInv, QueueInv
  <2> QED BY <2>1, <2>2, <2>3, <2>4, <1>a DEF QueueInv, serverVars
<1>4. SelectInv'
  <2>1. ASSUME srv \in {"accept", "scan"}, NEW e \in Entries, e >= at,
               client_socket[e] \in readfds
        PROVE  Readable(fdConn[client_socket[e]])'
    BY <2>1, <1>a DEF IInv, SelectInv, Readable, serverVars
  <2>2. backlog' # <<>> BY <1>b
  <2> QED BY <2>1, <2>2, <1>a DEF IInv, SelectInv, serverVars
<1>5. CountInv'
  <2>1. \A x \in Conns : StreamInv(x)'
    BY <1>a, <1>l, <1>n DEF StreamInv, Conserved, IInv, CountInv
  <2>2. \A x \in Conns, n \in Int : Conserved(x, n) => Conserved(x, n)'
    BY <1>a, <1>l, <1>n DEF Conserved
  <2>3. Conserved(s, 0)' BY <2>2, <1>n, <1>s DEF IInv, CountInv, StreamInv
  <2>4. ASSUME NEW k \in DOMAIN backlog' PROVE Conserved(backlog[k], 0)'
    BY <2>2, <2>3, <1>q, <1>d DEF IInv, CountInv
  <2>5. ASSUME NEW e \in Entries, client_socket[e] # 0
        PROVE  Conserved(fdConn[client_socket[e]], client_reads[e])'
    BY <2>2, <2>5, <1>a, EntryOpen DEF IInv, CountInv, serverVars, TypeOK, ServerTypeOK
  <2> QED BY <2>1, <2>4, <2>5, <1>a DEF CountInv, serverVars
<1>6. TotalInv' BY <1>a, <1>l, <1>n DEF IInv, TotalInv, serverVars
<1>7. TotalIsWhatWasSent'
  BY <1>a, <1>l, <1>n DEF IInv, TotalIsWhatWasSent, TotalInv, serverVars
<1> QED BY <1>1, <1>2, <1>3, <1>4, <1>5, <1>6, <1>7 DEF IInv

(* select() answers with descriptors of the table that are ready.          *)
LEMMA SelectKeeps ==
    ASSUME IInv, Select, UNCHANGED clientVars
    PROVE  IInv'
<1> USE DEF Select, netVars, clientVars
<1>t. TypeOK BY DEF IInv
<1>w. /\ ReadySet \subseteq {master_socket} \cup Fds
      /\ \A e \in Entries : client_socket[e] \in ReadySet => Readable(fdConn[client_socket[e]])
      /\ \A f \in Fds : f \in ReadySet => fdConn[f] # NoConn
      /\ master_socket \in ReadySet => backlog # <<>>
  <2>1. \A f \in Fds : f # master_socket BY DEF Fds, master_socket
  <2>2. ReadySet \subseteq {master_socket} \cup Fds
    BY <1>t DEF ReadySet, Watched, TypeOK, ServerTypeOK
  <2>3. ASSUME NEW e \in Entries, client_socket[e] \in ReadySet
        PROVE  Readable(fdConn[client_socket[e]])
    BY <2>1, <2>3, <1>t DEF ReadySet, Ready, TypeOK, ServerTypeOK, master_socket
  <2>4. ASSUME NEW f \in Fds, f \in ReadySet PROVE fdConn[f] # NoConn
    BY <2>1, <2>4 DEF ReadySet, Watched, IInv, TableInv
  <2>5. master_socket \in ReadySet => backlog # <<>> BY DEF ReadySet, Ready
  <2> QED BY <2>2, <2>3, <2>4, <2>5
<1>1. TypeOK'
  <2>1. NetTypeOK' BY <1>t DEF TypeOK, NetTypeOK
  <2>2. ServerTypeOK' BY <1>t, <1>w DEF TypeOK, ServerTypeOK
  <2>3. ClientTypeOK' BY <1>t DEF TypeOK, ClientTypeOK
  <2> QED BY <2>1, <2>2, <2>3 DEF TypeOK
<1>2. TableInv' BY DEF IInv, TableInv
<1>3. QueueInv' BY DEF IInv, QueueInv
<1>4. SelectInv' BY <1>w DEF IInv, SelectInv, Readable
<1>5. CountInv' BY DEF IInv, CountInv, StreamInv, Conserved
<1>6. TotalInv' BY DEF IInv, TotalInv
<1>7. TotalIsWhatWasSent' BY DEF IInv, TotalIsWhatWasSent
<1> QED BY <1>1, <1>2, <1>3, <1>4, <1>5, <1>6, <1>7 DEF IInv

(* The server exits; nothing is claimed of its table any more.             *)
LEMMA ServerExitKeeps ==
    ASSUME IInv, ServerExit, UNCHANGED clientVars
    PROVE  IInv'
<1> USE DEF ServerExit, DropAll, clientVars
<1>t. TypeOK BY DEF IInv
<1>1. TypeOK'
  <2>1. NetTypeOK' BY <1>t DEF TypeOK, NetTypeOK
  <2>2. ServerTypeOK' BY <1>t DEF TypeOK, ServerTypeOK
  <2>3. ClientTypeOK' BY <1>t DEF TypeOK, ClientTypeOK
  <2> QED BY <2>1, <2>2, <2>3 DEF TypeOK
<1>2. TableInv' BY DEF TableInv
<1>3. QueueInv' BY DEF IInv, QueueInv, Conns
<1>4. SelectInv' BY DEF SelectInv
<1>5. CountInv' BY DEF CountInv
<1>6. TotalInv' BY DEF IInv, TotalInv
<1>7. TotalIsWhatWasSent' BY DEF IInv, TotalIsWhatWasSent, TotalInv
<1> QED BY <1>1, <1>2, <1>3, <1>4, <1>5, <1>6, <1>7 DEF IInv

(* accept() moves the oldest connection from the queue to a descriptor     *)
(* that was closed, so that it is not in the set select() left.            *)
LEMMA AcceptKeeps ==
    ASSUME IInv, Accept, UNCHANGED clientVars
    PROVE  IInv'
<1> USE DEF clientVars
<1>t. TypeOK BY DEF IInv
<1>0. backlog # <<>> /\ srv = "accept" BY DEF Accept, IInv, SelectInv
<1>s. PICK s \in Conns : s = Head(backlog) BY <1>0, <1>t DEF TypeOK, NetTypeOK
<1>f. PICK f \in Fds : /\ fdConn[f] = NoConn
                      /\ fdConn' = [fdConn EXCEPT ![f] = s]
                      /\ client_socket' = [e \in Entries |->
                            IF FirstFree(e) THEN f ELSE client_socket[e]]
  BY <1>s DEF Accept, FreeFds
<1>a. /\ backlog' = Tail(backlog)
      /\ srv' = "scan"
      /\ UNCHANGED <<at, client_reads, readfds, total, link, sent, wire, unread, rx>>
  BY DEF Accept
<1>b. /\ DOMAIN backlog = 1 .. Len(backlog)
      /\ Len(backlog) \in Nat \ {0}
      /\ DOMAIN backlog' = 1 .. (Len(backlog) - 1)
      /\ \A k \in DOMAIN backlog' : k + 1 \in DOMAIN backlog /\ backlog'[k] = backlog[k + 1]
      /\ backlog[1] = s
  BY <1>0, <1>a, <1>s, <1>t DEF TypeOK, NetTypeOK
<1>n. \A g \in Fds : fdConn[g] # s
  BY <1>b DEF IInv, QueueInv
<1>e. \A e, x \in Entries : FirstFree(e) /\ FirstFree(x) => e = x
  BY DEF FirstFree, Entries
<1>g. \A g \in Fds : fdConn'[g] = IF g = f THEN s ELSE fdConn[g]
  BY <1>f, <1>t DEF TypeOK, ServerTypeOK
<1>c. \A e \in Entries : client_socket[e] # 0 =>
            /\ client_socket[e] \in Fds
            /\ fdConn[client_socket[e]] \in Conns
            /\ client_socket[e] # f
            /\ client_socket'[e] = client_socket[e]
            /\ fdConn'[client_socket[e]] = fdConn[client_socket[e]]
  BY <1>0, <1>t, <1>f, <1>g, EntryOpen, NoConnAssumption DEF IInv, FirstFree
<1>d. \A e \in Entries : client_socket'[e] # 0 =>
            \/ client_socket'[e] = client_socket[e]
            \/ FirstFree(e) /\ client_socket'[e] = f
  BY <1>f
<1>z. f # 0 BY DEF Fds, master_socket
<1>1. TypeOK'
  <2>1. NetTypeOK' BY <1>t, <1>a, <1>0 DEF TypeOK, NetTypeOK
  <2>2. ServerTypeOK' BY <1>t, <1>a, <1>f DEF TypeOK, ServerTypeOK
  <2>3. ClientTypeOK' BY <1>t DEF TypeOK, ClientTypeOK
  <2> QED BY <2>1, <2>2, <2>3 DEF TypeOK
<1>2. TableInv'
  <2>1. ASSUME NEW g \in Fds, NEW h \in Fds, fdConn'[g] # NoConn, fdConn'[g] = fdConn'[h]
        PROVE  g = h
    BY <2>1, <1>g, <1>n DEF IInv, TableInv
  <2>2. ASSUME NEW e \in Entries
        PROVE  /\ client_socket'[e] # 0 => fdConn'[client_socket'[e]] # NoConn
               /\ client_socket'[e] = 0 => client_reads[e] = 0
    BY <1>0, <1>c, <1>d, <1>g, <1>z, NoConnAssumption DEF IInv, TableInv
  <2>3. ASSUME NEW e \in Entries, NEW x \in Entries,
               client_socket'[e] # 0, client_socket'[e] = client_socket'[x]
        PROVE  e = x
    BY <2>3, <1>0, <1>c, <1>d, <1>e DEF IInv, TableInv
  <2> QED BY <2>1, <2>2, <2>3, <1>a DEF TableInv
<1>3. QueueInv'
  <2>1. ASSUME NEW k \in DOMAIN backlog', NEW n \in DOMAIN backlog', backlog'[k] = backlog'[n]
        PROVE  k = n
    <3>1. k + 1 = n + 1 BY <2>1, <1>b DEF IInv, QueueInv
    <3> QED BY <3>1, <1>b
  <2>2. ASSUME NEW k \in DOMAIN backlog'
        PROVE  /\ link[backlog'[k]] # "none"
               /\ total[backlog'[k]] = NoTotal
               /\ \A g \in Fds : fdConn'[g] # backlog'[k]
    <3>1. k + 1 # 1 BY <1>b
    <3>2. backlog[k + 1] # s BY <3>1, <1>b DEF IInv, QueueInv
    <3> QED BY <3>2, <1>b, <1>g DEF IInv, QueueInv
  <2>3. ASSUME NEW g \in Fds, fdConn'[g] # NoConn
        PROVE  link[fdConn'[g]] # "none" /\ total[fdConn'[g]] = NoTotal
    BY <2>3, <1>g, <1>b DEF IInv, QueueInv
  <2> QED BY <2>1, <2>2, <2>3, <1>a DEF IInv, QueueInv
<1>4. SelectInv'
  <2>1. f \notin readfds BY <1>f, <1>0 DEF IInv, SelectInv
  <2>2. ASSUME NEW e \in Entries, client_socket'[e] \in readfds
        PROVE  Readable(fdConn'[client_socket'[e]])
    <3>1. /\ client_socket[e] # 0
          /\ client_socket'[e] = client_socket[e]
          /\ fdConn'[client_socket[e]] = fdConn[client_socket[e]]
          /\ e >= at
      BY <2>1, <2>2, <1>1, <1>a, <1>c, <1>d, <1>0, SetEntry
         DEF TypeOK, ServerTypeOK, Fds, master_socket, IInv, SelectInv, Entries
    <3> QED BY <3>1, <2>2, <1>0 DEF IInv, SelectInv
  <2> QED BY <2>2, <1>a DEF SelectInv, Readable
<1>5. CountInv'
  <2>1. ASSUME NEW k \in DOMAIN backlog' PROVE Conserved(backlog'[k], 0)
    BY <1>b, <1>0 DEF IInv, CountInv
  <2>2. ASSUME NEW e \in Entries, client_socket'[e] # 0
        PROVE  Conserved(fdConn'[client_socket'[e]], client_reads[e])
    <3>1. CASE client_socket[e] # 0
      BY <3>1, <1>c, <1>0 DEF IInv, CountInv
    <3>2. CASE client_socket[e] = 0
      BY <3>2, <2>2, <1>d, <1>g, <1>b, <1>0 DEF IInv, CountInv, TableInv
    <3> QED BY <3>1, <3>2
  <2> QED BY <2>1, <2>2, <1>a, <1>0 DEF IInv, CountInv, StreamInv, Conserved
<1>6. TotalInv' BY <1>a DEF IInv, TotalInv
<1>7. TotalIsWhatWasSent' BY <1>a DEF IInv, TotalIsWhatWasSent
<1> QED BY <1>1, <1>2, <1>3, <1>4, <1>5, <1>6, <1>7 DEF IInv

(* The scan moves on by one entry or ends.                                 *)
LEMMA NextEntryMoves ==
    ASSUME TypeOK, srv = "scan", NextEntry
    PROVE  /\ at' \in Entries
           /\ \/ srv' = "scan" /\ at' = at + 1
              \/ srv' = "select" /\ at' = 0
  BY MaxClientsAssumption DEF TypeOK, ServerTypeOK, NextEntry, Entries

(* The scan skips an entry that is not in the set.                         *)
LEMMA SkipKeeps ==
    ASSUME IInv, Skip, UNCHANGED clientVars
    PROVE  IInv'
<1> USE DEF Skip, netVars, clientVars
<1>t. TypeOK BY DEF IInv
<1>n. /\ at' \in Entries
      /\ \/ srv' = "scan" /\ at' = at + 1
         \/ srv' = "select" /\ at' = 0
  BY <1>t, NextEntryMoves
<1>1. TypeOK'
  <2>1. NetTypeOK' BY <1>t DEF TypeOK, NetTypeOK
  <2>2. ServerTypeOK' BY <1>t, <1>n DEF TypeOK, ServerTypeOK
  <2>3. ClientTypeOK' BY <1>t DEF TypeOK, ClientTypeOK
  <2> QED BY <2>1, <2>2, <2>3 DEF TypeOK
<1>2. TableInv' BY <1>n DEF IInv, TableInv
<1>3. QueueInv' BY DEF IInv, QueueInv
<1>4. SelectInv'
  BY <1>n, <1>t DEF IInv, SelectInv, Readable, Entries, TypeOK, ServerTypeOK
<1>5. CountInv' BY <1>n DEF IInv, CountInv, StreamInv, Conserved
<1>6. TotalInv' BY DEF IInv, TotalInv
<1>7. TotalIsWhatWasSent' BY DEF IInv, TotalIsWhatWasSent
<1> QED BY <1>1, <1>2, <1>3, <1>4, <1>5, <1>6, <1>7 DEF IInv

(* What the scan reads from is an open descriptor of the table.            *)
LEMMA ScannedEntry ==
    ASSUME IInv, srv = "scan", sd \in readfds
    PROVE  /\ at \in Entries
           /\ sd \in Fds
           /\ sd # 0
           /\ fdConn[sd] \in Conns
           /\ \A e \in Entries : client_socket[e] # 0 /\ e # at =>
                    /\ client_socket[e] \in Fds
                    /\ client_socket[e] # sd
                    /\ fdConn[client_socket[e]] \in Conns
                    /\ fdConn[client_socket[e]] # fdConn[sd]
<1>1. TypeOK BY DEF IInv
<1>2. at \in Entries BY <1>1 DEF TypeOK, ServerTypeOK
<1>3. sd # 0 /\ sd \in Fds /\ fdConn[sd] \in Conns
  BY <1>1, <1>2, SetEntry, EntryOpen DEF sd, IInv
<1>4. ASSUME NEW e \in Entries, client_socket[e] # 0, e # at
      PROVE  /\ client_socket[e] \in Fds
             /\ client_socket[e] # sd
             /\ fdConn[client_socket[e]] \in Conns
             /\ fdConn[client_socket[e]] # fdConn[sd]
  <2>1. client_socket[e] \in Fds /\ fdConn[client_socket[e]] \in Conns
    BY <1>1, <1>4, EntryOpen DEF IInv
  <2>2. client_socket[e] # sd
    BY <1>2, <1>3, <1>4 DEF IInv, TableInv, sd
  <2> QED BY <2>1, <2>2, <1>3, NoConnAssumption DEF IInv, TableInv
<1> QED BY <1>2, <1>3, <1>4

(* read() moves bytes of one connection from its buffer to its count.      *)
LEMMA ReadDataKeeps ==
    ASSUME IInv, ReadData, UNCHANGED clientVars
    PROVE  IInv'
<1> USE DEF clientVars
<1>t. TypeOK BY DEF IInv
<1>0. srv = "scan" /\ sd \in readfds BY DEF ReadData
<1>e. /\ at \in Entries
      /\ client_socket[at] = sd
      /\ sd \in Fds
      /\ sd # 0
      /\ \A e \in Entries : client_socket[e] # 0 /\ e # at =>
            fdConn[client_socket[e]] \in Conns \ {fdConn[sd]}
  BY <1>0, ScannedEntry DEF sd
<1>s. PICK s \in Conns : s = fdConn[sd] BY <1>0, ScannedEntry
<1>b. PICK b \in Nat : /\ b <= unread[s]
                      /\ unread' = [unread EXCEPT ![s] = @ - b]
                      /\ client_reads' = [client_reads EXCEPT ![at] = @ + b]
  <2> DEFINE n == IF unread[s] < BufferSize THEN unread[s] ELSE BufferSize
  <2>1. n \in Nat /\ n <= unread[s]
    BY <1>t, BufferSizeAssumption DEF TypeOK, NetTypeOK
  <2>2. /\ unread' = [unread EXCEPT ![s] = @ - n]
        /\ client_reads' = [client_reads EXCEPT ![at] = @ + n]
    BY <1>s DEF ReadData
  <2> HIDE DEF n
  <2> QED BY <2>1, <2>2
<1>a. UNCHANGED <<client_socket, readfds, fdConn, total, link, sent, wire, rx, backlog>>
  BY DEF ReadData
<1>n. /\ at' \in Entries
      /\ \/ srv' = "scan" /\ at' = at + 1
         \/ srv' = "select" /\ at' = 0
  BY <1>0, <1>t, NextEntryMoves DEF ReadData
<1>o. /\ \A x \in Conns \ {s} : unread'[x] = unread[x]
      /\ \A e \in Entries \ {at} : client_reads'[e] = client_reads[e]
      /\ unread'[s] = unread[s] - b
      /\ client_reads'[at] = client_reads[at] + b
  BY <1>b, <1>e, <1>t DEF TypeOK, NetTypeOK, ServerTypeOK
<1>1. TypeOK'
  <2>1. NetTypeOK' BY <1>t, <1>a, <1>b DEF TypeOK, NetTypeOK
  <2>2. ServerTypeOK' BY <1>t, <1>a, <1>b, <1>n DEF TypeOK, ServerTypeOK
  <2>3. ClientTypeOK' BY <1>t DEF TypeOK, ClientTypeOK
  <2> QED BY <2>1, <2>2, <2>3 DEF TypeOK
<1>2. TableInv' BY <1>0, <1>a, <1>e, <1>n, <1>o DEF IInv, TableInv
<1>3. QueueInv' BY <1>a DEF IInv, QueueInv
<1>4. SelectInv'
  <2>1. ASSUME srv' = "scan", NEW e \in Entries, e >= at', client_socket[e] \in readfds
        PROVE  Readable(fdConn[client_socket[e]])'
    <3>1. e >= at /\ e # at
      BY <2>1, <1>n, <1>e DEF Entries
    <3>2. client_socket[e] # 0 BY <2>1, <1>t, SetEntry
    <3>3. fdConn[client_socket[e]] \in Conns \ {s} BY <3>1, <3>2, <1>e, <1>s
    <3>4. Readable(fdConn[client_socket[e]])
      BY <3>1, <2>1, <1>0 DEF IInv, SelectInv
    <3> QED BY <3>3, <3>4, <1>o, <1>a DEF Readable
  <2> QED BY <2>1, <1>n, <1>a DEF SelectInv
<1>5. CountInv'
  <2>0. CountInv /\ srv # "exited" BY <1>0 DEF IInv
  <2>1. ASSUME NEW x \in Conns PROVE StreamInv(x)'
    <3>1. CASE x = s
      BY <3>1, <2>0, <1>a, <1>s, <1>e, <1>0 DEF CountInv, StreamInv, IInv, QueueInv, TableInv
    <3>2. CASE x # s
      BY <3>2, <2>0, <1>a, <1>o DEF CountInv, StreamInv, Conserved
    <3> QED BY <3>1, <3>2
  <2>2. ASSUME NEW k \in DOMAIN backlog PROVE Conserved(backlog[k], 0)'
    <3>1. backlog[k] \in Conns \ {s}
      BY <1>s, <1>e, <1>t DEF IInv, QueueInv, TypeOK, NetTypeOK
    <3> QED BY <3>1, <2>0, <1>a, <1>o DEF CountInv, Conserved
  <2>3. ASSUME NEW e \in Entries, client_socket[e] # 0
        PROVE  Conserved(fdConn[client_socket[e]], client_reads[e])'
    <3>1. CASE e = at
      <4>1. Conserved(s, client_reads[at]) BY <2>0, <1>e, <1>s DEF CountInv
      <4> QED BY <3>1, <4>1, <1>a, <1>e, <1>s, <1>o, <1>t
             DEF Conserved, TypeOK, NetTypeOK, ServerTypeOK
    <3>2. CASE e # at
      BY <3>2, <2>3, <2>0, <1>a, <1>e, <1>s, <1>o DEF CountInv, Conserved
    <3> QED BY <3>1, <3>2
  <2> QED BY <2>1, <2>2, <2>3, <1>a DEF CountInv
<1>6. TotalInv' BY <1>a DEF IInv, TotalInv
<1>7. TotalIsWhatWasSent' BY <1>a DEF IInv, TotalIsWhatWasSent
<1> QED BY <1>1, <1>2, <1>3, <1>4, <1>5, <1>6, <1>7 DEF IInv

(* read() fails: -1 is added to the count of a broken connection.          *)
LEMMA ReadErrorKeeps ==
    ASSUME IInv, ReadError, UNCHANGED clientVars
    PROVE  IInv'
<1> USE DEF clientVars
<1>t. TypeOK BY DEF IInv
<1>0. srv = "scan" /\ sd \in readfds BY DEF ReadError
<1>e. /\ at \in Entries
      /\ client_socket[at] = sd
      /\ sd \in Fds
      /\ sd # 0
      /\ \A e \in Entries : client_socket[e] # 0 /\ e # at =>
            fdConn[client_socket[e]] \in Conns \ {fdConn[sd]}
  BY <1>0, ScannedEntry DEF sd
<1>s. PICK s \in Conns : s = fdConn[sd] BY <1>0, ScannedEntry
<1>b. /\ unread[s] = 0 /\ rx[s] = "err"
      /\ rx' = [rx EXCEPT ![s] = "eof"]
      /\ client_reads' = [client_reads EXCEPT ![at] = @ - 1]
  BY <1>s DEF ReadError
<1>a. UNCHANGED <<client_socket, readfds, fdConn, total, link, sent, wire, unread, backlog>>
  BY DEF ReadError
<1>n. /\ at' \in Entries
      /\ \/ srv' = "scan" /\ at' = at + 1
         \/ srv' = "select" /\ at' = 0
  BY <1>0, <1>t, NextEntryMoves DEF ReadError
<1>o. /\ \A x \in Conns \ {s} : rx'[x] = rx[x]
      /\ \A e \in Entries \ {at} : client_reads'[e] = client_reads[e]
      /\ rx'[s] = "eof"
      /\ client_reads'[at] = client_reads[at] - 1
  BY <1>b, <1>e, <1>t DEF TypeOK, NetTypeOK, ServerTypeOK
<1>1. TypeOK'
  <2>1. NetTypeOK' BY <1>t, <1>a, <1>b DEF TypeOK, NetTypeOK
  <2>2. ServerTypeOK' BY <1>t, <1>a, <1>b, <1>n DEF TypeOK, ServerTypeOK
  <2>3. ClientTypeOK' BY <1>t DEF TypeOK, ClientTypeOK
  <2> QED BY <2>1, <2>2, <2>3 DEF TypeOK
<1>2. TableInv' BY <1>0, <1>a, <1>e, <1>n, <1>o DEF IInv, TableInv
<1>3. QueueInv' BY <1>a DEF IInv, QueueInv
<1>4. SelectInv'
  <2>1. \A x \in Conns : Readable(x) => Readable(x)'
    BY <1>a, <1>o DEF Readable
  <2>2. ASSUME srv' = "scan", NEW e \in Entries, e >= at', client_socket[e] \in readfds
        PROVE  Readable(fdConn[client_socket[e]])'
    <3>1. e >= at BY <2>2, <1>n, <1>e DEF Entries
    <3>2. fdConn[client_socket[e]] \in Conns
      BY <2>2, <1>t, <1>0, SetEntry, EntryOpen DEF IInv
    <3> QED BY <3>1, <3>2, <2>1, <2>2, <1>0, <1>a DEF IInv, SelectInv
  <2> QED BY <2>2, <1>n, <1>a DEF SelectInv
<1>5. CountInv'
  <2>0. CountInv /\ srv # "exited" BY <1>0 DEF IInv
  <2>r. link[s] = "reset" BY <2>0, <1>b DEF CountInv, StreamInv
  <2>1. ASSUME NEW x \in Conns PROVE StreamInv(x)'
    <3>1. CASE x = s
      BY <3>1, <2>0, <2>r, <1>a, <1>o DEF CountInv, StreamInv
    <3>2. CASE x # s
      BY <3>2, <2>0, <1>a, <1>o DEF CountInv, StreamInv, Conserved
    <3> QED BY <3>1, <3>2
  <2>2. ASSUME NEW k \in DOMAIN backlog PROVE Conserved(backlog[k], 0)'
    <3>1. backlog[k] \in Conns \ {s}
      BY <1>s, <1>e, <1>t DEF IInv, QueueInv, TypeOK, NetTypeOK
    <3> QED BY <3>1, <2>0, <1>a, <1>o DEF CountInv, Conserved
  <2>3. ASSUME NEW e \in Entries, client_socket[e] # 0
        PROVE  Conserved(fdConn[client_socket[e]], client_reads[e])'
    <3>1. CASE e = at
      <4>1. Conserved(s, client_reads[at]) BY <2>0, <1>e, <1>s DEF CountInv
      <4> QED BY <3>1, <4>1, <2>r, <1>a, <1>b, <1>e, <1>s, <1>o, <1>t
             DEF Conserved, TypeOK, NetTypeOK, ServerTypeOK
    <3>2. CASE e # at
      BY <3>2, <2>3, <2>0, <1>a, <1>e, <1>s, <1>o DEF CountInv, Conserved
    <3> QED BY <3>1, <3>2
  <2> QED BY <2>1, <2>2, <2>3, <1>a DEF CountInv
<1>6. TotalInv' BY <1>a DEF IInv, TotalInv
<1>7. TotalIsWhatWasSent' BY <1>a DEF IInv, TotalIsWhatWasSent
<1> QED BY <1>1, <1>2, <1>3, <1>4, <1>5, <1>6, <1>7 DEF IInv

(* read() meets the end of the stream: what is printed is all that was     *)
(* counted, and the freed entry starts from 0.                             *)
LEMMA ReadEofKeeps ==
    ASSUME IInv, ReadEof, UNCHANGED clientVars
    PROVE  IInv'
<1> USE DEF clientVars
<1>t. TypeOK BY DEF IInv
<1>0. srv = "scan" /\ sd \in readfds BY DEF ReadEof
<1>e. /\ at \in Entries
      /\ client_socket[at] = sd
      /\ sd \in Fds
      /\ sd # 0
      /\ \A e \in Entries : client_socket[e] # 0 /\ e # at =>
            /\ client_socket[e] \in Fds \ {sd}
            /\ fdConn[client_socket[e]] \in Conns \ {fdConn[sd]}
  BY <1>0, ScannedEntry DEF sd
<1>s. PICK s \in Conns : s = fdConn[sd] BY <1>0, ScannedEntry
<1>f. PICK f \in Fds : f = sd BY <1>e
<1>b. /\ unread[s] = 0 /\ rx[s] = "eof"
      /\ total' = [total EXCEPT ![s] = client_reads[at]]
      /\ fdConn' = [fdConn EXCEPT ![f] = NoConn]
      /\ client_socket' = [client_socket EXCEPT ![at] = 0]
      /\ client_reads' = [client_reads EXCEPT ![at] = 0]
  BY <1>s, <1>f DEF ReadEof
<1>a. UNCHANGED <<readfds, link, sent, wire, unread, rx, backlog>>
  BY DEF ReadEof, netVars
<1>n. /\ at' \in Entries
      /\ \/ srv' = "scan" /\ at' = at + 1
         \/ srv' = "select" /\ at' = 0
  BY <1>0, <1>t, NextEntryMoves DEF ReadEof
<1>o. /\ \A x \in Conns \ {s} : total'[x] = total[x]
      /\ total'[s] = client_reads[at]
      /\ \A g \in Fds : fdConn'[g] = IF g = f THEN NoConn ELSE fdConn[g]
      /\ \A e \in Entries : client_reads'[e] = IF e = at THEN 0 ELSE client_reads[e]
      /\ \A e \in Entries : client_socket'[e] = IF e = at THEN 0 ELSE client_socket[e]
  BY <1>b, <1>e, <1>t DEF TypeOK, ServerTypeOK
<1>c. /\ \A e \in Entries : client_socket'[e] # 0 =>
            /\ e # at
            /\ client_socket'[e] = client_socket[e]
            /\ fdConn'[client_socket[e]] = fdConn[client_socket[e]]
            /\ fdConn[client_socket[e]] \in Conns \ {s}
      /\ \A g \in Fds : fdConn'[g] # NoConn =>
            fdConn'[g] = fdConn[g] /\ fdConn[g] # s
  <2>1. \A g \in Fds : fdConn'[g] # NoConn => fdConn[g] # s
    BY <1>o, <1>s, <1>f, NoConnAssumption DEF IInv, TableInv
  <2> QED BY <2>1, <1>o, <1>e, <1>s, <1>f
<1>k. \A k \in DOMAIN backlog : backlog[k] \in Conns \ {s}
  BY <1>s, <1>e, <1>t DEF IInv, QueueInv, TypeOK, NetTypeOK
<1>1. TypeOK'
  <2>1. NetTypeOK' BY <1>t, <1>a DEF TypeOK, NetTypeOK
  <2>2. ServerTypeOK' BY <1>t, <1>a, <1>b, <1>n, <1>e DEF TypeOK, ServerTypeOK
  <2>3. ClientTypeOK' BY <1>t DEF TypeOK, ClientTypeOK
  <2> QED BY <2>1, <2>2, <2>3 DEF TypeOK
<1>2. TableInv'
  <2>1. ASSUME NEW g \in Fds, NEW h \in Fds, fdConn'[g] # NoConn, fdConn'[g] = fdConn'[h]
        PROVE  g = h
    BY <2>1, <1>c DEF IInv, TableInv
  <2>2. ASSUME NEW e \in Entries
        PROVE  /\ client_socket'[e] # 0 => fdConn'[client_socket'[e]] # NoConn
               /\ client_socket'[e] = 0 => client_reads'[e] = 0
    BY <1>0, <1>c, <1>o, NoConnAssumption DEF IInv, TableInv
  <2>3. ASSUME NEW e \in Entries, NEW x \in Entries,
               client_socket'[e] # 0, client_socket'[e] = client_socket'[x]
        PROVE  e = x
    BY <2>3, <1>0, <1>c DEF IInv, TableInv
  <2> QED BY <2>1, <2>2, <2>3 DEF TableInv
<1>3. QueueInv'
  <2>1. ASSUME NEW k \in DOMAIN backlog
        PROVE  /\ total'[backlog[k]] = NoTotal
               /\ \A g \in Fds : fdConn'[g] # backlog[k]
    BY <1>k, <1>o, NoConnAssumption DEF IInv, QueueInv
  <2>2. ASSUME NEW g \in Fds, fdConn'[g] # NoConn
        PROVE  link[fdConn'[g]] # "none" /\ total'[fdConn'[g]] = NoTotal
    BY <2>2, <1>c, <1>o, <1>t DEF IInv, QueueInv, TypeOK, ServerTypeOK
  <2> QED BY <2>1, <2>2, <1>a DEF IInv, QueueInv
<1>4. SelectInv'
  <2>1. ASSUME srv' = "scan", NEW e \in Entries, e >= at', client_socket'[e] \in readfds
        PROVE  Readable(fdConn'[client_socket'[e]])
    <3>1. e >= at BY <2>1, <1>n, <1>e DEF Entries
    <3>2. client_socket'[e] # 0 BY <2>1, <1>1, <1>a, <1>t DEF TypeOK, ServerTypeOK, Fds, master_socket
    <3> QED BY <3>1, <3>2, <2>1, <1>0, <1>c DEF IInv, SelectInv
  <2> QED BY <2>1, <1>n, <1>a DEF SelectInv, Readable
<1>5. CountInv'
  <2>0. CountInv /\ srv # "exited" BY <1>0 DEF IInv
  <2>1. ASSUME NEW e \in Entries, client_socket'[e] # 0
        PROVE  Conserved(fdConn'[client_socket'[e]], client_reads'[e])
    BY <2>0, <2>1, <1>c, <1>o DEF CountInv
  <2> QED BY <2>0, <2>1, <1>a DEF CountInv, StreamInv, Conserved
<1>6. TotalInv'
  <2>1. link[s] \in {"fin", "reset"}
    BY <1>0, <1>b DEF IInv, CountInv, StreamInv
  <2> QED BY <2>1, <1>a, <1>o DEF IInv, TotalInv
<1>7. TotalIsWhatWasSent'
  <2>1. /\ Conserved(s, client_reads[at])
        /\ StreamInv(s)
    BY <1>0, <1>e, <1>s DEF IInv, CountInv
  <2>2. IF link[s] = "reset" THEN total'[s] < sent[s] ELSE total'[s] = sent[s]
    BY <2>1, <1>b, <1>e, <1>o, <1>t
       DEF Conserved, StreamInv, TypeOK, NetTypeOK, ServerTypeOK
  <2> QED BY <2>2, <1>a, <1>o DEF IInv, TotalIsWhatWasSent
<1> QED BY <1>1, <1>2, <1>3, <1>4, <1>5, <1>6, <1>7 DEF IInv

-----------------------------------------------------------------------------
(* The invariant holds before the first iteration of the server's loop.    *)
LEMMA InitIInv == Init => IInv
<1> SUFFICES ASSUME Init PROVE IInv OBVIOUS
<1> USE DEF Init, NetInit, ServerInit, ClientInit
<1>1. TypeOK
  <2>1. NetTypeOK BY DEF NetTypeOK
  <2>2. ServerTypeOK
    BY MaxClientsAssumption DEF ServerTypeOK, Entries, NoTotal
  <2>3. ClientTypeOK
    BY NumSocketsAssumption, NumCyclesAssumption, BytesAssumption
       DEF ClientTypeOK, Running, Sockets
  <2> QED BY <2>1, <2>2, <2>3 DEF TypeOK
<1>2. TableInv BY DEF TableInv
<1>3. QueueInv BY DEF QueueInv, Conns
<1>4. SelectInv BY DEF SelectInv
<1>5. CountInv BY DEF CountInv, StreamInv, Conserved
<1>6. TotalInv BY DEF TotalInv
<1>7. TotalIsWhatWasSent BY DEF TotalIsWhatWasSent
<1> QED BY <1>1, <1>2, <1>3, <1>4, <1>5, <1>6, <1>7 DEF IInv

(* A step that changes nothing.                                            *)
LEMMA StutterKeeps == IInv /\ UNCHANGED vars => IInv'
  BY DEF vars, netVars, serverVars, clientVars, IInv, TypeOK, NetTypeOK,
         ServerTypeOK, ClientTypeOK, TableInv, QueueInv, SelectInv, Readable,
         CountInv, StreamInv, Conserved, TotalInv, TotalIsWhatWasSent

(* One case per action of the server, of a client and of the network.      *)
LEMMA StepIInv == IInv /\ [Next]_vars => IInv'
<1> SUFFICES ASSUME IInv, [Next]_vars PROVE IInv' OBVIOUS
<1>1. CASE ServerStep /\ UNCHANGED clientVars
  <2>1. CASE Select BY <1>1, <2>1, SelectKeeps
  <2>2. CASE SelectFails BY <1>1, <2>2, ServerExitKeeps DEF SelectFails
  <2>3. CASE Accept BY <1>1, <2>3, AcceptKeeps
  <2>4. CASE AcceptFails BY <1>1, <2>4, ServerExitKeeps DEF AcceptFails
  <2>5. CASE Skip BY <1>1, <2>5, SkipKeeps
  <2>6. CASE ReadData BY <1>1, <2>6, ReadDataKeeps
  <2>7. CASE ReadEof BY <1>1, <2>7, ReadEofKeeps
  <2>8. CASE ReadError BY <1>1, <2>8, ReadErrorKeeps
  <2> QED BY <1>1, <2>1, <2>2, <2>3, <2>4, <2>5, <2>6, <2>7, <2>8 DEF ServerStep
<1>2. ASSUME NEW c \in Clients, ClientStep(c) PROVE IInv'
  <2>0. UNCHANGED serverVars BY <1>2 DEF ClientStep
  <2>1. CASE srv # "exited" /\ Connect(c) BY <2>0, <2>1, ConnectKeeps
  <2>2. CASE ConnectFails(c) BY <2>0, <2>2, ConnectFailsKeeps
  <2>3. CASE Send(c) BY <2>0, <2>3, SendKeeps
  <2>4. CASE SendFails(c) BY <2>0, <2>4, SendFailsKeeps
  <2>5. CASE BrokenPipe(c) BY <2>0, <2>5, BrokenPipeKeeps
  <2>6. CASE EndCycle(c) BY <2>0, <2>6, EndCycleKeeps
  <2>7. CASE Close(c) BY <2>0, <2>7, CloseKeeps
  <2> QED BY <1>2, <2>1, <2>2, <2>3, <2>4, <2>5, <2>6, <2>7
          DEF ClientStep, ClientConnect
<1>3. ASSUME NEW s \in Conns, NetStep(s) PROVE IInv'
  <2>0. UNCHANGED <<serverVars, clientVars>> BY <1>3 DEF NetStep
  <2>1. CASE Deliver(s) BY <2>0, <2>1, DeliverKeeps
  <2>2. CASE DeliverFin(s) BY <2>0, <2>2, DeliverFinKeeps
  <2>3. CASE Break(s) BY <2>0, <2>3, BreakKeeps
  <2> QED BY <1>3, <2>1, <2>2, <2>3 DEF NetStep
<1>4. CASE Finished BY <1>4, StutterKeeps DEF Finished
<1>5. CASE UNCHANGED vars BY <1>5, StutterKeeps
<1> QED BY <1>1, <1>2, <1>3, <1>4, <1>5 DEF Next

(* The inductive invariant of the TCP test holds in every state.           *)
THEOREM IInvHolds == Spec => []IInv
  BY InitIInv, StepIInv, PTL DEF Spec

(* The state of the server, the clients and the network stays in its       *)
(* types; in particular the scan never leaves client_socket.               *)
THEOREM TypeCorrect == Spec => []TypeOK
<1>1. IInv => TypeOK BY DEF IInv
<1> QED BY <1>1, IInvHolds, PTL

(* The read() of the scan in dce-server-tcp.cc never blocks the server     *)
(* and never gets a closed descriptor: what select() answered still holds  *)
(* when the entry is reached, although an accept() and other read()s and   *)
(* close()s came in between.                                               *)
THEOREM ServerNeverBlocksInRead == Spec => []NoBlockingRead
<1>1. IInv => NoBlockingRead
  <2> SUFFICES ASSUME IInv, srv = "scan", sd \in readfds
               PROVE  sd \in Fds /\ fdConn[sd] \in Conns /\ Readable(fdConn[sd])
    BY DEF NoBlockingRead
  <2>1. at \in Entries /\ sd \in Fds /\ fdConn[sd] \in Conns BY ScannedEntry
  <2>2. at >= at BY <2>1 DEF Entries
  <2> QED BY <2>1, <2>2 DEF IInv, SelectInv, sd
<1> QED BY <1>1, IInvHolds, PTL

(* The total in the server's "Disconnected" line is the number of bytes    *)
(* the client's send() calls took, for every interleaving of the clients,  *)
(* and falls short of it exactly when the connection broke.                *)
THEOREM TotalsAreExact == Spec => []TotalIsWhatWasSent
<1>1. IInv => TotalIsWhatWasSent BY DEF IInv
<1> QED BY <1>1, IInvHolds, PTL

-----------------------------------------------------------------------------
(* A connection that accept() returns finds a free entry: otherwise the    *)
(* entries would hold as many descriptors (and connections) as there are,  *)
(* and the new one would be left over.                                     *)
LEMMA FreeEntry ==
    ASSUME IInv, TableSuffices, srv = "accept",
           NEW f \in Fds, fdConn[f] = NoConn
    PROVE  \E e \in Entries : client_socket[e] = 0
<1> SUFFICES ASSUME \A e \in Entries : client_socket[e] # 0 PROVE FALSE
  OBVIOUS
<1>t. TypeOK BY DEF IInv
<1>e. \A e \in Entries : /\ client_socket[e] \in Fds \ {f}
                          /\ fdConn[client_socket[e]] \in Conns
  BY <1>t, EntryOpen, NoConnAssumption DEF IInv
<1>s. PICK s \in Conns : \A g \in Fds : fdConn[g] # s
  <2>1. 1 \in DOMAIN backlog /\ backlog[1] \in Conns
    BY <1>t DEF IInv, SelectInv, TypeOK, NetTypeOK
  <2> QED BY <2>1 DEF IInv, QueueInv
<1>1. IsFiniteSet(Entries) /\ Cardinality(Entries) = MAX_CLIENTS
  BY FS_Interval, MaxClientsAssumption DEF Entries
<1>2. CASE Cardinality(Fds) <= MAX_CLIENTS
  <2>1. IsFiniteSet(Fds)
    BY FS_Interval, FdLimitAssumption DEF Fds, master_socket
  <2>2. /\ IsFiniteSet(Fds \ {f})
        /\ Cardinality(Fds \ {f}) = Cardinality(Fds) - 1
        /\ Cardinality(Fds) \in Nat
    BY <2>1, FS_RemoveElement, FS_CardinalityType
  <2>3. client_socket \in [Entries -> Fds \ {f}]
    BY <1>e, <1>t DEF TypeOK, ServerTypeOK
  <2>4. Cardinality(Fds \ {f}) < Cardinality(Entries)
    BY <1>1, <1>2, <2>2, MaxClientsAssumption
  <2>5. \E e, x \in Entries : e # x /\ client_socket[e] = client_socket[x]
    BY <1>1, <2>2, <2>3, <2>4, FS_PigeonHole
  <2> QED BY <2>5 DEF IInv, TableInv
<1>3. CASE Cardinality(Conns) <= MAX_CLIENTS
  <2>1. IsFiniteSet(Conns)
    <3>1. IsFiniteSet(Sockets)
      BY FS_Interval, NumSocketsAssumption DEF Sockets
    <3> QED BY <3>1, ClientsAssumption, FS_Product DEF Conns
  <2>2. /\ IsFiniteSet(Conns \ {s})
        /\ Cardinality(Conns \ {s}) = Cardinality(Conns) - 1
        /\ Cardinality(Conns) \in Nat
    BY <2>1, FS_RemoveElement, FS_CardinalityType
  <2> DEFINE g == [e \in Entries |-> fdConn[client_socket[e]]]
  <2>3. g \in [Entries -> Conns \ {s}]
    BY <1>e, <1>s
  <2>4. Cardinality(Conns \ {s}) < Cardinality(Entries)
    BY <1>1, <1>3, <2>2, MaxClientsAssumption
  <2>5. \E e, x \in Entries : e # x /\ g[e] = g[x]
    <3> HIDE DEF g
    <3> QED BY <1>1, <2>2, <2>3, <2>4, FS_PigeonHole
  <2>6. PICK e \in Entries, x \in Entries :
            e # x /\ fdConn[client_socket[e]] = fdConn[client_socket[x]]
    BY <2>5
  <2>7. client_socket[e] = client_socket[x]
    BY <2>6, <1>e, NoConnAssumption DEF IInv, TableInv
  <2> QED BY <2>6, <2>7 DEF IInv, TableInv
<1> QED BY <1>2, <1>3 DEF TableSuffices

(* The search of client_socket for a free entry finds a first one.         *)
LEMMA FirstFreeExists ==
    ASSUME TypeOK, \E e \in Entries : client_socket[e] = 0
    PROVE  \E e \in Entries : FirstFree(e)
<1> DEFINE S == {e \in Entries : client_socket[e] = 0}
           R == {p \in Nat \X Nat : p[1] < p[2]}
<1>1. S # {} /\ S \subseteq Nat BY DEF Entries
<1>2. PICK e \in S : \A x \in S : ~ (<<x, e>> \in R)
  <2>1. IsWellFoundedOn(R, Nat) BY NatLessThanWellFounded DEF OpToRel
  <2> HIDE DEF R, S
  <2> QED BY <1>1, <2>1, WFMin
<1>3. ASSUME NEW x \in Entries, x < e PROVE client_socket[x] # 0
  <2>1. <<x, e>> \in R BY <1>2, <1>3 DEF Entries
  <2> QED BY <2>1, <1>2
<1>4. FirstFree(e) BY <1>2, <1>3 DEF FirstFree
<1> QED BY <1>2, <1>4

(* Every step keeps the open descriptors in the table, once each.          *)
LEMMA StepOneEntryEach ==
    IInv /\ OneEntryEach /\ [Next]_vars => OneEntryEach'
<1> SUFFICES ASSUME IInv, OneEntryEach, [Next]_vars PROVE OneEntryEach'
  OBVIOUS
<1>t. TypeOK BY DEF IInv
<1>1. CASE UNCHANGED <<fdConn, client_socket>>
  BY <1>1 DEF OneEntryEach
<1>2. CASE ServerExit
  BY <1>2 DEF ServerExit, OneEntryEach
<1>3. CASE Accept /\ UNCHANGED clientVars
  <2>0. backlog # <<>> /\ srv = "accept" BY <1>3 DEF Accept, IInv, SelectInv
  <2>1. PICK f \in Fds : /\ fdConn[f] = NoConn
                        /\ fdConn' = [fdConn EXCEPT ![f] = Head(backlog)]
                        /\ client_socket' = [e \in Entries |->
                              IF FirstFree(e) THEN f ELSE client_socket[e]]
    BY <1>3 DEF Accept, FreeFds
  <2>2. ASSUME NEW g \in Fds, fdConn'[g] # NoConn,
               NEW e \in Entries, NEW x \in Entries,
               client_socket'[e] = g, client_socket'[x] = g
        PROVE  e = x
    <3>1. g # 0 BY DEF Fds, master_socket
    <3>2. TableInv' /\ srv' # "exited" BY <1>3, AcceptKeeps DEF IInv, Accept
    <3> QED BY <2>2, <3>1, <3>2 DEF TableInv
  <2>3. ASSUME NEW g \in Fds, fdConn'[g] # NoConn, TableSuffices
        PROVE  \E e \in Entries : client_socket'[e] = g
    <3>1. CASE g = f
      BY <3>1, <2>0, <2>1, <2>3, <1>t, FreeEntry, FirstFreeExists
    <3>2. CASE g # f
      <4>1. fdConn[g] # NoConn BY <3>2, <2>1, <2>3, <1>t DEF TypeOK, ServerTypeOK
      <4>2. PICK e \in Entries : client_socket[e] = g
        BY <4>1, <2>3 DEF OneEntryEach
      <4>3. g # 0 BY DEF Fds, master_socket
      <4> QED BY <4>2, <4>3, <2>1 DEF FirstFree
    <3> QED BY <3>1, <3>2
  <2> QED BY <2>2, <2>3 DEF OneEntryEach, TableSuffices
<1>4. CASE ReadEof
  <2>1. /\ at \in Entries /\ sd \in Fds
        /\ fdConn' = [fdConn EXCEPT ![sd] = NoConn]
        /\ client_socket' = [client_socket EXCEPT ![at] = 0]
        /\ sd = client_socket[at]
    BY <1>4, ScannedEntry DEF ReadEof, sd
  <2>2. ASSUME NEW g \in Fds, fdConn'[g] # NoConn
        PROVE  /\ g # sd /\ fdConn[g] # NoConn /\ g # 0
    BY <2>1, <2>2, <1>t DEF TypeOK, ServerTypeOK, Fds, master_socket
  <2>3. ASSUME NEW g \in Fds, g # sd, g # 0
        PROVE  \A e \in Entries : client_socket'[e] = g <=> client_socket[e] = g
    BY <2>1, <2>3, <1>t DEF TypeOK, ServerTypeOK
  <2> QED BY <2>2, <2>3 DEF OneEntryEach, TableSuffices
<1> QED
  BY <1>1, <1>2, <1>3, <1>4
     DEF Next, ServerStep, SelectFails, AcceptFails, Select, Skip, ReadData, ReadError,
         ClientStep, NetStep, Finished, vars, serverVars

(* A connection accept() has returned is in client_socket until it is      *)
(* closed, and in one entry only, provided that the descriptors or the     *)
(* connections are not more than MAX_CLIENTS.                              *)
THEOREM NoConnectionForgotten == Spec => []OneEntryEach
<1>1. Init => OneEntryEach BY DEF Init, ServerInit, OneEntryEach
<1> QED BY <1>1, StepOneEntryEach, IInvHolds, PTL DEF Spec

-----------------------------------------------------------------------------
(* The plan of the sockets (MessagePlan).                                  *)
LEMMA PerCycleType ==
    /\ Payload \in Nat /\ Payload > 0 /\ BytesToTransfer \in Nat /\ NumCycles \in Nat
    /\ PerCycle \in Nat
    /\ PerCycle = 0 <=> BytesToTransfer = 0
    /\ \A i \in 0 .. (PerCycle - 1) : i * Payload < BytesToTransfer
<1>1. Payload \in Nat /\ Payload > 0 /\ BytesToTransfer \in Nat /\ NumCycles \in Nat
  BY PayloadAssumption, BytesAssumption, NumCyclesAssumption
<1> QED BY <1>1, MessageCount DEF PerCycle

LEMMA SizeOfType ==
    ASSUME NEW n \in Nat
    PROVE  SizeOf(n) \in Int
  BY PerCycleType DEF SizeOf

LEMMA PlanSum ==
    ASSUME NEW n, NEW k
    PROVE  ShareUpTo(k, n) =
                SumFunctionOnSet([m \in Nat |-> SizeOf(m)], Turns(k, NumSockets, n))
  BY DEF ShareUpTo, SumFunctionOnSet, FoldFunctionOnSet, MapThenFoldSet, Turns

LEMMA ShareStarts ==
    ASSUME NEW k
    PROVE  ShareUpTo(k, 0) = 0
  BY FirstInTurn, PlanSum

LEMMA ShareGrows ==
    ASSUME NEW n \in Nat, NEW k
    PROVE  ShareUpTo(k, n + 1) =
                IF n % NumSockets = k THEN ShareUpTo(k, n) + SizeOf(n) ELSE ShareUpTo(k, n)
<1> DEFINE f == [m \in Nat |-> SizeOf(m)]
           sum(x) == SumFunctionOnSet(f, Turns(k, NumSockets, x))
<1>1. (\A m \in Nat : f[m] \in Int) /\ f[n] = SizeOf(n)
  BY SizeOfType
<1>2. sum(n) = ShareUpTo(k, n) /\ sum(n + 1) = ShareUpTo(k, n + 1)
  BY PlanSum
<1> HIDE DEF f
<1>3. sum(n + 1) = IF n % NumSockets = k THEN sum(n) + f[n] ELSE sum(n)
  BY <1>1, OneMoreInTurn
<1> QED BY <1>1, <1>2, <1>3

(* Message n of the plan, with number i of its cycle, is sent next.        *)
LEMMA NextOfPlan ==
    ASSUME TypeOK, NEW c \in Clients, NEW i \in 0 .. PerCycle, InTurn(c, i),
           position[c] < BytesToTransfer, current_cycle[c] < NumCycles
    PROVE  LET n == current_cycle[c] * PerCycle + i
           IN  /\ i < PerCycle
               /\ n \in Nat
               /\ MessageSize(c) \in Nat
               /\ MessageSize(c) = SizeOf(n)
               /\ position[c] + MessageSize(c) =
                    IF i + 1 < PerCycle THEN (i + 1) * Payload ELSE BytesToTransfer
<1> DEFINE P == PerCycle  q == current_cycle[c]  n == q * P + i
<1>1. Payload \in Nat /\ Payload > 0 /\ BytesToTransfer \in Nat
      /\ P \in Nat /\ P = (BytesToTransfer + Payload - 1) \div Payload
  BY PerCycleType DEF PerCycle
<1>2. i < P /\ position[c] = i * Payload /\ i \in 0 .. (P - 1)
  BY <1>1 DEF InTurn
<1>3. q \in Nat
  BY NumCyclesAssumption DEF TypeOK, ClientTypeOK
<1> HIDE DEF P
<1>4. MessageSize(c) = IF BytesToTransfer - i * Payload < Payload
                       THEN BytesToTransfer - i * Payload ELSE Payload
  BY <1>2 DEF MessageSize
<1>5. MessageSize(c) \in Int
  BY <1>1, <1>2, <1>4
<1>6. /\ MessageSize(c) \in 1 .. Payload
      /\ MessageSize(c) = IF i = P - 1 THEN BytesToTransfer - (P - 1) * Payload ELSE Payload
      /\ i * Payload + MessageSize(c) = IF i + 1 < P THEN (i + 1) * Payload ELSE BytesToTransfer
  <2> DEFINE z == MessageSize(c)
  <2>1. z \in Int /\ z = IF BytesToTransfer - i * Payload < Payload
                       THEN BytesToTransfer - i * Payload ELSE Payload
    BY <1>4, <1>5
  <2> HIDE DEF z
  <2>2. /\ z \in 1 .. Payload
        /\ z = IF i = P - 1 THEN BytesToTransfer - (P - 1) * Payload ELSE Payload
        /\ i * Payload + z = IF i + 1 < P THEN (i + 1) * Payload ELSE BytesToTransfer
    BY <1>1, <1>2, <2>1, NextMessage
  <2> QED
    BY <2>2 DEF z
<1>7. n \in Nat /\ n % P = i
  <2>1. n \in Nat /\ q \in Int
    BY <1>1, <1>3
  <2>2. n = q * P + i /\ n \in Int
    BY <2>1
  <2> HIDE DEF n, q
  <2>3. n % P = i
    BY <1>1, <1>2, <2>1, <2>2, ModUnique
  <2> QED BY <2>1, <2>3
<1>8. MessageSize(c) = SizeOf(n)
  BY <1>6, <1>7 DEF SizeOf, P
<1> QED BY <1>1, <1>2, <1>6, <1>7, <1>8 DEF P

LEMMA InitPlanInv == Init => PlanInv
<1> SUFFICES ASSUME Init, NEW c \in Clients PROVE ClientPlan(c)
  BY DEF PlanInv
<1> USE DEF Init, NetInit, ClientInit
<1>1. Cycling(c) BY DEF Cycling
<1> DEFINE P == PerCycle
<1>2. P \in Nat /\ 0 * P + 0 = 0
  BY PerCycleType
<1>3. IF 0 < NumCycles THEN 0 = IF 0 < P THEN 0 * Payload ELSE BytesToTransfer ELSE 0 = 0
  BY PerCycleType
<1> HIDE DEF P
<1>4. InTurn(c, 0)
  <2>1. \A k \in Sockets : sent[<<c, k>>] = 0
    BY DEF Conns
  <2> QED BY <1>2, <1>3, <2>1, ShareStarts DEF InTurn, P
<1> QED BY <1>1, <1>2, <1>4 DEF ClientPlan, P

(* A client's place in its plan does not depend on the other clients, and  *)
(* a connection of its own that breaks only leaves the plan.               *)
LEMMA PlanOfOther ==
    ASSUME NEW d \in Clients, ClientPlan(d),
           client'[d] = client[d], current_cycle'[d] = current_cycle[d],
           position'[d] = position[d], current_socket'[d] = current_socket[d],
           \A k \in Sockets :
              /\ sent'[<<d, k>>] = sent[<<d, k>>]
              /\ link[<<d, k>>] \in {"none", "reset"} => link'[<<d, k>>] = link[<<d, k>>]
    PROVE  ClientPlan(d)'
<1>1. PICK i \in 0 .. PerCycle : InTurn(d, i) BY DEF ClientPlan
<1>2. InTurn(d, i)' BY <1>1 DEF InTurn
<1>3. Cycling(d)' BY DEF ClientPlan, Cycling
<1> QED BY <1>2, <1>3 DEF ClientPlan

LEMMA PlanOfOne ==
    ASSUME PlanInv, NEW c \in Clients, ClientPlan(c)',
           \A d \in Clients \ {c} :
              /\ client'[d] = client[d] /\ current_cycle'[d] = current_cycle[d]
              /\ position'[d] = position[d] /\ current_socket'[d] = current_socket[d]
              /\ \A k \in Sockets : /\ sent'[<<d, k>>] = sent[<<d, k>>]
                                    /\ link'[<<d, k>>] = link[<<d, k>>]
    PROVE  PlanInv'
<1>1. ASSUME NEW d \in Clients \ {c} PROVE ClientPlan(d)'
  BY PlanOfOther DEF PlanInv
<1> QED BY <1>1 DEF PlanInv

(* Connections break or are reset, and nothing else happens to the clients.*)
LEMMA PlanOfAll ==
    ASSUME PlanInv, UNCHANGED <<clientVars, sent>>,
           \A s \in Conns : link[s] \in {"none", "reset"} => link'[s] = link[s]
    PROVE  PlanInv'
<1>1. ASSUME NEW d \in Clients PROVE ClientPlan(d)'
  <2>1. \A k \in Sockets : link[<<d, k>>] \in {"none", "reset"} => link'[<<d, k>>] = link[<<d, k>>]
    BY DEF Conns
  <2> QED BY <2>1, PlanOfOther DEF PlanInv, clientVars
<1> QED BY <1>1 DEF PlanInv

(* The steps of a client that neither send nor end a cycle.                *)
LEMMA PlanStay ==
    ASSUME IInv, PlanInv, NEW c \in Clients,
           UNCHANGED <<current_cycle, position, sent>>, Cycling(c)',
           client'[c] \in {"connect", "send"} => client[c] = "connect",
           client'[c] = "send" => current_socket'[c] = 0,
           \A k \in Sockets : link[<<c, k>>] = "reset" => link'[<<c, k>>] = "reset",
           \A d \in Clients \ {c} :
              /\ client'[d] = client[d] /\ current_socket'[d] = current_socket[d]
              /\ \A k \in Sockets : link'[<<d, k>>] = link[<<d, k>>]
    PROVE  PlanInv'
<1> DEFINE P == PerCycle  j == current_cycle[c]
<1>1. PICK i \in 0 .. P : InTurn(c, i) BY DEF PlanInv, ClientPlan
<1> DEFINE n == j * P + i
<1>2. client'[c] = "connect" => j = 0 /\ i = 0
  BY <1>1 DEF InTurn
<1>3. client'[c] = "send" => current_socket'[c] = n % NumSockets
  <2> SUFFICES ASSUME client'[c] = "send" PROVE current_socket'[c] = n % NumSockets
    OBVIOUS
  <2>1. n = 0 /\ current_socket'[c] = 0
    <3>1. j = 0 /\ i = 0 BY <1>1 DEF InTurn
    <3> QED BY <3>1, PerCycleType
  <2>2. 0 % NumSockets = 0
    <3>1. 0 = 0 * NumSockets + 0 /\ NumSockets \in Nat /\ 0 \in 0 .. (NumSockets - 1)
      BY NumSocketsAssumption
    <3> QED BY <3>1, ModUnique
  <2> HIDE DEF n
  <2> QED BY <2>1, <2>2
<1>4. InTurn(c, i)'
  <2>1. InTurn(c, i) BY <1>1
  <2> QED BY <2>1, <1>2, <1>3 DEF InTurn
<1>5. ClientPlan(c)' BY <1>4 DEF ClientPlan
<1> QED BY <1>5, PlanOfOne

(* connect(): after the last socket message 0 of the plan is next.         *)
LEMMA PlanConnect ==
    ASSUME IInv, PlanInv, NEW c \in Clients, Connect(c)
    PROVE  PlanInv'
<1>t. TypeOK /\ ClientPlan(c) BY DEF IInv, PlanInv
<1>1. /\ client[c] = "connect"
      /\ client'[c] \in {"connect", "send", "close"}
      /\ client'[c] = "send" => NumCycles > 0 /\ current_socket'[c] = 0
      /\ client'[c] = "close" => ~ NumCycles > 0
      /\ UNCHANGED <<current_cycle, position, sent>>
      /\ \A d \in Clients \ {c} :
            client'[d] = client[d] /\ current_socket'[d] = current_socket[d]
  BY <1>t DEF Connect, TypeOK, ClientTypeOK
<1>2. /\ \A k \in Sockets : link[<<c, k>>] = "reset" => link'[<<c, k>>] = "reset"
      /\ \A d \in Clients \ {c} : \A k \in Sockets : link'[<<d, k>>] = link[<<d, k>>]
  <2>1. link[<<c, current_socket[c]>>] = "none"
    BY <1>1, <1>t DEF IInv, QueueInv, TypeOK, ClientTypeOK, Sockets
  <2>2. link' = [link EXCEPT ![<<c, current_socket[c]>>] = "up"] BY DEF Connect
  <2> QED BY <2>1, <2>2, <1>t DEF TypeOK, NetTypeOK, Conns
<1>3. current_cycle[c] = 0
  BY <1>1, <1>t DEF ClientPlan, InTurn
<1>4. Cycling(c)'
  BY <1>1, <1>3, <1>t, NumCyclesAssumption DEF Cycling
<1> QED BY <1>1, <1>2, <1>4, PlanStay

(* connect() fails, or SIGPIPE ends the client: a socket shows it.         *)
LEMMA PlanLeaves ==
    ASSUME IInv, PlanInv, NEW c \in Clients, ConnectFails(c) \/ BrokenPipe(c)
    PROVE  PlanInv'
<1>t. TypeOK /\ ClientPlan(c) BY DEF IInv, PlanInv
<1>1. /\ UNCHANGED <<current_cycle, current_socket, position, sent>>
      /\ client'[c] \in {"failed", "killed"}
      /\ \A d \in Clients \ {c} : client'[d] = client[d]
  BY <1>t DEF ConnectFails, BrokenPipe, TypeOK, ClientTypeOK
<1>2. /\ \A k \in Sockets : link[<<c, k>>] \in {"none", "reset"} => link'[<<c, k>>] = link[<<c, k>>]
      /\ \A d \in Clients \ {c} : \A k \in Sockets : link'[<<d, k>>] = link[<<d, k>>]
  BY DEF ConnectFails, BrokenPipe, Closing, Conns
<1>3. current_socket[c] \in Sockets BY <1>t DEF TypeOK, ClientTypeOK
<1>4. client'[c] = "failed" => link[<<c, current_socket[c]>>] = "none"
  <2>1. client'[c] = "failed" => client[c] = "connect"
    BY <1>t DEF ConnectFails, BrokenPipe, TypeOK, ClientTypeOK
  <2> QED BY <2>1, <1>3 DEF IInv, QueueInv, Sockets
<1>5. client'[c] = "killed" => link[<<c, current_socket[c]>>] = "reset"
  BY <1>t DEF ConnectFails, BrokenPipe, TypeOK, ClientTypeOK
<1>6. Cycling(c)' BY <1>1, <1>2, <1>3, <1>4, <1>5 DEF Cycling
<1> QED BY <1>1, <1>2, <1>6, PlanStay

(* close() does not change what was sent.                                  *)
LEMMA PlanClose ==
    ASSUME IInv, PlanInv, NEW c \in Clients, Close(c)
    PROVE  PlanInv'
<1>t. TypeOK /\ ClientPlan(c) BY DEF IInv, PlanInv
<1>1. /\ UNCHANGED <<current_cycle, position, sent>>
      /\ client[c] = "close" /\ client'[c] \in {"close", "done"}
      /\ \A d \in Clients \ {c} :
            client'[d] = client[d] /\ current_socket'[d] = current_socket[d]
  BY <1>t DEF Close, TypeOK, ClientTypeOK
<1>2. /\ \A k \in Sockets : link[<<c, k>>] = "reset" => link'[<<c, k>>] = "reset"
      /\ \A d \in Clients \ {c} : \A k \in Sockets : link'[<<d, k>>] = link[<<d, k>>]
  <2>1. link' = [link EXCEPT ![<<c, current_socket[c]>>] = IF @ = "up" THEN "fin" ELSE @]
    BY DEF Close
  <2> QED BY <2>1, <1>t DEF TypeOK, NetTypeOK, Conns
<1>3. Cycling(c)' BY <1>t, <1>1 DEF ClientPlan, Cycling
<1> QED BY <1>1, <1>2, <1>3, PlanStay

(* The text is finished; the next one goes on with the next socket.        *)
LEMMA PlanEndCycle ==
    ASSUME IInv, PlanInv, NEW c \in Clients, EndCycle(c)
    PROVE  PlanInv'
<1> DEFINE P == PerCycle  j == current_cycle[c]
<1>t. TypeOK /\ ClientPlan(c) BY DEF IInv, PlanInv
<1>1. PICK i \in 0 .. P : InTurn(c, i) BY <1>t DEF ClientPlan
<1>2. P \in Nat /\ j \in Nat /\ Payload \in Nat /\ Payload > 0 /\ BytesToTransfer \in Nat
      /\ NumCycles \in Nat /\ position[c] = BytesToTransfer /\ j < NumCycles
      /\ client[c] = "send"
  BY <1>t, PerCycleType DEF TypeOK, ClientTypeOK, EndCycle, ClientPlan, Cycling
<1>3. /\ current_cycle'[c] = j + 1
      /\ \/ /\ j + 1 < NumCycles /\ position'[c] = 0
            /\ client'[c] = "send" /\ current_socket'[c] = current_socket[c]
         \/ j + 1 = NumCycles /\ client'[c] = "close"
      /\ UNCHANGED <<link, sent>>
      /\ \A d \in Clients \ {c} :
            /\ client'[d] = client[d] /\ position'[d] = position[d]
            /\ current_cycle'[d] = current_cycle[d] /\ current_socket'[d] = current_socket[d]
  BY <1>t DEF EndCycle, TypeOK, ClientTypeOK, netVars
<1>4. i = P
  <2>1. i < P => position[c] = i * Payload BY <1>1, <1>2 DEF InTurn
  <2> QED BY <1>2, <2>1, PerCycleType
<1>5. (j + 1) * P + 0 = j * P + P BY <1>2
<1>6. 0 = IF 0 < P THEN 0 * Payload ELSE BytesToTransfer BY <1>2, PerCycleType
<1>7. InTurn(c, 0)'
  <2> DEFINE n == j * P + P
  <2>1. InTurn(c, P) BY <1>1, <1>4
  <2>2. /\ client'[c] = "send" => current_socket'[c] = n % NumSockets
        /\ \A k \in Sockets :
                link'[<<c, k>>] # "reset" => sent'[<<c, k>>] = ShareUpTo(k, n)
    BY <1>2, <1>3, <2>1 DEF InTurn
  <2>3. current_cycle'[c] * P + 0 = n BY <1>3, <1>5
  <2>4. IF current_cycle'[c] < NumCycles
        THEN position'[c] = IF 0 < P THEN 0 * Payload ELSE BytesToTransfer ELSE 0 = 0
    BY <1>2, <1>3, <1>6
  <2>5. client'[c] # "connect" BY <1>3
  <2> HIDE DEF n, P
  <2> QED BY <2>2, <2>3, <2>4, <2>5 DEF InTurn, P
<1>8. \E x \in 0 .. PerCycle : InTurn(c, x)' BY <1>2, <1>7
<1>9. Cycling(c)' BY <1>2, <1>3 DEF Cycling
<1>10. ClientPlan(c)' BY <1>8, <1>9 DEF ClientPlan
<1> QED BY <1>3, <1>10, PlanOfOne

(* A message goes to the socket whose turn it is, or is skipped because    *)
(* that socket's connection is broken.                                     *)
LEMMA PlanMessage ==
    ASSUME IInv, PlanInv, NEW c \in Clients, Send(c) \/ SendFails(c)
    PROVE  PlanInv'
<1> DEFINE P == PerCycle  j == current_cycle[c]
<1>t. TypeOK /\ ClientPlan(c) BY DEF IInv, PlanInv
<1>1. PICK i \in 0 .. P : InTurn(c, i) BY <1>t DEF ClientPlan
<1> DEFINE n == j * P + i
<1>2. /\ position[c] < BytesToTransfer /\ j < NumCycles /\ client[c] = "send"
      /\ j \in Nat /\ P \in Nat /\ NumCycles \in Nat /\ NumSockets \in Nat /\ NumSockets > 0
  BY <1>t, PerCycleType, NumSocketsAssumption
     DEF Send, SendFails, HasMessage, TypeOK, ClientTypeOK, ClientPlan, Cycling
<1>3. /\ i < P /\ n \in Nat
      /\ MessageSize(c) \in Nat
      /\ MessageSize(c) = SizeOf(n)
      /\ position[c] + MessageSize(c) =
           IF i + 1 < P THEN (i + 1) * Payload ELSE BytesToTransfer
  BY <1>t, <1>1, <1>2, NextOfPlan
<1>4. i + 1 \in 0 .. P /\ j * P + (i + 1) = n + 1 BY <1>2, <1>3
<1>5. current_socket[c] = n % NumSockets /\ current_socket[c] \in Sockets
  BY <1>t, <1>1, <1>2 DEF InTurn, TypeOK, ClientTypeOK
<1>6. /\ current_cycle'[c] = j /\ UNCHANGED <<client, link>>
      /\ position'[c] = position[c] + MessageSize(c)
      /\ current_socket'[c] = (current_socket[c] + 1) % NumSockets
      /\ \A d \in Clients \ {c} :
            /\ client'[d] = client[d] /\ current_cycle'[d] = current_cycle[d]
            /\ position'[d] = position[d] /\ current_socket'[d] = current_socket[d]
  BY <1>t DEF Send, SendFails, Advance, TypeOK, ClientTypeOK, netVars
<1>s. /\ \A k \in Sockets : sent'[<<c, k>>] =
            IF k = current_socket[c] /\ Send(c) THEN sent[<<c, k>>] + MessageSize(c)
                                                 ELSE sent[<<c, k>>]
      /\ \A d \in Clients \ {c} : \A k \in Sockets : sent'[<<d, k>>] = sent[<<d, k>>]
      /\ ~ Send(c) => link[<<c, current_socket[c]>>] = "reset"
  <2>1. CASE Send(c)
    <3>1. sent' = [sent EXCEPT ![<<c, current_socket[c]>>] = @ + MessageSize(c)]
      BY <2>1 DEF Send
    <3> QED BY <2>1, <3>1, <1>t, <1>5 DEF TypeOK, NetTypeOK, Conns
  <2>2. CASE ~ Send(c)
    BY <2>2 DEF SendFails, netVars
  <2> QED BY <2>1, <2>2
<1>7. current_socket'[c] = (n + 1) % NumSockets
  <2>1. (current_socket[c] + 1) % NumSockets = (n + 1) % NumSockets
    <3>1. n \in Nat /\ NumSockets \in Nat /\ NumSockets > 0
      BY <1>2, <1>3
    <3> HIDE DEF n
    <3>2. (n + 1) % NumSockets = ((n % NumSockets) + 1) % NumSockets
      BY <3>1, NextInTurn
    <3> QED BY <1>5, <3>2
  <2> QED BY <1>6, <2>1
<1>8. ASSUME NEW k \in Sockets, link'[<<c, k>>] # "reset"
      PROVE sent'[<<c, k>>] = ShareUpTo(k, n + 1)
  <2>1. sent[<<c, k>>] = ShareUpTo(k, n)
    BY <1>1, <1>6, <1>8 DEF InTurn
  <2>2. ShareUpTo(k, n + 1) =
          IF n % NumSockets = k THEN ShareUpTo(k, n) + SizeOf(n) ELSE ShareUpTo(k, n)
    BY <1>3, ShareGrows
  <2>3. k = current_socket[c] => Send(c) BY <1>s, <1>6, <1>8
  <2> HIDE DEF n
  <2> QED BY <1>3, <1>5, <1>s, <2>1, <2>2, <2>3
<1>9. InTurn(c, i + 1)'
  <2>1. current_cycle'[c] * P + (i + 1) = n + 1 BY <1>4, <1>6
  <2>2. IF current_cycle'[c] < NumCycles
        THEN position'[c] = IF i + 1 < P THEN (i + 1) * Payload ELSE BytesToTransfer
        ELSE i + 1 = 0
    BY <1>2, <1>3, <1>6
  <2>3. client'[c] # "connect" BY <1>2, <1>6
  <2> HIDE DEF n, P
  <2> QED BY <1>7, <1>8, <2>1, <2>2, <2>3 DEF InTurn, P
<1>10. \E x \in 0 .. PerCycle : InTurn(c, x)' BY <1>4, <1>9
<1>11. Cycling(c)' BY <1>t, <1>2, <1>6 DEF Cycling, ClientPlan
<1>12. ClientPlan(c)' BY <1>10, <1>11 DEF ClientPlan
<1> QED BY <1>6, <1>s, <1>12, PlanOfOne

(* Every step of the test keeps the plan.                                  *)
LEMMA StepPlanInv == IInv /\ PlanInv /\ [Next]_vars => PlanInv'
<1> SUFFICES ASSUME IInv, PlanInv, [Next]_vars PROVE PlanInv' OBVIOUS
<1>1. ASSUME NEW c \in Clients, ClientStep(c) PROVE PlanInv'
  BY <1>1, PlanConnect, PlanLeaves, PlanMessage, PlanEndCycle, PlanClose
     DEF ClientStep, ClientConnect
<1>2. CASE ServerExit /\ UNCHANGED clientVars
  BY <1>2, PlanOfAll DEF ServerExit, DropAll
<1>3. CASE UNCHANGED <<clientVars, link, sent>>
  BY <1>3, PlanOfAll
<1>4. ASSUME NEW s \in Conns, NetStep(s) PROVE PlanInv'
  <2>1. CASE Break(s)
    <3>1. link' = [link EXCEPT ![s] = "reset"] /\ link[s] = "up" BY <2>1 DEF Break
    <3>2. \A x \in Conns : link[x] \in {"none", "reset"} => link'[x] = link[x]
      BY <3>1 DEF IInv, TypeOK, NetTypeOK
    <3> QED BY <1>4, <2>1, <3>2, PlanOfAll DEF NetStep, Break
  <2> QED BY <1>3, <1>4, <2>1 DEF NetStep, Deliver, DeliverFin
<1>5. CASE ServerStep /\ UNCHANGED clientVars
  BY <1>2, <1>3, <1>5 DEF ServerStep, SelectFails, AcceptFails, Select, Accept, Skip,
                          ReadData, ReadEof, ReadError, netVars
<1> QED BY <1>1, <1>3, <1>4, <1>5 DEF Next, Finished, vars, netVars

(* In every state a client is somewhere in its plan, and each of its       *)
(* sockets that holds has its share of what is behind.                     *)
THEOREM PlanHolds == Spec => []PlanInv
  BY InitPlanInv, StepPlanInv, IInvHolds, PTL DEF Spec

(* A client that comes to its end with all connections closed in order has *)
(* spread its messages over its sockets in turn, across the cycles.        *)
THEOREM SocketsInTurn == Spec => []RoundRobin
<1>1. PlanInv => RoundRobin
  <2> SUFFICES ASSUME PlanInv, NEW c \in Clients, client[c] = "done",
                      \A k \in Sockets : link[<<c, k>>] = "fin",
                      NEW k \in Sockets
               PROVE  sent[<<c, k>>] = Share(k)
    BY DEF RoundRobin
  <2>1. PICK i \in 0 .. PerCycle : InTurn(c, i) BY DEF PlanInv, ClientPlan
  <2>2. current_cycle[c] = NumCycles BY DEF PlanInv, ClientPlan, Cycling
  <2>3. i = 0 /\ sent[<<c, k>>] = ShareUpTo(k, NumCycles * PerCycle + i)
    BY <2>1, <2>2, PerCycleType DEF InTurn
  <2>4. NumCycles * PerCycle + 0 = NumCycles * PerCycle BY PerCycleType
  <2> QED BY <2>3, <2>4 DEF Share
<1> QED BY <1>1, PlanHolds, PTL

-----------------------------------------------------------------------------
(* The sum of the bytes the kernels have taken.                            *)
LEMMA ConnsFinite == IsFiniteSet(Conns)
<1>1. IsFiniteSet(Sockets)
  BY FS_Interval, NumSocketsAssumption DEF Sockets
<1> QED BY <1>1, ClientsAssumption, FS_Product DEF Conns

(* A sum over S in which the value of one element grows by z.              *)
LEMMA SumGrows ==
    ASSUME NEW S, IsFiniteSet(S), NEW f, NEW g, DOMAIN f = S, DOMAIN g = S,
           NEW c \in S, NEW z \in Int,
           \A d \in S : f[d] \in Int /\ g[d] \in Int,
           \A d \in S \ {c} : g[d] = f[d], g[c] = f[c] + z
    PROVE  SumFunction(g) = SumFunction(f) + z /\ SumFunction(f) \in Int
<1>1. SumFunctionOnSet(g, S) = SumFunctionOnSet(f, S) + g[c] - f[c]
  BY SumChange
<1>2. SumFunctionOnSet(f, S) \in Int /\ f[c] \in Int
  BY SumInt
<1> QED BY <1>1, <1>2 DEF SumFunction

HandedSum == SumFunction([c \in Clients |-> Handed(c)])

LEMMA HandedType ==
    ASSUME TypeOK, NEW c \in Clients
    PROVE  Handed(c) \in Int
<1>1. current_cycle[c] \in Nat /\ position[c] \in Nat
  BY PerCycleType DEF TypeOK, ClientTypeOK
<1> QED BY <1>1, PerCycleType DEF Handed

(* One client is done with z more bytes.                                   *)
LEMMA HandedGrows ==
    ASSUME TypeOK, NEW c \in Clients, NEW z \in Int, Handed(c)' = Handed(c) + z,
           \A d \in Clients \ {c} :
              current_cycle'[d] = current_cycle[d] /\ position'[d] = position[d]
    PROVE  HandedSum' = HandedSum + z /\ HandedSum \in Int
<1> DEFINE f == [d \in Clients |-> Handed(d)]  g == f'
<1>1. /\ \A d \in Clients : f[d] \in Int /\ g[d] \in Int
      /\ \A d \in Clients \ {c} : g[d] = f[d]
      /\ g[c] = f[c] + z
      /\ DOMAIN f = Clients /\ DOMAIN g = Clients
  <2>1. \A d \in Clients : Handed(d) \in Int BY HandedType
  <2>2. \A d \in Clients \ {c} : Handed(d)' = Handed(d) BY DEF Handed
  <2>3. \A d \in Clients : Handed(d)' \in Int BY <2>1, <2>2
  <2> QED BY <2>1, <2>2, <2>3
<1>2. HandedSum = SumFunction(f) /\ HandedSum' = SumFunction(g)
  BY DEF HandedSum
<1> HIDE DEF f, g
<1> QED BY <1>1, <1>2, SumGrows, ClientsAssumption

LEMMA InitSumInv == Init => SumInv
<1> SUFFICES ASSUME Init PROVE SumInv OBVIOUS
<1> USE DEF Init, NetInit, ClientInit
<1> DEFINE f == [c \in Clients |-> Handed(c)]
<1>1. \A c \in Clients : f[c] = 0 BY PerCycleType DEF Handed
<1>2. DOMAIN f = Clients OBVIOUS
<1>3. SumFunction(sent) = 0
  <2>1. DOMAIN sent = Conns /\ \A s \in Conns : sent[s] = 0 OBVIOUS
  <2> QED BY <2>1, ConnsFinite, SumZero DEF SumFunction
<1> HIDE DEF f
<1>4. SumFunction(f) = 0 BY <1>1, <1>2, ClientsAssumption, SumZero DEF SumFunction
<1> QED BY <1>3, <1>4 DEF SumInv, f

(* A broken connection stays broken.                                       *)
LEMMA ResetStays ==
    ASSUME TypeOK, QueueInv, [Next]_vars, NEW s \in Conns, link[s] = "reset"
    PROVE  link'[s] = "reset"
<1> USE DEF TypeOK, NetTypeOK
<1>1. ASSUME NEW c \in Clients, ClientStep(c) PROVE link'[s] = "reset"
  <2>1. CASE Connect(c)
    <3>1. link[<<c, current_socket[c]>>] = "none"
      BY <2>1 DEF Connect, QueueInv, ClientTypeOK, Sockets
    <3>2. link' = [link EXCEPT ![<<c, current_socket[c]>>] = "up"] BY <2>1 DEF Connect
    <3> QED BY <3>1, <3>2
  <2>2. CASE ConnectFails(c) \/ BrokenPipe(c)
    BY <2>2 DEF ConnectFails, BrokenPipe, Closing
  <2>3. CASE Send(c) \/ SendFails(c) \/ EndCycle(c)
    BY <2>3 DEF Send, SendFails, EndCycle, netVars
  <2>4. CASE Close(c)
    BY <2>4 DEF Close
  <2> QED BY <1>1, <2>1, <2>2, <2>3, <2>4 DEF ClientStep, ClientConnect
<1>2. ASSUME NEW x \in Conns, NetStep(x) PROVE link'[s] = "reset"
  BY <1>2 DEF NetStep, Deliver, DeliverFin, Break
<1>3. CASE ServerStep
  BY <1>3 DEF ServerStep, SelectFails, AcceptFails, Select, Accept, Skip, ServerExit, DropAll,
              ReadData, ReadEof, ReadError, netVars
<1> QED BY <1>1, <1>2, <1>3 DEF Next, Finished, vars, netVars

(* send() takes bytes of one connection and adds them to what its client   *)
(* is done with.                                                           *)
LEMMA SumSend ==
    ASSUME IInv, PlanInv, NEW c \in Clients, Send(c),
           SumFunction(sent) = HandedSum
    PROVE  (SumFunction(sent) = HandedSum)'
<1> DEFINE z == MessageSize(c)
<1>t. TypeOK BY DEF IInv
<1>1. /\ current_cycle[c] < NumCycles /\ z \in Int /\ position[c] \in Int
      /\ current_cycle[c] \in Nat
  BY <1>t, MessageSizeType, PerCycleType
     DEF Send, HasMessage, PlanInv, ClientPlan, Cycling, TypeOK, ClientTypeOK
<1>2. /\ current_cycle' = current_cycle
      /\ position'[c] = position[c] + z
      /\ \A d \in Clients \ {c} :
            current_cycle'[d] = current_cycle[d] /\ position'[d] = position[d]
  BY <1>t DEF Send, Advance, TypeOK, ClientTypeOK
<1> DEFINE b == current_cycle[c] * BytesToTransfer
<1>b. b \in Int BY <1>1, PerCycleType
<1>3. Handed(c)' = Handed(c) + z
  <2>1. Handed(c) = b + position[c] /\ Handed(c)' = b + (position[c] + z)
    BY <1>1, <1>2 DEF Handed
  <2> HIDE DEF b, z
  <2> QED BY <1>b, <1>1, <2>1
<1>4. PICK s \in Conns : sent' = [sent EXCEPT ![s] = @ + z]
  BY <1>t DEF Send, TypeOK, ClientTypeOK, Conns
<1> HIDE DEF z
<1>5. /\ DOMAIN sent = Conns /\ DOMAIN sent' = Conns
      /\ \A x \in Conns : sent[x] \in Int /\ sent'[x] \in Int
      /\ \A x \in Conns \ {s} : sent'[x] = sent[x]
      /\ sent'[s] = sent[s] + z
  BY <1>1, <1>4, <1>t DEF TypeOK, NetTypeOK
<1>6. SumFunction(sent') = SumFunction(sent) + z /\ SumFunction(sent) \in Int
  BY <1>1, <1>5, ConnsFinite, SumGrows
<1>7. HandedSum' = HandedSum + z /\ HandedSum \in Int
  BY <1>t, <1>1, <1>2, <1>3, HandedGrows
<1> QED BY <1>6, <1>7

(* The end of a cycle does not change what the client is done with.        *)
LEMMA SumEndCycle ==
    ASSUME IInv, PlanInv, NEW c \in Clients, EndCycle(c),
           SumFunction(sent) = HandedSum
    PROVE  (SumFunction(sent) = HandedSum)'
<1> DEFINE j == current_cycle[c]
<1>t. TypeOK BY DEF IInv
<1>1. /\ j \in Nat /\ NumCycles \in Nat /\ BytesToTransfer \in Nat
      /\ position[c] = BytesToTransfer /\ j < NumCycles
  BY <1>t, PerCycleType
     DEF TypeOK, ClientTypeOK, EndCycle, PlanInv, ClientPlan, Cycling
<1>2. /\ current_cycle'[c] = j + 1 /\ sent' = sent
      /\ j + 1 = NumCycles \/ (j + 1 < NumCycles /\ position'[c] = 0)
      /\ \A d \in Clients \ {c} :
            current_cycle'[d] = current_cycle[d] /\ position'[d] = position[d]
  BY <1>t DEF EndCycle, TypeOK, ClientTypeOK, netVars
<1>3. Handed(c)' = Handed(c)
  <2>1. /\ j * BytesToTransfer \in Nat
        /\ (j + 1) * BytesToTransfer = j * BytesToTransfer + BytesToTransfer
    <3>1. \A a, b \in Nat : a * b \in Nat /\ (a + 1) * b = a * b + b OBVIOUS
    <3> QED BY <1>1, <3>1
  <2>2. CASE j + 1 < NumCycles /\ position'[c] = 0
    BY <1>1, <1>2, <2>1, <2>2 DEF Handed
  <2>3. CASE j + 1 = NumCycles
    BY <1>1, <1>2, <2>1, <2>3 DEF Handed
  <2> QED BY <1>2, <2>2, <2>3
<1>4. Handed(c)' = Handed(c) + 0 /\ 0 \in Int
  BY <1>t, <1>3, HandedType
<1>5. HandedSum' = HandedSum + 0 /\ HandedSum \in Int
  BY <1>t, <1>2, <1>4, HandedGrows
<1> QED BY <1>2, <1>5

LEMMA StepSumInv == IInv /\ PlanInv /\ SumInv /\ [Next]_vars => SumInv'
<1> SUFFICES ASSUME IInv, PlanInv, SumInv, [Next]_vars,
                    \A s \in Conns : link'[s] # "reset"
             PROVE  (SumFunction(sent) = HandedSum)'
  BY DEF SumInv, HandedSum
<1>1. \A s \in Conns : link[s] # "reset"
  BY ResetStays DEF IInv
<1>2. SumFunction(sent) = HandedSum
  BY <1>1 DEF SumInv, HandedSum
<1>3. CASE UNCHANGED <<sent, current_cycle, position>>
  BY <1>2, <1>3 DEF HandedSum, Handed
<1>4. ASSUME NEW c \in Clients, Send(c) PROVE (SumFunction(sent) = HandedSum)'
  BY <1>2, <1>4, SumSend
<1>5. ASSUME NEW c \in Clients, EndCycle(c) PROVE (SumFunction(sent) = HandedSum)'
  BY <1>2, <1>5, SumEndCycle
<1>6. ASSUME NEW c \in Clients PROVE ~ SendFails(c)
  BY <1>1 DEF SendFails, IInv, TypeOK, ClientTypeOK, Conns
<1>7. ASSUME NEW c \in Clients, ClientStep(c) PROVE (SumFunction(sent) = HandedSum)'
  BY <1>3, <1>4, <1>5, <1>6, <1>7
     DEF ClientStep, ClientConnect, Connect, ConnectFails, BrokenPipe, Close
<1>8. CASE ServerStep /\ UNCHANGED clientVars
  BY <1>3, <1>8 DEF ServerStep, SelectFails, AcceptFails, Select, Accept, Skip, ServerExit,
     DropAll, ReadData, ReadEof, ReadError, netVars, clientVars
<1>9. ASSUME NEW s \in Conns, NetStep(s) PROVE (SumFunction(sent) = HandedSum)'
  BY <1>3, <1>9 DEF NetStep, Deliver, DeliverFin, Break, clientVars
<1> QED BY <1>3, <1>7, <1>8, <1>9 DEF Next, Finished, vars, netVars, clientVars

(* As long as every connection holds the kernels have all the bytes that   *)
(* the clients are done with.                                              *)
THEOREM SumHolds == Spec => []SumInv
  BY InitSumInv, StepSumInv, IInvHolds, PlanHolds, PTL DEF Spec

(* The totals the server prints add up to what RunSimulation() tells the   *)
(* parser to expect, number_of_clients * (transfer_data_bytes *            *)
(* num_cycles), when the clients have stopped and every connection was     *)
(* closed in order.                                                        *)
THEOREM TotalsAreComplete == Spec => []TotalsAddUp
<1>1. ASSUME IInv, PlanInv, SumInv, AllStopped,
             \A s \in Conns : total[s] # NoTotal /\ link[s] = "fin"
      PROVE  SumFunction(total) = Cardinality(Clients) * (BytesToTransfer * NumCycles)
  <2> DEFINE h == [c \in Clients |-> Handed(c)]  amount == BytesToTransfer * NumCycles
  <2>1. \A c \in Clients : client[c] = "done"
    <3>1. ASSUME NEW c \in Clients PROVE client[c] \notin {"failed", "killed"}
      BY <1>1 DEF PlanInv, ClientPlan, Cycling, Conns
    <3> QED BY <1>1, <3>1 DEF AllStopped, Stopped
  <2>2. /\ \A c \in Clients : h[c] = amount
        /\ DOMAIN h = Clients /\ amount \in Int
    <3>1. \A c \in Clients : current_cycle[c] = NumCycles
      BY <1>1, <2>1 DEF PlanInv, ClientPlan, Cycling
    <3>2. NumCycles * BytesToTransfer = amount /\ amount \in Int
      BY PerCycleType
    <3> QED BY <3>1, <3>2, PerCycleType DEF Handed
  <2>3. SumFunction(sent) = SumFunction(h) BY <1>1 DEF SumInv
  <2> HIDE DEF h, amount
  <2>4. SumFunction(h) = Cardinality(Clients) * amount
    BY <2>2, ClientsAssumption, SumConstant DEF SumFunction
  <2>5. SumFunction(total) = SumFunction(sent)
    <3>1. DOMAIN total = Conns /\ DOMAIN sent = Conns /\ \A s \in Conns : total[s] = sent[s]
      BY <1>1 DEF IInv, TotalIsWhatWasSent, TypeOK, NetTypeOK, ServerTypeOK
    <3> QED BY <3>1, ConnsFinite, SumEqual DEF SumFunction
  <2> QED BY <2>3, <2>4, <2>5 DEF amount
<1>2. IInv /\ PlanInv /\ SumInv => TotalsAddUp BY <1>1 DEF TotalsAddUp
<1> QED BY <1>2, IInvHolds, PlanHolds, SumHolds, PTL

-----------------------------------------------------------------------------
(* The test implements ByteCount.                                          *)

(* Without faults and with a descriptor for every connection accept() has  *)
(* one to return: the connection it takes out of the queue has none.       *)
LEMMA DescriptorLeft ==
    ASSUME IInv, srv = "accept", Cardinality(Conns) <= Cardinality(Fds)
    PROVE  FreeFds # {}
<1> SUFFICES ASSUME \A f \in Fds : fdConn[f] # NoConn PROVE FALSE
  BY DEF FreeFds
<1>t. TypeOK BY DEF IInv
<1>s. PICK s \in Conns : \A g \in Fds : fdConn[g] # s
  <2>1. 1 \in DOMAIN backlog /\ backlog[1] \in Conns
    BY <1>t DEF IInv, SelectInv, TypeOK, NetTypeOK
  <2> QED BY <2>1 DEF IInv, QueueInv
<1>1. IsFiniteSet(Fds)
  BY FS_Interval, FdLimitAssumption DEF Fds, master_socket
<1>2. /\ IsFiniteSet(Conns \ {s})
      /\ Cardinality(Conns \ {s}) = Cardinality(Conns) - 1
      /\ Cardinality(Conns) \in Nat /\ Cardinality(Fds) \in Nat
  BY <1>1, ConnsFinite, FS_RemoveElement, FS_CardinalityType
<1>3. fdConn \in [Fds -> Conns \ {s}]
  BY <1>s, <1>t DEF TypeOK, ServerTypeOK
<1>4. \E f, g \in Fds : f # g /\ fdConn[f] = fdConn[g]
  BY <1>1, <1>2, <1>3, FS_PigeonHole
<1> QED BY <1>4 DEF IInv, TableInv

(* Then nothing ever fails.                                                *)
LEMMA StepIntact ==
    ASSUME Faults = FALSE, Cardinality(Conns) <= Cardinality(Fds),
           IInv, Intact, [Next]_vars
    PROVE  Intact'
<1>t. TypeOK BY DEF IInv
<1>1. ASSUME NEW c \in Clients, ClientStep(c) PROVE Intact'
  <2>1. \A s \in Conns : link'[s] # "reset"
    <3>1. CASE Connect(c)
      <4>1. link' = [link EXCEPT ![<<c, current_socket[c]>>] = "up"]
        BY <3>1 DEF Connect
      <4> QED BY <4>1, <1>t DEF Intact, TypeOK, NetTypeOK
    <3>2. CASE ConnectFails(c) \/ BrokenPipe(c)
      BY <3>2 DEF ConnectFails, BrokenPipe, Closing, Intact
    <3>3. CASE Send(c) \/ SendFails(c) \/ EndCycle(c)
      BY <3>3 DEF Send, SendFails, EndCycle, netVars, Intact
    <3>4. CASE Close(c)
      <4>1. link' = [link EXCEPT ![<<c, current_socket[c]>>] = IF @ = "up" THEN "fin" ELSE @]
        BY <3>4 DEF Close
      <4> QED BY <4>1, <1>t DEF Intact, TypeOK, NetTypeOK
    <3> QED BY <1>1, <3>1, <3>2, <3>3, <3>4 DEF ClientStep, ClientConnect
  <2> QED BY <1>1, <2>1 DEF ClientStep, serverVars, Intact
<1>2. ASSUME NEW s \in Conns, NetStep(s) PROVE Intact'
  BY <1>2 DEF NetStep, Deliver, DeliverFin, Break, serverVars, Intact
<1>3. CASE ServerStep
  <2>1. ~ SelectFails BY DEF SelectFails
  <2>2. ~ AcceptFails BY DescriptorLeft DEF AcceptFails
  <2>3. srv' # "exited"
    BY <1>3, <2>1, <2>2 DEF ServerStep, Select, Accept, Skip, ReadData, ReadEof, ReadError,
                            NextEntry, Intact
  <2>4. link' = link
    BY <1>3, <2>1, <2>2 DEF ServerStep, Select, Accept, Skip, ReadData, ReadEof, ReadError, netVars
  <2> QED BY <2>3, <2>4 DEF Intact
<1> QED BY <1>1, <1>2, <1>3 DEF Next, Finished, vars, netVars, serverVars, Intact

LEMMA InitIntact == Init => Intact
  BY DEF Init, NetInit, ServerInit, Intact

(* What is counted for a connection is the count of its one entry.         *)
CountedWell ==
    srv # "exited" /\ TableInv =>
        \A s \in Conns : total[s] = NoTotal =>
            /\ \A e \in Entries : EntryOf(e, s) => Counted(s) = client_reads[e]
            /\ (\A e \in Entries : ~ EntryOf(e, s)) => Counted(s) = 0

LEMMA CountedOfEntry == IInv => CountedWell
<1> SUFFICES ASSUME IInv, srv # "exited", NEW s \in Conns, total[s] = NoTotal
             PROVE  /\ \A e \in Entries : EntryOf(e, s) => Counted(s) = client_reads[e]
                    /\ (\A e \in Entries : ~ EntryOf(e, s)) => Counted(s) = 0
  BY DEF CountedWell
<1>1. ASSUME NEW e \in Entries, EntryOf(e, s) PROVE Counted(s) = client_reads[e]
  <2> DEFINE x == CHOOSE x \in Entries : EntryOf(x, s)
  <2>1. x \in Entries /\ EntryOf(x, s) BY <1>1
  <2>2. Counted(s) = client_reads[x] BY <1>1 DEF Counted
  <2> HIDE DEF x
  <2>3. client_socket[x] \in Fds /\ client_socket[e] \in Fds
    BY <1>1, <2>1, EntryOpen DEF IInv, EntryOf
  <2>4. fdConn[client_socket[x]] = fdConn[client_socket[e]] /\ fdConn[client_socket[x]] # NoConn
    BY <1>1, <2>1, NoConnAssumption DEF EntryOf
  <2>5. client_socket[x] = client_socket[e]
    BY <2>3, <2>4 DEF IInv, TableInv
  <2>6. x = e BY <1>1, <2>1, <2>5 DEF IInv, TableInv, EntryOf
  <2> QED BY <2>2, <2>6
<1>2. ASSUME \A e \in Entries : ~ EntryOf(e, s) PROVE Counted(s) = 0
  BY <1>2 DEF Counted
<1> QED BY <1>1, <1>2

LEMMA CountedInType ==
    ASSUME IInv, srv # "exited", NEW s \in Conns
    PROVE  Counted(s) \in Int
<1>1. CASE total[s] # NoTotal
  BY <1>1 DEF Counted, IInv, TypeOK, ServerTypeOK
<1>2. CASE total[s] = NoTotal
  <2>1. CountedWell BY CountedOfEntry
  <2>2. \A e \in Entries : client_reads[e] \in Int BY DEF IInv, TypeOK, ServerTypeOK
  <2> QED BY <1>2, <2>1, <2>2 DEF CountedWell, IInv
<1> QED BY <1>1, <1>2

(* The count of a connection is not changed by what happens elsewhere.     *)
LEMMA CountedStays ==
    ASSUME IInv, IInv', srv # "exited", srv' # "exited",
           NEW s \in Conns, total'[s] = total[s],
           \A e \in Entries : /\ EntryOf(e, s)' <=> EntryOf(e, s)
                              /\ EntryOf(e, s) => client_reads'[e] = client_reads[e]
    PROVE  Counted(s)' = Counted(s)
<1>1. CASE total[s] # NoTotal BY <1>1 DEF Counted
<1>2. CASE total[s] = NoTotal
  <2>1. CountedWell /\ CountedWell' BY CountedOfEntry, PTL
  <2>2. TableInv /\ TableInv' BY DEF IInv
  <2>3. CASE \E e \in Entries : EntryOf(e, s)
    <3>1. PICK e \in Entries : EntryOf(e, s) BY <2>3
    <3>2. Counted(s) = client_reads[e] BY <1>2, <2>1, <2>2, <3>1 DEF CountedWell
    <3>3. Counted(s)' = client_reads'[e] BY <1>2, <2>1, <2>2, <3>1 DEF CountedWell
    <3> QED BY <3>1, <3>2, <3>3
  <2>4. CASE \A e \in Entries : ~ EntryOf(e, s)
    <3>1. Counted(s) = 0 BY <1>2, <2>1, <2>2, <2>4 DEF CountedWell
    <3>2. Counted(s)' = 0 BY <1>2, <2>1, <2>2, <2>4 DEF CountedWell
    <3> QED BY <3>1, <3>2
  <2> QED BY <2>3, <2>4
<1> QED BY <1>1, <1>2

(* The abstract state.                                                     *)
Ended == [s \in Conns |-> link[s] = "fin"]
CountedBytes == [s \in Conns |-> Counted(s)]
Reported == [s \in Conns |-> total[s] # NoTotal]

(* Connections, segments on their way, and the steps of the server that    *)
(* take no byte off a connection are not seen.                             *)
LEMMA Unseen ==
    ASSUME IInv, IInv', srv # "exited", srv' # "exited",
           UNCHANGED <<sent, total, client_reads, client_socket, fdConn>>,
           \A s \in Conns : (link'[s] = "fin") <=> (link[s] = "fin")
    PROVE  UNCHANGED <<sent, Ended, CountedBytes, Reported>>
<1>1. ASSUME NEW s \in Conns PROVE Counted(s)' = Counted(s)
  BY CountedStays DEF EntryOf
<1> QED BY <1>1 DEF Ended, CountedBytes, Reported

(* send() offers a message.                                                *)
LEMMA SendOffers ==
    ASSUME IInv, IInv', Intact, NEW c \in Clients, Send(c), UNCHANGED serverVars
    PROVE  \E s \in Conns : Count!Offer(s)
<1>t. TypeOK BY DEF IInv
<1> DEFINE z == MessageSize(c)
<1>1. z \in 1 .. Payload
  BY <1>t, MessageSizeType, PayloadAssumption DEF Send
<1>2. PICK s \in Conns : link[s] = "up" /\ sent' = [sent EXCEPT ![s] = @ + z]
  BY <1>t DEF Send, TypeOK, ClientTypeOK, Conns
<1>3. UNCHANGED <<Ended, CountedBytes, Reported>>
  <2>1. ASSUME NEW x \in Conns PROVE Counted(x)' = Counted(x)
    BY CountedStays DEF EntryOf, Intact, serverVars
  <2> QED BY <2>1 DEF Ended, CountedBytes, Reported, Send, serverVars
<1>4. ~ Ended[s] BY <1>2 DEF Ended
<1> HIDE DEF z
<1>5. Count!Offer(s) BY <1>1, <1>2, <1>3, <1>4 DEF Count!Offer, Ended, CountedBytes, Reported
<1> QED BY <1>5

(* close() ends a connection.                                              *)
LEMMA CloseEnds ==
    ASSUME IInv, IInv', Intact, NEW c \in Clients, Close(c), UNCHANGED serverVars
    PROVE  \/ \E s \in Conns : Count!End(s)
           \/ UNCHANGED <<sent, Ended, CountedBytes, Reported>>
<1>t. TypeOK BY DEF IInv
<1>1. PICK s \in Conns : link' = [link EXCEPT ![s] = IF @ = "up" THEN "fin" ELSE @]
  BY <1>t DEF Close, TypeOK, ClientTypeOK, Conns
<1>2. UNCHANGED <<sent, CountedBytes, Reported>>
  <2>1. ASSUME NEW x \in Conns PROVE Counted(x)' = Counted(x)
    BY CountedStays DEF EntryOf, Intact, serverVars
  <2> QED BY <2>1 DEF CountedBytes, Reported, Close, serverVars
<1>3. CASE link[s] = "up"
  <2>1. \A x \in Conns : (link'[x] = "fin") <=> IF x = s THEN TRUE ELSE link[x] = "fin"
    BY <1>1, <1>3, <1>t DEF TypeOK, NetTypeOK
  <2>2. Ended' = [Ended EXCEPT ![s] = TRUE] BY <2>1 DEF Ended
  <2> QED BY <1>2, <2>2 DEF Count!End, Ended, CountedBytes, Reported
<1>4. CASE link[s] # "up"
  <2>1. \A x \in Conns : link'[x] = link[x] BY <1>1, <1>4, <1>t DEF TypeOK, NetTypeOK
  <2> QED BY <1>2, <2>1 DEF Ended
<1> QED BY <1>3, <1>4

(* accept() counts nothing yet.                                            *)
LEMMA AcceptUnseen ==
    ASSUME IInv, IInv', Accept, UNCHANGED clientVars
    PROVE  UNCHANGED <<sent, Ended, CountedBytes, Reported>>
<1>t. TypeOK /\ TableInv /\ TableInv' BY DEF IInv
<1>0. /\ srv = "accept" /\ srv' = "scan" /\ UNCHANGED <<sent, link, total, client_reads>>
  BY DEF Accept
<1>1. PICK f \in Fds : /\ fdConn[f] = NoConn
                      /\ fdConn' = [fdConn EXCEPT ![f] = Head(backlog)]
                      /\ client_socket' = [e \in Entries |->
                            IF FirstFree(e) THEN f ELSE client_socket[e]]
  BY DEF Accept, FreeFds
<1>2. PICK s \in Conns : /\ s = Head(backlog) /\ total[s] = NoTotal
                        /\ \A g \in Fds : fdConn[g] # s
  <2>1. 1 \in DOMAIN backlog /\ backlog[1] \in Conns /\ backlog[1] = Head(backlog)
    BY <1>0, <1>t DEF IInv, SelectInv, TypeOK, NetTypeOK
  <2> QED BY <2>1 DEF IInv, QueueInv
<1>3. ASSUME NEW x \in Conns, x # s PROVE Counted(x)' = Counted(x)
  <2>1. ASSUME NEW e \in Entries PROVE EntryOf(e, x)' <=> EntryOf(e, x)
    <3>1. CASE FirstFree(e)
      <4>1. client_socket[e] = 0 /\ client_socket'[e] = f /\ fdConn'[f] = s
        BY <1>1, <1>2, <1>t, <3>1 DEF FirstFree, TypeOK, ServerTypeOK
      <4> QED BY <4>1, <1>3 DEF EntryOf
    <3>2. CASE ~ FirstFree(e) /\ client_socket[e] # 0
      <4>1. client_socket'[e] = client_socket[e] /\ client_socket[e] \in Fds
            /\ fdConn[client_socket[e]] \in Conns
        BY <1>0, <1>1, <1>t, <3>2, EntryOpen
      <4>2. client_socket[e] # f BY <1>1, <4>1, NoConnAssumption
      <4>3. fdConn'[client_socket[e]] = fdConn[client_socket[e]]
        BY <1>1, <1>t, <4>1, <4>2 DEF TypeOK, ServerTypeOK
      <4> QED BY <4>1, <4>3 DEF EntryOf
    <3>3. CASE ~ FirstFree(e) /\ client_socket[e] = 0
      BY <1>1, <3>3 DEF EntryOf
    <3> QED BY <3>1, <3>2, <3>3
  <2> QED BY <1>0, <2>1, CountedStays
<1>4. Counted(s)' = Counted(s)
  <2>1. CountedWell /\ CountedWell' BY CountedOfEntry, PTL
  <2>2. Counted(s) = 0
    <3>1. \A e \in Entries : ~ EntryOf(e, s)
      BY <1>0, <1>2, <1>t, EntryOpen DEF EntryOf
    <3> QED BY <1>0, <1>2, <1>t, <2>1, <3>1 DEF CountedWell
  <2>3. ASSUME NEW e \in Entries, EntryOf(e, s)' PROVE client_reads'[e] = 0
    <3>1. FirstFree(e)
      <4> SUFFICES ASSUME ~ FirstFree(e) PROVE FALSE OBVIOUS
      <4>1. client_socket'[e] = client_socket[e] /\ client_socket[e] # 0
        BY <1>1, <2>3 DEF EntryOf
      <4>2. client_socket[e] \in Fds /\ fdConn[client_socket[e]] \in Conns
        BY <1>0, <1>t, <4>1, EntryOpen
      <4>3. client_socket[e] # f BY <1>1, <4>2, NoConnAssumption
      <4>4. fdConn'[client_socket[e]] = fdConn[client_socket[e]]
        BY <1>1, <1>t, <4>2, <4>3 DEF TypeOK, ServerTypeOK
      <4> QED BY <1>2, <2>3, <4>1, <4>2, <4>4 DEF EntryOf
    <3> QED BY <1>0, <1>t, <3>1 DEF FirstFree, TableInv
  <2>4. Counted(s)' = 0
    BY <1>0, <1>2, <1>t, <2>1, <2>3 DEF CountedWell
  <2> QED BY <2>2, <2>4
<1> QED BY <1>0, <1>3, <1>4 DEF Ended, CountedBytes, Reported

(* The entry the scan reads from is the one of its connection.             *)
LEMMA ScannedConnection ==
    ASSUME IInv, srv = "scan", sd \in readfds
    PROVE  /\ at \in Entries /\ sd \in Fds /\ fdConn[sd] \in Conns
           /\ total[fdConn[sd]] = NoTotal
           /\ Counted(fdConn[sd]) = client_reads[at]
           /\ \A e \in Entries : EntryOf(e, fdConn[sd]) => e = at
           /\ EntryOf(at, fdConn[sd])
<1>1. at \in Entries /\ sd \in Fds /\ fdConn[sd] \in Conns BY ScannedEntry DEF IInv
<1>2. total[fdConn[sd]] = NoTotal
  BY <1>1, NoConnAssumption DEF IInv, QueueInv
<1>3. EntryOf(at, fdConn[sd])
  BY <1>1 DEF EntryOf, sd, Fds, master_socket
<1>4. CountedWell BY CountedOfEntry
<1>5. Counted(fdConn[sd]) = client_reads[at]
  BY <1>1, <1>2, <1>3, <1>4 DEF CountedWell, IInv
<1>6. ASSUME NEW e \in Entries, EntryOf(e, fdConn[sd]) PROVE e = at
  <2>1. client_socket[e] \in Fds BY <1>6, EntryOpen DEF EntryOf, IInv
  <2>2. client_socket[e] = sd
    BY <1>1, <1>6, <2>1, NoConnAssumption DEF EntryOf, IInv, TableInv
  <2> QED BY <1>1, <1>6, <2>2 DEF EntryOf, IInv, TableInv, sd
<1> QED BY <1>1, <1>2, <1>3, <1>5, <1>6

(* read() accounts for bytes that were offered and not counted before.     *)
LEMMA ReadDataAccounts ==
    ASSUME IInv, IInv', Intact, Intact', ReadData, UNCHANGED clientVars
    PROVE  \E s \in Conns : Count!Account(s)
<1>t. TypeOK /\ TableInv /\ TableInv' BY DEF IInv
<1>0. /\ srv = "scan" /\ sd \in readfds
      /\ UNCHANGED <<sent, link, total, fdConn, client_socket>>
  BY DEF ReadData
<1>1. PICK s \in Conns : s = fdConn[sd] BY <1>0, ScannedConnection
<1> DEFINE n == IF unread[s] < BufferSize THEN unread[s] ELSE BufferSize
<1>2. /\ at \in Entries /\ total[s] = NoTotal
      /\ Counted(s) = client_reads[at]
      /\ \A e \in Entries : EntryOf(e, s) => e = at
      /\ EntryOf(at, s)
  BY <1>0, <1>1, ScannedConnection
<1>3. n > 0 /\ client_reads' = [client_reads EXCEPT ![at] = @ + n]
  BY <1>1 DEF ReadData
<1>4. n \in Nat /\ n <= unread[s] /\ client_reads[at] \in Int
  BY <1>2, <1>t, BufferSizeAssumption DEF TypeOK, NetTypeOK, ServerTypeOK
<1>5. n <= sent[s] - Counted(s)
  <2>1. Conserved(s, client_reads[at])
    BY <1>0, <1>2 DEF IInv, CountInv, EntryOf
  <2>2. client_reads[at] + unread[s] + wire[s] = sent[s]
    BY <2>1 DEF Conserved, Intact
  <2>3. unread[s] \in Nat /\ wire[s] \in Nat /\ sent[s] \in Nat
    BY <1>t DEF TypeOK, NetTypeOK
  <2> HIDE DEF n
  <2> QED BY <1>2, <1>4, <2>2, <2>3
<1> HIDE DEF n
<1>6. n \in 1 .. (sent[s] - Counted(s))
  <2>1. sent[s] \in Int /\ Counted(s) \in Int
    BY <1>2, <1>4, <1>t DEF TypeOK, NetTypeOK
  <2> QED BY <1>3, <1>4, <1>5, <2>1
<1>7. \A e \in Entries : client_reads'[e] = IF e = at THEN client_reads[at] + n ELSE client_reads[e]
  BY <1>2, <1>3, <1>t DEF TypeOK, ServerTypeOK
<1>8. Counted(s)' = Counted(s) + n
  <2>1. CountedWell' BY CountedOfEntry, PTL
  <2>2. EntryOf(at, s) /\ srv' # "exited" /\ TableInv' BY <1>2, <1>t DEF Intact
  <2>3. \A e \in Entries : EntryOf(e, s)' <=> EntryOf(e, s) BY <1>0 DEF EntryOf
  <2>4. Counted(s)' = client_reads'[at]
    <3>1. PICK e \in Entries : e = at BY <1>2
    <3>2. EntryOf(e, s)' BY <1>2, <2>3, <3>1
    <3>3. Counted(s)' = client_reads'[e]
      BY <1>0, <1>2, <2>1, <2>2, <3>2 DEF CountedWell
    <3> QED BY <3>1, <3>3
  <2> QED BY <1>2, <1>7, <2>4
<1>9. ASSUME NEW x \in Conns, x # s PROVE Counted(x)' = Counted(x)
  <2>1. ASSUME NEW e \in Entries
        PROVE  /\ EntryOf(e, x)' <=> EntryOf(e, x)
               /\ EntryOf(e, x) => client_reads'[e] = client_reads[e]
    <3>1. EntryOf(e, x) => e # at BY <1>2, <1>9 DEF EntryOf
    <3> QED BY <1>0, <1>7, <3>1 DEF EntryOf
  <2> QED BY <1>0, <2>1, CountedStays DEF Intact
<1>10. CountedBytes' = [CountedBytes EXCEPT ![s] = @ + n]
  BY <1>8, <1>9 DEF CountedBytes
<1>11. UNCHANGED <<Ended, Reported>> BY <1>0 DEF Ended, Reported
<1>12. CountedBytes[s] = Counted(s) BY DEF CountedBytes
<1>13. Count!Account(s)
  BY <1>0, <1>6, <1>10, <1>11, <1>12 DEF Count!Account, CountedBytes, Ended, Reported
<1> QED BY <1>13

(* The end of a stream reports the count of a connection that has ended    *)
(* and of which every byte is counted.                                     *)
LEMMA ReadEofReports ==
    ASSUME IInv, IInv', Intact, Intact', ReadEof, UNCHANGED clientVars
    PROVE  \E s \in Conns : Count!Report(s)
<1>t. TypeOK /\ TableInv /\ TableInv' BY DEF IInv
<1>0. /\ srv = "scan" /\ sd \in readfds /\ UNCHANGED <<sent, link>>
      /\ unread[fdConn[sd]] = 0 /\ rx[fdConn[sd]] = "eof"
      /\ total' = [total EXCEPT ![fdConn[sd]] = client_reads[at]]
      /\ fdConn' = [fdConn EXCEPT ![sd] = NoConn]
      /\ client_socket' = [client_socket EXCEPT ![at] = 0]
      /\ client_reads' = [client_reads EXCEPT ![at] = 0]
  BY DEF ReadEof, netVars
<1>1. PICK s \in Conns : s = fdConn[sd] BY <1>0, ScannedConnection
<1>2. /\ at \in Entries /\ total[s] = NoTotal
      /\ Counted(s) = client_reads[at]
      /\ \A e \in Entries : EntryOf(e, s) => e = at
      /\ EntryOf(at, s)
  BY <1>0, <1>1, ScannedConnection
<1>3. link[s] = "fin" /\ client_reads[at] = sent[s]
  <2>1. Conserved(s, client_reads[at]) /\ StreamInv(s)
    BY <1>0, <1>2 DEF IInv, CountInv, EntryOf
  <2>2. link[s] = "fin" /\ wire[s] = 0 BY <1>0, <1>1, <2>1 DEF StreamInv, Intact
  <2> QED BY <1>0, <1>1, <1>2, <2>1, <2>2, <1>t DEF Conserved, TypeOK, NetTypeOK, ServerTypeOK
<1>4. /\ total'[s] = sent[s] /\ total'[s] # NoTotal
      /\ \A x \in Conns \ {s} : total'[x] = total[x]
  BY <1>0, <1>1, <1>3, <1>t DEF TypeOK, NetTypeOK, ServerTypeOK, NoTotal
<1>5. Counted(s)' = Counted(s)
  <2>1. Counted(s)' = total'[s] BY <1>4 DEF Counted
  <2> QED BY <1>2, <1>3, <1>4, <2>1
<1>6. ASSUME NEW x \in Conns, x # s PROVE Counted(x)' = Counted(x)
  <2>1. ASSUME NEW e \in Entries
        PROVE  /\ EntryOf(e, x)' <=> EntryOf(e, x)
               /\ EntryOf(e, x) => client_reads'[e] = client_reads[e]
    <3>1. CASE e = at
      <4>1. ~ EntryOf(e, x) BY <1>2, <1>6, <3>1 DEF EntryOf
      <4>2. client_socket'[e] = 0 BY <1>0, <1>2, <1>t, <3>1 DEF TypeOK, ServerTypeOK
      <4> QED BY <4>1, <4>2 DEF EntryOf
    <3>2. CASE e # at
      <4>1. client_socket'[e] = client_socket[e] /\ client_reads'[e] = client_reads[e]
        BY <1>0, <1>2, <1>t, <3>2 DEF TypeOK, ServerTypeOK
      <4>2. client_socket[e] # 0 => client_socket[e] \in Fds /\ client_socket[e] # sd
        BY <1>0, <3>2, ScannedEntry DEF IInv
      <4>3. client_socket[e] # 0 => fdConn'[client_socket[e]] = fdConn[client_socket[e]]
        BY <1>0, <1>t, <4>2 DEF TypeOK, ServerTypeOK
      <4> QED BY <4>1, <4>3 DEF EntryOf
    <3> QED BY <3>1, <3>2
  <2> QED BY <1>4, <1>6, <2>1, CountedStays DEF Intact
<1>7. CountedBytes' = CountedBytes /\ CountedBytes[s] = sent[s]
  BY <1>2, <1>3, <1>5, <1>6 DEF CountedBytes
<1>8. Reported' = [Reported EXCEPT ![s] = TRUE]
  BY <1>4 DEF Reported
<1>9. Ended[s] /\ ~ Reported[s] /\ Ended' = Ended
  BY <1>0, <1>2, <1>3 DEF Ended, Reported
<1>10. Count!Report(s)
  BY <1>0, <1>7, <1>8, <1>9 DEF Count!Report, CountedBytes, Ended, Reported
<1> QED BY <1>10

(* Every step of the test is one of ByteCount or not seen there.           *)
LEMMA StepCounts ==
    ASSUME Faults = FALSE, IInv, IInv', Intact, Intact', [Next]_vars
    PROVE  [Count!Next]_Count!countVars
<1> DEFINE Seen == \E s \in Conns : \/ Count!Offer(s) \/ Count!End(s)
                                    \/ Count!Account(s) \/ Count!Report(s)
           Not == UNCHANGED <<sent, Ended, CountedBytes, Reported>>
<1>1. SUFFICES Seen \/ Not
  BY DEF Count!Next, Count!countVars, Ended, CountedBytes, Reported
<1>t. TypeOK BY DEF IInv
<1>2. CASE UNCHANGED <<sent, total, client_reads, client_socket, fdConn, link>>
  BY <1>2, Unseen DEF Intact
<1>3. ASSUME NEW c \in Clients, ClientStep(c) PROVE Seen \/ Not
  <2>0. UNCHANGED serverVars BY <1>3 DEF ClientStep
  <2>1. CASE Connect(c)
    <3>1. link' = [link EXCEPT ![<<c, current_socket[c]>>] = "up"]
          /\ link[<<c, current_socket[c]>>] = "none"
      BY <2>1, <1>t DEF Connect, IInv, QueueInv, TypeOK, ClientTypeOK, Sockets
    <3>2. \A s \in Conns : (link'[s] = "fin") <=> (link[s] = "fin")
      BY <3>1, <1>t DEF TypeOK, NetTypeOK
    <3> QED BY <2>0, <2>1, <3>2, Unseen DEF Connect, serverVars, Intact
  <2>2. ~ ConnectFails(c) \/ ~ ClientConnect(c) \/ Connect(c)
    BY DEF ClientConnect, Intact
  <2>3. CASE Send(c) BY <2>0, <2>3, SendOffers
  <2>4. ~ SendFails(c) /\ ~ BrokenPipe(c)
    BY <1>t DEF SendFails, BrokenPipe, Intact, TypeOK, ClientTypeOK, Conns
  <2>5. CASE EndCycle(c) BY <1>2, <2>0, <2>5 DEF EndCycle, netVars, serverVars
  <2>6. CASE Close(c) BY <2>0, <2>6, CloseEnds
  <2> QED BY <1>3, <2>1, <2>2, <2>3, <2>4, <2>5, <2>6 DEF ClientStep, ClientConnect, Intact
<1>4. ASSUME NEW s \in Conns, NetStep(s) PROVE Seen \/ Not
  BY <1>2, <1>4 DEF NetStep, Deliver, DeliverFin, Break, serverVars
<1>5. CASE ServerStep /\ UNCHANGED clientVars
  <2>1. CASE Select \/ Skip
    BY <1>2, <2>1 DEF Select, Skip, netVars
  <2>2. ~ SelectFails /\ ~ AcceptFails
    BY DEF SelectFails, AcceptFails, ServerExit, Intact
  <2>3. CASE Accept BY <1>5, <2>3, AcceptUnseen
  <2>4. CASE ReadData BY <1>5, <2>4, ReadDataAccounts
  <2>5. CASE ReadEof BY <1>5, <2>5, ReadEofReports
  <2>6. ~ ReadError
    <3>1. srv = "scan" /\ sd \in readfds => fdConn[sd] \in Conns
      BY ScannedConnection
    <3> QED BY <3>1 DEF ReadError, IInv, CountInv, StreamInv, Intact
  <2> QED BY <1>5, <2>1, <2>2, <2>3, <2>4, <2>5, <2>6 DEF ServerStep
<1> QED BY <1>2, <1>3, <1>4, <1>5 DEF Next, Finished, vars, netVars, serverVars

LEMMA InitCounts == Init => Count!Init
<1> SUFFICES ASSUME Init PROVE Count!Init OBVIOUS
<1> USE DEF Init, NetInit, ServerInit
<1>1. \A s \in Conns : Counted(s) = 0 BY DEF Counted, EntryOf
<1>2. /\ Ended = [s \in Conns |-> FALSE] /\ Reported = [s \in Conns |-> FALSE]
      /\ CountedBytes = [s \in Conns |-> 0]
  BY <1>1 DEF Ended, Reported, CountedBytes
<1> QED BY <1>2 DEF Count!Init, Ended, Reported, CountedBytes

(* Without faults, and when the server may open a descriptor for every     *)
(* connection, the TCP test is the exact count that ByteCount specifies:   *)
(* every byte that send() takes is counted once, for its own connection    *)
(* and after it was sent, and the total is given once, when all are in.    *)
THEOREM CountIsExact ==
    ASSUME Faults = FALSE, Cardinality(Conns) <= Cardinality(Fds)
    PROVE  Spec => CountSpec
<1>1. IInv /\ Intact /\ [Next]_vars => Intact' BY StepIntact
<1>2. IInv /\ IInv' /\ Intact /\ Intact' /\ [Next]_vars => [Count!Next]_Count!countVars
  BY StepCounts
<1> QED BY <1>1, <1>2, InitIntact, InitCounts, IInvHolds, PTL DEF Spec, CountSpec, Count!Spec
=============================================================================
