-------------------------- MODULE DccpTransferProofs -----------------------
(***************************************************************************)
(* Proofs about the DCCP test: a tick between two messages, and a loss     *)
(* that adds up, for every number of clients, sockets, bytes and entries,  *)
(* whatever fails or breaks.                                               *)
(***************************************************************************)
EXTENDS DccpTransfer, FiniteSums

(* What is proved about the server holds for the connections of this test. *)
P == INSTANCE PacketServerProofs

LEMMA SameConstants == P!ServerConstants
  BY ServerAssumption DEF ServerConstants, P!ServerConstants, IsFiniteSet, P!IsFiniteSet

LEMMA SameVolume ==
    ASSUME NEW bag
    PROVE  P!Volume(bag) = Volume(bag)
  BY DEF P!Volume, Volume, P!SumFunction, P!SumFunctionOnSet, P!FoldFunctionOnSet,
         P!MapThenFoldSet, SumFunction, SumFunctionOnSet, FoldFunctionOnSet, MapThenFoldSet,
         Sizes, P!Sizes

LEMMA SameInv == ServerInv = P!ServerInv /\ ServerInv' = P!ServerInv'
  BY SameVolume
  DEF ServerInv, P!ServerInv, NetTypeOK, P!NetTypeOK, ServerTypeOK, P!ServerTypeOK,
      EndInv, P!EndInv, PlaceInv, P!PlaceInv, CountInv, P!CountInv, InTable, P!InTable,
      Debt, P!Debt, Books, P!Books, Sizes, P!Sizes, Empty, P!Empty, Entries, P!Entries,
      NoTotal, P!NoTotal

LEMMA ServerStarts ==
    ASSUME NetInit, ServerInit
    PROVE  ServerInv
  <1>1. P!NetInit /\ P!ServerInit
    BY DEF NetInit, P!NetInit, ServerInit, P!ServerInit, Empty, P!Empty, Sizes, P!Sizes,
           Entries, P!Entries, NoTotal, P!NoTotal
  <1> QED
    BY <1>1, SameConstants, SameInv, P!ServerInitHolds

LEMMA ServeKept ==
    ASSUME ServerInv, Serve
    PROVE  ServerInv'
  <1> USE DEF Readable, P!Readable, Empty, P!Empty, Sizes, P!Sizes, Entries, P!Entries,
              netVars, P!netVars
  <1>1. ASSUME Select PROVE P!Select
    BY <1>1 DEF Select, P!Select, Watched, P!Watched, ReadySet, P!ReadySet
  <1>2. ASSUME Accept PROVE P!Accept
    BY <1>2 DEF Accept, P!Accept, FirstFree, P!FirstFree, Store, P!Store, CanOpen, P!CanOpen,
                Cardinality, P!Cardinality
  <1> USE DEF NextEntry, P!NextEntry, sd, P!sd
  <1>3. ASSUME Skip PROVE P!Skip
    BY <1>3 DEF Skip, P!Skip
  <1>4. ASSUME Receive PROVE P!Receive
    BY <1>4 DEF Receive, P!Receive, Without, P!Without
  <1>5. ASSUME ReceiveEnd PROVE P!ReceiveEnd
    BY <1>5 DEF ReceiveEnd, P!ReceiveEnd
  <1>6. ASSUME ReceiveError PROVE P!ReceiveError
    BY <1>6 DEF ReceiveError, P!ReceiveError
  <1>7. P!Serve
    BY <1>1, <1>2, <1>3, <1>4, <1>5, <1>6 DEF Serve, P!Serve
  <1>8. P!ServerInv
    BY SameInv
  <1>9. P!ServerInv'
    BY <1>7, <1>8, SameConstants, P!ServeKeeps
  <1> QED
    BY <1>9, SameInv

LEMMA ServerExitKept ==
    ASSUME ServerInv, ServerExit
    PROVE  ServerInv'
  <1>1. P!ServerExit
    BY SameVolume DEF ServerExit, P!ServerExit, DropAll, P!DropAll, Empty, P!Empty, Sizes, P!Sizes
  <1>2. P!ServerInv
    BY SameInv
  <1>3. P!ServerInv'
    BY <1>1, <1>2, SameConstants, P!ServerExitKeeps
  <1> QED
    BY <1>3, SameInv

LEMMA NetKept ==
    ASSUME ServerInv, UNCHANGED servVars, NEW s \in Conns, NetMoves(s) \/ Break(s)
    PROVE  ServerInv'
  <1> USE DEF Empty, P!Empty, Sizes, P!Sizes, CutOff, P!CutOff
  <1>1. ASSUME Deliver(s) PROVE P!Deliver(s)
    BY <1>1 DEF Deliver, P!Deliver, With, P!With, Without, P!Without
  <1>2. ASSUME Lose(s) PROVE P!Lose(s)
    BY <1>2 DEF Lose, P!Lose, Without, P!Without
  <1>3. ASSUME DeliverEnd(s) PROVE P!DeliverEnd(s)
    BY <1>3, SameVolume DEF DeliverEnd, P!DeliverEnd
  <1>4. ASSUME Break(s) PROVE P!Break(s)
    BY <1>4, SameVolume DEF Break, P!Break
  <1>5. P!NetMoves(s) \/ P!Break(s)
    BY <1>1, <1>2, <1>3, <1>4 DEF NetMoves, P!NetMoves
  <1>6. P!ServerInv /\ UNCHANGED P!serverVars
    BY SameInv DEF P!serverVars, servVars
  <1>7. P!ServerInv'
    BY <1>5, <1>6, SameConstants, P!NetKeeps
  <1> QED
    BY <1>7, SameInv

LEMMA LaunchKept ==
    ASSUME ServerInv, UNCHANGED servVars, NEW s \in Conns, link[s] = "up",
           NEW z \in Sizes, Launch(s, z)
    PROVE  ServerInv'
  <1>1. P!Launch(s, z) /\ z \in P!Sizes
    BY DEF Launch, P!Launch, With, P!With, Sizes, P!Sizes
  <1>2. P!ServerInv /\ UNCHANGED P!serverVars
    BY SameInv DEF P!serverVars, servVars
  <1>3. P!ServerInv'
    BY <1>1, <1>2, SameConstants, P!LaunchKeeps
  <1> QED
    BY <1>3, SameInv

LEMMA RefuseKept ==
    ASSUME ServerInv, UNCHANGED servVars, NEW s \in Conns, NEW z \in Nat, Refuse(s, z)
    PROVE  ServerInv'
  <1>1. P!ServerInv /\ UNCHANGED P!serverVars
    BY SameInv DEF P!serverVars, servVars
  <1>2. P!ServerInv'
    BY <1>1, SameConstants, P!RefuseKeeps DEF Refuse
  <1> QED
    BY <1>2, SameInv

LEMMA EstablishKept ==
    ASSUME ServerInv, UNCHANGED servVars, NEW s \in Conns, link[s] = "none", srv # "exited",
           Establish(s)
    PROVE  ServerInv'
  <1>1. P!Establish(s)
    BY DEF Establish, P!Establish
  <1>2. P!ServerInv /\ UNCHANGED P!serverVars
    BY SameInv DEF P!serverVars, servVars
  <1>3. P!ServerInv'
    BY <1>1, <1>2, SameConstants, P!EstablishKeeps
  <1> QED
    BY <1>3, SameInv

LEMMA CloseConnsKept ==
    ASSUME ServerInv, UNCHANGED servVars, NEW S, CloseConns(S)
    PROVE  ServerInv'
  <1>1. P!CloseConns(S)
    BY DEF CloseConns, P!CloseConns, Closed, P!Closed
  <1>2. P!ServerInv /\ UNCHANGED P!serverVars
    BY SameInv DEF P!serverVars, servVars
  <1>3. P!ServerInv'
    BY <1>1, <1>2, SameConstants, P!CloseConnsKeeps
  <1> QED
    BY <1>3, SameInv

LEMMA NothingKept ==
    ASSUME ServerInv, UNCHANGED <<connVars, servVars>>
    PROVE  ServerInv'
  BY DEF ServerInv, NetTypeOK, ServerTypeOK, EndInv, PlaceInv, CountInv, InTable, Books, Debt,
         connVars, servVars

LEMMA TotalsKept ==
    ASSUME ServerInv, NEW s \in Conns, total[s] # NoTotal
    PROVE  total[s] + lost[s] = IF link[s] = "reset" THEN sent[s] - 1 ELSE sent[s]
  <1>1. P!ServerInv
    BY SameInv
  <1>2. P!TotalIsWhatArrived
    BY <1>1, SameConstants, P!BooksGiveTotals
  <1> QED
    BY <1>2 DEF P!TotalIsWhatArrived, NoTotal, P!NoTotal

-----------------------------------------------------------------------------
LEMMA ConnsFinite == IsFiniteSet(Conns) /\ IsFiniteSet(Clients)
  BY ServerAssumption, ClientsAssumption DEF ServerConstants

LEMMA HandedType ==
    ASSUME CountersOK, NEW c \in Clients
    PROVE  Handed(c) \in Nat
  <1>1. current_cycle[c] \in Nat /\ position[c] \in Nat
    BY NumCyclesAssumption, BytesAssumption DEF CountersOK
  <1> QED
    BY <1>1, NumCyclesAssumption, BytesAssumption DEF Handed

LEMMA InitIInv == Init => IInv
  <1> SUFFICES ASSUME Init PROVE IInv
    OBVIOUS
  <1> USE DEF Init, SenderInit
  <1>1. CountersOK
    <2>1. wait_time_us \in Nat
      <3>1. rate \in Nat /\ rate > 0 /\ FrameBytes \in Nat
        BY RatesAssumption, FrameAssumption
      <3> DEFINE a == FrameBytes * 15625  b == 16 * rate
      <3>2. a \in Nat /\ b \in Nat /\ b > 0
        BY <3>1
      <3> HIDE DEF a, b
      <3>3. a \div b \in Nat
        BY <3>2
      <3> QED
        BY <3>3 DEF Interval, a, b
    <2>2. 0 \in Sockets
      BY NumSocketsAssumption DEF Sockets
    <2> QED
      BY <2>1, <2>2, BytesAssumption, NumCyclesAssumption, MaxGapAssumption DEF CountersOK
  <1>2. ServerInv
    BY ServerStarts
  <1>3. \A c \in Clients : ClientInv(c)
    BY DEF ClientInv, NetInit, Conns
  <1>4. SumFunction(sent) = SumFunction([c \in Clients |-> Handed(c)])
    <2>1. \A c \in Clients : Handed(c) = 0
      BY NumCyclesAssumption, BytesAssumption DEF Handed
    <2> DEFINE f == [c \in Clients |-> Handed(c)]
    <2>2. (\A c \in Clients : f[c] = 0) /\ DOMAIN f = Clients
      BY <2>1
    <2> HIDE DEF f
    <2>3. SumFunction(f) = 0
      BY <2>2, ConnsFinite, SumZero DEF SumFunction
    <2>4. (\A s \in Conns : sent[s] = 0) /\ DOMAIN sent = Conns
      BY DEF NetInit
    <2>5. SumFunction(sent) = 0
      BY <2>4, ConnsFinite, SumZero DEF SumFunction
    <2> QED
      BY <2>3, <2>5 DEF f
  <1>5. client \in [Clients -> Running \cup {"connect", "select"} \cup Stopped]
    BY DEF Running
  <1> QED
    BY <1>1, <1>2, <1>3, <1>4, <1>5 DEF IInv

-----------------------------------------------------------------------------
(* A step of one client that hands z bytes to the kernel. *)
LEMMA OneClientMoves ==
    ASSUME IInv, NEW c \in Clients, ServerInv', CountersOK', ClientInv(c)',
           client' \in [Clients -> Running \cup {"connect", "select"} \cup Stopped],
           \A d \in Clients \ {c} :
              /\ client'[d] = client[d] /\ current_socket'[d] = current_socket[d]
              /\ current_cycle'[d] = current_cycle[d] /\ position'[d] = position[d]
              /\ gap'[d] = gap[d]
              /\ \A k \in Sockets : link[<<d, k>>] = "none" => link'[<<d, k>>] = "none",
           NEW z \in Nat, Handed(c)' = Handed(c) + z,
           SumFunction(sent') = SumFunction(sent) + z
    PROVE  IInv'
  <1>1. \A d \in Clients : ClientInv(d)'
    <2>1. ASSUME NEW d \in Clients \ {c} PROVE ClientInv(d)'
      <3>1. ClientInv(d)
        BY DEF IInv
      <3> QED
        BY <2>1, <3>1 DEF ClientInv
    <2> QED
      BY <2>1
  <1>2. SumFunction([d \in Clients |-> Handed(d)]') =
            SumFunction([d \in Clients |-> Handed(d)]) + z
    <2> DEFINE f == [d \in Clients |-> Handed(d)]  g == f'
    <2>1. \A d \in Clients \ {c} : Handed(d)' = Handed(d)
      BY DEF Handed
    <2>2. /\ \A d \in Clients : f[d] \in Int /\ g[d] \in Int
          /\ \A d \in Clients \ {c} : g[d] = f[d]
          /\ g[c] = f[c] + z
          /\ DOMAIN f = Clients /\ DOMAIN g = Clients
      <3>1. \A d \in Clients : Handed(d) \in Int /\ Handed(d)' \in Int
        <4>1. ASSUME NEW d \in Clients PROVE Handed(d) \in Int /\ Handed(d)' \in Int
          <5>1. current_cycle'[d] \in Nat /\ position'[d] \in Nat
            BY NumCyclesAssumption, BytesAssumption DEF CountersOK
          <5>2. Handed(d)' \in Nat
            BY <5>1, NumCyclesAssumption, BytesAssumption DEF Handed
          <5> QED
            BY <5>2, HandedType DEF IInv
        <4> QED
          BY <4>1
      <3> QED
        BY <2>1, <3>1
    <2> HIDE DEF f, g
    <2>3. SumFunctionOnSet(g, Clients) = SumFunctionOnSet(f, Clients) + g[c] - f[c]
      BY <2>2, ConnsFinite, SumChange
    <2>4. SumFunctionOnSet(f, Clients) \in Int
      BY <2>2, ConnsFinite, SumInt
    <2>5. SumFunction(g) = SumFunction(f) + z
      <3>1. SumFunction(g) = SumFunctionOnSet(g, Clients)
            /\ SumFunction(f) = SumFunctionOnSet(f, Clients)
        BY <2>2 DEF SumFunction
      <3>2. g[c] \in Int /\ f[c] \in Int /\ g[c] = f[c] + z
        BY <2>2
      <3> QED
        BY <2>3, <2>4, <3>1, <3>2
    <2> QED
      BY <2>5 DEF f, g
  <1>3. SumFunction(sent') = SumFunction([d \in Clients |-> Handed(d)]')
    BY <1>2 DEF IInv
  <1> QED
    BY <1>1, <1>3 DEF IInv

(* Steps of the network and of the server: the clients do nothing. *)
LEMMA ClientsIdle ==
    ASSUME IInv, ServerInv', UNCHANGED <<senderVars, sent>>,
           \A s \in Conns : link[s] = "none" => link'[s] = "none"
    PROVE  IInv'
  <1> USE DEF IInv, senderVars, settings
  <1>1. CountersOK'
    BY DEF CountersOK
  <1>2. \A c \in Clients : ClientInv(c)'
    <2>1. ASSUME NEW c \in Clients PROVE ClientInv(c)'
      <3>1. \A k \in Sockets : link[<<c, k>>] = "none" => link'[<<c, k>>] = "none"
        BY DEF Conns
      <3> QED
        BY <3>1 DEF ClientInv
    <2> QED
      BY <2>1
  <1>3. [c \in Clients |-> Handed(c)]' = [c \in Clients |-> Handed(c)]
    BY DEF Handed
  <1> QED
    BY <1>1, <1>2, <1>3

(* Connections that are closed have been made before. *)
LEMMA ClosedLinks ==
    ASSUME ServerInv, NEW S, CloseConns(S) \/ UNCHANGED connVars
    PROVE  /\ \A s \in Conns : link[s] = "none" => link'[s] = "none"
           /\ UNCHANGED sent
  BY DEF CloseConns, Closed, connVars

LEMMA ClosedOrNotKept ==
    ASSUME ServerInv, UNCHANGED servVars, NEW S, CloseConns(S) \/ UNCHANGED connVars
    PROVE  ServerInv'
  BY CloseConnsKept, NothingKept

LEMMA SumKept ==
    ASSUME IInv, UNCHANGED sent
    PROVE  SumFunction(sent') = SumFunction(sent) + 0
  <1>1. SumFunction(sent) \in Int
    <2>1. DOMAIN sent = Conns /\ \A s \in Conns : sent[s] \in Int
      BY DEF IInv, ServerInv, NetTypeOK
    <2> QED
      BY <2>1, ConnsFinite, SumInt DEF SumFunction
  <1> QED
    BY <1>1

(* A step of a client that only goes on in its code, or closes sockets.    *)
LEMMA ClientGoes ==
    ASSUME IInv, UNCHANGED <<settings, current_socket, current_cycle, position, offered>>,
           UNCHANGED servVars, NEW S, CloseConns(S) \/ UNCHANGED connVars,
           NEW c \in Clients, ClientInv(c)',
           gap' \in [Clients -> 0 .. MaxGap],
           client' \in [Clients -> Running \cup {"connect", "select"} \cup Stopped],
           \A d \in Clients \ {c} : client'[d] = client[d] /\ gap'[d] = gap[d]
    PROVE  IInv'
  <1>1. ServerInv'
    BY ClosedOrNotKept DEF IInv
  <1>2. CountersOK'
    BY DEF IInv, CountersOK, settings
  <1>3. /\ \A s \in Conns : link[s] = "none" => link'[s] = "none"
        /\ UNCHANGED sent
    BY ClosedLinks DEF IInv
  <1>4. SumFunction(sent') = SumFunction(sent) + 0
    BY <1>3, SumKept
  <1>5. Handed(c)' = Handed(c) + 0
    <2>1. Handed(c) \in Nat
      BY HandedType DEF IInv
    <2> QED
      BY <2>1 DEF Handed
  <1>6. \A d \in Clients : \A k \in Sockets :
            link[<<d, k>>] = "none" => link'[<<d, k>>] = "none"
    BY <1>3 DEF Conns
  <1>7. 0 \in Nat
    OBVIOUS
  <1> QED
    BY <1>1, <1>2, <1>4, <1>5, <1>6, <1>7, OneClientMoves

-----------------------------------------------------------------------------
(* setitimer() and signal(). *)
LEMMA StepArm ==
    ASSUME IInv, NEW c \in Clients, Arm(c), UNCHANGED <<connVars, servVars>>
    PROVE  IInv'
  <1> USE DEF Arm, settings
  <1>1. client'[c] \in {"failed", "signal"} /\ client[c] = "setitimer"
    BY DEF IInv
  <1>2. ClientInv(c)'
    BY <1>1 DEF IInv, ClientInv, connVars
  <1> QED
    BY <1>2, ClientGoes DEF IInv, CountersOK, Running, Stopped

LEMMA StepInstall ==
    ASSUME IInv, NEW c \in Clients, Install(c), UNCHANGED servVars
    PROVE  IInv'
  <1> USE DEF Install, Goto, settings
  <1>1. client'[c] = "connect" /\ client[c] = "signal"
    BY DEF IInv
  <1>2. ClientInv(c)'
    BY <1>1 DEF IInv, ClientInv, connVars
  <1> QED
    BY <1>2, ClientGoes DEF IInv, CountersOK

(* connect(): the next socket, or the first cycle. *)
LEMMA StepConnect ==
    ASSUME IInv, NEW c \in Clients, Connect(c), UNCHANGED servVars
    PROVE  IInv'
  <1> DEFINE k == current_socket[c]  s == Here(c)
  <1>1. k \in Sockets /\ s \in Conns /\ s = <<c, k>>
    BY DEF IInv, CountersOK, Here, Conns
  <1>2. link[s] = "none" /\ client[c] = "connect"
    <2>1. k \in Int /\ k >= k
      BY <1>1 DEF Sockets
    <2> QED
      BY <1>1, <2>1 DEF Connect, IInv, ClientInv
  <1>3. ServerInv'
    BY <1>1, <1>2, EstablishKept DEF Connect, IInv
  <1>4. /\ link'[s] = "up"
        /\ \A t \in Conns \ {s} : link'[t] = link[t]
        /\ UNCHANGED sent
    BY <1>1 DEF Connect, Establish, IInv, ServerInv, NetTypeOK
  <1>5. UNCHANGED <<settings, current_cycle, position, offered, gap>>
    BY DEF Connect
  <1>6. /\ \/ current_socket'[c] = k + 1 /\ k + 1 \in Sockets /\ client'[c] = "connect"
           \/ current_socket'[c] = 0 /\ client'[c] = IF NumCycles > 0 THEN "fill" ELSE "done"
        /\ \A d \in Clients \ {c} : current_socket'[d] = current_socket[d]
                                    /\ client'[d] = client[d]
        /\ current_socket' \in [Clients -> Sockets]
        /\ client' \in [Clients -> Running \cup {"connect", "select"} \cup Stopped]
    <2>1. 0 \in Sockets /\ (k + 1 < NumSockets => k + 1 \in Sockets)
      BY <1>1, NumSocketsAssumption DEF Sockets
    <2>2. CASE k + 1 < NumSockets /\ current_socket' = [current_socket EXCEPT ![c] = @ + 1]
               /\ UNCHANGED client
      BY <1>2, <2>1, <2>2 DEF IInv, CountersOK
    <2>3. CASE k + 1 = NumSockets /\ current_socket' = [current_socket EXCEPT ![c] = 0]
               /\ Goto(c, IF NumCycles > 0 THEN "fill" ELSE "done")
      BY <2>1, <2>3 DEF IInv, CountersOK, Goto, Running, Stopped
    <2> QED
      BY <2>2, <2>3 DEF Connect
  <1>7. CountersOK'
    BY <1>5, <1>6 DEF IInv, CountersOK, settings
  <1>8. ClientInv(c)'
    <2>1. ASSUME client'[c] = "connect", NEW x \in Sockets, x >= current_socket'[c]
          PROVE  link'[<<c, x>>] = "none"
      <3>1. current_socket'[c] = k + 1 /\ x >= k + 1 /\ x \in Int /\ k \in Int
        BY <1>1, <1>6, <2>1 DEF Sockets
      <3>2. x >= k /\ x # k
        BY <3>1
      <3>3. link[<<c, x>>] = "none"
        BY <1>2, <3>2 DEF IInv, ClientInv
      <3>4. <<c, x>> \in Conns /\ <<c, x>> # s
        BY <1>1, <3>2 DEF Conns
      <3> QED
        BY <1>4, <3>3, <3>4
    <2>2. client'[c] = "fill" => current_cycle'[c] < NumCycles
      <3>1. client'[c] = "fill" => NumCycles > 0
        BY <1>6
      <3>2. current_cycle[c] \in 0 .. NumCycles /\ current_cycle'[c] = current_cycle[c]
        BY <1>5 DEF IInv, CountersOK
      <3>3. current_cycle[c] = 0
        BY <1>2 DEF IInv, ClientInv
      <3> QED
        BY <3>1, <3>2, <3>3
    <2>3. client'[c] = "done" => current_cycle'[c] = NumCycles
      BY <1>5, <1>6, NumCyclesAssumption DEF IInv, CountersOK
    <2>4. client'[c] \in {"connect", "fill", "done"}
      BY <1>6
    <2> QED
      BY <1>2, <1>5, <2>1, <2>2, <2>3, <2>4 DEF ClientInv, IInv
  <1>9. \A d \in Clients \ {c} : \A x \in Sockets :
            link[<<d, x>>] = "none" => link'[<<d, x>>] = "none"
    BY <1>1, <1>4 DEF Conns
  <1>10. SumFunction(sent') = SumFunction(sent) + 0
    BY <1>4, SumKept
  <1>11. Handed(c)' = Handed(c) + 0 /\ 0 \in Nat
    <2>1. Handed(c) \in Nat
      BY HandedType DEF IInv
    <2> QED
      BY <1>5, <2>1 DEF Handed
  <1> QED
    BY <1>3, <1>5, <1>6, <1>7, <1>8, <1>9, <1>10, <1>11, OneClientMoves

LEMMA StepConnectFails ==
    ASSUME IInv, NEW c \in Clients, ConnectFails(c), UNCHANGED servVars
    PROVE  IInv'
  <1> USE DEF ConnectFails, Goto
  <1>1. client'[c] = "failed"
    BY DEF IInv
  <1>2. ClientInv(c)'
    BY <1>1 DEF ClientInv
  <1> QED
    BY <1>2, ClientGoes DEF IInv, CountersOK, Stopped

LEMMA StepFillMessage ==
    ASSUME IInv, NEW c \in Clients, FillMessage(c), UNCHANGED servVars
    PROVE  IInv'
  <1> USE DEF FillMessage, Goto
  <1>1. client'[c] = "select" /\ client[c] = "fill"
    BY DEF IInv
  <1>2. ClientInv(c)'
    BY <1>1 DEF IInv, ClientInv
  <1> QED
    BY <1>2, ClientGoes DEF IInv, CountersOK

LEMMA StepWritable ==
    ASSUME IInv, NEW c \in Clients, Writable(c), UNCHANGED servVars
    PROVE  IInv'
  <1> USE DEF Writable, Goto
  <1>1. client'[c] = "sigwait" /\ client[c] = "select"
    BY DEF IInv
  <1>2. ClientInv(c)'
    BY <1>1 DEF IInv, ClientInv
  <1> QED
    BY <1>2, ClientGoes DEF IInv, CountersOK, Running

(* write(), whether the kernel takes the message or not. *)
LEMMA StepWrite ==
    ASSUME IInv, NEW c \in Clients, Write(c), UNCHANGED servVars
    PROVE  IInv'
  <1> DEFINE z == MessageSize(c)  s == Here(c)
  <1>1. client[c] = "sendto" /\ position[c] < BytesToTransfer /\ current_cycle[c] < NumCycles
    BY DEF Write, Send, IInv, ClientInv
  <1>2. s \in Conns /\ s = <<c, current_socket[c]>>
    BY DEF IInv, CountersOK, Here, Conns
  <1>3. /\ z \in Sizes /\ z \in Nat
        /\ position[c] \in Nat /\ position[c] + z \in 0 .. BytesToTransfer
    <2>1. position[c] \in 0 .. BytesToTransfer
      BY DEF IInv, CountersOK
    <2> QED
      BY <1>1, <2>1, BytesAssumption, PayloadAssumption DEF MessageSize, Sizes
  <1>4. ServerInv'
    BY <1>2, <1>3, LaunchKept, RefuseKept DEF Write, IInv
  <1>5. sent' = [sent EXCEPT ![s] = @ + z] /\ UNCHANGED link
    BY DEF Write, Launch, Refuse
  <1>6. SumFunction(sent') = SumFunction(sent) + z
    <2>1. sent \in [Conns -> Nat]
      BY DEF IInv, ServerInv, NetTypeOK
    <2>2. /\ DOMAIN sent = Conns /\ DOMAIN sent' = Conns
          /\ \A t \in Conns : sent[t] \in Int /\ sent'[t] \in Int
          /\ \A t \in Conns \ {s} : sent'[t] = sent[t]
          /\ sent'[s] = sent[s] + z
      BY <1>2, <1>3, <1>5, <2>1
    <2>3. SumFunctionOnSet(sent', Conns) = SumFunctionOnSet(sent, Conns) + sent'[s] - sent[s]
      BY <1>2, <2>2, ConnsFinite, SumChange
    <2>4. SumFunctionOnSet(sent, Conns) \in Int
      BY <2>2, ConnsFinite, SumInt
    <2>5. sent[s] \in Int /\ sent'[s] = sent[s] + z
      BY <1>2, <2>2
    <2>6. SumFunctionOnSet(sent', Conns) = SumFunctionOnSet(sent, Conns) + z
      BY <1>3, <2>3, <2>4, <2>5
    <2> QED
      BY <2>2, <2>6 DEF SumFunction
  <1>7. /\ client'[c] = "fill" /\ position'[c] = position[c] + z
        /\ UNCHANGED <<settings, current_cycle>>
        /\ \A d \in Clients \ {c} :
              /\ client'[d] = client[d] /\ position'[d] = position[d]
              /\ current_socket'[d] = current_socket[d] /\ gap'[d] = gap[d]
        /\ client' \in [Clients -> Running \cup {"connect", "select"} \cup Stopped]
    BY DEF Write, Send, IInv, CountersOK, Running
  <1>8. CountersOK'
    <2> USE DEF IInv, CountersOK
    <2>1. (current_socket[c] + 1) % NumSockets \in Sockets
      <3>1. current_socket[c] \in Int /\ NumSockets \in Nat /\ NumSockets > 0
        BY NumSocketsAssumption DEF Sockets
      <3> QED
        BY <3>1, DivMod DEF Sockets
    <2>2. current_socket' \in [Clients -> Sockets]
      BY <2>1 DEF Write, Send
    <2>3. position' \in [Clients -> 0 .. BytesToTransfer]
      BY <1>3 DEF Write, Send
    <2>4. offered' \in [Clients \X Sockets -> Nat]
      <3>1. offered[<<c, current_socket[c]>>] + z \in Nat
        BY <1>3
      <3> QED
        BY <3>1 DEF Write, Send
    <2>5. gap' \in [Clients -> 0 .. MaxGap]
      BY MaxGapAssumption DEF Write, Send
    <2> QED
      BY <1>7, <2>2, <2>3, <2>4, <2>5 DEF settings
  <1>9. ClientInv(c)'
    BY <1>1, <1>7 DEF ClientInv
  <1>10. Handed(c)' = Handed(c) + z
    <2>1. current_cycle[c] * BytesToTransfer \in Nat
      BY NumCyclesAssumption, BytesAssumption DEF IInv, CountersOK
    <2> QED
      BY <1>1, <1>3, <1>7, <2>1 DEF Handed
  <1> QED
    BY <1>3, <1>4, <1>5, <1>6, <1>7, <1>8, <1>9, <1>10, OneClientMoves

(* The turn of a cycle; the last one closes the sockets. *)
LEMMA StepNextCycle ==
    ASSUME IInv, NEW c \in Clients, NextCycle(c), UNCHANGED servVars,
           position[c] = BytesToTransfer, current_cycle[c] < NumCycles,
           gap' \in [Clients -> 0 .. MaxGap], \A d \in Clients \ {c} : gap'[d] = gap[d],
           ClosedAtEnd(c)
    PROVE  IInv'
  <1>1. CloseConns(Own(c)) \/ UNCHANGED connVars
    BY DEF ClosedAtEnd
  <1>2. ServerInv'
    BY <1>1, ClosedOrNotKept DEF IInv
  <1>3. /\ \A s \in Conns : link[s] = "none" => link'[s] = "none"
        /\ UNCHANGED sent
    BY <1>1, ClosedLinks DEF IInv
  <1>4. SumFunction(sent') = SumFunction(sent) + 0
    BY <1>3, SumKept
  <1>5. /\ NumCycles \in Nat /\ BytesToTransfer \in Nat
        /\ current_cycle[c] \in Nat /\ current_cycle[c] + 1 \in 0 .. NumCycles
    BY NumCyclesAssumption, BytesAssumption DEF IInv, CountersOK
  <1>6. /\ current_cycle'[c] = current_cycle[c] + 1
        /\ \/ current_cycle[c] + 1 < NumCycles /\ client'[c] = "fill" /\ position'[c] = 0
           \/ current_cycle[c] + 1 = NumCycles /\ client'[c] = "done"
        /\ UNCHANGED <<settings, current_socket, offered>>
        /\ client' \in [Clients -> Running \cup {"connect", "select"} \cup Stopped]
        /\ current_cycle' \in [Clients -> 0 .. NumCycles]
        /\ position' \in [Clients -> 0 .. BytesToTransfer]
    BY <1>5 DEF NextCycle, IInv, CountersOK, Running, Stopped
  <1>7. \A d \in Clients \ {c} :
            /\ client'[d] = client[d] /\ position'[d] = position[d]
            /\ current_cycle'[d] = current_cycle[d]
    BY DEF NextCycle, IInv, CountersOK
  <1>8. CountersOK'
    BY <1>6 DEF IInv, CountersOK, settings
  <1>9. ClientInv(c)'
    BY <1>5, <1>6 DEF ClientInv
  <1>10. Handed(c)' = Handed(c) + 0 /\ 0 \in Nat
    <2> DEFINE j == current_cycle[c]
    <2>1. /\ j * BytesToTransfer \in Nat
          /\ (j + 1) * BytesToTransfer = j * BytesToTransfer + BytesToTransfer
      <3>1. \A a, b \in Nat : a * b \in Nat /\ (a + 1) * b = a * b + b
        OBVIOUS
      <3> QED
        BY <1>5, <3>1
    <2>2. CASE j + 1 < NumCycles /\ position'[c] = 0
      BY <1>5, <1>6, <2>1, <2>2 DEF Handed
    <2>3. CASE j + 1 = NumCycles
      BY <1>5, <1>6, <2>1, <2>3 DEF Handed
    <2> QED
      BY <1>6, <2>2, <2>3
  <1>11. \A d \in Clients : \A k \in Sockets :
            link[<<d, k>>] = "none" => link'[<<d, k>>] = "none"
    BY <1>3 DEF Conns
  <1> QED
    BY <1>2, <1>4, <1>6, <1>7, <1>8, <1>9, <1>10, <1>11, OneClientMoves

(* A pause, or the next cycle at once or behind the pause. *)
LEMMA StepEndOfCycle ==
    ASSUME IInv, NEW c \in Clients, EndOfCycle(c), UNCHANGED servVars
    PROVE  IInv'
  <1>1. CloseConns(Own(c)) \/ UNCHANGED connVars
    BY DEF EndOfCycle, ClosedAtEnd
  <1>2. UNCHANGED gap /\ gap \in [Clients -> 0 .. MaxGap]
    BY DEF EndOfCycle, EndCycle, PauseOver, IInv, CountersOK
  <1>3. client[c] \in {"fill", "usleep"} /\ position[c] = BytesToTransfer
        /\ current_cycle[c] < NumCycles
    BY DEF EndOfCycle, EndCycle, PauseOver, IInv, ClientInv
  <1>4. CASE NextCycle(c)
    BY <1>2, <1>3, <1>4, StepNextCycle DEF EndOfCycle
  <1>5. CASE /\ client' = [client EXCEPT ![c] = "usleep"]
             /\ UNCHANGED <<settings, current_socket, current_cycle, position, offered>>
    <2>1. client'[c] = "usleep"
      BY <1>5 DEF IInv
    <2>2. ClientInv(c)'
      BY <1>3, <1>5, <2>1 DEF ClientInv
    <2>3. client' \in [Clients -> Running \cup {"connect", "select"} \cup Stopped]
      BY <1>5 DEF IInv, Running
    <2>4. \A d \in Clients \ {c} : client'[d] = client[d]
      BY <1>5 DEF IInv
    <2> QED
      BY <1>1, <1>2, <1>5, <2>2, <2>3, <2>4, ClientGoes
  <1> QED
    BY <1>4, <1>5 DEF EndOfCycle, EndCycle, PauseOver

(* A tick, whatever the client is doing. *)
LEMMA StepTick ==
    ASSUME IInv, NEW c \in Clients, DccpTick(c)
    PROVE  IInv'
  <1>1. /\ gap' \in [Clients -> 0 .. MaxGap] /\ gap'[c] >= 1
        /\ \A d \in Clients \ {c} : gap'[d] = gap[d]
    BY MaxGapAssumption DEF DccpTick, IInv, CountersOK
  <1>2. (CloseConns(Own(c)) \/ UNCHANGED connVars) /\ ClosedAtEnd(c) /\ UNCHANGED servVars
    BY DEF DccpTick, ClosedAtEnd
  <1>3. CASE TickTaken(c)
    <2> USE <1>3 DEF TickTaken
    <2>1. client'[c] = "sendto" /\ client[c] = "sigwait"
      BY DEF IInv
    <2>2. ClientInv(c)'
      BY <1>1, <2>1 DEF IInv, ClientInv
    <2>3. client' \in [Clients -> Running \cup {"connect", "select"} \cup Stopped]
          /\ \A d \in Clients \ {c} : client'[d] = client[d]
      BY DEF IInv, Running
    <2> QED
      BY <1>1, <1>2, <2>2, <2>3, ClientGoes
  <1>4. CASE TickKills(c)
    <2> USE <1>4 DEF TickKills
    <2>1. client'[c] = "killed"
      BY DEF IInv
    <2>2. ClientInv(c)'
      BY <2>1 DEF ClientInv
    <2>3. client' \in [Clients -> Running \cup {"connect", "select"} \cup Stopped]
          /\ \A d \in Clients \ {c} : client'[d] = client[d]
      BY DEF IInv, Stopped
    <2> QED
      BY <1>1, <1>2, <2>2, <2>3, ClientGoes
  <1>5. CASE TickEndsPause(c)
    <2>1. NextCycle(c) /\ position[c] = BytesToTransfer /\ current_cycle[c] < NumCycles
      BY <1>5 DEF TickEndsPause, IInv, ClientInv
    <2> QED
      BY <1>1, <1>2, <2>1, StepNextCycle
  <1>6. CASE TickMissed(c) \/ TickRestarts(c)
    <2>1. UNCHANGED <<settings, client, current_socket, current_cycle, position, offered>>
          /\ client[c] \in {"fill", "sendto", "connect", "select"}
      BY <1>6 DEF TickMissed, TickRestarts
    <2>2. UNCHANGED connVars
      <3>1. client'[c] # "done"
        BY <2>1
      <3> QED
        BY <1>2, <3>1 DEF ClosedAtEnd
    <2>3. ClientInv(c)'
      BY <1>1, <2>1, <2>2 DEF IInv, ClientInv, connVars
    <2>4. client' \in [Clients -> Running \cup {"connect", "select"} \cup Stopped]
      BY <2>1 DEF IInv
    <2> QED
      BY <1>1, <1>2, <2>1, <2>3, <2>4, ClientGoes
  <1> QED
    BY <1>3, <1>4, <1>5, <1>6 DEF DccpTick

-----------------------------------------------------------------------------
LEMMA StepServer ==
    ASSUME IInv, ServerStep
    PROVE  IInv'
  <1>1. ServerInv'
    BY ServeKept, ServerExitKept DEF ServerStep, SelectFails, AcceptFails, IInv
  <1>2. UNCHANGED senderVars
    BY DEF ServerStep
  <1>3. /\ \A s \in Conns : link[s] = "none" => link'[s] = "none"
        /\ UNCHANGED sent
    BY DEF ServerStep, SelectFails, AcceptFails, Serve, Select, Accept, Skip, Receive,
           ReceiveEnd, ReceiveError, ServerExit, DropAll, netVars
  <1> QED
    BY <1>1, <1>2, <1>3, ClientsIdle

LEMMA StepNet ==
    ASSUME IInv, NEW s \in Conns, NetStep(s)
    PROVE  IInv'
  <1>1. ServerInv'
    BY NetKept DEF NetStep, IInv
  <1>2. UNCHANGED senderVars
    BY DEF NetStep
  <1>3. /\ \A t \in Conns : link[t] = "none" => link'[t] = "none"
        /\ UNCHANGED sent
    BY DEF NetStep, NetMoves, Deliver, Lose, DeliverEnd, Break, CutOff, IInv, ServerInv, NetTypeOK
  <1> QED
    BY <1>1, <1>2, <1>3, ClientsIdle

LEMMA StepClient ==
    ASSUME IInv, NEW c \in Clients, ClientStep(c)
    PROVE  IInv'
  BY StepArm, StepInstall, StepConnect, StepConnectFails, StepFillMessage, StepWritable,
     StepWrite, StepEndOfCycle
  DEF ClientStep

LEMMA StepIInv == IInv /\ [Next]_vars => IInv'
  <1> SUFFICES ASSUME IInv, [Next]_vars PROVE IInv'
    OBVIOUS
  <1>1. ASSUME NEW c \in Clients, ClientStep(c) \/ DccpTick(c) PROVE IInv'
    BY <1>1, StepClient, StepTick
  <1>2. CASE ServerStep
    BY <1>2, StepServer
  <1>3. ASSUME NEW s \in Conns, NetStep(s) PROVE IInv'
    BY <1>3, StepNet
  <1>4. CASE UNCHANGED vars
    <2>1. ServerInv'
      BY <1>4, NothingKept DEF vars, IInv
    <2> QED
      BY <1>4, <2>1, ClientsIdle DEF vars, connVars
  <1> QED
    BY <1>1, <1>2, <1>3, <1>4 DEF Next, Finished

(* The inductive invariant holds in every reachable state. *)
THEOREM InductiveInvariant == Spec => []IInv
  BY InitIInv, StepIInv, PTL DEF Spec

-----------------------------------------------------------------------------
(* Between two messages of a client there is a tick of its timer, although *)
(* ticks also interrupt select() and connect() and are missed there.       *)
THEOREM PacedByTimer == Spec => OneMessagePerTick
  <1> DEFINE A == \A s \in Conns : offered'[s] # offered[s] => gap[s[1]] >= 1
  <1>1. ASSUME IInv, [Next]_vars PROVE [A]_vars
    <2> SUFFICES ASSUME Next, NEW s \in Conns, offered'[s] # offered[s]
                 PROVE  gap[s[1]] >= 1
      BY <1>1
    <2>1. PICK c \in Clients : Send(c)
      BY DEF Next, ClientStep, Arm, Install, Connect, ConnectFails, FillMessage, Writable, Write,
             EndOfCycle, EndCycle, PauseOver, NextCycle, DccpTick, TickTaken, TickKills,
             TickEndsPause, TickMissed, TickRestarts, ServerStep, NetStep, Finished,
             vars, senderVars
    <2>2. s = <<c, current_socket[c]>>
      BY <2>1, <1>1 DEF Send, IInv, CountersOK, Conns
    <2> QED
      BY <2>1, <2>2, <1>1 DEF Send, IInv, ClientInv
  <1> QED
    BY <1>1, InductiveInvariant, PTL DEF Spec, OneMessagePerTick

(* The total of a connection is what its client wrote, less what was lost, *)
(* and less 1 when it broke, also when the server has exited since.        *)
THEOREM TotalsAreTrue == Spec => []TotalIsWhatArrived
  <1>1. IInv => TotalIsWhatArrived
    BY TotalsKept DEF IInv, TotalIsWhatArrived
  <1> QED
    BY <1>1, InductiveInvariant, PTL

(* When all clients are done and all connections have their totals, the    *)
(* totals the server printed, the bytes that were dropped and one byte for *)
(* each connection that broke sum up to number_of_clients *                *)
(* (transfer_data_bytes * num_cycles).                                     *)
THEOREM TotalsAccountForAll == Spec => []TotalsFallShort
  <1>1. ASSUME IInv, \A c \in Clients : client[c] = "done", \A s \in Conns : total[s] # NoTotal
        PROVE  SumFunction([s \in Conns |-> total[s] + lost[s]])
                 + Cardinality({s \in Conns : link[s] = "reset"})
                 = Cardinality(Clients) * (BytesToTransfer * NumCycles)
    <2> DEFINE R == {s \in Conns : link[s] = "reset"}
               f == [s \in Conns |-> total[s] + lost[s]]
               g == [s \in Conns |-> IF s \in R THEN 1 ELSE 0]
               h == [c \in Clients |-> Handed(c)]
               amount == NumCycles * BytesToTransfer
    <2>1. /\ DOMAIN f = Conns /\ DOMAIN h = Clients /\ R \in SUBSET Conns
          /\ \A s \in Conns : g[s] = IF s \in R THEN 1 ELSE 0
          /\ \A c \in Clients : h[c] = amount
          /\ amount \in Int
      <3>1. \A c \in Clients : Handed(c) = amount
        BY <1>1, NumCyclesAssumption DEF IInv, ClientInv, Handed
      <3> QED
        BY <3>1, NumCyclesAssumption, BytesAssumption
    <2>2. /\ DOMAIN sent = Conns
          /\ \A s \in Conns : f[s] \in Int /\ g[s] \in Int /\ sent[s] = f[s] + g[s]
      <3>1. ASSUME NEW s \in Conns
            PROVE  f[s] \in Int /\ g[s] \in Int /\ sent[s] = f[s] + g[s]
        <4>1. total[s] + lost[s] = IF link[s] = "reset" THEN sent[s] - 1 ELSE sent[s]
          BY <1>1, TotalsKept DEF IInv
        <4>2. sent[s] \in Int
          BY <1>1 DEF IInv, ServerInv, NetTypeOK
        <4> QED
          BY <4>1, <4>2
      <3> QED
        BY <1>1, <3>1 DEF IInv, ServerInv, NetTypeOK
    <2>3. SumFunction(sent) = SumFunction(h)
      BY <1>1 DEF IInv
    <2> HIDE DEF f, g, h, R, amount
    <2>4. SumFunctionOnSet(sent, Conns) = SumFunctionOnSet(f, Conns) + SumFunctionOnSet(g, Conns)
      BY <2>2, ConnsFinite, SumPlus
    <2>5. SumFunctionOnSet(g, Conns) = Cardinality(R)
      BY <2>1, ConnsFinite, SumCounts
    <2>6. SumFunctionOnSet(h, Clients) = Cardinality(Clients) * amount
      BY <2>1, ConnsFinite, SumConstant
    <2>7. SumFunction(f) + Cardinality(R) = Cardinality(Clients) * amount
      BY <2>1, <2>2, <2>3, <2>4, <2>5, <2>6 DEF SumFunction
    <2>8. amount = BytesToTransfer * NumCycles
      BY NumCyclesAssumption, BytesAssumption DEF amount
    <2> QED
      BY <2>7, <2>8 DEF f, R
  <1>2. IInv => TotalsFallShort
    BY <1>1 DEF TotalsFallShort
  <1> QED
    BY <1>2, InductiveInvariant, PTL
=============================================================================
