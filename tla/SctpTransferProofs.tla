-------------------------- MODULE SctpTransferProofs ------------------------
(***************************************************************************)
(* Proofs about the SCTP test: what the server counts and how the client   *)
(* spreads its messages, for every number of clients, streams, messages,   *)
(* table entries and descriptors, with and without faults.                 *)
(***************************************************************************)
EXTENDS SctpTransfer, PacketServerProofs

(* The messages of a text (SenderContent::fill with the client's buffer). *)
LEMMA PerCycleType ==
    /\ Payload \in Nat /\ Payload > 0 /\ BytesToTransfer \in Nat /\ NumCycles \in Nat
    /\ Plan!PerCycle \in Nat
    /\ Plan!PerCycle = 0 <=> BytesToTransfer = 0
    /\ \A i \in 0 .. (Plan!PerCycle - 1) : i * Payload < BytesToTransfer
  <1>1. Payload \in Nat /\ Payload > 0 /\ BytesToTransfer \in Nat /\ NumCycles \in Nat
    BY ServerAssumption, CountsAssumption DEF ServerConstants
  <1> QED
    BY <1>1, MessageCount DEF Plan!PerCycle

(* Message n of the plan, the one with number i of its cycle, is what the  *)
(* client sends next.                                                      *)
LEMMA NextOfPlan ==
    ASSUME IInv, NEW c \in Conns, NEW i \in 0 .. Plan!PerCycle, InTurn(c, i),
           position[c] < BytesToTransfer
    PROVE  LET n == current_cycle[c] * Plan!PerCycle + i
           IN  /\ i < Plan!PerCycle
               /\ n \in Nat
               /\ MessageSize(c) \in Sizes
               /\ MessageSize(c) = Plan!SizeOf(n)
               /\ position[c] + MessageSize(c) \in 0 .. BytesToTransfer
               /\ position[c] + MessageSize(c) =
                    IF i + 1 < Plan!PerCycle THEN (i + 1) * Payload ELSE BytesToTransfer
  <1> DEFINE P == Plan!PerCycle  n == current_cycle[c] * P + i
  <1>1. Payload \in Nat /\ Payload > 0 /\ BytesToTransfer \in Nat
    BY ServerAssumption, CountsAssumption DEF ServerConstants
  <1>2. P \in Nat /\ P = (BytesToTransfer + Payload - 1) \div Payload
    BY PerCycleType DEF Plan!PerCycle
  <1> HIDE DEF P
  <1>3. current_cycle[c] \in Nat
    BY CountsAssumption DEF IInv, TypeOK
  <1>4. i < P /\ position[c] = i * Payload /\ i \in 0 .. (P - 1)
    BY <1>1, <1>2 DEF InTurn, P
  <1>5. MessageSize(c) = IF BytesToTransfer - i * Payload < Payload
                         THEN BytesToTransfer - i * Payload ELSE Payload
    BY <1>4 DEF MessageSize
  <1>6. MessageSize(c) \in Int
    BY <1>1, <1>4, <1>5
  <1>7. /\ i * Payload \in Nat /\ i * Payload < BytesToTransfer
        /\ MessageSize(c) \in 1 .. Payload
        /\ MessageSize(c) = IF i = P - 1 THEN BytesToTransfer - (P - 1) * Payload ELSE Payload
        /\ i * Payload + MessageSize(c) = IF i + 1 < P THEN (i + 1) * Payload ELSE BytesToTransfer
    BY <1>1, <1>2, <1>4, <1>5, <1>6, NextMessage
  <1>8. n \in Nat /\ n % P = i
    <2>1. n \in Nat
      BY <1>2, <1>3
    <2> DEFINE q == current_cycle[c]
    <2>2. n = q * P + i /\ q \in Int /\ n \in Int
      BY <1>3, <2>1
    <2> HIDE DEF n, q
    <2>3. n % P = i
      BY <2>2, <1>2, <1>4, ModUnique
    <2> QED
      BY <2>1, <2>3
  <1>9. MessageSize(c) = Plan!SizeOf(n)
    BY <1>7, <1>8 DEF Plan!SizeOf, P
  <1>10. position[c] + MessageSize(c) \in 0 .. BytesToTransfer
    BY <1>1, <1>4, <1>5, <1>7
  <1> QED
    BY <1>4, <1>7, <1>8, <1>9, <1>10 DEF P, Sizes

(* The plan of a stream grows by the message whose turn it is. *)
LEMMA SizeOfType ==
    ASSUME NEW n \in Nat
    PROVE  Plan!SizeOf(n) \in Int
  BY ServerAssumption, CountsAssumption, PerCycleType DEF ServerConstants, Plan!SizeOf

LEMMA PlanSum ==
    ASSUME NEW n, NEW k
    PROVE  Plan!ShareUpTo(k, n) =
                SumFunctionOnSet([m \in Nat |-> Plan!SizeOf(m)], Turns(k, NumStreams, n))
  BY DEF Plan!ShareUpTo, Plan!SumFunctionOnSet, Plan!FoldFunctionOnSet, Plan!MapThenFoldSet,
         SumFunctionOnSet, FoldFunctionOnSet, MapThenFoldSet, Turns

LEMMA ShareStarts ==
    ASSUME NEW k
    PROVE  Plan!ShareUpTo(k, 0) = 0
  BY FirstInTurn, PlanSum

LEMMA ShareGrows ==
    ASSUME NEW n \in Nat, NEW k
    PROVE  Plan!ShareUpTo(k, n + 1) =
                IF n % NumStreams = k THEN Plan!ShareUpTo(k, n) + Plan!SizeOf(n)
                                      ELSE Plan!ShareUpTo(k, n)
  <1> DEFINE f == [m \in Nat |-> Plan!SizeOf(m)]
             sum(x) == SumFunctionOnSet(f, Turns(k, NumStreams, x))
  <1>1. (\A m \in Nat : f[m] \in Int) /\ f[n] = Plan!SizeOf(n)
    BY SizeOfType
  <1>2. sum(n) = Plan!ShareUpTo(k, n) /\ sum(n + 1) = Plan!ShareUpTo(k, n + 1)
    BY PlanSum
  <1> HIDE DEF f
  <1>3. sum(n + 1) = IF n % NumStreams = k THEN sum(n) + f[n] ELSE sum(n)
    BY <1>1, OneMoreInTurn
  <1> QED
    BY <1>1, <1>2, <1>3

-----------------------------------------------------------------------------
LEMMA InitIInv == Init => IInv
  <1> SUFFICES ASSUME Init PROVE IInv
    OBVIOUS
  <1> USE DEF Init
  <1>1. ServerInv
    BY ServerAssumption, ServerInitHolds
  <1>2. TypeOK
    <2>1. 0 \in Streams /\ 0 \in 0 .. NumCycles /\ 0 \in 0 .. BytesToTransfer
      BY StreamsAssumption, CountsAssumption DEF Streams
    <2> QED
      BY <1>1, <2>1 DEF ServerInv, TypeOK
  <1>3. ASSUME NEW c \in Conns PROVE ClientInv(c)
    <2> DEFINE P == Plan!PerCycle
    <2>1. P \in Nat /\ 0 * P + 0 = 0
      BY PerCycleType
    <2>2. 0 = IF 0 < P THEN 0 * Payload ELSE BytesToTransfer
      BY PerCycleType
    <2>3. 0 % NumStreams = 0
      <3>1. 0 = 0 * NumStreams + 0 /\ NumStreams \in Nat /\ 0 \in 0 .. (NumStreams - 1)
        BY StreamsAssumption
      <3> QED
        BY <3>1, ModUnique
    <2> HIDE DEF P
    <2>4. InTurn(c, 0)
      <3>1. \A k \in Streams : streamed[<<c, k>>] = 0
        OBVIOUS
      <3> QED
        BY <2>1, <2>2, <2>3, <3>1, ShareStarts DEF InTurn, P
    <2> QED
      BY <2>1, <2>4 DEF ClientInv, NetInit, P
  <1> QED
    BY <1>1, <1>2, <1>3 DEF IInv

-----------------------------------------------------------------------------
(* A client that does nothing, and whose association stays as it is or     *)
(* breaks, keeps its part of the invariant.                                *)
LEMMA IdleClient ==
    ASSUME NEW c \in Conns, ClientInv(c),
           client'[c] = client[c], stream_i'[c] = stream_i[c],
           current_cycle'[c] = current_cycle[c], position'[c] = position[c],
           \A k \in Streams : streamed'[<<c, k>>] = streamed[<<c, k>>],
           link'[c] = link[c] \/ (link[c] = "up" /\ link'[c] = "reset")
    PROVE  ClientInv(c)'
  <1>1. PICK i \in 0 .. Plan!PerCycle : InTurn(c, i)
    BY DEF ClientInv
  <1>2. InTurn(c, i)'
    BY <1>1 DEF InTurn
  <1> QED
    BY <1>2 DEF ClientInv

(* Steps that leave the clients alone. *)
LEMMA ClientsIdle ==
    ASSUME IInv, ServerInv', UNCHANGED clientVars,
           \A c \in Conns : link'[c] = link[c] \/ (link[c] = "up" /\ link'[c] = "reset")
    PROVE  IInv'
  <1>1. TypeOK'
    BY DEF IInv, ServerInv, TypeOK, clientVars
  <1>2. \A c \in Conns : ClientInv(c)'
    BY IdleClient DEF IInv, clientVars
  <1> QED
    BY <1>1, <1>2 DEF IInv

(* A client's own step. *)
LEMMA OneClientMoves ==
    ASSUME IInv, ServerInv', NEW c \in Conns, ClientInv(c)',
           client' \in [Conns -> {"connect", "events", "send"} \cup Stopped],
           stream_i' \in [Conns -> Streams],
           current_cycle' \in [Conns -> 0 .. NumCycles],
           position' \in [Conns -> 0 .. BytesToTransfer],
           streamed' \in [Conns \X Streams -> Nat],
           \A d \in Conns \ {c} :
              /\ client'[d] = client[d] /\ stream_i'[d] = stream_i[d]
              /\ current_cycle'[d] = current_cycle[d] /\ position'[d] = position[d]
              /\ \A k \in Streams : streamed'[<<d, k>>] = streamed[<<d, k>>]
              /\ link'[d] = link[d]
    PROVE  IInv'
  <1>1. TypeOK'
    BY DEF ServerInv, TypeOK
  <1>2. \A d \in Conns : ClientInv(d)'
    BY IdleClient DEF IInv
  <1> QED
    BY <1>1, <1>2 DEF IInv

(* connect() puts the association into the server's queue. *)
LEMMA StepConnect ==
    ASSUME IInv, NEW c \in Conns, Connect(c), UNCHANGED serverVars
    PROVE  IInv'
  <1> USE DEF Connect, clientCounts, Goto
  <1>1. ServerInv'
    BY ServerAssumption, EstablishKeeps DEF IInv, ClientInv
  <1>2. client'[c] = "events" /\ link'[c] = "up"
    BY DEF IInv, TypeOK, NetTypeOK, Establish
  <1>3. PICK i \in 0 .. Plan!PerCycle : InTurn(c, i)
    BY DEF IInv, ClientInv
  <1>4. link[c] = "none"
    BY DEF IInv, ClientInv
  <1>5. InTurn(c, i)'
    BY <1>3, <1>4 DEF InTurn
  <1>6. ClientInv(c)'
    BY <1>2, <1>5 DEF IInv, ClientInv
  <1> QED
    BY <1>1, <1>6, OneClientMoves DEF IInv, TypeOK, Establish, NetTypeOK

(* The client gives up before it has an association. *)
LEMMA StepConnectFails ==
    ASSUME IInv, NEW c \in Conns, ConnectFails(c), UNCHANGED serverVars
    PROVE  IInv'
  <1> USE DEF ConnectFails, clientCounts, Goto
  <1>1. ServerInv'
    BY DEF IInv, ServerInv, NetTypeOK, ServerTypeOK, EndInv, PlaceInv, CountInv, InTable,
           Books, Debt, netVars, serverVars
  <1>2. client'[c] = "failed" /\ link'[c] = link[c]
    BY DEF IInv, TypeOK, netVars
  <1>3. PICK i \in 0 .. Plan!PerCycle : InTurn(c, i)
    BY DEF IInv, ClientInv
  <1>4. InTurn(c, i)'
    BY <1>2, <1>3 DEF InTurn
  <1>5. ClientInv(c)'
    BY <1>2, <1>4 DEF IInv, ClientInv
  <1> QED
    BY <1>1, <1>5, OneClientMoves DEF IInv, TypeOK, Stopped, netVars

(* setsockopt(SCTP_EVENTS), with its error path. *)
LEMMA StepEvents ==
    ASSUME IInv, NEW c \in Conns, Events(c), UNCHANGED serverVars
    PROVE  IInv'
  <1> USE DEF Events, clientCounts, Goto
  <1>1. ServerInv'
    <2>1. CASE UNCHANGED netVars
      BY <2>1 DEF IInv, ServerInv, NetTypeOK, ServerTypeOK, EndInv, PlaceInv, CountInv, InTable,
             Books, Debt, netVars, serverVars
    <2>2. CASE CloseConns({c})
      BY <2>2, ServerAssumption, CloseConnsKeeps DEF IInv
    <2> QED
      BY <2>1, <2>2
  <1>2. /\ \/ client'[c] = "send" /\ link'[c] = link[c]
           \/ client'[c] = "failed" /\ link'[c] = IF link[c] = "up" THEN "fin" ELSE link[c]
        /\ \A d \in Conns \ {c} : link'[d] = link[d]
    BY DEF IInv, TypeOK, NetTypeOK, CloseConns, Closed, netVars
  <1>3. PICK i \in 0 .. Plan!PerCycle : InTurn(c, i)
    BY DEF IInv, ClientInv
  <1>4. InTurn(c, i)'
    BY <1>2, <1>3 DEF InTurn
  <1>5. ClientInv(c)'
    BY <1>2, <1>4 DEF IInv, ClientInv
  <1> QED
    BY <1>1, <1>2, <1>5, OneClientMoves DEF IInv, TypeOK, Stopped

(* close() behind the last cycle. *)
LEMMA StepClose ==
    ASSUME IInv, NEW c \in Conns, Close(c), UNCHANGED serverVars
    PROVE  IInv'
  <1> USE DEF Close, clientCounts, Goto
  <1>1. ServerInv'
    BY ServerAssumption, CloseConnsKeeps DEF IInv
  <1>2. /\ client'[c] = "done" /\ link'[c] = IF link[c] = "up" THEN "fin" ELSE link[c]
        /\ \A d \in Conns \ {c} : link'[d] = link[d]
    BY DEF IInv, TypeOK, NetTypeOK, CloseConns, Closed
  <1>3. PICK i \in 0 .. Plan!PerCycle : InTurn(c, i)
    BY DEF IInv, ClientInv
  <1>4. InTurn(c, i)'
    BY <1>2, <1>3 DEF InTurn
  <1>5. ClientInv(c)'
    BY <1>2, <1>4 DEF IInv, ClientInv
  <1> QED
    BY <1>1, <1>2, <1>5, OneClientMoves DEF IInv, TypeOK, Stopped

(* The next cycle goes on with the next stream. *)
LEMMA StepNextCycle ==
    ASSUME IInv, NEW c \in Conns, NextCycle(c), UNCHANGED serverVars
    PROVE  IInv'
  <1> USE DEF NextCycle
  <1>1. ServerInv'
    BY DEF IInv, ServerInv, NetTypeOK, ServerTypeOK, EndInv, PlaceInv, CountInv, InTable,
           Books, Debt, netVars, serverVars
  <1>2. PICK i \in 0 .. Plan!PerCycle : InTurn(c, i)
    BY DEF IInv, ClientInv
  <1> DEFINE P == Plan!PerCycle  j == current_cycle[c]
  <1>3. P \in Nat /\ j \in Nat /\ j + 1 \in 0 .. NumCycles
        /\ Payload \in Nat /\ Payload > 0 /\ BytesToTransfer \in Nat /\ NumCycles \in Nat
    BY PerCycleType, ServerAssumption, CountsAssumption DEF ServerConstants, IInv, TypeOK
  <1>4. /\ current_cycle'[c] = j + 1 /\ position'[c] = 0
        /\ \A d \in Conns \ {c} : current_cycle'[d] = current_cycle[d]
                                  /\ position'[d] = position[d]
        /\ current_cycle' \in [Conns -> 0 .. NumCycles]
        /\ position' \in [Conns -> 0 .. BytesToTransfer]
    BY <1>3 DEF IInv, TypeOK
  <1>5. i = P
    <2>1. i < P => position[c] = i * Payload
      BY <1>2 DEF InTurn
    <2> QED
      BY <1>3, <2>1, PerCycleType
  <1>6. (j + 1) * P + 0 = j * P + P
    BY <1>3
  <1>7. 0 = IF 0 < P THEN 0 * Payload ELSE BytesToTransfer
    BY <1>3, PerCycleType
  <1>8. InTurn(c, 0)'
    <2>1. InTurn(c, P)
      BY <1>2, <1>5
    <2> DEFINE n == j * P + P
    <2>2. stream_i'[c] = n % NumStreams
      BY <2>1 DEF InTurn
    <2>3. link'[c] # "reset" =>
            \A k \in Streams :
                streamed'[<<c, k>>] = IF k < OutStreams THEN Plan!ShareUpTo(k, n) ELSE 0
      BY <2>1 DEF InTurn, netVars
    <2>4. current_cycle'[c] * P + 0 = n
      BY <1>4, <1>6
    <2>5. position'[c] = IF 0 < P THEN 0 * Payload ELSE BytesToTransfer
      BY <1>4, <1>7
    <2> HIDE DEF n, P
    <2> QED
      BY <2>2, <2>3, <2>4, <2>5 DEF InTurn, P
  <1>9. ClientInv(c)'
    <2>1. 0 \in 0 .. P
      BY <1>3
    <2>2. \E x \in 0 .. Plan!PerCycle : InTurn(c, x)'
      BY <1>8, <2>1
    <2> QED
      BY <1>4, <2>2 DEF IInv, ClientInv, netVars
  <1> QED
    BY <1>1, <1>4, <1>9, OneClientMoves DEF IInv, TypeOK, netVars

(* A client that has got rid of its message, on a stream the association   *)
(* has or does not have, is at the next message of its plan.               *)
LEMMA Advanced ==
    ASSUME IInv, NEW c \in Conns, HasMessage(c), Advance(c), UNCHANGED client,
           link'[c] = link[c],
           link[c] # "reset" => \A k \in Streams :
                streamed'[<<c, k>>] = IF k < OutStreams /\ k = stream_i[c]
                                      THEN streamed[<<c, k>>] + MessageSize(c)
                                      ELSE streamed[<<c, k>>]
    PROVE  /\ ClientInv(c)'
           /\ position' \in [Conns -> 0 .. BytesToTransfer]
           /\ stream_i' \in [Conns -> Streams]
  <1> DEFINE P == Plan!PerCycle  j == current_cycle[c]
  <1>1. PICK i \in 0 .. P : InTurn(c, i)
    BY DEF IInv, ClientInv
  <1> DEFINE n == j * P + i
  <1>2. position[c] < BytesToTransfer /\ j \in Nat /\ P \in Nat /\ j # NumCycles
    BY CountsAssumption, PerCycleType DEF HasMessage, IInv, TypeOK
  <1>3. /\ i < P /\ n \in Nat
        /\ MessageSize(c) \in Sizes
        /\ MessageSize(c) = Plan!SizeOf(n)
        /\ position[c] + MessageSize(c) \in 0 .. BytesToTransfer
        /\ position[c] + MessageSize(c) =
             IF i + 1 < P THEN (i + 1) * Payload ELSE BytesToTransfer
    BY <1>1, <1>2, NextOfPlan
  <1>4. /\ i + 1 \in 0 .. P /\ j * P + (i + 1) = n + 1
    BY <1>2, <1>3
  <1>5. stream_i[c] = n % NumStreams /\ stream_i[c] \in Streams
    BY <1>1 DEF InTurn, IInv, TypeOK
  <1>6. NumStreams \in Nat /\ NumStreams > 0 /\ OutStreams \in Nat
    BY StreamsAssumption
  <1>7. position' \in [Conns -> 0 .. BytesToTransfer]
        /\ position'[c] = position[c] + MessageSize(c)
    BY <1>3 DEF Advance, IInv, TypeOK
  <1>8. /\ stream_i' \in [Conns -> Streams]
        /\ stream_i'[c] = (n + 1) % NumStreams
    <2>1. (stream_i[c] + 1) % NumStreams = (n + 1) % NumStreams
      <3>1. n \in Nat
        BY <1>3
      <3> HIDE DEF n
      <3>2. (n + 1) % NumStreams = ((n % NumStreams) + 1) % NumStreams
        BY <1>6, <3>1, NextInTurn
      <3> QED
        BY <1>5, <3>2
    <2>2. (stream_i[c] + 1) % NumStreams \in Streams
      BY <1>5, <1>6, DivMod DEF Streams
    <2> QED
      BY <2>1, <2>2 DEF Advance, IInv, TypeOK
  <1>9. current_cycle'[c] = j /\ client'[c] = "send" /\ link[c] \in {"up", "reset"}
    BY DEF Advance, HasMessage, IInv, ClientInv
  <1>10. ASSUME link'[c] # "reset", NEW k \in Streams
         PROVE  streamed'[<<c, k>>] = IF k < OutStreams THEN Plan!ShareUpTo(k, n + 1) ELSE 0
    <2>1. streamed[<<c, k>>] = IF k < OutStreams THEN Plan!ShareUpTo(k, n) ELSE 0
      BY <1>1, <1>10 DEF InTurn
    <2>2. Plan!ShareUpTo(k, n + 1) =
                IF n % NumStreams = k THEN Plan!ShareUpTo(k, n) + Plan!SizeOf(n)
                                      ELSE Plan!ShareUpTo(k, n)
      BY <1>3, ShareGrows
    <2>3. streamed'[<<c, k>>] = IF k < OutStreams /\ k = stream_i[c]
                                THEN streamed[<<c, k>>] + MessageSize(c)
                                ELSE streamed[<<c, k>>]
      BY <1>10
    <2> HIDE DEF n
    <2> QED
      BY <2>1, <2>2, <2>3, <1>3, <1>5
  <1>11. InTurn(c, i + 1)'
    <2>1. stream_i'[c] = (current_cycle'[c] * P + (i + 1)) % NumStreams
      BY <1>4, <1>8, <1>9
    <2>2. link'[c] # "reset" =>
            \A k \in Streams :
                streamed'[<<c, k>>] = IF k < OutStreams
                    THEN Plan!ShareUpTo(k, current_cycle'[c] * P + (i + 1)) ELSE 0
      BY <1>4, <1>9, <1>10
    <2>3. position'[c] = IF i + 1 < P THEN (i + 1) * Payload ELSE BytesToTransfer
      BY <1>3, <1>7
    <2> QED
      BY <2>1, <2>2, <2>3 DEF InTurn
  <1>12. \E x \in 0 .. Plan!PerCycle : InTurn(c, x)'
    BY <1>4, <1>11
  <1>13. ClientInv(c)'
    BY <1>2, <1>9, <1>12 DEF ClientInv
  <1> QED
    BY <1>7, <1>8, <1>13

(* sctp_sendmsg() takes the message. *)
LEMMA StepSend ==
    ASSUME IInv, NEW c \in Conns, Send(c), UNCHANGED serverVars
    PROVE  IInv'
  <1> DEFINE z == MessageSize(c)
  <1>1. PICK i \in 0 .. Plan!PerCycle : InTurn(c, i)
    BY DEF IInv, ClientInv
  <1>2. z \in Sizes /\ z \in Nat
    <2>1. position[c] < BytesToTransfer
      BY DEF Send, HasMessage
    <2>2. z \in Sizes
      BY <1>1, <2>1, NextOfPlan
    <2> QED
      BY <2>2, PerCycleType DEF Sizes
  <1>3. ServerInv'
    BY <1>2, ServerAssumption, LaunchKeeps DEF IInv, Send
  <1>4. \A s \in Conns : link'[s] = link[s]
    BY DEF Send, Launch
  <1>5. stream_i[c] \in Streams /\ streamed[<<c, stream_i[c]>>] \in Nat
    BY DEF IInv, TypeOK
  <1>6. streamed' \in [Conns \X Streams -> Nat]
    BY <1>2, <1>5 DEF Send, IInv, TypeOK
  <1>7. \A k \in Streams :
           /\ streamed'[<<c, k>>] = IF k < OutStreams /\ k = stream_i[c]
                                    THEN streamed[<<c, k>>] + z ELSE streamed[<<c, k>>]
           /\ \A d \in Conns \ {c} : streamed'[<<d, k>>] = streamed[<<d, k>>]
    BY DEF Send, IInv, TypeOK
  <1>8. /\ ClientInv(c)'
        /\ position' \in [Conns -> 0 .. BytesToTransfer]
        /\ stream_i' \in [Conns -> Streams]
    BY <1>4, <1>7, Advanced DEF Send
  <1>9. \A d \in Conns \ {c} :
          /\ stream_i'[d] = stream_i[d] /\ position'[d] = position[d]
          /\ client'[d] = client[d] /\ current_cycle'[d] = current_cycle[d]
    BY DEF Send, Advance, IInv, TypeOK
  <1>10. /\ client' \in [Conns -> {"connect", "events", "send"} \cup Stopped]
         /\ current_cycle' \in [Conns -> 0 .. NumCycles]
    BY DEF Send, Advance, IInv, TypeOK
  <1> QED
    BY <1>3, <1>4, <1>6, <1>7, <1>8, <1>9, <1>10, OneClientMoves

(* It fails: the message is skipped, or SIGPIPE ends the client. *)
LEMMA StepSendFails ==
    ASSUME IInv, NEW c \in Conns, SendFails(c), UNCHANGED serverVars
    PROVE  IInv'
  <1>1. ServerInv'
    BY DEF SendFails, IInv, ServerInv, NetTypeOK, ServerTypeOK, EndInv, PlaceInv, CountInv, InTable,
           Books, Debt, netVars, serverVars
  <1>2. link[c] \in {"up", "reset"} /\ UNCHANGED <<link, streamed>>
    BY DEF SendFails, HasMessage, IInv, ClientInv, netVars, clientCounts
  <1>3. CASE Advance(c) /\ UNCHANGED client
    <2>1. link[c] # "reset" => stream_i[c] >= OutStreams
      BY <1>2 DEF SendFails
    <2>2. stream_i[c] \in Int /\ OutStreams \in Int
      BY StreamsAssumption DEF IInv, TypeOK, Streams
    <2>3. link[c] # "reset" => \A k \in Streams :
                streamed'[<<c, k>>] = IF k < OutStreams /\ k = stream_i[c]
                                      THEN streamed[<<c, k>>] + MessageSize(c)
                                      ELSE streamed[<<c, k>>]
      BY <1>2, <2>1, <2>2
    <2>4. /\ ClientInv(c)'
          /\ position' \in [Conns -> 0 .. BytesToTransfer]
          /\ stream_i' \in [Conns -> Streams]
      BY <1>2, <1>3, <2>3, Advanced DEF SendFails
    <2>5. \A d \in Conns \ {c} :
            /\ stream_i'[d] = stream_i[d] /\ position'[d] = position[d]
            /\ client'[d] = client[d] /\ current_cycle'[d] = current_cycle[d]
      BY <1>3 DEF Advance, IInv, TypeOK
    <2>6. /\ client' \in [Conns -> {"connect", "events", "send"} \cup Stopped]
          /\ current_cycle' \in [Conns -> 0 .. NumCycles]
          /\ streamed' \in [Conns \X Streams -> Nat]
      BY <1>2, <1>3 DEF Advance, IInv, TypeOK
    <2> QED
      BY <1>1, <1>2, <2>4, <2>5, <2>6, OneClientMoves
  <1>4. CASE Goto(c, "killed") /\ UNCHANGED clientCounts
    <2> USE <1>4 DEF Goto, clientCounts
    <2>1. client'[c] = "killed"
      BY DEF IInv, TypeOK
    <2>2. PICK i \in 0 .. Plan!PerCycle : InTurn(c, i)
      BY DEF IInv, ClientInv
    <2>3. InTurn(c, i)'
      BY <1>2, <2>2 DEF InTurn
    <2>4. ClientInv(c)'
      BY <2>1, <2>3 DEF IInv, ClientInv
    <2> QED
      BY <1>1, <1>2, <2>4, OneClientMoves DEF IInv, TypeOK, Stopped
  <1> QED
    BY <1>3, <1>4 DEF SendFails

-----------------------------------------------------------------------------
(* The server's steps leave the associations as the clients see them. *)
LEMMA StepServer ==
    ASSUME IInv, ServerStep
    PROVE  IInv'
  <1>1. CASE Serve
    <2>1. ServerInv'
      BY <1>1, ServerAssumption, ServeKeeps DEF IInv
    <2>2. UNCHANGED link
      BY <1>1 DEF Serve, Select, Accept, Skip, Receive, ReceiveEnd, ReceiveError, netVars
    <2> QED
      BY <2>1, <2>2, ClientsIdle DEF ServerStep
  <1>2. CASE SelectFails
    <2>1. srv = "select" /\ srv' = "accept"
      BY <1>2 DEF SelectFails
    <2>2. ServerTypeOK'
      BY <1>2 DEF SelectFails, IInv, ServerInv, ServerTypeOK, Watched
    <2>3. ServerInv'
      BY <1>2, <2>1, <2>2, LoopKeeps DEF SelectFails, IInv
    <2> QED
      BY <1>2, <2>3, ClientsIdle DEF ServerStep, SelectFails, netVars
  <1>3. CASE AcceptFails
    <2>1. ServerInv'
      BY <1>3, ServerAssumption, StoreBadKeeps DEF AcceptFails, IInv
    <2> QED
      BY <1>3, <2>1, ClientsIdle DEF ServerStep, AcceptFails, netVars
  <1> QED
    BY <1>1, <1>2, <1>3 DEF ServerStep

(* The network delivers a message or an end, or the association breaks. *)
LEMMA StepNet ==
    ASSUME IInv, NEW c \in Conns, NetStep(c)
    PROVE  IInv'
  <1>1. ServerInv'
    BY ServerAssumption, NetKeeps DEF IInv, NetStep
  <1>2. \A d \in Conns : link'[d] = link[d] \/ (link[d] = "up" /\ link'[d] = "reset")
    BY DEF IInv, TypeOK, NetTypeOK, NetStep, NetMoves, Deliver, Lose, DeliverEnd, Break
  <1> QED
    BY <1>1, <1>2, ClientsIdle DEF NetStep

LEMMA StepClient ==
    ASSUME IInv, NEW c \in Conns, ClientStep(c)
    PROVE  IInv'
  BY StepConnect, StepConnectFails, StepEvents, StepSend, StepSendFails, StepNextCycle, StepClose
  DEF ClientStep

LEMMA Unchanged ==
    ASSUME IInv, UNCHANGED vars
    PROVE  IInv'
  <1>1. ServerInv'
    BY DEF vars, IInv, ServerInv, NetTypeOK, ServerTypeOK, EndInv, PlaceInv, CountInv, InTable,
           Books, Debt, netVars, serverVars
  <1> QED
    BY <1>1, ClientsIdle DEF vars, netVars

LEMMA StepIInv == IInv /\ [Next]_vars => IInv'
  <1> SUFFICES ASSUME IInv, [Next]_vars PROVE IInv'
    OBVIOUS
  <1>1. CASE ServerStep
    BY <1>1, StepServer
  <1>2. ASSUME NEW c \in Conns, ClientStep(c) PROVE IInv'
    BY <1>2, StepClient
  <1>3. ASSUME NEW c \in Conns, NetStep(c) PROVE IInv'
    BY <1>3, StepNet
  <1>4. CASE UNCHANGED vars
    BY <1>4, Unchanged
  <1> QED
    BY <1>1, <1>2, <1>3, <1>4 DEF Next, Finished

(* The inductive invariant holds in every reachable state. *)
THEOREM InductiveInvariant == Spec => []IInv
  BY InitIInv, StepIInv, PTL DEF Spec

-----------------------------------------------------------------------------
(* Every variable of the SCTP test keeps its type: no stream number, cycle *)
(* or text position leaves its range, and no bag of messages goes below 0. *)
THEOREM TypeCorrect == Spec => []TypeOK
  <1>1. IInv => TypeOK
    BY DEF IInv
  <1> QED
    BY <1>1, InductiveInvariant, PTL

(* The total that the server prints for a connection is what its client    *)
(* handed to the kernel, less what was dropped, and less 1 for the failed  *)
(* call when it broke, whatever select(), accept() and the connections do. *)
THEOREM TotalsAreTrue == Spec => []TotalIsWhatArrived
  <1>1. IInv => TotalIsWhatArrived
    BY ServerAssumption, BooksGiveTotals DEF IInv
  <1> QED
    BY <1>1, InductiveInvariant, PTL

(* A client that ends on an association that held has given every stream   *)
(* its share of the plan, over all cycles, and nothing to a stream that    *)
(* the association does not have.                                          *)
THEOREM StreamsAreServedInTurn == Spec => []StreamsInTurn
  <1>1. ASSUME IInv, NEW c \in Conns, client[c] = "done", link[c] = "fin", NEW k \in Streams
        PROVE  streamed[<<c, k>>] = IF k < OutStreams THEN Plan!Share(k) ELSE 0
    <2> DEFINE P == Plan!PerCycle
    <2>1. PICK i \in 0 .. P : InTurn(c, i)
      BY <1>1 DEF IInv, ClientInv
    <2>2. current_cycle[c] = NumCycles /\ position[c] = 0
      BY <1>1 DEF IInv, ClientInv
    <2>3. NumCycles \in Nat /\ P \in Nat /\ Payload \in Nat /\ Payload > 0
          /\ BytesToTransfer \in Nat /\ (P = 0 <=> BytesToTransfer = 0)
      BY PerCycleType
    <2>4. i = 0
      <3>1. position[c] = IF i < P THEN i * Payload ELSE BytesToTransfer
        BY <2>1 DEF InTurn
      <3>2. i > 0 => i * Payload > 0
        BY <2>3
      <3> QED
        BY <2>2, <2>3, <3>1, <3>2
    <2>5. current_cycle[c] * P + i = NumCycles * P
      BY <2>2, <2>3, <2>4
    <2>6. streamed[<<c, k>>] =
            IF k < OutStreams THEN Plan!ShareUpTo(k, current_cycle[c] * P + i) ELSE 0
      BY <1>1, <2>1 DEF InTurn
    <2> QED
      BY <2>5, <2>6 DEF Plan!Share
  <1>2. IInv => StreamsInTurn
    BY <1>1 DEF StreamsInTurn
  <1> QED
    BY <1>2, InductiveInvariant, PTL
=============================================================================
