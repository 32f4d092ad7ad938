---------------------------- MODULE UdpTransfer ----------------------------
(***************************************************************************)
(* The UDP test as RunSimulation() (my-simulator.cc) sets it up: paced     *)
(* senders, a network that loses and reorders datagrams, and a server that *)
(* only reads (dce-server-udp.cc).  There are no connections: the server   *)
(* learns neither of losses nor of the end of a client.                    *)
(***************************************************************************)
EXTENDS PacedSender, FiniteSetsExt

INSTANCE MessagePlan

CONSTANTS
    BufferSize,  \* sizeof(buffer) of the server
    Faults       \* may the server's recvfrom() fail?

ASSUME BufferAssumption == BufferSize \in Nat /\ BufferSize >= Payload
ASSUME FaultsAssumption == Faults \in BOOLEAN

VARIABLES
    air,   \* datagrams between a client's sendto() and the server's recvfrom()
    read,  \* per client: bytes the server has read
    lost,  \* per client: bytes of datagrams that were dropped
    server

udpVars == <<air, read, lost, server>>
vars == <<senderVars, udpVars>>

(* A datagram is the client's nth of a cycle. *)
Datagrams == [from : Clients, cycle : 0 .. NumCycles, nth : Nat, size : 1 .. Payload]

UdpTypeOK ==
    /\ air \subseteq Datagrams
    /\ read \in [Clients -> Nat]
    /\ lost \in [Clients -> Nat]
    /\ server \in {"recvfrom", "exited"}

Init ==
    /\ SenderInit
    /\ air = {}
    /\ read = [c \in Clients |-> 0]
    /\ lost = [c \in Clients |-> 0]
    /\ server = "recvfrom"

-----------------------------------------------------------------------------
SendTo(c) ==
    /\ Send(c)
    /\ air' = air \cup {[from |-> c, cycle |-> current_cycle[c],
                         nth |-> position[c], size |-> MessageSize(c)]}
    /\ UNCHANGED <<read, lost, server>>

(* Mistake: no byte of the buffer left for the last byte of the datagram. *)
RecvFromShort ==
    /\ server = "recvfrom"
    /\ \E d \in air :
        /\ air' = air \ {d}
        /\ read' = [read EXCEPT ![d.from] = @ +
                        IF d.size < Payload THEN d.size ELSE Payload - 1]
    /\ UNCHANGED <<senderVars, lost, server>>

(* recvfrom() returns one whole datagram; what does not fit into the       *)
(* buffer would be cut off.                                                *)
RecvFrom ==
    /\ server = "recvfrom"
    /\ \E d \in air :
        /\ air' = air \ {d}
        /\ read' = [read EXCEPT ![d.from] = @ +
                        IF d.size < BufferSize THEN d.size ELSE BufferSize]
    /\ UNCHANGED <<senderVars, lost, server>>

(* recvfrom() fails: exit(EXIT_FAILURE). *)
RecvFails ==
    /\ Faults /\ server = "recvfrom"
    /\ server' = "exited"
    /\ UNCHANGED <<senderVars, air, read, lost>>

(* The network, or the receive buffer of the server, drops a datagram. *)
Lose ==
    /\ \E d \in air :
        /\ air' = air \ {d}
        /\ lost' = [lost EXCEPT ![d.from] = @ + d.size]
    /\ UNCHANGED <<senderVars, read, server>>

AllStopped == \A c \in Clients : client[c] \in Stopped

(* Nothing is left to happen: the clients have ended, or wait in sigwait() *)
(* for a timer that is off.                                                *)
Finished ==
    /\ air = {}
    /\ \A c \in Clients :
            client[c] \in Stopped \/ (client[c] = "sigwait" /\ ~ TimerOn)
    /\ UNCHANGED vars

ClientStep(c) == SenderStep(c) /\ UNCHANGED udpVars
ClientTick(c) == Tick(c) /\ UNCHANGED udpVars

Next ==
    \/ \E c \in Clients : ClientStep(c) \/ ClientTick(c) \/ SendTo(c)
    \/ RecvFrom \/ RecvFails \/ Lose
    \/ Finished

Spec == Init /\ [][Next]_vars

(* The clients run when they can, the timers go off, and what is on its    *)
(* way is read or dropped.                                                 *)
Fairness ==
    /\ \A c \in Clients : WF_vars(ClientStep(c) \/ SendTo(c)) /\ WF_vars(ClientTick(c))
    /\ WF_vars(RecvFrom \/ Lose)

FairSpec == Spec /\ Fairness

-----------------------------------------------------------------------------
TypeOK == SenderTypeOK /\ UdpTypeOK

(* The data of a client is never missing in part for what becomes of its  *)
(* timer: one whose interval setitimer() refuses, whose interval is 0, or  *)
(* that its first tick killed before the handler was there, has sent       *)
(* nothing; a tick at any later time leaves it alive.                      *)
SendsAllOrNothing ==
    \A c \in Clients :
        client[c] \in {"killed", "failed"} \/ ~ TimerOn =>
            \A k \in Sockets : offered[<<c, k>>] = 0

(* No client sends twice in an interval, however late it is and wherever   *)
(* the ticks it misses find it: between two messages there is a tick.      *)
OneMessagePerTick ==
    [][\A s \in Clients \X Sockets :
            offered'[s] # offered[s] => gap[s[1]] >= 1]_vars

(* The cycles are an ON/OFF source ("How many cycles to run in ON/OFF-     *)
(* source", my-simulator.cc): a pause of an interval or more leaves at     *)
(* least one tick without a message between two cycles.                    *)
FirstOfLaterCycle(c) == current_cycle[c] > 0 /\ position[c] = 0
PauseShows ==
    time_between_cycles >= wait_time_us =>
        \A c \in Clients :
            client[c] = "sendto" /\ FirstOfLaterCycle(c) => gap[c] >= 2

(* A client that ends has spread the whole amount over its sockets in      *)
(* turn, across the cycles, whatever became of the datagrams.              *)
RoundRobin ==
    \A c \in Clients :
        client[c] = "done" => \A k \in Sockets : offered[<<c, k>>] = Share(k)

(* Once all clients are done and nothing is on its way, what the server    *)
(* has read falls short of number_of_clients * (transfer_data_bytes *      *)
(* num_cycles) by the datagrams that the network or its receive buffer     *)
(* has dropped, and by nothing else.                                       *)
LossIsWhatIsMissing ==
    (\A c \in Clients : client[c] = "done") /\ air = {} =>
        SumFunction([c \in Clients |-> read[c] + lost[c]])
            = Cardinality(Clients) * (BytesToTransfer * NumCycles)

(* Unless the interval is 0, which turns the timer off, every client ends, *)
(* and what it sent is read or lost.                                       *)
TestEnds == <>(wait_time_us > 0 => AllStopped /\ air = {})

(* The inductive invariant behind OneMessagePerTick and PauseShows: a      *)
(* message in hand has met a tick of a running timer, and after a pause    *)
(* that is not shorter than the interval the tick that ended the pause is  *)
(* counted before the client enters sigwait() for the next.                *)
Paced(c) ==
    /\ client[c] \in {"setitimer", "signal"} => current_cycle[c] = 0
    /\ client[c] \in {"sigwait", "sendto"} => position[c] < BytesToTransfer
    /\ client[c] = "sendto" => TimerOn /\ gap[c] >= 1
    /\ TimerOn /\ time_between_cycles >= wait_time_us /\ FirstOfLaterCycle(c) =>
          /\ client[c] \in {"fill", "sigwait"} => gap[c] >= 1
          /\ client[c] = "sendto" => gap[c] >= 2

IInv == TypeOK /\ wait_time_us = Interval(rate) /\ \A c \in Clients : Paced(c)

(* "How long to wait between cycles in usec" (my-simulator.cc): the time   *)
(* between the messages around a pause, less than gap + 1 intervals, is    *)
(* more than the pause.                                                    *)
PauseKept ==
    \A c \in Clients :
        client[c] = "sendto" /\ FirstOfLaterCycle(c) /\ gap[c] < MaxGap =>
            (gap[c] + 1) * wait_time_us > time_between_cycles

(* The inductive invariant behind SendsAllOrNothing: a client that is not  *)
(* past the call of signal(), or whose timer is off, has sent nothing.     *)
Silent(c) ==
    client[c] \in {"setitimer", "signal", "killed", "failed"} \/ ~ TimerOn =>
        \A k \in Sockets : offered[<<c, k>>] = 0
SilentInv == \A c \in Clients : Silent(c)

(* The inductive invariant behind RoundRobin: with i messages of its cycle *)
(* behind it a client is at message n of its plan, and its sockets have    *)
(* their shares of the n messages.                                         *)
InTurn(c, i) ==
    LET n == current_cycle[c] * PerCycle + i
    IN  /\ IF current_cycle[c] < NumCycles
           THEN position[c] = IF i < PerCycle THEN i * Payload ELSE BytesToTransfer
           ELSE i = 0
        /\ current_socket[c] = n % NumSockets
        /\ \A k \in Sockets : offered[<<c, k>>] = ShareUpTo(k, n)

Cycling(c) ==
    /\ client[c] \in {"fill", "sigwait", "sendto", "usleep"} => current_cycle[c] < NumCycles
    /\ client[c] = "usleep" => position[c] = BytesToTransfer
    /\ client[c] = "done" => current_cycle[c] = NumCycles

ClientPlan(c) == Cycling(c) /\ \E i \in 0 .. PerCycle : InTurn(c, i)
PlanInv == \A c \in Clients : ClientPlan(c)

(* The inductive invariant behind LossIsWhatIsMissing: a datagram on its   *)
(* way is older than its client's next one, so the next one adds its bytes *)
(* to what is on its way, and what is read, lost or on its way is what the *)
(* clients are done with.                                                  *)
Older(d) ==
    \/ d.cycle < current_cycle[d.from]
    \/ d.cycle = current_cycle[d.from] /\ d.nth < position[d.from]

BytesOf(S) == SumFunctionOnSet([d \in Datagrams |-> d.size], S)

LossInv ==
    /\ IsFiniteSet(air) /\ \A d \in air : Older(d)
    /\ SumFunction([c \in Clients |-> read[c] + lost[c]]) + BytesOf(air)
         = SumFunction([c \in Clients |-> Handed(c)])
=============================================================================
