---------------------------- MODULE DccpTransfer ---------------------------
(***************************************************************************)
(* The DCCP test: the client of dce-client-dccp.cc is the paced sender of  *)
(* the UDP test with connections, and waits in select() for the socket     *)
(* before it waits in sigwait() for the tick; the server                   *)
(* (dce-server-dccp.cc) exits when select() or accept() fails.  Messages   *)
(* are lost and reordered, also by the end of their connection.            *)
(***************************************************************************)
EXTENDS PacedSender, Sequences, FiniteSetsExt

CONSTANTS Backlog, Lossy, EndWaits, Faults, MAX_CLIENTS, MaxOpen, BufferSize, Free, Bad

Conns == Clients \X Sockets

VARIABLES
    link, sent, air, inbox, rx, lost, backlog,
    srv, at, client_socket, client_reads, readfds, open, total

INSTANCE PacketServer

ASSUME ServerAssumption == ServerConstants
ASSUME DccpAssumption == Lossy = TRUE /\ EndWaits = FALSE

connVars == <<link, sent, air, inbox, rx, lost, backlog>>
servVars == <<srv, at, client_socket, client_reads, readfds, open, total>>

vars == <<senderVars, connVars, servVars>>

Init == SenderInit /\ NetInit /\ ServerInit

-----------------------------------------------------------------------------
Own(c) == {s \in Conns : s[1] = c}
Here(c) == <<c, current_socket[c]>>
Goto(c, pc) == client' = [client EXCEPT ![c] = pc]

(* signal(); the sockets are connected next. *)
Install(c) ==
    /\ client[c] = "signal"
    /\ Goto(c, "connect")
    /\ UNCHANGED <<settings, current_socket, current_cycle, position, offered, gap, connVars>>

Connect(c) ==
    /\ client[c] = "connect" /\ srv # "exited"
    /\ Establish(Here(c))
    /\ \/ /\ current_socket[c] + 1 < NumSockets
          /\ current_socket' = [current_socket EXCEPT ![c] = @ + 1]
          /\ UNCHANGED client
       \/ /\ current_socket[c] + 1 = NumSockets
          /\ current_socket' = [current_socket EXCEPT ![c] = 0]
          /\ Goto(c, IF NumCycles > 0 THEN "fill" ELSE "done")
    /\ UNCHANGED <<settings, current_cycle, position, offered, gap>>

(* connect() fails: exit(EXIT_FAILURE). *)
ConnectFails(c) ==
    /\ client[c] = "connect"
    /\ Faults \/ Len(backlog) = Backlog \/ srv = "exited"
    /\ Goto(c, "failed")
    /\ CloseConns(Own(c))
    /\ UNCHANGED <<settings, current_socket, current_cycle, position, offered, gap>>

(* content.fill() has a message. *)
FillMessage(c) ==
    /\ client[c] = "fill" /\ position[c] < BytesToTransfer
    /\ Goto(c, "select")
    /\ UNCHANGED <<settings, current_socket, current_cycle, position, offered, gap, connVars>>

(* Mistake: the tick not waited for. *)
WritableAtOnce(c) ==
    /\ client[c] = "select"
    /\ Goto(c, "sendto")
    /\ UNCHANGED <<settings, current_socket, current_cycle, position, offered, gap, connVars>>

(* select() finds the socket writable, or fails other than by a signal. *)
Writable(c) ==
    /\ client[c] = "select"
    /\ Goto(c, "sigwait")
    /\ UNCHANGED <<settings, current_socket, current_cycle, position, offered, gap, connVars>>

(* The message is not taken: EAGAIN, or the connection is broken. *)
Refuse(s, z) ==
    /\ sent' = [sent EXCEPT ![s] = @ + z]
    /\ lost' = [lost EXCEPT ![s] = @ + z]
    /\ UNCHANGED <<link, air, inbox, rx, backlog>>

(* write(), whose result is not looked at. *)
Write(c) ==
    /\ Send(c)
    /\ \/ link[Here(c)] = "up" /\ Launch(Here(c), MessageSize(c))
       \/ Refuse(Here(c), MessageSize(c))

(* The sockets are closed behind the last cycle. *)
ClosedAtEnd(c) ==
    IF client'[c] = "done" THEN CloseConns(Own(c)) ELSE UNCHANGED connVars

EndOfCycle(c) == (EndCycle(c) \/ PauseOver(c)) /\ ClosedAtEnd(c)

ClientStep(c) ==
    /\ \/ Arm(c) /\ UNCHANGED connVars
       \/ Install(c) \/ Connect(c) \/ ConnectFails(c)
       \/ FillMessage(c) \/ Writable(c) \/ Write(c) \/ EndOfCycle(c)
    /\ UNCHANGED servVars

(* A tick restarts connect() and select() behind the handler; elsewhere it *)
(* does what it does to the UDP client.                                    *)
TickRestarts(c) ==
    /\ client[c] \in {"connect", "select"}
    /\ UNCHANGED <<settings, client, current_socket, current_cycle, position, offered>>

DccpTick(c) ==
    /\ TimerOn
    /\ TickTaken(c) \/ TickKills(c) \/ TickEndsPause(c) \/ TickMissed(c) \/ TickRestarts(c)
    /\ gap' = [gap EXCEPT ![c] = IF @ < MaxGap THEN @ + 1 ELSE @]
    /\ ClosedAtEnd(c)
    /\ UNCHANGED servVars

-----------------------------------------------------------------------------
SelectFails == Faults /\ srv = "select" /\ ServerExit
AcceptFails == srv = "accept" /\ (Faults \/ ~ CanOpen) /\ ServerExit

ServerStep == (Serve \/ SelectFails \/ AcceptFails) /\ UNCHANGED senderVars
NetStep(s) == (NetMoves(s) \/ Break(s)) /\ UNCHANGED <<senderVars, servVars>>

AllStopped == \A c \in Clients : client[c] \in Stopped
Finished ==
    /\ \A c \in Clients : client[c] \in Stopped \/ (client[c] = "sigwait" /\ ~ TimerOn)
    /\ srv = "exited" \/ (srv = "select" /\ backlog = << >> /\ ReadySet = {})
    /\ \A s \in Conns : air[s] = Empty /\ (link[s] = "fin" => rx[s] # "more")
    /\ UNCHANGED vars

Next ==
    \/ \E c \in Clients : ClientStep(c) \/ DccpTick(c)
    \/ ServerStep
    \/ \E s \in Conns : NetStep(s)
    \/ Finished

Spec == Init /\ [][Next]_vars

(* Every process runs when it can, the timers go off and the network       *)
(* delivers.  Nothing forces a fault: accept() has to fail only for want   *)
(* of descriptors, connect() only when the server or its queue refuses.    *)
ServerProgress == (Serve \/ (~ CanOpen /\ AcceptFails)) /\ UNCHANGED senderVars

ClientProgress(c) ==
    /\ \/ Arm(c) /\ UNCHANGED connVars
       \/ Install(c) \/ Connect(c)
       \/ (Len(backlog) = Backlog \/ srv = "exited") /\ ConnectFails(c)
       \/ FillMessage(c) \/ Writable(c) \/ Write(c) \/ EndOfCycle(c)
    /\ UNCHANGED servVars

Fairness ==
    /\ WF_vars(ServerProgress)
    /\ \A c \in Clients : WF_vars(ClientProgress(c)) /\ WF_vars(DccpTick(c))
    /\ \A s \in Conns : WF_vars(NetMoves(s) /\ UNCHANGED <<senderVars, servVars>>)

FairSpec == Spec /\ Fairness

-----------------------------------------------------------------------------
(* Between two messages of a client there is a tick, although a tick also  *)
(* interrupts select() and connect() and is missed there.                  *)
OneMessagePerTick ==
    [][\A s \in Conns : offered'[s] # offered[s] => gap[s[1]] >= 1]_vars

(* The totals that the server prints fall short of what the clients were   *)
(* told to send by exactly what their kernels did not take, the network    *)
(* dropped or the end of a connection overtook, and by one more byte for   *)
(* each connection that broke, the -1 of its recv().  (The data parser     *)
(* counts the frames of a trace and does not see these totals.)            *)
TotalsFallShort ==
    (\A c \in Clients : client[c] = "done") /\ (\A s \in Conns : total[s] # NoTotal) =>
        SumFunction([s \in Conns |-> total[s] + lost[s]])
            + Cardinality({s \in Conns : link[s] = "reset"})
            = Cardinality(Clients) * (BytesToTransfer * NumCycles)

(* Whatever breaks, every client with a running timer ends. *)
ClientsStop == <>(wait_time_us > 0 => AllStopped)

-----------------------------------------------------------------------------
(* The inductive invariant behind the two properties: a client connects    *)
(* its sockets one after the other, has met a tick when it writes, and the *)
(* kernel has seen the bytes of the messages it is done with.              *)
ClientInv(c) ==
    /\ client[c] \in {"setitimer", "signal"} => current_socket[c] = 0
    /\ client[c] \in {"setitimer", "signal", "connect"} =>
            /\ current_cycle[c] = 0
            /\ \A k \in Sockets : k >= current_socket[c] => link[<<c, k>>] = "none"
    /\ client[c] \in {"fill", "select", "sigwait", "sendto", "usleep"} =>
            current_cycle[c] < NumCycles
    /\ client[c] \in {"select", "sigwait", "sendto"} => position[c] < BytesToTransfer
    /\ client[c] = "usleep" => position[c] = BytesToTransfer
    /\ client[c] = "sendto" => gap[c] >= 1
    /\ client[c] = "done" => current_cycle[c] = NumCycles

IInv ==
    /\ CountersOK
    /\ client \in [Clients -> Running \cup {"connect", "select"} \cup Stopped]
    /\ \A c \in Clients : ClientInv(c)
    /\ ServerInv
    /\ SumFunction(sent) = SumFunction([c \in Clients |-> Handed(c)])
=============================================================================
