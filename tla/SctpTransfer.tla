---------------------------- MODULE SctpTransfer ---------------------------
(***************************************************************************)
(* The SCTP test: clients that send over one association each, message by  *)
(* message round robin over its streams (dce-client-sctp.cc), and a server *)
(* that only logs the failures of select() and accept()                    *)
(* (dce-server-sctp.cc).  Associations are named after their clients.      *)
(***************************************************************************)
EXTENDS PacketServer

CONSTANTS
    BytesToTransfer,  \* -d
    NumCycles,        \* -n
    NumStreams,       \* -s
    OutStreams,       \* streams the association has, at most MAX_STREAMS
    Window            \* bytes an association holds before a send blocks

ASSUME ServerAssumption == ServerConstants
ASSUME StreamsAssumption == {NumStreams, OutStreams} \subseteq Nat \ {0}
ASSUME CountsAssumption == {BytesToTransfer, NumCycles} \subseteq Nat
ASSUME WindowAssumption == Window \in Nat /\ Window >= Payload

Streams == 0 .. (NumStreams - 1)
Plan == INSTANCE MessagePlan WITH NumSockets <- NumStreams

VARIABLES
    client,         \* the call each client is in or about to make
    stream_i,
    current_cycle,  \* j
    position,       \* the text's bytes handed out so far (SenderContent::i)
    streamed        \* bytes that each stream of a client has taken

clientVars == <<client, stream_i, current_cycle, position, streamed>>
vars == <<netVars, serverVars, clientVars>>

Stopped == {"done", "failed", "killed"}

TypeOK ==
    /\ NetTypeOK /\ ServerTypeOK
    /\ client \in [Conns -> {"connect", "events", "send"} \cup Stopped]
    /\ stream_i \in [Conns -> Streams]
    /\ current_cycle \in [Conns -> 0 .. NumCycles]
    /\ position \in [Conns -> 0 .. BytesToTransfer]
    /\ streamed \in [Conns \X Streams -> Nat]

Init ==
    /\ NetInit /\ ServerInit
    /\ client = [c \in Conns |-> "connect"]
    /\ stream_i = [c \in Conns |-> 0]
    /\ current_cycle = [c \in Conns |-> 0]
    /\ position = [c \in Conns |-> 0]
    /\ streamed = [s \in Conns \X Streams |-> 0]

-----------------------------------------------------------------------------
Goto(c, pc) == client' = [client EXCEPT ![c] = pc]
clientCounts == <<stream_i, current_cycle, position, streamed>>

Connect(c) ==
    /\ client[c] = "connect" /\ srv # "exited"
    /\ Establish(c)
    /\ Goto(c, "events")
    /\ UNCHANGED clientCounts

(* setsockopt() or connect() fails: exit(EXIT_FAILURE). *)
ConnectFails(c) ==
    /\ client[c] = "connect"
    /\ Faults \/ Len(backlog) = Backlog \/ srv = "exited"
    /\ Goto(c, "failed")
    /\ UNCHANGED <<netVars, clientCounts>>

(* setsockopt(SCTP_EVENTS). *)
Events(c) ==
    /\ client[c] = "events"
    /\ \/ /\ Goto(c, "send")
          /\ UNCHANGED netVars
       \/ /\ Faults
          /\ Goto(c, "failed")
          /\ CloseConns({c})
    /\ UNCHANGED clientCounts

MessageSize(c) ==
    IF BytesToTransfer - position[c] < Payload
    THEN BytesToTransfer - position[c] ELSE Payload
HasMessage(c) ==
    client[c] = "send" /\ current_cycle[c] < NumCycles /\ position[c] < BytesToTransfer

(* Mistake: the round robin starts again with each cycle. *)
AdvanceRewinds(c) ==
    /\ position' = [position EXCEPT ![c] = @ + MessageSize(c)]
    /\ stream_i' = [stream_i EXCEPT ![c] =
                        IF position'[c] = BytesToTransfer THEN 0 ELSE (@ + 1) % NumStreams]
    /\ UNCHANGED current_cycle

(* The sending loop goes on whatever sctp_sendmsg() returned. *)
Advance(c) ==
    /\ position' = [position EXCEPT ![c] = @ + MessageSize(c)]
    /\ stream_i' = [stream_i EXCEPT ![c] = (@ + 1) % NumStreams]
    /\ UNCHANGED current_cycle

(* sctp_sendmsg() on a stream the association has; it waits for room. *)
Send(c) ==
    /\ HasMessage(c) /\ link[c] = "up" /\ stream_i[c] < OutStreams
    /\ Volume(air[c]) + Volume(inbox[c]) + MessageSize(c) <= Window
    /\ Launch(c, MessageSize(c))
    /\ streamed' = [streamed EXCEPT ![<<c, stream_i[c]>>] = @ + MessageSize(c)]
    /\ Advance(c)
    /\ UNCHANGED client

(* It fails, for want of the stream or of the association: the message is  *)
(* skipped, or SIGPIPE ends the client.                                    *)
SendFails(c) ==
    /\ HasMessage(c) /\ (link[c] # "up" \/ stream_i[c] >= OutStreams)
    /\ \/ Advance(c) /\ UNCHANGED <<client, streamed>>
       \/ link[c] # "up" /\ Goto(c, "killed") /\ UNCHANGED clientCounts
    /\ UNCHANGED netVars

(* fill() has returned 0; a pause only delays the client. *)
NextCycle(c) ==
    /\ client[c] = "send" /\ current_cycle[c] < NumCycles /\ position[c] = BytesToTransfer
    /\ current_cycle' = [current_cycle EXCEPT ![c] = @ + 1]
    /\ position' = [position EXCEPT ![c] = 0]
    /\ UNCHANGED <<client, stream_i, streamed, netVars>>

Close(c) ==
    /\ client[c] = "send" /\ current_cycle[c] = NumCycles
    /\ CloseConns({c})
    /\ Goto(c, "done")
    /\ UNCHANGED clientCounts

ClientStep(c) ==
    /\ \/ Connect(c) \/ ConnectFails(c) \/ Events(c)
       \/ Send(c) \/ SendFails(c) \/ NextCycle(c) \/ Close(c)
    /\ UNCHANGED serverVars

-----------------------------------------------------------------------------
(* select() fails: the set stays as it was asked for, with the master      *)
(* socket and every connection, and accept() or a recvmsg() may block.     *)
SelectFails ==
    /\ Faults /\ srv = "select"
    /\ readfds' = Watched
    /\ srv' = "accept"
    /\ UNCHANGED <<at, client_socket, client_reads, open, total, netVars>>

(* Mistake: the loop taken up again without a look at the connections. *)
AcceptFailsContinues ==
    /\ srv = "accept" /\ backlog # << >>
    /\ Faults \/ ~ CanOpen
    /\ srv' = "select"
    /\ UNCHANGED <<at, client_socket, client_reads, readfds, open, total, netVars>>

(* accept() fails: its -1 takes the first free entry. *)
AcceptFails ==
    /\ srv = "accept" /\ backlog # << >>
    /\ Faults \/ ~ CanOpen
    /\ Store(Bad)
    /\ srv' = "scan"
    /\ UNCHANGED <<at, client_reads, readfds, open, total, netVars>>

ServerStep == (Serve \/ SelectFails \/ AcceptFails) /\ UNCHANGED clientVars
NetStep(c) == (NetMoves(c) \/ Break(c)) /\ UNCHANGED <<serverVars, clientVars>>

(* After a failed select(), the server is in a call that has to wait. *)
Misled ==
    \/ srv = "accept" /\ backlog = << >>
    \/ srv = "scan" /\ sd \in readfds /\ ~ Readable(sd)

(* Every client has stopped or waits for room that nobody makes any more,  *)
(* and the server waits too.                                               *)
ServerWaits == Misled \/ (srv = "select" /\ backlog = << >> /\ ReadySet = {})
Finished ==
    /\ ServerWaits
    /\ \A c \in Conns :
        /\ client[c] \in Stopped \/ (HasMessage(c) /\ link[c] = "up"
                /\ stream_i[c] < OutStreams
                /\ Volume(inbox[c]) + MessageSize(c) > Window)
        /\ air[c] = Empty \/ rx[c] # "more"
    /\ UNCHANGED vars

Next == ServerStep \/ (\E c \in Conns : ClientStep(c) \/ NetStep(c)) \/ Finished

Spec == Init /\ [][Next]_vars

(* Every process runs when it can and the network delivers.  Nothing       *)
(* forces a fault: accept() has to fail only for want of descriptors,      *)
(* connect() only when the server's queue is full, setsockopt() never.     *)
Progress == (Serve \/ (~ CanOpen /\ AcceptFails)) /\ UNCHANGED clientVars
ClientProgress(c) ==
    /\ \/ Connect(c) \/ (Len(backlog) = Backlog /\ ConnectFails(c))
       \/ Events(c) /\ UNCHANGED netVars
       \/ Send(c) \/ SendFails(c) \/ NextCycle(c) \/ Close(c)
    /\ UNCHANGED serverVars
NetProgress(c) == NetMoves(c) /\ UNCHANGED <<serverVars, clientVars>>

Fairness ==
    /\ WF_vars(Progress)
    /\ \A c \in Conns : WF_vars(ClientProgress(c)) /\ WF_vars(NetProgress(c))

FairSpec == Spec /\ Fairness

-----------------------------------------------------------------------------
(* A client that ends on an association that held has sent its messages in *)
(* turn over the streams (MessagePlan); those on a stream the association  *)
(* does not have are gone without a trace.                                 *)
StreamsInTurn ==
    \A c \in Conns : client[c] = "done" /\ link[c] = "fin" =>
        \A k \in Streams :
            streamed[<<c, k>>] = IF k < OutStreams THEN Plan!Share(k) ELSE 0

(* A connection that has got an entry of the table is served to its end,   *)
(* also while accept() fails in every iteration for want of descriptors    *)
(* and fills the table with -1, unless a failed select() leaves the server *)
(* waiting for a connection that nobody makes or a message nobody sends.   *)
ServedToTheEnd == \A s \in Conns : InTable(s) ~> total[s] # NoTotal \/ Misled

-----------------------------------------------------------------------------
(* The inductive invariant behind StreamsInTurn: with i messages of its    *)
(* cycle behind it, a client is at message n of its plan, and as long as   *)
(* the association holds its streams have their shares of the n messages.  *)
InTurn(c, i) ==
    LET n == current_cycle[c] * Plan!PerCycle + i
    IN  /\ position[c] = IF i < Plan!PerCycle THEN i * Payload ELSE BytesToTransfer
        /\ stream_i[c] = n % NumStreams
        /\ link[c] # "reset" =>
            \A k \in Streams :
                streamed[<<c, k>>] = IF k < OutStreams THEN Plan!ShareUpTo(k, n) ELSE 0

ClientInv(c) ==
    /\ client[c] = "connect" => link[c] = "none"
    /\ client[c] \in {"events", "send"} => link[c] \in {"up", "reset"}
    /\ client[c] = "done" => current_cycle[c] = NumCycles
    /\ current_cycle[c] = NumCycles => position[c] = 0
    /\ \E i \in 0 .. Plan!PerCycle : InTurn(c, i)

IInv == TypeOK /\ ServerInv /\ \A c \in Conns : ClientInv(c)
=============================================================================
