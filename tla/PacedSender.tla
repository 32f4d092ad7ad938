---------------------------- MODULE PacedSender ----------------------------
(***************************************************************************)
(* The sender of dce-client-udp.cc, which sends one message per tick of an *)
(* interval timer.  SIGALRM is not blocked, so a tick is taken by          *)
(* sigwait() only while the client is inside that call; at other times the *)
(* handler runs and the tick is gone (a missed tick), a usleep() it meets  *)
(* is cut short, and before the handler is installed it kills the process. *)
(***************************************************************************)
EXTENDS Integers, FiniteSets

CONSTANTS
    Clients,
    NumSockets,       \* -s
    BytesToTransfer,  \* -d: length of the text of one cycle
    NumCycles,        \* -n: texts to send
    Payload,          \* buffer_size - 1: bytes of a full message
    FrameBytes,       \* bytes of a full message on the wire, as the client computes them
    Rates,            \* -p: target rates, in KB/s
    Pauses,           \* -b: pauses between cycles, in microseconds
    MaxGap            \* bound: the count of ticks between two messages stops there

ASSUME ClientsAssumption == IsFiniteSet(Clients)
ASSUME NumSocketsAssumption == NumSockets \in Nat \ {0}
ASSUME BytesAssumption == BytesToTransfer \in Nat
ASSUME NumCyclesAssumption == NumCycles \in Nat
ASSUME PayloadAssumption == Payload \in Nat \ {0}
ASSUME FrameAssumption == FrameBytes \in Nat \ {0}
ASSUME RatesAssumption == Rates \subseteq Nat \ {0}
ASSUME PausesAssumption == Pauses \subseteq Nat
ASSUME MaxGapAssumption == MaxGap \in Nat /\ MaxGap >= 2

Sockets == 0 .. (NumSockets - 1)

VARIABLES
    rate,                 \* send_rate_kbytes_sec, the same for all clients
    wait_time_us,         \* the interval of the timers
    time_between_cycles,  \* the same for all clients
    client,               \* the call each client is in or about to make
    current_socket,
    current_cycle,
    position,             \* the text's bytes handed out so far (SenderContent::i)
    offered,              \* bytes each socket has been given
    gap                   \* ticks since the client's last message

settings == <<rate, wait_time_us, time_between_cycles>>
senderVars == <<settings, client, current_socket, current_cycle, position, offered, gap>>

Running == {"setitimer", "signal", "fill", "sigwait", "sendto", "usleep"}
Stopped == {"done", "failed", "killed"}

CountersOK ==
    /\ rate \in Rates
    /\ wait_time_us \in Nat
    /\ time_between_cycles \in Pauses
    /\ current_socket \in [Clients -> Sockets]
    /\ current_cycle \in [Clients -> 0 .. NumCycles]
    /\ position \in [Clients -> 0 .. BytesToTransfer]
    /\ offered \in [Clients \X Sockets -> Nat]
    /\ gap \in [Clients -> 0 .. MaxGap]

SenderTypeOK == CountersOK /\ client \in [Clients -> Running \cup Stopped]

(* The interval in microseconds: FrameBytes / rate * 976.5625, truncated   *)
(* by the conversion to int.  976.5625 is 15625 / 16.                      *)
Interval(r) == (FrameBytes * 15625) \div (16 * r)

SenderInit ==
    /\ rate \in Rates
    /\ wait_time_us = Interval(rate)
    /\ time_between_cycles \in Pauses
    /\ client = [c \in Clients |-> "setitimer"]
    /\ current_socket = [c \in Clients |-> 0]
    /\ current_cycle = [c \in Clients |-> 0]
    /\ position = [c \in Clients |-> 0]
    /\ offered = [s \in Clients \X Sockets |-> 0]
    /\ gap = [c \in Clients |-> 0]

-----------------------------------------------------------------------------
(* setitimer() refuses a microseconds part of a second or more, and 0      *)
(* turns the timer off.                                                    *)
Refused == wait_time_us >= 1000000
TimerOn == wait_time_us > 0 /\ ~ Refused

(* Mistake: the result of setitimer() ignored. *)
ArmUnchecked(c) ==
    /\ client[c] = "setitimer"
    /\ client' = [client EXCEPT ![c] = "signal"]
    /\ UNCHANGED <<settings, current_socket, current_cycle, position, offered, gap>>

(* setitimer(), with its error path: exit(1). *)
Arm(c) ==
    /\ client[c] = "setitimer"
    /\ client' = [client EXCEPT ![c] = IF Refused THEN "failed" ELSE "signal"]
    /\ UNCHANGED <<settings, current_socket, current_cycle, position, offered, gap>>

(* The handler is installed and the sockets are opened. *)
InstallHandler(c) ==
    /\ client[c] = "signal"
    /\ client' = [client EXCEPT ![c] = IF NumCycles > 0 THEN "fill" ELSE "done"]
    /\ UNCHANGED <<settings, current_socket, current_cycle, position, offered, gap>>

(* Mistake: the first message of a text goes out without waiting. *)
FillFirstAtOnce(c) ==
    /\ client[c] = "fill" /\ position[c] < BytesToTransfer
    /\ client' = [client EXCEPT ![c] = IF position[c] = 0 THEN "sendto" ELSE "sigwait"]
    /\ UNCHANGED <<settings, current_socket, current_cycle, position, offered, gap>>

(* content.fill() has a message: the client enters sigwait(). *)
Fill(c) ==
    /\ client[c] = "fill" /\ position[c] < BytesToTransfer
    /\ client' = [client EXCEPT ![c] = "sigwait"]
    /\ UNCHANGED <<settings, current_socket, current_cycle, position, offered, gap>>

(* Mistake: the whole buffer sent instead of its string. *)
MessageSizeFull(c) == Payload

(* The size of the message. *)
MessageSize(c) ==
    IF BytesToTransfer - position[c] < Payload
    THEN BytesToTransfer - position[c] ELSE Payload

(* The bytes of all texts that a client is done with. *)
Handed(c) ==
    IF current_cycle[c] < NumCycles
    THEN current_cycle[c] * BytesToTransfer + position[c] ELSE NumCycles * BytesToTransfer

(* Mistake: every message counted as a full one. *)
SendFull(c) ==
    /\ client[c] = "sendto"
    /\ offered' = [offered EXCEPT ![<<c, current_socket[c]>>] = @ + Payload]
    /\ position' = [position EXCEPT ![c] = @ + MessageSize(c)]
    /\ current_socket' = [current_socket EXCEPT ![c] = (@ + 1) % NumSockets]
    /\ client' = [client EXCEPT ![c] = "fill"]
    /\ gap' = [gap EXCEPT ![c] = 0]
    /\ UNCHANGED <<settings, current_cycle>>

(* sendto(), whose result is not looked at. *)
Send(c) ==
    /\ client[c] = "sendto"
    /\ offered' = [offered EXCEPT ![<<c, current_socket[c]>>] = @ + MessageSize(c)]
    /\ position' = [position EXCEPT ![c] = @ + MessageSize(c)]
    /\ current_socket' = [current_socket EXCEPT ![c] = (@ + 1) % NumSockets]
    /\ client' = [client EXCEPT ![c] = "fill"]
    /\ gap' = [gap EXCEPT ![c] = 0]
    /\ UNCHANGED <<settings, current_cycle>>

(* Mistake: the round robin starts again with each cycle. *)
NextCycleRewinds(c) ==
    /\ current_cycle' = [current_cycle EXCEPT ![c] = @ + 1]
    /\ current_socket' = [current_socket EXCEPT ![c] = 0]
    /\ \/ /\ current_cycle[c] + 1 < NumCycles
          /\ client' = [client EXCEPT ![c] = "fill"]
          /\ position' = [position EXCEPT ![c] = 0]
       \/ /\ current_cycle[c] + 1 = NumCycles
          /\ client' = [client EXCEPT ![c] = "done"]
          /\ UNCHANGED position
    /\ UNCHANGED <<settings, offered>>

(* The next cycle starts a new text and goes on with the next socket.      *)
(* After the last one the sockets are closed.                              *)
NextCycle(c) ==
    /\ current_cycle' = [current_cycle EXCEPT ![c] = @ + 1]
    /\ \/ /\ current_cycle[c] + 1 < NumCycles
          /\ client' = [client EXCEPT ![c] = "fill"]
          /\ position' = [position EXCEPT ![c] = 0]
       \/ /\ current_cycle[c] + 1 = NumCycles
          /\ client' = [client EXCEPT ![c] = "done"]
          /\ UNCHANGED position
    /\ UNCHANGED <<settings, current_socket, offered>>

(* Mistake: no pause. *)
EndCycleAtOnce(c) ==
    /\ client[c] = "fill" /\ position[c] = BytesToTransfer
    /\ NextCycle(c)
    /\ UNCHANGED gap

(* content.fill() has returned 0. *)
EndCycle(c) ==
    /\ client[c] = "fill" /\ position[c] = BytesToTransfer
    /\ \/ /\ time_between_cycles > 0
          /\ client' = [client EXCEPT ![c] = "usleep"]
          /\ UNCHANGED <<settings, current_socket, current_cycle, position, offered>>
       \/ time_between_cycles = 0 /\ NextCycle(c)
    /\ UNCHANGED gap

(* usleep() returns: a pause of an interval or more meets a tick before. *)
PauseOver(c) ==
    /\ client[c] = "usleep"
    /\ ~ TimerOn \/ time_between_cycles < wait_time_us
    /\ NextCycle(c)
    /\ UNCHANGED gap

SenderStep(c) ==
    Arm(c) \/ InstallHandler(c) \/ Fill(c) \/ EndCycle(c) \/ PauseOver(c)

-----------------------------------------------------------------------------
(* Mistake: SIGALRM not in the set that sigwait() waits for. *)
TickTakenByHandler(c) ==
    /\ client[c] = "sigwait"
    /\ UNCHANGED <<settings, client, current_socket, current_cycle, position, offered>>

(* Mistake: the handler of System V's signal(), gone after its first tick. *)
TickKillsAgain(c) ==
    /\ client[c] \in {"signal", "fill"}
    /\ client' = [client EXCEPT ![c] = "killed"]
    /\ UNCHANGED <<settings, current_socket, current_cycle, position, offered>>

(* What SIGALRM does to the client, by the call it is in. *)
TickTaken(c) ==
    /\ client[c] = "sigwait"
    /\ client' = [client EXCEPT ![c] = "sendto"]
    /\ UNCHANGED <<settings, current_socket, current_cycle, position, offered>>
TickKills(c) ==
    /\ client[c] = "signal"
    /\ client' = [client EXCEPT ![c] = "killed"]
    /\ UNCHANGED <<settings, current_socket, current_cycle, position, offered>>
TickEndsPause(c) == client[c] = "usleep" /\ NextCycle(c)
TickMissed(c) ==
    /\ client[c] \in {"fill", "sendto"}
    /\ UNCHANGED <<settings, client, current_socket, current_cycle, position, offered>>

Tick(c) ==
    /\ TimerOn
    /\ TickTaken(c) \/ TickKills(c) \/ TickEndsPause(c) \/ TickMissed(c)
    /\ gap' = [gap EXCEPT ![c] = IF @ < MaxGap THEN @ + 1 ELSE @]
=============================================================================
