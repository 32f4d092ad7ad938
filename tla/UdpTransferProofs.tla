------------------------ MODULE UdpTransferProofs --------------------------
(***************************************************************************)
(* Proofs about the UDP test, for every number of clients, sockets and     *)
(* bytes and for all rates and pauses.                                     *)
(***************************************************************************)
EXTENDS UdpTransfer, FiniteSums

(* The next message is not empty, not larger than the payload, and not     *)
(* longer than the rest of the text (SenderContent::fill).                 *)
LEMMA MessageSizeBounds ==
    ASSUME TypeOK, NEW c \in Clients, position[c] < BytesToTransfer
    PROVE  /\ MessageSize(c) \in 1 .. Payload
           /\ position[c] + MessageSize(c) \in 1 .. BytesToTransfer
  <1>1. position[c] \in 0 .. BytesToTransfer
    BY DEF TypeOK, SenderTypeOK, CountersOK
  <1> QED
    BY <1>1, BytesAssumption, PayloadAssumption DEF MessageSize

(* The interval the timers are set to (line 64).                           *)
LEMMA IntervalIsNat ==
    ASSUME NEW r \in Rates
    PROVE  Interval(r) \in Nat
  <1>1. r \in Nat /\ r > 0 /\ FrameBytes \in Nat
    BY RatesAssumption, FrameAssumption
  <1> DEFINE a == FrameBytes * 15625  b == 16 * r
  <1>2. a \in Nat /\ b \in Nat /\ b > 0
    BY <1>1
  <1> HIDE DEF a, b
  <1>3. a \div b \in Nat
    BY <1>2
  <1> QED
    BY <1>3 DEF Interval, a, b

-----------------------------------------------------------------------------
(* The initial states.                                                     *)
LEMMA InitIInv == Init => IInv
  <1> SUFFICES ASSUME Init PROVE IInv
    OBVIOUS
  <1> USE DEF Init, SenderInit
  <1>1. TypeOK
    <2>1. wait_time_us \in Nat
      BY IntervalIsNat
    <2>2. 0 \in Sockets
      BY NumSocketsAssumption DEF Sockets
    <2> QED
      BY <2>1, <2>2, BytesAssumption, NumCyclesAssumption, MaxGapAssumption
         DEF TypeOK, SenderTypeOK, CountersOK, UdpTypeOK, Running
  <1>2. \A c \in Clients : Paced(c)
    BY DEF Paced, FirstOfLaterCycle
  <1> QED
    BY <1>1, <1>2 DEF IInv

(* A step that leaves the settings and the other clients alone keeps the   *)
(* invariant when it keeps the types and the pace of its own client.       *)
LEMMA OneClientMoves ==
    ASSUME IInv, NEW c \in Clients, UNCHANGED settings, TypeOK', Paced(c)',
           \A d \in Clients \ {c} :
              /\ client'[d] = client[d] /\ current_cycle'[d] = current_cycle[d]
              /\ position'[d] = position[d] /\ gap'[d] = gap[d]
    PROVE  IInv'
  <1>1. wait_time_us' = Interval(rate)'
    BY DEF IInv, settings, Interval
  <1>2. ASSUME NEW d \in Clients \ {c} PROVE Paced(d)'
    BY <1>2 DEF IInv, Paced, settings, TimerOn, Refused, FirstOfLaterCycle
  <1> QED
    BY <1>1, <1>2 DEF IInv

(* setitimer(). *)
LEMMA StepArm ==
    ASSUME IInv, NEW c \in Clients, Arm(c), UNCHANGED udpVars
    PROVE  IInv'
  <1> USE DEF Arm, settings
  <1>1. TypeOK'
    BY DEF IInv, TypeOK, SenderTypeOK, CountersOK, UdpTypeOK, udpVars, Running, Stopped
  <1>2. client'[c] \in {"failed", "signal"}
    BY DEF IInv, TypeOK, SenderTypeOK, CountersOK
  <1>3. Paced(c)'
    BY <1>2 DEF IInv, Paced
  <1> QED
    BY <1>1, <1>3, OneClientMoves DEF IInv, TypeOK, SenderTypeOK, CountersOK

(* The handler is installed: the first cycle begins. *)
LEMMA StepInstallHandler ==
    ASSUME IInv, NEW c \in Clients, InstallHandler(c), UNCHANGED udpVars
    PROVE  IInv'
  <1> USE DEF InstallHandler, settings
  <1>1. TypeOK'
    BY DEF IInv, TypeOK, SenderTypeOK, CountersOK, UdpTypeOK, udpVars, Running, Stopped
  <1>2. client'[c] \in {"fill", "done"} /\ current_cycle'[c] = 0
    BY DEF IInv, TypeOK, SenderTypeOK, CountersOK, Paced
  <1>3. Paced(c)'
    BY <1>2 DEF Paced, FirstOfLaterCycle
  <1> QED
    BY <1>1, <1>3, OneClientMoves DEF IInv, TypeOK, SenderTypeOK, CountersOK

(* fill() has a message. *)
LEMMA StepFill ==
    ASSUME IInv, NEW c \in Clients, Fill(c), UNCHANGED udpVars
    PROVE  IInv'
  <1> USE DEF Fill, settings
  <1>1. TypeOK'
    BY DEF IInv, TypeOK, SenderTypeOK, CountersOK, UdpTypeOK, udpVars, Running, Stopped
  <1>2. client'[c] = "sigwait"
    BY DEF IInv, TypeOK, SenderTypeOK, CountersOK
  <1>3. Paced(c)'
    BY <1>2 DEF IInv, Paced, FirstOfLaterCycle, TimerOn, Refused
  <1> QED
    BY <1>1, <1>3, OneClientMoves DEF IInv, TypeOK, SenderTypeOK, CountersOK

(* sendto(). *)
LEMMA StepSendTo ==
    ASSUME IInv, NEW c \in Clients, SendTo(c)
    PROVE  IInv'
  <1> USE DEF SendTo, Send, settings
  <1>0. position[c] < BytesToTransfer
    BY DEF IInv, Paced
  <1>1. /\ MessageSize(c) \in 1 .. Payload
        /\ position[c] + MessageSize(c) \in 1 .. BytesToTransfer
    BY <1>0, MessageSizeBounds DEF IInv
  <1>2. TypeOK'
    <2> USE DEF IInv, TypeOK, SenderTypeOK, CountersOK, UdpTypeOK
    <2>1. client' \in [Clients -> Running \cup Stopped]
      BY DEF Running
    <2>2. (current_socket[c] + 1) % NumSockets \in Sockets
      BY NumSocketsAssumption DEF Sockets
    <2>3. current_socket' \in [Clients -> Sockets]
      BY <2>2
    <2>4. position' \in [Clients -> 0 .. BytesToTransfer]
      BY <1>1
    <2>5. offered' \in [Clients \X Sockets -> Nat]
      <3>1. offered[<<c, current_socket[c]>>] + MessageSize(c) \in Nat
        BY <1>1, PayloadAssumption
      <3> QED
        BY <3>1
    <2>6. gap' \in [Clients -> 0 .. MaxGap]
      BY MaxGapAssumption
    <2>7. [from |-> c, cycle |-> current_cycle[c], nth |-> position[c],
           size |-> MessageSize(c)] \in Datagrams
      BY <1>1, BytesAssumption DEF Datagrams
    <2>8. air' \subseteq Datagrams
      BY <2>7
    <2> QED
      BY <2>1, <2>3, <2>4, <2>5, <2>6, <2>8
  <1>3. client'[c] = "fill" /\ position'[c] > 0
    BY <1>1 DEF IInv, TypeOK, SenderTypeOK, CountersOK
  <1>4. Paced(c)'
    BY <1>3 DEF Paced, FirstOfLaterCycle
  <1> QED
    BY <1>2, <1>4, OneClientMoves DEF IInv, TypeOK, SenderTypeOK, CountersOK

(* The types across the turn of a cycle. *)
LEMMA NextCycleTypes ==
    ASSUME IInv, NEW c \in Clients, NextCycle(c), UNCHANGED udpVars,
           gap' \in [Clients -> 0 .. MaxGap]
    PROVE  /\ TypeOK'
           /\ client'[c] \in {"fill", "done"}
           /\ \A d \in Clients \ {c} :
                 /\ client'[d] = client[d] /\ current_cycle'[d] = current_cycle[d]
                 /\ position'[d] = position[d]
  <1> USE DEF NextCycle, settings, IInv, TypeOK, SenderTypeOK, CountersOK
  <1>1. current_cycle' \in [Clients -> 0 .. NumCycles]
    BY NumCyclesAssumption
  <1>2. /\ client' \in [Clients -> Running \cup Stopped]
        /\ position' \in [Clients -> 0 .. BytesToTransfer]
    BY BytesAssumption DEF Running, Stopped
  <1>3. TypeOK'
    BY <1>1, <1>2 DEF UdpTypeOK, udpVars
  <1> QED
    BY <1>3

(* fill() has no more messages: the pause, or the next cycle at once.      *)
LEMMA StepEndCycle ==
    ASSUME IInv, NEW c \in Clients, EndCycle(c), UNCHANGED udpVars
    PROVE  IInv'
  <1>1. CASE /\ time_between_cycles > 0
             /\ client' = [client EXCEPT ![c] = "usleep"]
             /\ UNCHANGED <<settings, current_socket, current_cycle, position, offered, gap>>
    <2> USE <1>1 DEF settings
    <2>1. TypeOK'
      BY DEF IInv, TypeOK, SenderTypeOK, CountersOK, UdpTypeOK, udpVars, Running
    <2>2. client'[c] = "usleep"
      BY DEF IInv, TypeOK, SenderTypeOK, CountersOK
    <2>3. Paced(c)'
      BY <2>2 DEF Paced
    <2> QED
      BY <2>1, <2>3, OneClientMoves DEF IInv, TypeOK, SenderTypeOK, CountersOK
  <1>2. CASE time_between_cycles = 0 /\ NextCycle(c) /\ UNCHANGED gap
    <2>1. /\ TypeOK'
          /\ client'[c] \in {"fill", "done"}
          /\ \A d \in Clients \ {c} :
                /\ client'[d] = client[d] /\ current_cycle'[d] = current_cycle[d]
                /\ position'[d] = position[d]
      BY <1>2, NextCycleTypes DEF IInv, TypeOK, SenderTypeOK, CountersOK
    <2>2. ~ (TimerOn /\ time_between_cycles >= wait_time_us)'
      BY <1>2 DEF IInv, TypeOK, SenderTypeOK, CountersOK, NextCycle, settings, TimerOn
    <2>3. Paced(c)'
      BY <2>1, <2>2 DEF Paced
    <2>4. UNCHANGED settings
      BY <1>2 DEF NextCycle
    <2> QED
      BY <1>2, <2>1, <2>3, <2>4, OneClientMoves
  <1> QED
    BY <1>1, <1>2 DEF EndCycle

(* usleep() returns by itself: only after a pause shorter than an interval,*)
(* or with the timer off.                                                  *)
LEMMA StepPauseOver ==
    ASSUME IInv, NEW c \in Clients, PauseOver(c), UNCHANGED udpVars
    PROVE  IInv'
  <1>1. NextCycle(c) /\ UNCHANGED gap /\ UNCHANGED settings
    BY DEF PauseOver, NextCycle
  <1>2. /\ TypeOK'
        /\ client'[c] \in {"fill", "done"}
        /\ \A d \in Clients \ {c} :
              /\ client'[d] = client[d] /\ current_cycle'[d] = current_cycle[d]
              /\ position'[d] = position[d]
    BY <1>1, NextCycleTypes DEF IInv, TypeOK, SenderTypeOK, CountersOK
  <1>3. ~ (TimerOn /\ time_between_cycles >= wait_time_us)'
    <2>1. wait_time_us \in Nat /\ time_between_cycles \in Nat
      BY PausesAssumption DEF IInv, TypeOK, SenderTypeOK, CountersOK
    <2>2. wait_time_us' = wait_time_us /\ time_between_cycles' = time_between_cycles
      BY <1>1 DEF settings
    <2>3. TimerOn' = TimerOn
      BY <2>2 DEF TimerOn, Refused
    <2>4. ~ TimerOn \/ time_between_cycles < wait_time_us
      BY DEF PauseOver
    <2> QED
      BY <2>1, <2>2, <2>3, <2>4
  <1>4. Paced(c)'
    BY <1>2, <1>3 DEF Paced
  <1> QED
    BY <1>1, <1>2, <1>4, OneClientMoves

(* A tick: it counts, whatever the client is doing.                        *)
LEMMA StepTick ==
    ASSUME IInv, NEW c \in Clients, Tick(c), UNCHANGED udpVars
    PROVE  IInv'
  <1>1. /\ gap' \in [Clients -> 0 .. MaxGap]
        /\ gap'[c] >= 1 /\ gap'[c] >= gap[c]
        /\ gap[c] >= 1 => gap'[c] >= 2
        /\ \A d \in Clients \ {c} : gap'[d] = gap[d]
    BY MaxGapAssumption DEF Tick, IInv, TypeOK, SenderTypeOK, CountersOK
  <1>2. CASE TickTaken(c)
    <2> USE <1>2 DEF TickTaken, settings
    <2>1. TypeOK'
      BY <1>1 DEF IInv, TypeOK, SenderTypeOK, CountersOK, UdpTypeOK, udpVars, Running
    <2>2. client[c] = "sigwait" /\ client'[c] = "sendto"
      BY DEF IInv, TypeOK, SenderTypeOK, CountersOK
    <2>3. TimerOn /\ TimerOn'
      BY DEF Tick, TimerOn, Refused
    <2>4. Paced(c)'
      BY <1>1, <2>2, <2>3 DEF IInv, Paced, FirstOfLaterCycle
    <2> QED
      BY <1>1, <2>1, <2>4, OneClientMoves DEF IInv, TypeOK, SenderTypeOK, CountersOK
  <1>3. CASE TickKills(c)
    <2> USE <1>3 DEF TickKills, settings
    <2>1. TypeOK'
      BY <1>1 DEF IInv, TypeOK, SenderTypeOK, CountersOK, UdpTypeOK, udpVars, Stopped
    <2>2. client'[c] = "killed"
      BY DEF IInv, TypeOK, SenderTypeOK, CountersOK
    <2>3. Paced(c)'
      BY <2>2 DEF Paced
    <2> QED
      BY <1>1, <2>1, <2>3, OneClientMoves DEF IInv, TypeOK, SenderTypeOK, CountersOK
  <1>4. CASE TickEndsPause(c)
    <2>1. NextCycle(c) /\ UNCHANGED settings
      BY <1>4 DEF TickEndsPause, NextCycle
    <2>2. /\ TypeOK'
          /\ client'[c] \in {"fill", "done"}
          /\ \A d \in Clients \ {c} :
                /\ client'[d] = client[d] /\ current_cycle'[d] = current_cycle[d]
                /\ position'[d] = position[d]
      BY <1>1, <2>1, NextCycleTypes
    <2>3. Paced(c)'
      BY <1>1, <2>2 DEF Paced
    <2> QED
      BY <1>1, <2>1, <2>2, <2>3, OneClientMoves
  <1>5. CASE TickMissed(c)
    <2> USE <1>5 DEF TickMissed, settings
    <2>1. TypeOK'
      BY <1>1 DEF IInv, TypeOK, SenderTypeOK, CountersOK, UdpTypeOK, udpVars
    <2>2. gap[c] \in Nat /\ gap'[c] \in Nat
      BY <1>1 DEF IInv, TypeOK, SenderTypeOK, CountersOK
    <2>3. Paced(c)'
      BY <1>1, <2>2 DEF IInv, Paced, FirstOfLaterCycle, TimerOn, Refused
    <2> QED
      BY <1>1, <2>1, <2>3, OneClientMoves
  <1> QED
    BY <1>2, <1>3, <1>4, <1>5 DEF Tick

(* The steps of the network and of the server do not touch the senders.    *)
LEMMA StepOthers ==
    ASSUME IInv, RecvFrom \/ RecvFails \/ Lose \/ UNCHANGED vars
    PROVE  IInv'
  <1>1. UNCHANGED senderVars
    BY DEF RecvFrom, RecvFails, Lose, vars
  <1>2. SenderTypeOK' /\ wait_time_us' = Interval(rate)' /\ \A c \in Clients : Paced(c)'
    BY <1>1 DEF senderVars, settings, IInv, TypeOK, SenderTypeOK, CountersOK, Interval,
                Paced, TimerOn, Refused, FirstOfLaterCycle
  <1>3. UdpTypeOK'
    <2> USE DEF IInv, TypeOK, UdpTypeOK
    <2>1. ASSUME NEW d \in air
          PROVE  /\ d.from \in Clients /\ d.size \in Nat
                 /\ (IF d.size < BufferSize THEN d.size ELSE BufferSize) \in Nat
      BY PayloadAssumption, BufferAssumption DEF Datagrams
    <2>2. CASE RecvFrom
      <3>1. PICK d \in air : /\ air' = air \ {d}
                             /\ read' = [read EXCEPT ![d.from] = @ +
                                   IF d.size < BufferSize THEN d.size ELSE BufferSize]
        BY <2>2 DEF RecvFrom
      <3>2. read' \in [Clients -> Nat]
        BY <2>1, <3>1
      <3> QED
        BY <2>2, <3>1, <3>2 DEF RecvFrom
    <2>3. CASE RecvFails
      BY <2>3 DEF RecvFails
    <2>4. CASE Lose
      <3>1. PICK d \in air : /\ air' = air \ {d}
                             /\ lost' = [lost EXCEPT ![d.from] = @ + d.size]
        BY <2>4 DEF Lose
      <3>2. lost' \in [Clients -> Nat]
        BY <2>1, <3>1
      <3> QED
        BY <2>4, <3>1, <3>2 DEF Lose
    <2>5. CASE UNCHANGED vars
      BY <2>5 DEF vars, udpVars
    <2> QED
      BY <2>2, <2>3, <2>4, <2>5
  <1> QED
    BY <1>2, <1>3 DEF IInv, TypeOK

(* Every step keeps the invariant.                                         *)
LEMMA StepIInv == IInv /\ [Next]_vars => IInv'
  <1> SUFFICES ASSUME IInv, [Next]_vars PROVE IInv'
    OBVIOUS
  <1>1. ASSUME NEW c \in Clients, ClientStep(c) PROVE IInv'
    BY <1>1, StepArm, StepInstallHandler, StepFill, StepEndCycle, StepPauseOver
       DEF ClientStep, SenderStep
  <1>2. ASSUME NEW c \in Clients, ClientTick(c) PROVE IInv'
    BY <1>2, StepTick DEF ClientTick
  <1>3. CASE RecvFrom \/ RecvFails \/ Lose \/ Finished \/ UNCHANGED vars
    BY <1>3, StepOthers DEF Finished
  <1> QED
    BY <1>1, <1>2, <1>3, StepSendTo DEF Next

-----------------------------------------------------------------------------
(* The inductive invariant of the UDP test.                                *)
THEOREM IInvHolds == Spec => []IInv
  BY InitIInv, StepIInv, PTL DEF Spec

(* Type correctness.                                                       *)
THEOREM TypeCorrect == Spec => []TypeOK
  <1>1. IInv => TypeOK
    BY DEF IInv
  <1> QED
    BY <1>1, IInvHolds, PTL

(* A step without a sendto() makes no client quiet that was not.           *)
Quiet == {"setitimer", "signal", "killed", "failed"}

LEMMA StepQuiet ==
    ASSUME TypeOK, NEW d \in Clients, ClientStep(d) \/ ClientTick(d)
    PROVE  /\ UNCHANGED <<settings, offered>>
           /\ \A c \in Clients : client'[c] \in Quiet => client[c] \in Quiet
  <1> USE DEF Quiet, TypeOK, SenderTypeOK, ClientStep, SenderStep, ClientTick, Tick
  <1>1. CASE Arm(d)
    BY <1>1 DEF Arm
  <1>2. CASE InstallHandler(d)
    BY <1>2 DEF InstallHandler
  <1>3. CASE Fill(d)
    BY <1>3 DEF Fill
  <1>4. CASE EndCycle(d) \/ PauseOver(d) \/ TickEndsPause(d)
    BY <1>4 DEF EndCycle, PauseOver, TickEndsPause, NextCycle
  <1>5. CASE TickTaken(d)
    BY <1>5 DEF TickTaken
  <1>6. CASE TickKills(d)
    BY <1>6 DEF TickKills
  <1>7. CASE TickMissed(d)
    BY <1>7 DEF TickMissed
  <1> QED
    BY <1>1, <1>2, <1>3, <1>4, <1>5, <1>6, <1>7

(* sendto() has a running timer, and is called behind signal().            *)
LEMMA StepSendSilent ==
    ASSUME IInv, SilentInv, NEW d \in Clients, SendTo(d)
    PROVE  SilentInv'
  <1> SUFFICES ASSUME NEW c \in Clients PROVE Silent(c)'
    BY DEF SilentInv
  <1>1. TimerOn /\ TimerOn'
    BY DEF SendTo, Send, IInv, Paced, settings, TimerOn, Refused
  <1>2. CASE d = c
    <2>1. client'[c] = "fill"
      BY <1>2 DEF SendTo, Send, IInv, TypeOK, SenderTypeOK
    <2> QED
      BY <1>1, <2>1 DEF Silent
  <1>3. CASE d # c
    <2>1. client'[c] = client[c]
      BY <1>3 DEF SendTo, Send, IInv, TypeOK, SenderTypeOK
    <2>2. \A k \in Sockets : offered'[<<c, k>>] = offered[<<c, k>>]
      BY <1>3 DEF SendTo, Send, IInv, TypeOK, SenderTypeOK, CountersOK
    <2> QED
      BY <1>1, <2>1, <2>2 DEF Silent, SilentInv
  <1> QED
    BY <1>2, <1>3

(* Every step keeps a silent client silent.                                *)
LEMMA StepSilent == IInv /\ SilentInv /\ [Next]_vars => SilentInv'
  <1> SUFFICES ASSUME IInv, SilentInv, [Next]_vars PROVE SilentInv'
    OBVIOUS
  <1>1. CASE \E d \in Clients : ClientStep(d) \/ ClientTick(d)
    <2>1. /\ UNCHANGED <<settings, offered>>
          /\ \A c \in Clients : client'[c] \in Quiet => client[c] \in Quiet
      BY <1>1, StepQuiet DEF IInv
    <2> QED
      BY <2>1 DEF settings, TimerOn, Refused, Quiet, Silent, SilentInv
  <1>2. CASE RecvFrom \/ RecvFails \/ Lose \/ Finished \/ UNCHANGED vars
    <2>1. UNCHANGED senderVars
      BY <1>2 DEF RecvFrom, RecvFails, Lose, Finished, vars
    <2> QED
      BY <2>1 DEF senderVars, settings, TimerOn, Refused, Silent, SilentInv
  <1> QED
    BY <1>1, <1>2, StepSendSilent DEF Next

(* Whatever becomes of its timer, a client has sent nothing or is free to  *)
(* send everything: setitimer() refused, an interval of 0, or a tick       *)
(* before signal() silence it as a whole (dce-client-udp.cc, 67 to 78).    *)
THEOREM TimerSilencesAll == Spec => []SendsAllOrNothing
  <1>1. Init => SilentInv
    BY DEF Init, SenderInit, SilentInv, Silent
  <1>2. IInv /\ SilentInv /\ [Next]_vars => SilentInv'
    BY StepSilent
  <1>3. SilentInv => SendsAllOrNothing
    BY DEF SilentInv, Silent, SendsAllOrNothing
  <1> QED
    BY <1>1, <1>2, <1>3, IInvHolds, PTL DEF Spec

(* Two messages of a client always have a tick of its timer between them,  *)
(* however the ticks fall between its calls.                               *)
THEOREM PacedByTimer == Spec => OneMessagePerTick
  <1> DEFINE A == \A s \in Clients \X Sockets :
                      offered'[s] # offered[s] => gap[s[1]] >= 1
  <1>1. ASSUME IInv, [Next]_vars PROVE [A]_vars
    <2> SUFFICES ASSUME Next, NEW s \in Clients \X Sockets, offered'[s] # offered[s]
                 PROVE  gap[s[1]] >= 1
      BY <1>1
    <2>1. PICK c \in Clients : SendTo(c)
      BY DEF Next, ClientStep, SenderStep, Arm, InstallHandler, Fill, EndCycle,
             PauseOver, NextCycle, ClientTick, Tick, TickTaken, TickKills,
             TickEndsPause, TickMissed, RecvFrom, RecvFails, Lose, Finished,
             vars, senderVars
    <2>2. s = <<c, current_socket[c]>>
      BY <2>1, <1>1 DEF SendTo, Send, IInv, TypeOK, SenderTypeOK, CountersOK
    <2> QED
      BY <2>1, <2>2, <1>1 DEF SendTo, Send, IInv, Paced
  <1> QED
    BY <1>1, IInvHolds, PTL DEF Spec, OneMessagePerTick

(* A pause that is not shorter than the interval leaves a tick without a   *)
(* message between two cycles.                                             *)
THEOREM PausesShow == Spec => []PauseShows
  <1>1. IInv => PauseShows
    BY DEF IInv, PauseShows, Paced
  <1> QED
    BY <1>1, IInvHolds, PTL

-----------------------------------------------------------------------------
(* The plan of the sockets (MessagePlan). *)
LEMMA PerCycleType ==
    /\ Payload \in Nat /\ Payload > 0 /\ BytesToTransfer \in Nat /\ NumCycles \in Nat
    /\ PerCycle \in Nat
    /\ PerCycle = 0 <=> BytesToTransfer = 0
    /\ \A i \in 0 .. (PerCycle - 1) : i * Payload < BytesToTransfer
  <1>1. Payload \in Nat /\ Payload > 0 /\ BytesToTransfer \in Nat /\ NumCycles \in Nat
    BY PayloadAssumption, BytesAssumption, NumCyclesAssumption
  <1> QED
    BY <1>1, MessageCount DEF PerCycle

LEMMA SizeOfType ==
    ASSUME NEW n \in Nat
    PROVE  SizeOf(n) \in Int
  BY PerCycleType DEF SizeOf

LEMMA PlanSum ==
    ASSUME NEW n, NEW k
    PROVE  ShareUpTo(k, n) =
                SumFunctionOnSet([m \in Nat |-> SizeOf(m)], Turns(k, NumSockets, n))
  BY DEF ShareUpTo, SumFunctionOnSet, FoldFunctionOnSet, MapThenFoldSet, Turns

LEMMA ShareStarts ==
    ASSUME NEW k
    PROVE  ShareUpTo(k, 0) = 0
  BY FirstInTurn, PlanSum

LEMMA ShareGrows ==
    ASSUME NEW n \in Nat, NEW k
    PROVE  ShareUpTo(k, n + 1) =
                IF n % NumSockets = k THEN ShareUpTo(k, n) + SizeOf(n) ELSE ShareUpTo(k, n)
  <1> DEFINE f == [m \in Nat |-> SizeOf(m)]
             sum(x) == SumFunctionOnSet(f, Turns(k, NumSockets, x))
  <1>1. (\A m \in Nat : f[m] \in Int) /\ f[n] = SizeOf(n)
    BY SizeOfType
  <1>2. sum(n) = ShareUpTo(k, n) /\ sum(n + 1) = ShareUpTo(k, n + 1)
    BY PlanSum
  <1> HIDE DEF f
  <1>3. sum(n + 1) = IF n % NumSockets = k THEN sum(n) + f[n] ELSE sum(n)
    BY <1>1, OneMoreInTurn
  <1> QED
    BY <1>1, <1>2, <1>3

(* Message n of the plan, with number i of its cycle, is sent next. *)
LEMMA NextOfPlan ==
    ASSUME IInv, NEW c \in Clients, NEW i \in 0 .. PerCycle, InTurn(c, i),
           position[c] < BytesToTransfer, current_cycle[c] < NumCycles
    PROVE  LET n == current_cycle[c] * PerCycle + i
           IN  /\ i < PerCycle
               /\ n \in Nat
               /\ MessageSize(c) \in Nat
               /\ MessageSize(c) = SizeOf(n)
               /\ position[c] + MessageSize(c) =
                    IF i + 1 < PerCycle THEN (i + 1) * Payload ELSE BytesToTransfer
  <1> DEFINE P == PerCycle  q == current_cycle[c]  n == q * P + i
  <1>1. Payload \in Nat /\ Payload > 0 /\ BytesToTransfer \in Nat
        /\ P \in Nat /\ P = (BytesToTransfer + Payload - 1) \div Payload
    BY PerCycleType DEF PerCycle
  <1>2. i < P /\ position[c] = i * Payload /\ i \in 0 .. (P - 1)
    BY <1>1 DEF InTurn
  <1>3. q \in Nat
    BY NumCyclesAssumption DEF IInv, TypeOK, SenderTypeOK, CountersOK
  <1> HIDE DEF P
  <1>4. MessageSize(c) = IF BytesToTransfer - i * Payload < Payload
                         THEN BytesToTransfer - i * Payload ELSE Payload
    BY <1>2 DEF MessageSize
  <1>5. MessageSize(c) \in Int
    BY <1>1, <1>2, <1>4
  <1>6. /\ MessageSize(c) \in 1 .. Payload
        /\ MessageSize(c) = IF i = P - 1 THEN BytesToTransfer - (P - 1) * Payload ELSE Payload
        /\ i * Payload + MessageSize(c) = IF i + 1 < P THEN (i + 1) * Payload ELSE BytesToTransfer
    <2> DEFINE z == MessageSize(c)
    <2>1. z \in Int /\ z = IF BytesToTransfer - i * Payload < Payload
                         THEN BytesToTransfer - i * Payload ELSE Payload
      BY <1>4, <1>5
    <2> HIDE DEF z
    <2>2. /\ z \in 1 .. Payload
          /\ z = IF i = P - 1 THEN BytesToTransfer - (P - 1) * Payload ELSE Payload
          /\ i * Payload + z = IF i + 1 < P THEN (i + 1) * Payload ELSE BytesToTransfer
      BY <1>1, <1>2, <2>1, NextMessage
    <2> QED
      BY <2>2 DEF z
  <1>7. n \in Nat /\ n % P = i
    <2>1. n \in Nat /\ q \in Int
      BY <1>1, <1>3
    <2>2. n = q * P + i /\ n \in Int
      BY <2>1
    <2> HIDE DEF n, q
    <2>3. n % P = i
      BY <1>1, <1>2, <2>1, <2>2, ModUnique
    <2> QED
      BY <2>1, <2>3
  <1>8. MessageSize(c) = SizeOf(n)
    BY <1>6, <1>7 DEF SizeOf, P
  <1> QED
    BY <1>1, <1>2, <1>6, <1>7, <1>8 DEF P

-----------------------------------------------------------------------------
LEMMA InitPlanInv == Init => PlanInv
  <1> SUFFICES ASSUME Init, NEW c \in Clients PROVE ClientPlan(c)
    BY DEF PlanInv
  <1> USE DEF Init, SenderInit
  <1>1. Cycling(c)
    BY DEF Cycling
  <1> DEFINE P == PerCycle
  <1>2. P \in Nat /\ 0 * P + 0 = 0
    BY PerCycleType
  <1>3. IF 0 < NumCycles THEN 0 = IF 0 < P THEN 0 * Payload ELSE BytesToTransfer ELSE 0 = 0
    BY PerCycleType
  <1>4. 0 % NumSockets = 0
    <2>1. 0 = 0 * NumSockets + 0 /\ NumSockets \in Nat /\ 0 \in 0 .. (NumSockets - 1)
      BY NumSocketsAssumption
    <2> QED
      BY <2>1, ModUnique
  <1> HIDE DEF P
  <1>5. InTurn(c, 0)
    <2>1. \A k \in Sockets : offered[<<c, k>>] = 0
      OBVIOUS
    <2> QED
      BY <1>2, <1>3, <1>4, <2>1, ShareStarts DEF InTurn, P
  <1> QED
    BY <1>1, <1>2, <1>5 DEF ClientPlan, P

(* What the other clients do does not change a client's place in its plan. *)
LEMMA OneClientPlans ==
    ASSUME PlanInv, NEW c \in Clients, ClientPlan(c)',
           \A d \in Clients \ {c} :
              /\ client'[d] = client[d] /\ current_cycle'[d] = current_cycle[d]
              /\ position'[d] = position[d] /\ current_socket'[d] = current_socket[d]
              /\ \A k \in Sockets : offered'[<<d, k>>] = offered[<<d, k>>]
    PROVE  PlanInv'
  <1>1. ASSUME NEW d \in Clients \ {c} PROVE ClientPlan(d)'
    <2>1. PICK i \in 0 .. PerCycle : InTurn(d, i)
      BY DEF PlanInv, ClientPlan
    <2>2. InTurn(d, i)'
      BY <2>1, <1>1 DEF InTurn
    <2>3. Cycling(d)'
      BY <1>1 DEF PlanInv, ClientPlan, Cycling
    <2> QED
      BY <2>2, <2>3 DEF ClientPlan
  <1> QED
    BY <1>1 DEF PlanInv

(* A step that hands out no message and ends no cycle. *)
LEMMA PlanStays ==
    ASSUME PlanInv, NEW c \in Clients, Cycling(c)',
           UNCHANGED <<current_socket, current_cycle, position, offered>>,
           \A d \in Clients \ {c} : client'[d] = client[d]
    PROVE  PlanInv'
  <1>1. PICK i \in 0 .. PerCycle : InTurn(c, i)
    BY DEF PlanInv, ClientPlan
  <1>2. InTurn(c, i)'
    BY <1>1 DEF InTurn
  <1>3. ClientPlan(c)'
    BY <1>2 DEF ClientPlan
  <1> QED
    BY <1>3, OneClientPlans

(* The next cycle goes on with the next socket. *)
LEMMA PlanNextCycle ==
    ASSUME IInv, PlanInv, NEW c \in Clients, NextCycle(c),
           position[c] = BytesToTransfer, current_cycle[c] < NumCycles
    PROVE  PlanInv'
  <1> DEFINE P == PerCycle  j == current_cycle[c]
  <1>1. PICK i \in 0 .. P : InTurn(c, i)
    BY DEF PlanInv, ClientPlan
  <1>2. P \in Nat /\ j \in Nat /\ Payload \in Nat /\ Payload > 0 /\ BytesToTransfer \in Nat
        /\ NumCycles \in Nat
    BY PerCycleType DEF IInv, TypeOK, SenderTypeOK, CountersOK
  <1>3. /\ current_cycle'[c] = j + 1
        /\ \/ j + 1 < NumCycles /\ client'[c] = "fill" /\ position'[c] = 0
           \/ j + 1 = NumCycles /\ client'[c] = "done"
        /\ UNCHANGED <<current_socket, offered>>
        /\ \A d \in Clients \ {c} :
              /\ client'[d] = client[d] /\ position'[d] = position[d]
              /\ current_cycle'[d] = current_cycle[d]
    BY DEF NextCycle, IInv, TypeOK, SenderTypeOK, CountersOK
  <1>4. i = P
    <2>1. i < P => position[c] = i * Payload
      BY <1>1 DEF InTurn
    <2> QED
      BY <1>2, <2>1, PerCycleType
  <1>5. (j + 1) * P + 0 = j * P + P
    BY <1>2
  <1>6. 0 = IF 0 < P THEN 0 * Payload ELSE BytesToTransfer
    BY <1>2, PerCycleType
  <1>7. InTurn(c, 0)'
    <2> DEFINE n == j * P + P
    <2>1. InTurn(c, P)
      BY <1>1, <1>4
    <2>2. current_socket'[c] = n % NumSockets
          /\ \A k \in Sockets : offered'[<<c, k>>] = ShareUpTo(k, n)
      BY <1>3, <2>1 DEF InTurn
    <2>3. current_cycle'[c] * P + 0 = n
      BY <1>3, <1>5
    <2>4. IF current_cycle'[c] < NumCycles
          THEN position'[c] = IF 0 < P THEN 0 * Payload ELSE BytesToTransfer ELSE 0 = 0
      BY <1>2, <1>3, <1>6
    <2> HIDE DEF n, P
    <2> QED
      BY <2>2, <2>3, <2>4 DEF InTurn, P
  <1>8. \E x \in 0 .. PerCycle : InTurn(c, x)'
    BY <1>2, <1>7
  <1>9. Cycling(c)'
    BY <1>2, <1>3 DEF Cycling
  <1>10. ClientPlan(c)'
    BY <1>8, <1>9 DEF ClientPlan
  <1> QED
    BY <1>3, <1>10, OneClientPlans

(* A message is handed out to the socket whose turn it is. *)
LEMMA PlanSend ==
    ASSUME IInv, PlanInv, NEW c \in Clients, Send(c)
    PROVE  PlanInv'
  <1> DEFINE P == PerCycle  j == current_cycle[c]
  <1>1. PICK i \in 0 .. P : InTurn(c, i)
    BY DEF PlanInv, ClientPlan
  <1> DEFINE n == j * P + i
  <1>2. /\ position[c] < BytesToTransfer /\ j < NumCycles
        /\ j \in Nat /\ P \in Nat /\ NumCycles \in Nat /\ NumSockets \in Nat /\ NumSockets > 0
    BY PerCycleType, NumSocketsAssumption
       DEF Send, IInv, TypeOK, SenderTypeOK, CountersOK, Paced, PlanInv, ClientPlan, Cycling
  <1>3. /\ i < P /\ n \in Nat
        /\ MessageSize(c) \in Nat
        /\ MessageSize(c) = SizeOf(n)
        /\ position[c] + MessageSize(c) =
             IF i + 1 < P THEN (i + 1) * Payload ELSE BytesToTransfer
    BY <1>1, <1>2, NextOfPlan
  <1>4. i + 1 \in 0 .. P /\ j * P + (i + 1) = n + 1
    BY <1>2, <1>3
  <1>5. current_socket[c] = n % NumSockets /\ current_socket[c] \in Sockets
    BY <1>1 DEF InTurn, IInv, TypeOK, SenderTypeOK, CountersOK
  <1>6. /\ current_cycle'[c] = j /\ client'[c] = "fill"
        /\ position'[c] = position[c] + MessageSize(c)
        /\ current_socket'[c] = (current_socket[c] + 1) % NumSockets
        /\ \A k \in Sockets : offered'[<<c, k>>] =
                IF k = current_socket[c] THEN offered[<<c, k>>] + MessageSize(c)
                                         ELSE offered[<<c, k>>]
        /\ \A d \in Clients \ {c} :
              /\ client'[d] = client[d] /\ current_cycle'[d] = current_cycle[d]
              /\ position'[d] = position[d] /\ current_socket'[d] = current_socket[d]
              /\ \A k \in Sockets : offered'[<<d, k>>] = offered[<<d, k>>]
    BY DEF Send, IInv, TypeOK, SenderTypeOK, CountersOK
  <1>7. current_socket'[c] = (n + 1) % NumSockets
    <2>1. (current_socket[c] + 1) % NumSockets = (n + 1) % NumSockets
      <3>1. n \in Nat /\ NumSockets \in Nat /\ NumSockets > 0
        BY <1>2, <1>3
      <3> HIDE DEF n
      <3>2. (n + 1) % NumSockets = ((n % NumSockets) + 1) % NumSockets
        BY <3>1, NextInTurn
      <3> QED
        BY <1>5, <3>2
    <2> QED
      BY <1>6, <2>1
  <1>8. ASSUME NEW k \in Sockets PROVE offered'[<<c, k>>] = ShareUpTo(k, n + 1)
    <2>1. offered[<<c, k>>] = ShareUpTo(k, n)
      BY <1>1 DEF InTurn
    <2>2. ShareUpTo(k, n + 1) =
            IF n % NumSockets = k THEN ShareUpTo(k, n) + SizeOf(n) ELSE ShareUpTo(k, n)
      BY <1>3, ShareGrows
    <2> HIDE DEF n
    <2> QED
      BY <1>3, <1>5, <1>6, <2>1, <2>2
  <1>9. InTurn(c, i + 1)'
    <2>1. current_cycle'[c] * P + (i + 1) = n + 1
      BY <1>4, <1>6
    <2>2. IF current_cycle'[c] < NumCycles
          THEN position'[c] = IF i + 1 < P THEN (i + 1) * Payload ELSE BytesToTransfer
          ELSE i + 1 = 0
      BY <1>2, <1>3, <1>6
    <2> HIDE DEF n, P
    <2> QED
      BY <1>7, <1>8, <2>1, <2>2 DEF InTurn, P
  <1>10. \E x \in 0 .. PerCycle : InTurn(c, x)'
    BY <1>4, <1>9
  <1>11. ClientPlan(c)'
    BY <1>2, <1>6, <1>10 DEF ClientPlan, Cycling
  <1> QED
    BY <1>6, <1>11, OneClientPlans

(* The other steps of a client, and its ticks. *)
LEMMA PlanStep ==
    ASSUME IInv, PlanInv, NEW c \in Clients, SenderStep(c) \/ Tick(c)
    PROVE  PlanInv'
  <1> USE DEF IInv, TypeOK, SenderTypeOK
  <1>0. Cycling(c) /\ current_cycle[c] \in 0 .. NumCycles
        /\ NumCycles \in Nat
    BY NumCyclesAssumption DEF PlanInv, ClientPlan, CountersOK
  <1>1. CASE Arm(c) \/ InstallHandler(c) \/ Fill(c)
    <2>1. /\ UNCHANGED <<current_socket, current_cycle, position, offered>>
          /\ \A d \in Clients \ {c} : client'[d] = client[d]
      BY <1>1 DEF Arm, InstallHandler, Fill
    <2>2. \/ client'[c] \in {"failed", "signal"}
          \/ client[c] = "signal" /\ client'[c] = IF NumCycles > 0 THEN "fill" ELSE "done"
          \/ client[c] = "fill" /\ client'[c] = "sigwait"
      BY <1>1 DEF Arm, InstallHandler, Fill
    <2>3. client[c] = "signal" => current_cycle[c] = 0
      BY DEF Paced
    <2>4. Cycling(c)'
      BY <1>0, <2>1, <2>2, <2>3 DEF Cycling
    <2> QED
      BY <2>1, <2>4, PlanStays
  <1>2. CASE EndCycle(c) /\ client' = [client EXCEPT ![c] = "usleep"]
             /\ UNCHANGED <<current_socket, current_cycle, position, offered>>
    <2>1. client'[c] = "usleep" /\ \A d \in Clients \ {c} : client'[d] = client[d]
      BY <1>2
    <2>2. Cycling(c)'
      BY <1>0, <1>2, <2>1 DEF Cycling, EndCycle
    <2> QED
      BY <1>2, <2>1, <2>2, PlanStays
  <1>3. CASE (EndCycle(c) \/ PauseOver(c) \/ TickEndsPause(c)) /\ NextCycle(c)
    BY <1>0, <1>3, PlanNextCycle DEF EndCycle, PauseOver, TickEndsPause, Cycling
  <1>4. CASE TickTaken(c) \/ TickKills(c) \/ TickMissed(c)
    <2>1. /\ UNCHANGED <<current_socket, current_cycle, position, offered>>
          /\ \A d \in Clients \ {c} : client'[d] = client[d]
      BY <1>4 DEF TickTaken, TickKills, TickMissed
    <2>2. \/ client[c] = "sigwait" /\ client'[c] = "sendto"
          \/ client'[c] \in {"killed", client[c]}
      BY <1>4 DEF TickTaken, TickKills, TickMissed
    <2>3. Cycling(c)'
      BY <1>0, <2>1, <2>2 DEF Cycling
    <2> QED
      BY <2>1, <2>3, PlanStays
  <1> QED
    BY <1>1, <1>2, <1>3, <1>4 DEF SenderStep, EndCycle, PauseOver, Tick, TickEndsPause

LEMMA StepPlanInv == IInv /\ PlanInv /\ [Next]_vars => PlanInv'
  <1> SUFFICES ASSUME IInv, PlanInv, [Next]_vars PROVE PlanInv'
    OBVIOUS
  <1>1. ASSUME NEW c \in Clients, ClientStep(c) \/ ClientTick(c) \/ SendTo(c) PROVE PlanInv'
    BY <1>1, PlanStep, PlanSend DEF ClientStep, ClientTick, SendTo
  <1>2. CASE UNCHANGED senderVars
    <2>1. ASSUME NEW c \in Clients PROVE ClientPlan(c)'
      <3>1. PICK i \in 0 .. PerCycle : InTurn(c, i)
        BY DEF PlanInv, ClientPlan
      <3>2. InTurn(c, i)'
        BY <3>1, <1>2 DEF InTurn, senderVars
      <3>3. Cycling(c)'
        BY <1>2 DEF PlanInv, ClientPlan, Cycling, senderVars
      <3> QED
        BY <3>2, <3>3 DEF ClientPlan
    <2> QED
      BY <2>1 DEF PlanInv
  <1>3. [\E c \in Clients : ClientStep(c) \/ ClientTick(c) \/ SendTo(c)]_senderVars
    BY DEF Next, RecvFrom, RecvFails, Lose, Finished, vars
  <1> QED
    BY <1>1, <1>2, <1>3

(* The inductive invariant about the order of the messages. *)
THEOREM PlanHolds == Spec => []PlanInv
  BY InitPlanInv, StepPlanInv, IInvHolds, PTL DEF Spec

(* A client that ends has spread its messages over its sockets in turn,    *)
(* across the cycles, whatever became of the datagrams.                    *)
THEOREM SocketsInTurn == Spec => []RoundRobin
  <1>1. ASSUME PlanInv, NEW c \in Clients, client[c] = "done", NEW k \in Sockets
        PROVE  offered[<<c, k>>] = Share(k)
    <2>1. PICK i \in 0 .. PerCycle : InTurn(c, i)
      BY <1>1 DEF PlanInv, ClientPlan
    <2>2. current_cycle[c] = NumCycles
      BY <1>1 DEF PlanInv, ClientPlan, Cycling
    <2>3. i = 0 /\ offered[<<c, k>>] = ShareUpTo(k, current_cycle[c] * PerCycle + i)
      BY <2>1, <2>2, NumCyclesAssumption DEF InTurn
    <2>4. current_cycle[c] * PerCycle + i = NumCycles * PerCycle
      BY <2>2, <2>3, PerCycleType
    <2> QED
      BY <2>3, <2>4 DEF Share
  <1>2. PlanInv => RoundRobin
    BY <1>1 DEF RoundRobin
  <1> QED
    BY <1>2, PlanHolds, PTL

-----------------------------------------------------------------------------
(* What is read, lost or on its way. *)
LEMMA DatagramBytes ==
    ASSUME NEW S \in SUBSET Datagrams, IsFiniteSet(S), NEW d \in Datagrams
    PROVE  /\ BytesOf(S) \in Int
           /\ d \notin S => BytesOf(S \cup {d}) = BytesOf(S) + d.size
           /\ d \in S => BytesOf(S \ {d}) = BytesOf(S) - d.size
  <1> DEFINE f == [e \in Datagrams |-> e.size]
  <1>1. /\ \A e \in Datagrams : f[e] \in Int
        /\ f[d] = d.size
    BY PayloadAssumption DEF Datagrams
  <1>2. \A e \in S : f[e] \in Int
    BY <1>1
  <1> HIDE DEF f
  <1>3. SumFunctionOnSet(f, S) \in Int
    BY <1>2, SumInt
  <1>4. d \notin S => SumFunctionOnSet(f, S \cup {d}) = f[d] + SumFunctionOnSet(f, S)
    BY <1>1, <1>2, SumInsert
  <1>5. d \in S => SumFunctionOnSet(f, S) = f[d] + SumFunctionOnSet(f, S \ {d})
    BY <1>2, SumRemove
  <1>6. IsFiniteSet(S \ {d}) /\ \A e \in S \ {d} : f[e] \in Int
    BY <1>2, FS_RemoveElement
  <1>7. SumFunctionOnSet(f, S \ {d}) \in Int
    BY <1>6, SumInt
  <1>8. \A T : BytesOf(T) = SumFunctionOnSet(f, T)
    BY DEF BytesOf, f
  <1> QED
    BY <1>1, <1>3, <1>4, <1>5, <1>7, <1>8

(* A sum over the clients in which one client's value grows by z. *)
LEMMA ClientSum ==
    ASSUME NEW f, NEW g, DOMAIN f = Clients, DOMAIN g = Clients,
           NEW c \in Clients, NEW z \in Int,
           \A d \in Clients : f[d] \in Int /\ g[d] \in Int,
           \A d \in Clients \ {c} : g[d] = f[d], g[c] = f[c] + z
    PROVE  SumFunction(g) = SumFunction(f) + z /\ SumFunction(f) \in Int
  <1>1. SumFunctionOnSet(g, Clients) = SumFunctionOnSet(f, Clients) + g[c] - f[c]
    BY ClientsAssumption, SumChange
  <1>2. SumFunctionOnSet(f, Clients) \in Int /\ f[c] \in Int
    BY ClientsAssumption, SumInt
  <1> QED
    BY <1>1, <1>2 DEF SumFunction

HandedSum == SumFunction([c \in Clients |-> Handed(c)])
DoneSum == SumFunction([c \in Clients |-> read[c] + lost[c]])

LEMMA HandedType ==
    ASSUME TypeOK, NEW c \in Clients
    PROVE  Handed(c) \in Int
  <1>1. current_cycle[c] \in Nat /\ position[c] \in Nat
    BY PerCycleType DEF TypeOK, SenderTypeOK, CountersOK
  <1> QED
    BY <1>1, PerCycleType DEF Handed

(* One client hands out z bytes. *)
LEMMA HandedGrows ==
    ASSUME TypeOK, TypeOK', NEW c \in Clients, NEW z \in Int, Handed(c)' = Handed(c) + z,
           \A d \in Clients \ {c} :
              current_cycle'[d] = current_cycle[d] /\ position'[d] = position[d]
    PROVE  HandedSum' = HandedSum + z /\ HandedSum \in Int
  <1> DEFINE f == [d \in Clients |-> Handed(d)]  g == f'
  <1>1. /\ \A d \in Clients : f[d] \in Int /\ g[d] \in Int
        /\ \A d \in Clients \ {c} : g[d] = f[d]
        /\ g[c] = f[c] + z
        /\ DOMAIN f = Clients /\ DOMAIN g = Clients
    <2>1. \A d \in Clients : Handed(d) \in Int
      BY HandedType
    <2>2. \A d \in Clients \ {c} : Handed(d)' = Handed(d)
      BY DEF Handed
    <2>3. \A d \in Clients : Handed(d)' \in Int
      BY <2>1, <2>2
    <2> QED
      BY <2>1, <2>2, <2>3
  <1>2. HandedSum = SumFunction(f) /\ HandedSum' = SumFunction(g)
    BY DEF HandedSum
  <1> HIDE DEF f, g
  <1> QED
    BY <1>1, <1>2, ClientSum

LEMMA InitLossInv == Init => LossInv
  <1> SUFFICES ASSUME Init PROVE LossInv
    OBVIOUS
  <1> USE DEF Init, SenderInit
  <1> DEFINE f == [c \in Clients |-> Handed(c)]  g == [c \in Clients |-> read[c] + lost[c]]
  <1>1. \A c \in Clients : f[c] = 0 /\ g[c] = 0
    BY PerCycleType DEF Handed
  <1>2. DOMAIN f = Clients /\ DOMAIN g = Clients
    OBVIOUS
  <1>3. BytesOf(air) = 0 /\ IsFiniteSet(air)
    BY SumEmpty, FS_EmptySet DEF BytesOf
  <1> HIDE DEF f, g
  <1>4. SumFunction(f) = 0 /\ SumFunction(g) = 0
    BY <1>1, <1>2, ClientsAssumption, SumZero DEF SumFunction
  <1>5. SumFunction(g) + BytesOf(air) = SumFunction(f)
    BY <1>3, <1>4
  <1>6. \A d \in air : Older(d)
    OBVIOUS
  <1> QED
    BY <1>3, <1>5, <1>6 DEF LossInv, f, g

(* A step of a client that hands out nothing.                              *)
LEMMA LossStays ==
    ASSUME IInv, IInv', LossInv, NEW c \in Clients, UNCHANGED udpVars, Handed(c)' = Handed(c),
           \A d \in Clients \ {c} :
              current_cycle'[d] = current_cycle[d] /\ position'[d] = position[d],
           \/ current_cycle'[c] > current_cycle[c]
           \/ current_cycle'[c] = current_cycle[c] /\ position'[c] = position[c]
    PROVE  LossInv'
  <1>1. HandedSum' = HandedSum
    <2>1. Handed(c) \in Int
      BY HandedType DEF IInv
    <2>2. Handed(c)' = Handed(c) + 0 /\ 0 \in Int
      BY <2>1
    <2>3. HandedSum' = HandedSum + 0 /\ HandedSum \in Int
      BY <2>2, HandedGrows DEF IInv
    <2> QED
      BY <2>3
  <1>2. \A d \in air' : Older(d)'
    <2>1. ASSUME NEW d \in air PROVE Older(d)'
      <3>1. d.from \in Clients /\ d.cycle \in Int
        BY NumCyclesAssumption DEF IInv, TypeOK, UdpTypeOK, Datagrams
      <3>2. Older(d)
        BY DEF LossInv
      <3>3. \A x \in Clients : current_cycle[x] \in Int /\ current_cycle'[x] \in Int
        BY NumCyclesAssumption DEF IInv, TypeOK, SenderTypeOK, CountersOK
      <3> QED
        BY <3>1, <3>2, <3>3 DEF Older
    <2> QED
      BY <2>1 DEF udpVars
  <1>3. DoneSum' = DoneSum /\ BytesOf(air)' = BytesOf(air)
    BY DEF DoneSum, BytesOf, udpVars
  <1>4. DoneSum + BytesOf(air) = HandedSum
    BY DEF LossInv, DoneSum, HandedSum
  <1>5. (DoneSum + BytesOf(air) = HandedSum)'
    BY <1>1, <1>3, <1>4
  <1> QED
    BY <1>2, <1>5 DEF LossInv, udpVars, DoneSum, HandedSum

(* The turn of a cycle hands out nothing. *)
LEMMA LossNextCycle ==
    ASSUME IInv, IInv', LossInv, NEW c \in Clients, UNCHANGED udpVars, NextCycle(c),
           position[c] = BytesToTransfer, current_cycle[c] < NumCycles
    PROVE  LossInv'
  <1> DEFINE j == current_cycle[c]
  <1>1. j \in Nat /\ NumCycles \in Nat /\ BytesToTransfer \in Nat
    BY PerCycleType DEF IInv, TypeOK, SenderTypeOK, CountersOK
  <1>2. /\ current_cycle'[c] = j + 1
        /\ j + 1 = NumCycles \/ (j + 1 < NumCycles /\ position'[c] = 0)
        /\ \A d \in Clients \ {c} :
              current_cycle'[d] = current_cycle[d] /\ position'[d] = position[d]
    BY DEF NextCycle, IInv, TypeOK, SenderTypeOK, CountersOK
  <1>3. Handed(c)' = Handed(c)
    <2>1. /\ j * BytesToTransfer \in Nat
          /\ (j + 1) * BytesToTransfer = j * BytesToTransfer + BytesToTransfer
      <3>1. \A a, b \in Nat : a * b \in Nat /\ (a + 1) * b = a * b + b
        OBVIOUS
      <3> QED
        BY <1>1, <3>1
    <2>2. CASE j + 1 < NumCycles /\ position'[c] = 0
      BY <1>1, <1>2, <2>1, <2>2 DEF Handed
    <2>3. CASE j + 1 = NumCycles
      BY <1>1, <1>2, <2>1, <2>3 DEF Handed
    <2> QED
      BY <1>2, <2>2, <2>3
  <1> QED
    BY <1>1, <1>2, <1>3, LossStays

(* The steps and the ticks of a client. *)
LEMMA LossStep ==
    ASSUME IInv, IInv', PlanInv, LossInv, NEW c \in Clients, SenderStep(c) \/ Tick(c),
           UNCHANGED udpVars
    PROVE  LossInv'
  <1>1. CASE UNCHANGED <<current_cycle, position>>
    <2>1. Handed(c)' = Handed(c)
      BY <1>1 DEF Handed
    <2> QED
      BY <1>1, <2>1, LossStays
  <1>2. CASE (EndCycle(c) \/ PauseOver(c) \/ TickEndsPause(c)) /\ NextCycle(c)
    <2>1. position[c] = BytesToTransfer /\ current_cycle[c] < NumCycles
      BY <1>2 DEF EndCycle, PauseOver, TickEndsPause, PlanInv, ClientPlan, Cycling
    <2> QED
      BY <1>2, <2>1, LossNextCycle
  <1> QED
    BY <1>1, <1>2 DEF SenderStep, Arm, InstallHandler, Fill, EndCycle, PauseOver,
       Tick, TickTaken, TickKills, TickMissed, TickEndsPause

(* sendto(): the datagram is a new one. *)
LEMMA LossSendTo ==
    ASSUME IInv, IInv', PlanInv, LossInv, NEW c \in Clients, SendTo(c)
    PROVE  LossInv'
  <1> DEFINE z == MessageSize(c)  j == current_cycle[c]
             new == [from |-> c, cycle |-> j, nth |-> position[c], size |-> z]
  <1>1. /\ position[c] < BytesToTransfer /\ j < NumCycles
        /\ j \in Nat /\ position[c] \in Nat /\ BytesToTransfer \in Nat /\ NumCycles \in Nat
    BY PerCycleType DEF SendTo, Send, IInv, TypeOK, SenderTypeOK, CountersOK, Paced, PlanInv,
       ClientPlan, Cycling
  <1>2. z \in 1 .. Payload /\ z \in Int /\ z > 0
    BY <1>1, MessageSizeBounds, PayloadAssumption DEF IInv
  <1>3. /\ current_cycle'[c] = j /\ position'[c] = position[c] + z
        /\ \A d \in Clients \ {c} :
              current_cycle'[d] = current_cycle[d] /\ position'[d] = position[d]
    BY DEF SendTo, Send, IInv, TypeOK, SenderTypeOK, CountersOK
  <1>4. new \in Datagrams /\ new \notin air /\ air' = air \cup {new} /\ new.size = z
        /\ air \in SUBSET Datagrams
    <2>1. new \in Datagrams
      BY <1>1, <1>2 DEF Datagrams
    <2>2. ~ Older(new)
      BY <1>1 DEF Older
    <2> QED
      BY <2>1, <2>2 DEF SendTo, LossInv, IInv, TypeOK, UdpTypeOK
  <1>0. PICK e : e = new
    OBVIOUS
  <1>e. /\ e \in Datagrams /\ e \notin air /\ air' = air \cup {e} /\ e.size = z
        /\ e.from = c /\ e.cycle = j /\ e.nth = position[c]
    BY <1>0, <1>4
  <1> HIDE DEF new, z, j
  <1>5. IsFiniteSet(air) /\ IsFiniteSet(air')
    BY <1>e, FS_AddElement DEF LossInv
  <1>6. BytesOf(air)' = BytesOf(air) + z /\ BytesOf(air) \in Int
    BY <1>4, <1>e, <1>5, DatagramBytes DEF BytesOf
  <1>7. Handed(c)' = Handed(c) + z
    <2>1. j * BytesToTransfer \in Nat
      BY <1>1
    <2> QED
      BY <1>1, <1>2, <1>3, <2>1 DEF Handed, j
  <1>8. HandedSum' = HandedSum + z /\ HandedSum \in Int
    BY <1>2, <1>3, <1>7, HandedGrows DEF IInv
  <1>9. DoneSum' = DoneSum
    BY DEF DoneSum, SendTo
  <1>10. DoneSum + BytesOf(air) = HandedSum
    BY DEF LossInv, DoneSum, HandedSum
  <1>11. DoneSum \in Int
    <2>1. DOMAIN [d \in Clients |-> read[d] + lost[d]] = Clients
          /\ \A d \in Clients : [b \in Clients |-> read[b] + lost[b]][d] \in Int
      BY DEF IInv, TypeOK, UdpTypeOK
    <2> QED
      BY <2>1, ClientsAssumption, SumInt DEF DoneSum, SumFunction
  <1>12. (DoneSum + BytesOf(air) = HandedSum)'
    BY <1>2, <1>6, <1>8, <1>9, <1>10, <1>11
  <1>13. \A d \in air' : Older(d)'
    <2>1. Older(e)'
      <3>1. position[c] < position'[c]
        BY <1>1, <1>2, <1>3
      <3> QED
        BY <1>3, <1>e, <3>1 DEF Older
    <2>2. ASSUME NEW d \in air PROVE Older(d)'
      <3>1. d.from \in Clients /\ d.nth \in Int
        BY DEF IInv, TypeOK, UdpTypeOK, Datagrams
      <3>2. Older(d)
        BY DEF LossInv
      <3>3. d.from = c => (d.nth < position[c] => d.nth < position'[c])
        BY <1>1, <1>2, <1>3, <3>1
      <3> QED
        BY <1>3, <3>1, <3>2, <3>3 DEF Older, j
    <2> QED
      BY <1>e, <2>1, <2>2
  <1> QED
    BY <1>5, <1>12, <1>13 DEF LossInv, DoneSum, HandedSum

(* A datagram leaves the network, and its bytes are read or lost. *)
LEMMA LossTaken ==
    ASSUME IInv, LossInv, UNCHANGED senderVars, NEW d \in air, air' = air \ {d},
           read' \in [Clients -> Nat], lost' \in [Clients -> Nat],
           \A c \in Clients \ {d.from} : read'[c] = read[c] /\ lost'[c] = lost[c],
           read'[d.from] + lost'[d.from] = read[d.from] + lost[d.from] + d.size
    PROVE  LossInv'
  <1>1. d \in Datagrams /\ d.from \in Clients /\ d.size \in Int /\ air \in SUBSET Datagrams
    BY PayloadAssumption DEF IInv, TypeOK, UdpTypeOK, Datagrams
  <1>2. IsFiniteSet(air) /\ IsFiniteSet(air')
    BY FS_RemoveElement DEF LossInv
  <1>3. BytesOf(air)' = BytesOf(air) - d.size /\ BytesOf(air) \in Int
    BY <1>1, <1>2, DatagramBytes DEF BytesOf
  <1>4. DoneSum' = DoneSum + d.size /\ DoneSum \in Int
    <2> DEFINE f == [c \in Clients |-> read[c] + lost[c]]
               g == [c \in Clients |-> read'[c] + lost'[c]]
    <2>1. /\ DOMAIN f = Clients /\ DOMAIN g = Clients
          /\ \A c \in Clients : f[c] \in Int /\ g[c] \in Int
          /\ \A c \in Clients \ {d.from} : g[c] = f[c]
          /\ g[d.from] = f[d.from] + d.size
      BY <1>1 DEF IInv, TypeOK, UdpTypeOK
    <2>2. DoneSum = SumFunction(f) /\ DoneSum' = SumFunction(g)
      BY DEF DoneSum
    <2> DEFINE c == d.from  z == d.size
    <2>3. c \in Clients /\ z \in Int
      BY <1>1
    <2>4. g[c] = f[c] + z /\ \A x \in Clients \ {c} : g[x] = f[x]
      BY <2>1
    <2> HIDE DEF f, g, c, z
    <2>5. SumFunction(g) = SumFunction(f) + z /\ SumFunction(f) \in Int
      BY <2>1, <2>3, <2>4, ClientSum
    <2> QED
      BY <2>2, <2>5 DEF z
  <1>5. HandedSum' = HandedSum
    BY DEF HandedSum, Handed, senderVars
  <1>6. DoneSum + BytesOf(air) = HandedSum
    BY DEF LossInv, DoneSum, HandedSum
  <1>7. (DoneSum + BytesOf(air) = HandedSum)'
    BY <1>1, <1>3, <1>4, <1>5, <1>6
  <1>8. \A e \in air' : Older(e)'
    BY DEF LossInv, Older, senderVars
  <1> QED
    BY <1>2, <1>7, <1>8 DEF LossInv, DoneSum, HandedSum

LEMMA StepLossInv == IInv /\ PlanInv /\ LossInv /\ IInv' /\ [Next]_vars => LossInv'
  <1> SUFFICES ASSUME IInv, PlanInv, LossInv, IInv', [Next]_vars PROVE LossInv'
    OBVIOUS
  <1>1. ASSUME NEW c \in Clients, ClientStep(c) \/ ClientTick(c) PROVE LossInv'
    BY <1>1, LossStep DEF ClientStep, ClientTick
  <1>2. ASSUME NEW c \in Clients, SendTo(c) PROVE LossInv'
    BY <1>2, LossSendTo
  <1>3. ASSUME NEW d \in air
        PROVE  d.from \in Clients /\ d.size \in Nat /\ d.size <= BufferSize
    BY PayloadAssumption, BufferAssumption DEF IInv, TypeOK, UdpTypeOK, Datagrams
  <1>4. CASE RecvFrom
    <2>1. PICK d \in air : /\ air' = air \ {d}
                           /\ read' = [read EXCEPT ![d.from] = @ +
                                 IF d.size < BufferSize THEN d.size ELSE BufferSize]
      BY <1>4 DEF RecvFrom
    <2>2. d.from \in Clients /\ d.size \in Nat
          /\ (IF d.size < BufferSize THEN d.size ELSE BufferSize) = d.size
      BY <1>3, BufferAssumption
    <2>3. /\ read' \in [Clients -> Nat] /\ lost' \in [Clients -> Nat]
          /\ \A c \in Clients \ {d.from} : read'[c] = read[c] /\ lost'[c] = lost[c]
          /\ read'[d.from] + lost'[d.from] = read[d.from] + lost[d.from] + d.size
      BY <1>4, <2>1, <2>2 DEF RecvFrom, IInv, TypeOK, UdpTypeOK
    <2> QED
      BY <1>4, <2>1, <2>3, LossTaken DEF RecvFrom
  <1>5. CASE Lose
    <2>1. PICK d \in air : /\ air' = air \ {d}
                           /\ lost' = [lost EXCEPT ![d.from] = @ + d.size]
      BY <1>5 DEF Lose
    <2>2. d.from \in Clients /\ d.size \in Nat
      BY <1>3
    <2>3. /\ read' \in [Clients -> Nat] /\ lost' \in [Clients -> Nat]
          /\ \A c \in Clients \ {d.from} : read'[c] = read[c] /\ lost'[c] = lost[c]
          /\ read'[d.from] + lost'[d.from] = read[d.from] + lost[d.from] + d.size
      BY <1>5, <2>1, <2>2 DEF Lose, IInv, TypeOK, UdpTypeOK
    <2> QED
      BY <1>5, <2>1, <2>3, LossTaken DEF Lose
  <1>6. CASE RecvFails \/ UNCHANGED vars
    <2>1. UNCHANGED <<senderVars, air, read, lost>>
      BY <1>6 DEF RecvFails, vars, udpVars
    <2>2. DoneSum' = DoneSum /\ BytesOf(air)' = BytesOf(air) /\ HandedSum' = HandedSum
      BY <2>1 DEF DoneSum, BytesOf, HandedSum, Handed, senderVars
    <2>3. \A d \in air' : Older(d)'
      BY <2>1 DEF LossInv, Older, senderVars
    <2>4. DoneSum + BytesOf(air) = HandedSum
      BY DEF LossInv, DoneSum, HandedSum
    <2>5. (DoneSum + BytesOf(air) = HandedSum)'
      BY <2>2, <2>4
    <2> QED
      BY <2>1, <2>3, <2>5 DEF LossInv, DoneSum, HandedSum
  <1> QED
    BY <1>1, <1>2, <1>4, <1>5, <1>6 DEF Next, Finished

(* What was handed out is read, lost or on its way. *)
THEOREM BytesAreAccountedFor == Spec => []LossInv
  BY InitLossInv, StepLossInv, IInvHolds, PlanHolds, PTL DEF Spec

(* Once all clients are done and nothing is on its way, the bytes that the *)
(* server has read and those that were lost sum up to number_of_clients *  *)
(* (transfer_data_bytes * num_cycles): the parser's loss is the loss, for  *)
(* every number of clients and however datagrams are lost and reordered.   *)
THEOREM LossIsTrue == Spec => []LossIsWhatIsMissing
  <1>1. ASSUME IInv, PlanInv, LossInv, \A c \in Clients : client[c] = "done", air = {}
        PROVE  SumFunction([c \in Clients |-> read[c] + lost[c]])
                 = Cardinality(Clients) * (BytesToTransfer * NumCycles)
    <2> DEFINE h == [c \in Clients |-> Handed(c)]  amount == BytesToTransfer * NumCycles
    <2>1. /\ \A c \in Clients : h[c] = amount
          /\ DOMAIN h = Clients /\ amount \in Int
      <3>1. \A c \in Clients : current_cycle[c] = NumCycles
        BY <1>1 DEF PlanInv, ClientPlan, Cycling
      <3>2. NumCycles * BytesToTransfer = amount /\ amount \in Int
        BY PerCycleType
      <3> QED
        BY <3>1, <3>2, PerCycleType DEF Handed
    <2>2. SumFunction([c \in Clients |-> read[c] + lost[c]]) + BytesOf(air) = SumFunction(h)
      BY <1>1 DEF LossInv
    <2> HIDE DEF h, amount
    <2>3. SumFunction(h) = Cardinality(Clients) * amount
      BY <2>1, ClientsAssumption, SumConstant DEF SumFunction
    <2>4. BytesOf(air) = 0
      BY <1>1, SumEmpty DEF BytesOf
    <2>5. DoneSum \in Int
      <3>1. DOMAIN [d \in Clients |-> read[d] + lost[d]] = Clients
            /\ \A d \in Clients : [e \in Clients |-> read[e] + lost[e]][d] \in Int
        BY <1>1 DEF IInv, TypeOK, UdpTypeOK
      <3> QED
        BY <3>1, ClientsAssumption, SumInt DEF DoneSum, SumFunction
    <2> QED
      BY <2>2, <2>3, <2>4, <2>5 DEF amount, DoneSum
  <1>2. IInv /\ PlanInv /\ LossInv => LossIsWhatIsMissing
    BY <1>1 DEF LossIsWhatIsMissing
  <1> QED
    BY <1>2, IInvHolds, PlanHolds, BytesAreAccountedFor, PTL
=============================================================================
