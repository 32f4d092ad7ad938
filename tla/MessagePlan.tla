---------------------------- MODULE MessagePlan ----------------------------
(***************************************************************************)
(* What a client should send on each of its sockets, from its arguments    *)
(* alone: every cycle is a text of BytesToTransfer bytes in messages of    *)
(* Payload bytes and a rest, and message m, counted over all cycles, goes  *)
(* to socket m % NumSockets.                                               *)
(***************************************************************************)
EXTENDS Integers, Functions

CONSTANTS BytesToTransfer, NumCycles, Payload, NumSockets

PerCycle == (BytesToTransfer + Payload - 1) \div Payload

SizeOf(m) ==
    IF m % PerCycle = PerCycle - 1
    THEN BytesToTransfer - (PerCycle - 1) * Payload ELSE Payload

(* The share of socket k in the first n messages, and in all of them. *)
ShareUpTo(k, n) ==
    SumFunctionOnSet([m \in Nat |-> SizeOf(m)], {m \in 0 .. (n - 1) : m % NumSockets = k})

Share(k) == ShareUpTo(k, NumCycles * PerCycle)
=============================================================================
