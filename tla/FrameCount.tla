---------------------------- MODULE FrameCount -----------------------------
(***************************************************************************)
(* What the numbers of a test are meant to be, frame by frame of the       *)
(* captured trace: the frames are judged in their order, each one is       *)
(* either counted as a whole or skipped as a whole, and the time is that   *)
(* between the first and the last counted frame.  Only a frame that the    *)
(* trace cuts off may be counted with other numbers.                       *)
(***************************************************************************)
EXTENDS Integers, Sequences, Functions

CONSTANTS
    Protocol,  \* the protocol under test
    Garbage    \* what a variable that was never set may hold

(* A frame: its protocols, whether it carries a heartbeat chunk, its       *)
(* length, and the length of each of its data chunks.                      *)
Wanted(f) == Protocol \in f.protocols /\ ~ f.heartbeat
Useful(f) == SumFunction(f.data)
Chunks(f) == IF Protocol = "sctp" THEN Len(f.data) ELSE 0

VARIABLES
    frames,  \* the frames of the trace
    cut,     \* the last frame is not complete
    judged,  \* frames judged so far
    totals   \* the sums over the counted ones, with the times of the first and last

frameVars == <<frames, cut, judged, totals>>

NoTotals == [packets |-> 0, useful |-> 0, data |-> 0, chunks |-> 0, first |-> -1, last |-> -1]

(* The totals with one more frame. *)
Plus(t, time, length, useful, chunks) ==
    [packets |-> t.packets + 1, useful |-> t.useful + useful,
     data |-> t.data + length, chunks |-> t.chunks + chunks,
     first |-> IF t.first = -1 THEN time ELSE t.first, last |-> time]

Init == judged = 0 /\ totals = NoTotals

Damaged == cut /\ judged + 1 = Len(frames)

Count ==
    LET f == frames[judged + 1]
    IN  \/ /\ Wanted(f)
           /\ totals' = Plus(totals, judged + 1, f.length, Useful(f), Chunks(f))
        \/ /\ Damaged
           /\ \E time \in Garbage \cup {judged + 1}, length \in Garbage \cup {f.length},
                 useful \in 0 .. Useful(f), chunks \in 0 .. Chunks(f) :
                    totals' = Plus(totals, time, length, useful, chunks)

Skip == ~ Wanted(frames[judged + 1]) /\ UNCHANGED totals

Next ==
    /\ judged < Len(frames)
    /\ judged' = judged + 1
    /\ Count \/ Skip
    /\ UNCHANGED <<frames, cut>>

Spec == Init /\ [][Next]_frameVars
=============================================================================
