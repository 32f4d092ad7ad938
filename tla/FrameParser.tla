---------------------------- MODULE FrameParser ----------------------------
(***************************************************************************)
(* DataParser.cc: the text that "tshark -V" prints of the server's trace   *)
(* is read line by line.  packetExtractor() looks for the first line of    *)
(* the next frame, dataExtractor() reads on to the blank line behind the   *)
(* frame, and insertTotalData() writes the sums as a row of the results.   *)
(*                                                                         *)
(* A line is what its first words make of it and the number behind them.   *)
(***************************************************************************)
EXTENDS Integers, Sequences, Functions, FiniteSetsExt

CONSTANTS
    Protocol,      \* DataParser::protocol
    FrameKinds,    \* the frames a trace may consist of
    MaxFrames,     \* bound: frames of a trace
    MayCut,        \* may tshark or the disk fail, which cuts the text off?
    Garbage,       \* what a local variable that was never set may hold
    expectedData   \* what the clients were told to send

ASSUME FrameKindsAssumption ==
    FrameKinds \subseteq [protocols : SUBSET STRING, heartbeat : BOOLEAN,
                          length : Nat, data : Seq(Nat)]
ASSUME MaxFramesAssumption == MaxFrames \in Nat
ASSUME MayCutAssumption == MayCut \in BOOLEAN
ASSUME GarbageAssumption == Garbage \subseteq Int /\ Garbage # {}

(* The text of the nth frame, as tshark prints it: lines at its head, with *)
(* a heartbeat two more of them, for each data chunk "Data (n bytes)" and  *)
(* its bytes, and a blank line.                                            *)
Line(is, v) == [is |-> is, v |-> v]
HeadLines(n, f) ==
    <<Line("Frame", n), Line("Epoch Time:", n), Line("Frame Length:", f.length),
      Line("[Protocols in frame:", f.protocols), Line("other", 0),
      Line("HEARTBEAT chunk", 0), Line("other", 0)>>
HeadSize(f) == IF f.heartbeat THEN 7 ELSE 5
TextSize(f) == HeadSize(f) + 2 * Len(f.data) + 1
TextLine(n, f, k) ==
    IF k <= HeadSize(f) THEN HeadLines(n, f)[k]
    ELSE IF k = TextSize(f) THEN Line("blank", 0)
    ELSE IF (k - HeadSize(f)) % 2 = 1 THEN Line("Data", f.data[(k - HeadSize(f) + 1) \div 2])
    ELSE Line("bytes", 0)

VARIABLES
    frames,          \* the frames in the trace
    missing,         \* lines of the last one that the text ends before
    reader,          \* the frame and the line of it that is read next
    reading,         \* the function that reads: "scan", "extract"; "done" after the row
    current_frame,
    words,           \* arr of packetExtractor()
    local,           \* the local variables of dataExtractor()
    totals,          \* timeFix and the totals of the parser
    row              \* the row of the results file, once it is written

parserVars == <<frames, missing, reader, reading, current_frame, words, local, totals, row>>
trace == <<frames, missing>>

cut == missing # 0
Frame == INSTANCE FrameCount WITH judged <- current_frame - 1

(* The text as the reader goes through it. *)
LinesLeft(n) == TextSize(frames[n]) - IF n = Len(frames) THEN missing ELSE 0
After(r) == IF r.line < LinesLeft(r.frame) THEN [r EXCEPT !.line = @ + 1]
            ELSE [frame |-> r.frame + 1, line |-> 1]
AtEnd(r) == r.frame > Len(frames)
line == TextLine(reader.frame, frames[reader.frame], reader.line)

NoRow == << >>
Fresh(e, l) == [correct |-> TRUE, heartbeat |-> FALSE, epoch_time |-> e, frame_length |-> l,
                data_length |-> 0, data_chunk_count |-> 0]

ParserInit ==
    /\ \E n \in 0 .. MaxFrames : frames \in [1 .. n -> FrameKinds]
    /\ \/ missing = 0
       \/ MayCut /\ frames # << >> /\ missing \in 1 .. (TextSize(frames[Len(frames)]) - 1)
    /\ reader = [frame |-> 1, line |-> 1]
    /\ reading = "scan"
    /\ current_frame = 1
    /\ words = Line("other", 0)
    /\ local = Fresh(0, 0)
    /\ totals = Frame!NoTotals
    /\ row = NoRow

-----------------------------------------------------------------------------
(* Mistake: a frame recognised by its first word alone. *)
ScanAnyFrame ==
    /\ reading = "scan" /\ ~ AtEnd(reader)
    /\ reader' = After(reader)
    /\ words' = IF line.is = "blank" THEN words ELSE line
    /\ \/ /\ words'.is = "Frame"
          /\ reading' = "extract"
          /\ \E e, l \in Garbage : local' = Fresh(e, l)
       \/ words'.is # "Frame" /\ UNCHANGED <<reading, local>>
    /\ UNCHANGED <<trace, current_frame, totals, row>>

(* A line of packetExtractor(): a blank one leaves the words of the line   *)
(* before it, and they are looked at again.                                *)
Scan ==
    /\ reading = "scan" /\ ~ AtEnd(reader)
    /\ reader' = After(reader)
    /\ words' = IF line.is = "blank" THEN words ELSE line
    /\ \/ /\ words' = Line("Frame", current_frame)
          /\ reading' = "extract"
          /\ \E e, l \in Garbage : local' = Fresh(e, l)
       \/ words' # Line("Frame", current_frame) /\ UNCHANGED <<reading, local>>
    /\ UNCHANGED <<trace, current_frame, totals, row>>

(* getHeartBeat(), getPacketProtocol(), getEpochTime(), getPacketLength(), *)
(* getPayload(): what dataExtractor() keeps of a line.                     *)
Extracted ==
    CASE line.is = "HEARTBEAT chunk"      -> [local EXCEPT !.heartbeat = TRUE]
      [] line.is = "[Protocols in frame:" -> [local EXCEPT !.correct = Protocol \in line.v]
      [] line.is = "Epoch Time:"          -> [local EXCEPT !.epoch_time = line.v]
      [] line.is = "Frame Length:"        -> [local EXCEPT !.frame_length = line.v]
      [] line.is = "Data" -> [local EXCEPT !.data_length = @ + line.v,
                                !.data_chunk_count = @ + IF Protocol = "sctp" THEN 1 ELSE 0]
      [] OTHER -> local

(* A line inside the frame; a "Data" line takes the next one with it. *)
Extract ==
    /\ reading = "extract" /\ ~ AtEnd(reader)
    /\ line.is # "blank" /\ local.correct /\ ~ local.heartbeat
    /\ local' = Extracted
    /\ reader' = IF line.is = "Data" /\ ~ AtEnd(After(reader))
                 THEN After(After(reader)) ELSE After(reader)
    /\ UNCHANGED <<trace, reading, current_frame, words, totals, row>>

(* Mistake: the end of a frame in an other protocol taken for a frame. *)
GiveUpCounts ==
    /\ reading = "extract" /\ ~ AtEnd(reader)
    /\ line.is # "blank" /\ (~ local.correct \/ local.heartbeat)
    /\ reader' = After(reader)
    /\ reading' = "scan" /\ current_frame' = current_frame + 1
    /\ totals' = Frame!Plus(totals, local.epoch_time, local.frame_length, 0, 0)
    /\ UNCHANGED <<trace, words, local, row>>

(* The line after one that ruled the frame out is read and dropped. *)
GiveUp ==
    /\ reading = "extract" /\ ~ AtEnd(reader)
    /\ line.is # "blank" /\ (~ local.correct \/ local.heartbeat)
    /\ reader' = After(reader)
    /\ reading' = "scan" /\ current_frame' = current_frame + 1
    /\ UNCHANGED <<trace, words, local, totals, row>>

(* The loop of dataExtractor() ends. *)
FrameEnds == ~ AtEnd(reader) => line.is = "blank"

(* Mistake: the clock started again at every frame. *)
EndFrameRestartsClock ==
    /\ reading = "extract"
    /\ FrameEnds
    /\ reader' = IF AtEnd(reader) THEN reader ELSE After(reader)
    /\ reading' = "scan" /\ current_frame' = current_frame + 1
    /\ totals' = Frame!Plus([totals EXCEPT !.first = -1], local.epoch_time,
                            local.frame_length, local.data_length, local.data_chunk_count)
    /\ UNCHANGED <<trace, words, local, row>>

(* The blank line, or the end of the text: the frame is counted. *)
EndFrame ==
    /\ reading = "extract"
    /\ FrameEnds
    /\ reader' = IF AtEnd(reader) THEN reader ELSE After(reader)
    /\ reading' = "scan" /\ current_frame' = current_frame + 1
    /\ totals' = Frame!Plus(totals, local.epoch_time, local.frame_length,
                            local.data_length, local.data_chunk_count)
    /\ UNCHANGED <<trace, words, local, row>>

(* Columns 1 to 5 and 10 of the row, and the loss that column 7 gives in   *)
(* per cent of the expected data.  -1 stands for "NaN".                    *)
RowOf(t) ==
    <<[frames |-> t.packets, time |-> t.last - t.first, data |-> t.data, useful |-> t.useful,
       expected |-> expectedData, missing |-> expectedData - t.useful,
       chunks |-> IF Protocol = "sctp" THEN t.chunks ELSE -1]>>

(* The row is appended; a file that cannot be opened gets none. *)
InsertTotalData ==
    /\ reading = "scan" /\ AtEnd(reader)
    /\ reading' = "done"
    /\ \/ MayCut /\ UNCHANGED row
       \/ row' = RowOf(totals)
    /\ UNCHANGED <<trace, reader, current_frame, words, local, totals>>

ParserStops == reading = "done" /\ UNCHANGED parserVars

ParserNext == Scan \/ Extract \/ GiveUp \/ EndFrame \/ InsertTotalData \/ ParserStops

ParserSpec == ParserInit /\ [][ParserNext]_parserVars

-----------------------------------------------------------------------------
(* The frames that should be counted: of the protocol under test, without  *)
(* a heartbeat, and complete in the text.                                  *)
Whole == {n \in DOMAIN frames : Frame!Wanted(frames[n]) /\ ~ (cut /\ n = Len(frames))}
Lengths == [n \in DOMAIN frames |-> frames[n].length]
Payloads == [n \in DOMAIN frames |-> Frame!Useful(frames[n])]
ChunkCounts == [n \in DOMAIN frames |-> Frame!Chunks(frames[n])]
Total(numbers) == SumFunctionOnSet(numbers, Whole)

(* Every frame is counted as a whole or skipped as a whole, once and in    *)
(* the order of the trace (FrameCount), although packetExtractor() judges  *)
(* blank lines by stale words and dataExtractor() tests its flags a line   *)
(* late.                                                                   *)
CountsFrames == Frame!Spec

(* The row of a complete trace holds the sums over the frames that should  *)
(* be counted, and the loss is what is missing of the expected data.       *)
RowIsTrue ==
    row # NoRow /\ ~ cut =>
        /\ row[1].frames = Cardinality(Whole)
        /\ row[1].data = Total(Lengths)
        /\ row[1].useful = Total(Payloads)
        /\ row[1].missing = expectedData - Total(Payloads)
        /\ row[1].time = IF Whole = {} THEN 0 ELSE Max(Whole) - Min(Whole)
        /\ row[1].chunks = IF Protocol = "sctp" THEN Total(ChunkCounts) ELSE -1

(* A text that is cut off costs the frame it is cut in and no other:       *)
(* system() does not tell start_data_parser() that tshark has failed.      *)
CutCostsOneFrame ==
    row # NoRow /\ cut =>
        /\ row[1].frames - Cardinality(Whole) \in {0, 1}
        /\ row[1].useful - Total(Payloads) \in 0 .. Frame!Useful(frames[Len(frames)])

-----------------------------------------------------------------------------
(* The inductive invariant. *)
TraceOK ==
    /\ \E n \in Nat : frames \in [1 .. n -> FrameKinds]
    /\ missing \in Nat
    /\ cut => frames # << >> /\ missing < TextSize(frames[Len(frames)])

(* Where the functions are in the text: behind a frame that was given up   *)
(* its rest is still to be read, and the text may end inside the frame     *)
(* that it is cut in.                                                      *)
At(r, n, k) == r = [frame |-> n, line |-> k]
ReaderInv ==
    /\ reading \in {"scan", "extract", "done"}
    /\ current_frame \in 1 .. Len(frames) + 1
    /\ reading = "scan" =>
        \/ At(reader, current_frame, 1)
        \/ /\ current_frame > 1
           /\ \E k \in 2 .. LinesLeft(current_frame - 1) : At(reader, current_frame - 1, k)
    /\ reading = "extract" =>
        /\ current_frame <= Len(frames)
        /\ \/ \E k \in 2 .. LinesLeft(current_frame) : At(reader, current_frame, k)
           \/ cut /\ current_frame = Len(frames) /\ At(reader, current_frame + 1, 1)
    /\ reading = "done" => current_frame = Len(frames) + 1

(* The words of a line that was judged before are not those that are       *)
(* looked for.                                                             *)
WordsInv ==
    \A n \in Nat : words = Line("Frame", n) =>
        n < current_frame \/ (n = current_frame /\ reading = "extract")

(* What is kept of the first d chunks. *)
Gathered(l, f, d) ==
    /\ l.data_length = SumFunctionOnSet(f.data, 1 .. d)
    /\ l.data_chunk_count = IF Protocol = "sctp" THEN d ELSE 0

(* What is known of the frame when its kth line is read next. *)
Known(l, n, f, k) ==
    /\ k > 2 => l.epoch_time = n
    /\ k > 3 => l.frame_length = f.length
    /\ l.correct = (k > 4 => Protocol \in f.protocols)
    /\ l.heartbeat = (k > 6 /\ f.heartbeat)
    /\ k > 5 => l.correct
    /\ k > 7 => ~ l.heartbeat

Locals == [correct : BOOLEAN, heartbeat : BOOLEAN, epoch_time : Int, frame_length : Int,
           data_length : Nat, data_chunk_count : Nat]
LocalInv ==
    LET f == frames[current_frame]
    IN  /\ local \in Locals
        /\ reading = "extract" =>
            /\ local.epoch_time \in Garbage \cup {current_frame}
            /\ local.frame_length \in Garbage \cup {f.length}
            /\ \E d \in 0 .. Len(f.data) :
                /\ Gathered(local, f, d)
                /\ AtEnd(reader) \/ reader.line = HeadSize(f) + 1 + 2 * d
                                 \/ (d = 0 /\ reader.line <= HeadSize(f))
            /\ ~ AtEnd(reader) => Known(local, current_frame, f, reader.line)

(* The totals over the frames that were judged, unless the last one is     *)
(* counted from the text that is left of it.                               *)
Counted == {n \in Whole : n < current_frame}
FirstAndLast ==
    IF Counted = {} THEN totals.first = -1 /\ totals.last = -1
    ELSE /\ totals.first \in Counted /\ \A n \in Counted : totals.first <= n
         /\ totals.last \in Counted /\ \A n \in Counted : n <= totals.last
TotalsInv ==
    IF cut /\ current_frame > Len(frames)
    THEN /\ totals.packets - Cardinality(Whole) \in {0, 1}
         /\ totals.useful - Total(Payloads) \in 0 .. Frame!Useful(frames[Len(frames)])
    ELSE /\ totals.packets = Cardinality(Counted)
         /\ totals.data = SumFunctionOnSet(Lengths, Counted)
         /\ totals.useful = SumFunctionOnSet(Payloads, Counted)
         /\ totals.chunks = SumFunctionOnSet(ChunkCounts, Counted)
         /\ FirstAndLast

RowInv == row # NoRow => reading = "done" /\ row = RowOf(totals)

ParserInv == TraceOK /\ ReaderInv /\ WordsInv /\ LocalInv /\ TotalsInv /\ RowInv
=============================================================================
