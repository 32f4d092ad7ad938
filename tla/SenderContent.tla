--------------------------- MODULE SenderContent ---------------------------
(***************************************************************************)
(* The text generator every client draws its payload from                  *)
(* (SenderContent.cc), together with the loop of the clients that drives   *)
(* it: a generator is constructed for a cycle, fill() is called until it   *)
(* returns 0, and after each call that returned 1 the client sends         *)
(* strlen(buffer) bytes.  One step is one iteration of the loop of fill(). *)
(*                                                                         *)
(* A byte is its rank in the alphabet, 1 .. ContentSize - 1, and 0 is NUL. *)
(***************************************************************************)
EXTENDS Integers

CONSTANTS
    BufferSize,   \* size of the client's buffer: the payload and a NUL
    ContentSize,  \* CONTENT_SIZE: the letters of CONTENT and their NUL
    Lengths       \* the lengths a generator is constructed with

ASSUME BufferSizeAssumption == BufferSize \in Nat /\ BufferSize >= 2
ASSUME ContentSizeAssumption == ContentSize \in Nat /\ ContentSize >= 2
ASSUME LengthsAssumption == Lengths \subseteq Int

NUL == 0
Bytes == 0 .. (ContentSize - 1)

(* The string literal, with the NUL the compiler appends to it. *)
CONTENT == [k \in 0 .. (ContentSize - 1) |->
                IF k = ContentSize - 1 THEN NUL ELSE k + 1]

VARIABLES
    len,     \* SenderContent::len
    i,       \* SenderContent::i
    buffer,  \* the client's buffer, never cleared between calls
    pc,      \* "main": in the client's loop; "fill": inside fill()
    ret,     \* what the last call of fill() returned
    taken    \* bytes of this generator the client has sent so far

vars == <<len, i, buffer, pc, ret, taken>>

Buffers == [0 .. (BufferSize - 1) -> Bytes]

(* strlen: the place of the first NUL. *)
StrLen(b) == CHOOSE n \in DOMAIN b :
                /\ b[n] = NUL
                /\ \A m \in DOMAIN b : m < n => b[m] # NUL

-----------------------------------------------------------------------------
(* The buffer is a local array of main(): its first content is arbitrary. *)
Init ==
    /\ len = 0 /\ i = 0 /\ taken = 0
    /\ buffer \in Buffers
    /\ pc = "main"
    /\ ret = 0

(* Mistake: the index starts in front of the text. *)
ConstructBeforeStart ==
    /\ pc = "main" /\ ret = 0
    /\ len' \in Lengths
    /\ i' = -1 /\ taken' = 0
    /\ pc' = "fill"
    /\ UNCHANGED <<buffer, ret>>

(* A new cycle of the client: SenderContent content(bytes_to_transfer). *)
Construct ==
    /\ pc = "main" /\ ret = 0
    /\ len' \in Lengths
    /\ i' = 0 /\ taken' = 0
    /\ pc' = "fill"
    /\ UNCHANGED <<buffer, ret>>

(* The body of the client's loop: send strlen(buffer) bytes, call again. *)
SendAndRefill ==
    /\ pc = "main" /\ ret = 1
    /\ taken' = taken + StrLen(buffer)
    /\ pc' = "fill"
    /\ UNCHANGED <<len, i, buffer, ret>>

(* Mistake: the NUL of the literal taken for a letter. *)
content_i_WithNul == i % ContentSize

content_i == i % (ContentSize - 1)
buffer_i  == i % (BufferSize - 1)

(* Mistakes: room left in the buffer; the end tested before i++. *)
ChunkEndsEarly == i + 1 = len \/ buffer_i + 2 = BufferSize - 1
ChunkEndsTestedFirst == i = len \/ buffer_i + 1 = BufferSize - 1

(* The test after i++: the text is used up, or the buffer is full. *)
ChunkEnds == i + 1 = len \/ buffer_i + 1 = BufferSize - 1

(* Mistake: i++ left out. *)
CopyByteInPlace ==
    /\ pc = "fill" /\ i < len
    /\ ~ ChunkEnds
    /\ buffer' = [buffer EXCEPT ![buffer_i] = CONTENT[content_i]]
    /\ UNCHANGED <<i, len, pc, ret, taken>>

(* One iteration of fill() that stays in the loop. *)
CopyByte ==
    /\ pc = "fill" /\ i < len
    /\ ~ ChunkEnds
    /\ buffer' = [buffer EXCEPT ![buffer_i] = CONTENT[content_i]]
    /\ i' = i + 1
    /\ UNCHANGED <<len, pc, ret, taken>>

(* Mistake: the NUL always at the end of the buffer. *)
CopyLastByteNulAtEnd ==
    /\ pc = "fill" /\ i < len
    /\ ChunkEnds
    /\ buffer' = [buffer EXCEPT ![buffer_i] = CONTENT[content_i],
                                ![BufferSize - 1] = NUL]
    /\ i' = i + 1
    /\ pc' = "main" /\ ret' = 1
    /\ UNCHANGED <<len, taken>>

(* The iteration that terminates the string and returns 1. *)
CopyLastByte ==
    /\ pc = "fill" /\ i < len
    /\ ChunkEnds
    /\ buffer' = [buffer EXCEPT ![buffer_i] = CONTENT[content_i],
                                ![buffer_i + 1] = NUL]
    /\ i' = i + 1
    /\ pc' = "main" /\ ret' = 1
    /\ UNCHANGED <<len, taken>>

(* The loop is not entered: return 0. *)
Exhausted ==
    /\ pc = "fill" /\ i >= len
    /\ pc' = "main" /\ ret' = 0
    /\ UNCHANGED <<len, i, buffer, taken>>

Next == Construct \/ SendAndRefill \/ CopyByte \/ CopyLastByte \/ Exhausted

(* fill() and the client's loop are sequential code that keeps running. *)
Spec == Init /\ [][Next]_vars /\ WF_vars(Next)

-----------------------------------------------------------------------------
TypeOK ==
    /\ len \in Int
    /\ i \in Nat
    /\ buffer \in Buffers
    /\ pc \in {"main", "fill"}
    /\ ret \in {0, 1}
    /\ taken \in Nat

Filled == pc = "main" /\ ret = 1

(* Every string the client sends is the next piece of the text and nothing *)
(* else: what strlen() counts starts where the last send stopped, reaches  *)
(* exactly as far as fill() has copied, and holds the bytes of the         *)
(* endlessly repeated CONTENT at those positions (no byte of an earlier    *)
(* chunk, no NUL of the literal, no gap).                                  *)
ChunkIsNextPiece ==
    Filled =>
        /\ taken + StrLen(buffer) = i
        /\ \A k \in 0 .. (StrLen(buffer) - 1) :
                buffer[k] = CONTENT[(taken + k) % (ContentSize - 1)]

(* "Last buffer byte holds null terminator to give 1024 data size in       *)
(* packet": every message but the last of a cycle carries BufferSize - 1   *)
(* bytes.                                                                  *)
FullUntilLast ==
    Filled => StrLen(buffer) = BufferSize - 1 \/ taken + StrLen(buffer) = len

(* When fill() returns 0 the client has sent exactly the length it asked   *)
(* for (nothing when the length is not positive).                          *)
WholeLengthSent ==
    pc = "main" /\ ret = 0 => taken = IF len > 0 THEN len ELSE 0

(* The client's while loop ends: whatever the length, fill() returns 0     *)
(* again and the next cycle can start.                                     *)
CycleEnds == pc = "fill" ~> pc = "main" /\ ret = 0

(* The inductive invariant behind the three properties above.  Between     *)
(* calls `taken' is a multiple of the payload as long as text remains, so  *)
(* that i % (BufferSize - 1) is the offset i - taken in the chunk; what    *)
(* has been copied of the chunk is the piece of the text that starts at    *)
(* `taken', and a chunk ends at the payload size or at the end of the text.*)
Copied(n) == \A k \in 0 .. (n - 1) :
                buffer[k] = CONTENT[(taken + k) % (ContentSize - 1)]

CopyingInv ==
    pc = "fill" /\ i < len =>
        /\ taken % (BufferSize - 1) = 0
        /\ i - taken \in 0 .. (BufferSize - 2)
        /\ Copied(i - taken)

NothingLeftInv ==
    pc = "fill" /\ i >= len => taken = i /\ i = IF len > 0 THEN len ELSE 0

FilledInv ==
    Filled =>
        /\ taken % (BufferSize - 1) = 0
        /\ i <= len
        /\ i - taken \in 1 .. (BufferSize - 1)
        /\ i = len \/ i - taken = BufferSize - 1
        /\ Copied(i - taken)
        /\ buffer[i - taken] = NUL

IInv == TypeOK /\ CopyingInv /\ NothingLeftInv /\ FilledInv /\ WholeLengthSent
=============================================================================
