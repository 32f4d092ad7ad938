------------------------ MODULE SenderContentProofs ------------------------
(***************************************************************************)
(* Proofs about the text generator, for every buffer size, every alphabet  *)
(* and every length.                                                       *)
(***************************************************************************)
EXTENDS SenderContent, TLAPS

USE BufferSizeAssumption, ContentSizeAssumption, LengthsAssumption
    DEF Bytes, Buffers, NUL

(* The offset of position t + d in its chunk, when t starts a chunk. *)
LEMMA OffsetInChunk ==
    ASSUME NEW p \in Nat \ {0}, NEW t \in Nat, t % p = 0,
           NEW d \in 0 .. (p - 1)
    PROVE  (t + d) % p = d
  OBVIOUS

(* The position one payload after the start of a chunk starts a chunk. *)
LEMMA NextChunk ==
    ASSUME NEW p \in Nat \ {0}, NEW t \in Nat, t % p = 0
    PROVE  (t + p) % p = 0
<1>. DEFINE q == t \div p
<1>1. q \in Nat /\ t = p * q
  OBVIOUS
<1>2. t + p = p * (q + 1)
  BY <1>1
<1>3. ASSUME NEW k \in Nat
      PROVE  (p * k) % p = 0
  OBVIOUS
<1>4. (p * (q + 1)) % p = 0
  BY <1>1, <1>3
<1>. QED
  BY <1>2, <1>4

(* The letters of CONTENT that fill() can pick are letters, never the NUL. *)
LEMMA LetterOfContent ==
    ASSUME NEW k \in Nat
    PROVE  CONTENT[k % (ContentSize - 1)] \in Bytes \ {NUL}
<1>1. k % (ContentSize - 1) \in 0 .. (ContentSize - 2)
  OBVIOUS
<1>. QED
  BY <1>1 DEF CONTENT

(* strlen() finds the first NUL. *)
LEMMA StrLenIs ==
    ASSUME NEW b \in Buffers, NEW n \in 0 .. (BufferSize - 1),
           b[n] = NUL, \A m \in 0 .. (n - 1) : b[m] # NUL
    PROVE  StrLen(b) = n
<1>. DEFINE First(k) == /\ b[k] = NUL
                        /\ \A m \in DOMAIN b : m < k => b[m] # NUL
<1>1. n \in DOMAIN b /\ First(n)
  OBVIOUS
<1>2. ASSUME NEW k \in DOMAIN b, First(k)
      PROVE  k = n
  BY <1>1, <1>2
<1>. QED
  BY <1>1, <1>2 DEF StrLen

(* After a call that returned 1, strlen() is what fill() has copied. *)
LEMMA StrLenOfChunk ==
    ASSUME IInv, Filled
    PROVE  StrLen(buffer) = i - taken
<1>1. ASSUME NEW m \in 0 .. (i - taken - 1)
      PROVE  buffer[m] # NUL
  <2>1. taken + m \in Nat
    BY DEF IInv, TypeOK, FilledInv
  <2>2. buffer[m] = CONTENT[(taken + m) % (ContentSize - 1)]
    BY DEF IInv, FilledInv, Copied
  <2>. QED
    BY <2>1, <2>2, LetterOfContent
<1>2. i - taken \in 0 .. (BufferSize - 1) /\ buffer[i - taken] = NUL
  <2>1. i - taken \in 1 .. (BufferSize - 1) /\ buffer[i - taken] = NUL
    BY DEF IInv, FilledInv
  <2>. QED
    BY <2>1
<1>3. buffer \in Buffers
  BY DEF IInv, TypeOK
<1>. QED
  BY <1>1, <1>2, <1>3, StrLenIs

LEMMA InitIInv == Init => IInv
  BY DEF Init, IInv, TypeOK, CopyingInv, NothingLeftInv, FilledInv, Filled,
         WholeLengthSent

(* fill() writes a letter, at the offset of position i in its chunk. *)
LEMMA WriteByte ==
    ASSUME IInv, pc = "fill", i < len
    PROVE  /\ buffer_i = i - taken
           /\ CONTENT[content_i] \in Bytes \ {NUL}
<1>1. /\ i \in Nat /\ taken \in Nat
      /\ taken % (BufferSize - 1) = 0
      /\ i - taken \in 0 .. (BufferSize - 2)
  BY DEF IInv, TypeOK, CopyingInv
<1>2. (taken + (i - taken)) % (BufferSize - 1) = i - taken
  <2>1. BufferSize - 1 \in Nat \ {0}
    OBVIOUS
  <2>2. i - taken \in 0 .. ((BufferSize - 1) - 1)
    BY <1>1
  <2>. QED
    BY <1>1, <2>1, <2>2, OffsetInChunk
<1>3. buffer_i = i - taken
  <2>1. taken + (i - taken) = i
    BY <1>1
  <2>. QED
    BY <1>2, <2>1 DEF buffer_i
<1>4. CONTENT[content_i] \in Bytes \ {NUL}
  BY <1>1, LetterOfContent DEF content_i
<1>. QED
  BY <1>3, <1>4

(* The bytes of the chunk stay as they are when one is put behind them. *)
LEMMA CopiedGrows ==
    ASSUME IInv, pc = "fill", i < len,
           i' = i + 1, taken' = taken,
           buffer'[i - taken] = CONTENT[content_i],
           \A k \in 0 .. (i - taken - 1) : buffer'[k] = buffer[k]
    PROVE  Copied(i - taken)'
<1>1. i \in Nat /\ taken \in Nat /\ Copied(i - taken)
  BY DEF IInv, TypeOK, CopyingInv
<1>2. SUFFICES ASSUME NEW k \in 0 .. (i' - taken' - 1)
               PROVE  buffer'[k] = CONTENT[(taken + k) % (ContentSize - 1)]
  BY DEF Copied
<1>3. CASE k = i - taken
  <2>1. taken + k = i
    BY <1>1, <1>3
  <2>. QED
    BY <1>3, <2>1 DEF content_i
<1>4. CASE k # i - taken
  <2>1. k \in 0 .. (i - taken - 1)
    BY <1>1, <1>2, <1>4
  <2>. QED
    BY <1>1, <2>1 DEF Copied
<1>. QED
  BY <1>3, <1>4

LEMMA StepIInv == IInv /\ [Next]_vars => IInv'
<1>. SUFFICES ASSUME IInv, [Next]_vars
              PROVE  IInv'
  OBVIOUS
<1>. USE DEF IInv, TypeOK
<1>1. CASE Construct
  BY <1>1 DEF Construct, CopyingInv, NothingLeftInv, FilledInv, Filled,
              Copied, WholeLengthSent
<1>2. CASE SendAndRefill
  <2>1. Filled /\ taken' = i
    BY <1>2, StrLenOfChunk DEF SendAndRefill, Filled
  <2>2. i < len => taken' % (BufferSize - 1) = 0
    <3>1. SUFFICES ASSUME i < len
                   PROVE  i % (BufferSize - 1) = 0
      BY <2>1
    <3>2. i = taken + (BufferSize - 1) /\ taken % (BufferSize - 1) = 0
      BY <2>1, <3>1 DEF FilledInv
    <3>3. BufferSize - 1 \in Nat \ {0}
      OBVIOUS
    <3>. QED
      BY <3>2, <3>3, NextChunk
  <2>. QED
    BY <1>2, <2>1, <2>2 DEF SendAndRefill, CopyingInv, NothingLeftInv,
                            FilledInv, Filled, Copied, WholeLengthSent
<1>3. CASE CopyByte
  <2>1. i - taken # BufferSize - 2 /\ i + 1 # len
    BY <1>3, WriteByte DEF CopyByte, ChunkEnds
  <2>2. /\ buffer' \in Buffers
        /\ buffer'[i - taken] = CONTENT[content_i]
        /\ \A k \in 0 .. (i - taken - 1) : buffer'[k] = buffer[k]
    BY <1>3, WriteByte DEF CopyByte, CopyingInv
  <2>3. Copied(i - taken)'
    BY <1>3, <2>2, CopiedGrows DEF CopyByte
  <2>. QED
    BY <1>3, <2>1, <2>2, <2>3 DEF CopyByte, CopyingInv, NothingLeftInv,
                                  FilledInv, Filled, WholeLengthSent
<1>4. CASE CopyLastByte
  <2>1. i - taken = BufferSize - 2 \/ i + 1 = len
    BY <1>4, WriteByte DEF CopyLastByte, ChunkEnds
  <2>2. /\ buffer' \in Buffers
        /\ buffer'[i - taken] = CONTENT[content_i]
        /\ buffer'[i - taken + 1] = NUL
        /\ \A k \in 0 .. (i - taken - 1) : buffer'[k] = buffer[k]
    BY <1>4, WriteByte DEF CopyLastByte, CopyingInv
  <2>3. Copied(i - taken)'
    BY <1>4, <2>2, CopiedGrows DEF CopyLastByte
  <2>4. (buffer[i - taken] = NUL)'
    BY <1>4, <2>2 DEF CopyLastByte
  <2>5. /\ taken % (BufferSize - 1) = 0
        /\ i - taken \in 0 .. (BufferSize - 2)
        /\ i < len
    BY <1>4 DEF CopyLastByte, CopyingInv
  <2>6. Copied(i - taken)' /\ i' - taken' \in 1 .. (BufferSize - 1)
    BY <1>4, <2>3, <2>5 DEF CopyLastByte
  <2>7. FilledInv'
    BY <1>4, <2>1, <2>4, <2>5, <2>6 DEF CopyLastByte, FilledInv
  <2>8. TypeOK'
    BY <1>4, <2>2 DEF CopyLastByte
  <2>9. CopyingInv' /\ NothingLeftInv' /\ WholeLengthSent'
    BY <1>4 DEF CopyLastByte, CopyingInv, NothingLeftInv, WholeLengthSent
  <2>. QED
    BY <2>7, <2>8, <2>9
<1>5. CASE Exhausted
  BY <1>5 DEF Exhausted, CopyingInv, NothingLeftInv, FilledInv, Filled,
              WholeLengthSent
<1>6. CASE UNCHANGED vars
  BY <1>6 DEF vars, CopyingInv, NothingLeftInv, FilledInv, Filled, Copied,
              WholeLengthSent
<1>. QED
  BY <1>1, <1>2, <1>3, <1>4, <1>5, <1>6 DEF Next

(* The inductive invariant of the generator and its caller. *)
THEOREM IInvHolds == Spec => []IInv
  BY InitIInv, StepIInv, PTL DEF Spec

(* Whatever the sizes, the strings the client sends are the consecutive    *)
(* pieces of the repeated CONTENT: nothing lost, nothing repeated, no      *)
(* stale byte of the buffer.                                               *)
THEOREM ChunkIsNextPieceHolds == Spec => []ChunkIsNextPiece
<1>1. IInv => ChunkIsNextPiece
  <2>. SUFFICES ASSUME IInv, Filled
                PROVE  /\ taken + StrLen(buffer) = i
                       /\ Copied(StrLen(buffer))
    BY DEF ChunkIsNextPiece, Copied
  <2>1. StrLen(buffer) = i - taken
    BY StrLenOfChunk
  <2>2. taken + (i - taken) = i /\ Copied(i - taken)
    BY DEF IInv, TypeOK, FilledInv
  <2>. QED
    BY <2>1, <2>2
<1>. QED
  BY <1>1, IInvHolds, PTL

(* Every message but the last of a cycle carries BufferSize - 1 bytes. *)
THEOREM FullUntilLastHolds == Spec => []FullUntilLast
<1>1. IInv => FullUntilLast
  <2>. SUFFICES ASSUME IInv, Filled
                PROVE  \/ StrLen(buffer) = BufferSize - 1
                       \/ taken + StrLen(buffer) = len
    BY DEF FullUntilLast
  <2>1. StrLen(buffer) = i - taken
    BY StrLenOfChunk
  <2>2. i - taken = BufferSize - 1 \/ taken + (i - taken) = len
    BY DEF IInv, TypeOK, FilledInv
  <2>. QED
    BY <2>1, <2>2
<1>. QED
  BY <1>1, IInvHolds, PTL

(* A cycle sends exactly the length it was constructed with. *)
THEOREM WholeLengthSentHolds == Spec => []WholeLengthSent
<1>1. IInv => WholeLengthSent
  BY DEF IInv
<1>. QED
  BY <1>1, IInvHolds, PTL

(* The position in the text never becomes negative, whatever the length,   *)
(* and the buffer remains one of BufferSize characters.                    *)
THEOREM TypeCorrect == Spec => []TypeOK
<1>1. IInv => TypeOK
  BY DEF IInv
<1>. QED
  BY <1>1, IInvHolds, PTL
=============================================================================
