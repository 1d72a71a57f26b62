------------------------- MODULE AssetDecoder_proofs -------------------------
(***************************************************************************)
(* Proofs about the decoder of asset bundles: first about AssetDecoder,    *)
(* for every word size, heap and set of inputs, then about BlockCipher:    *)
(* every cipher undoes its encoder, for words of every width, all blocks   *)
(* and all offsets.                                                        *)
(***************************************************************************)
EXTENDS AssetDecoder, BlockCipher, NumberFacts

-----------------------------------------------------------------------------
(***************************************************************************)
(* The inductive invariant.  Layout and the absence of aborts speak of the *)
(* end of a call only; what carries them there is, at every turn of the    *)
(* loops, which prefix of the array is final and how offset and mode       *)
(* agree.                                                                  *)
(***************************************************************************)

Words ==
  /\ pc \in Stages
  /\ size \in FileSizes
  /\ trailer \in Trailers
  /\ copied \in 0..(Word - 1)
  /\ offset \in 0..(Word - 1)
  /\ mode \in 0..3

Cells ==
  \A i \in DOMAIN dec_buf : dec_buf[i] \in (Ciphers \cup {"zero", "plain"}) \X (0..(Word - 1))

ArrayIsFunction == dec_buf = [i \in DOMAIN dec_buf |-> dec_buf[i]]

Allocated == pc \in {"wrapper", "block", "tail", "done"} =>
  /\ size >= 4
  /\ dec_buf_size <= Heap
  /\ DOMAIN dec_buf = 0..(dec_buf_size - 1)

Prefix == pc \in {"wrapper", "block", "tail"} =>
  \A i \in DOMAIN dec_buf : dec_buf[i] = IF i < offset THEN Layout(dec_buf_size)[i] ELSE Zero

InWrapper == pc = "wrapper" =>
  /\ offset = 0 /\ mode = 0
  /\ WellFormed => copied <= trailer

InBlocks == pc = "block" =>
  /\ dec_buf_size # 8
  /\ offset % 8 = 0
  /\ mode = (offset \div 8) % 4
  /\ dec_buf_size < 8 => offset = 0
  /\ dec_buf_size > 8 => offset + 8 < dec_buf_size

InTail == pc = "tail" =>
  /\ dec_buf_size >= 8
  /\ Ciphered(dec_buf_size) <= offset /\ offset <= dec_buf_size /\ offset <= size

AtStart == pc = "start" => offset = 0 /\ mode = 0 /\ copied = 0 /\ dec_buf = [i \in {} |-> Zero]

AtEnd == pc = "done" => dec_buf_size \in 8..size /\ dec_buf = Layout(dec_buf_size)

IInv ==
  /\ Words
  /\ Cells
  /\ ArrayIsFunction
  /\ AtStart
  /\ Allocated
  /\ Prefix
  /\ InWrapper
  /\ InBlocks
  /\ InTail
  /\ AtEnd
  /\ WellFormedNeverAborts

-----------------------------------------------------------------------------
\* Arithmetic of unsigned words: a value in range is itself, and one that
\* went below zero once comes back from the top.
LEMMA WrapInRange == \A x \in 0..(Word - 1) : Wrap(x) = x
  BY WordAssumption DEF Wrap

LEMMA WrapBelowZero == \A x \in (1 - Word)..(-1) : Wrap(x) = x + Word
  BY WordAssumption DEF Wrap

LEMMA WrapIsWord == \A x \in Int : Wrap(x) \in 0..(Word - 1)
  BY WordAssumption DEF Wrap

\* The constants are numbers.
LEMMA Numbers ==
  ASSUME Words
  PROVE  /\ size \in 0..Heap /\ trailer \in 0..(Word - 1)
         /\ Heap \in Nat /\ 2 * Heap < Word /\ Word \in Nat /\ Word >= 64
         /\ dec_buf_size \in 0..(Word - 1)
         /\ copied \in Nat /\ offset \in 0..(Word - 1) /\ mode \in 0..3
<1>1. /\ size \in 0..Heap /\ trailer \in 0..(Word - 1)
      /\ Heap \in Nat /\ 2 * Heap < Word /\ Word \in Nat /\ Word >= 64
  BY WordAssumption, HeapAssumption, FileAssumption DEF Words
<1>2. size - 4 - trailer \in Int
  BY <1>1
<1>3. dec_buf_size \in 0..(Word - 1)
  BY <1>2, WrapIsWord DEF dec_buf_size
<1> QED
  BY <1>1, <1>3 DEF Words

\* On a well-formed file the payload is what the trailer says it is, and
\* fits the heap.
LEMMA WellFormedPayload ==
  ASSUME Words, WellFormed
  PROVE  /\ dec_buf_size = size - 4 - trailer
         /\ dec_buf_size >= 8 /\ dec_buf_size <= Heap /\ dec_buf_size <= size - 4
         /\ dec_buf_size + 16 < Word
         /\ wrapper_size = trailer
<1>1. size - 4 - trailer \in 0..(Word - 1)
  BY Numbers DEF WellFormed
<1>2. dec_buf_size = size - 4 - trailer
  BY <1>1, WrapInRange DEF dec_buf_size
<1>3. 2 * trailer < Word
  BY Numbers DEF WellFormed
<1>4. wrapper_size = trailer
  BY <1>3 DEF wrapper_size, Signed
<1> QED
  BY <1>2, <1>4, Numbers DEF WellFormed

\* What the layout says of a position, by the block it lies in.
LEMMA LayoutCell ==
  ASSUME NEW n \in Nat, NEW i \in 0..(n - 1)
  PROVE  /\ i < Ciphered(n) => Layout(n)[i] = <<CipherOf((i \div 8) % 4), 8 * (i \div 8)>>
         /\ ~(i < Ciphered(n)) => Layout(n)[i] = Plain(i)
  BY DEF Layout

LEMMA CipherOfMode == \A m \in 0..3 : CipherOf(m) \in Ciphers
  BY DEF CipherOf, Ciphers

\* The block loop covers a position exactly when a whole block starts at or
\* before it and ends before the last byte.
LEMMA BlockOf ==
  ASSUME NEW o \in Nat, o % 8 = 0, NEW i \in o..(o + 7)
  PROVE  8 * (i \div 8) = o /\ i \div 8 = o \div 8
  OBVIOUS

LEMMA CipheredCovers ==
  ASSUME NEW n \in Nat, NEW o \in Nat, o % 8 = 0, o + 8 < n
  PROVE  o + 8 <= Ciphered(n)
  BY DEF Ciphered

LEMMA CipheredEnds ==
  ASSUME NEW n \in Nat, NEW o \in Nat, o % 8 = 0, n > 8, o < n, o + 8 >= n
  PROVE  Ciphered(n) = o
  BY DEF Ciphered

LEMMA NextBlockOffset ==
  ASSUME NEW o \in Nat, o % 8 = 0
  PROVE  (o + 8) % 8 = 0 /\ ((o + 8) \div 8) % 4 = (((o \div 8) % 4) + 1) % 4
  OBVIOUS

-----------------------------------------------------------------------------
LEMMA InitIInv == Init => IInv
<1> SUFFICES ASSUME Init PROVE IInv
  OBVIOUS
<1> USE DEF Init
<1>1. Words
  BY WordAssumption DEF Words, Stages
<1>2. Cells /\ ArrayIsFunction /\ AtStart
  BY DEF Cells, ArrayIsFunction, AtStart
<1> QED
  BY <1>1, <1>2 DEF IInv, Allocated, Prefix, InWrapper, InBlocks, InTail, AtEnd,
     WellFormedNeverAborts

\* Entering the body of a payload of n bytes, nothing decoded yet.
LEMMA EnterBody ==
  ASSUME Words, offset = 0, mode = 0, NEW n \in 0..(Word - 1), n = dec_buf_size
  PROVE  /\ BodyStage(n) = "block" => /\ n # 8 /\ offset % 8 = 0 /\ mode = (offset \div 8) % 4
                                      /\ n > 8 => offset + 8 < n
         /\ BodyStage(n) = "tail" => n >= 8 /\ Ciphered(n) <= offset /\ offset <= n
         /\ BodyStage(n) \in {"block", "tail"}
  BY DEF BodyStage, Ciphered

LEMMA ReadTrailerIInv == IInv /\ ReadTrailer => IInv'
<1> SUFFICES ASSUME IInv, ReadTrailer PROVE IInv'
  OBVIOUS
<1> DEFINE n == dec_buf_size
<1>1. Words /\ pc = "start" /\ offset = 0 /\ mode = 0 /\ dec_buf = [i \in {} |-> Zero]
  BY DEF IInv, AtStart, ReadTrailer
<1>2. n \in 0..(Word - 1) /\ n' = n
  BY <1>1, Numbers DEF ReadTrailer, dec_buf_size
<1>3. UNCHANGED <<size, trailer, copied, offset, mode>>
  BY DEF ReadTrailer
<1>4. WellFormed' = WellFormed
  BY <1>3 DEF WellFormed
<1>5. CASE size < 4 \/ n > Heap
  <2>1. pc' \in {"abort", "crash", "undefined"} /\ dec_buf' = dec_buf
    BY <1>5, <1>2, Numbers, <1>1 DEF ReadTrailer
  <2>2. ~WellFormed
    BY <1>5, <1>1, WellFormedPayload, Numbers, SMTT(30) DEF WellFormed
  <2> QED
    BY <2>1, <2>2, <1>1, <1>3, <1>4 DEF IInv, Words, Stages, Final, Cells, ArrayIsFunction, AtStart, Allocated,
       Prefix, InWrapper, InBlocks, InTail, AtEnd, WellFormedNeverAborts
<1>6. CASE size >= 4 /\ n <= Heap
  <2>1. /\ pc' = IF wrapper_size > 0 THEN "wrapper" ELSE BodyStage(n)
        /\ dec_buf' = [i \in 0..(n - 1) |-> Zero]
    BY <1>6, <1>2, Numbers, <1>1 DEF ReadTrailer
  <2>2. /\ BodyStage(n) = "block" => /\ n # 8 /\ offset % 8 = 0 /\ mode = (offset \div 8) % 4
                                     /\ n > 8 => offset + 8 < n
        /\ BodyStage(n) = "tail" => n >= 8 /\ Ciphered(n) <= offset /\ offset <= n
        /\ BodyStage(n) \in {"block", "tail"}
    BY <1>1, <1>2, EnterBody
  <2>3. pc' \in {"wrapper", "block", "tail"}
    BY <2>1, <2>2
  <2>4. Words'
    BY <1>1, <1>3, <2>3 DEF Words, Stages
  <2>5. Cells' /\ ArrayIsFunction' /\ Allocated' /\ Prefix'
    BY <2>1, <2>3, <1>1, <1>2, <1>3, <1>6, WordAssumption
       DEF Cells, ArrayIsFunction, Allocated, Prefix, Zero
  <2>6. InWrapper'
    BY <2>1, <1>1, <1>3, <1>4, Numbers DEF InWrapper, IInv, AtStart
  <2>7. InBlocks' /\ InTail'
    BY <2>1, <2>2, <1>1, <1>2, <1>3, Numbers DEF InBlocks, InTail
  <2>8. AtEnd' /\ AtStart' /\ WellFormedNeverAborts'
    BY <2>3 DEF AtEnd, AtStart, WellFormedNeverAborts
  <2> QED
    BY <2>4, <2>5, <2>6, <2>7, <2>8 DEF IInv
<1>7. (size < 4 \/ n > Heap) \/ (size >= 4 /\ n <= Heap)
  BY <1>1, Numbers
<1> QED
  BY <1>5, <1>6, <1>7

LEMMA CopyWrapperIInv == IInv /\ CopyWrapper => IInv'
<1> SUFFICES ASSUME IInv, CopyWrapper PROVE IInv'
  OBVIOUS
<1> DEFINE n == dec_buf_size
           from == Wrap(size - 4 - trailer + copied)
<1>1. Words /\ pc = "wrapper" /\ offset = 0 /\ mode = 0
  BY DEF IInv, InWrapper, CopyWrapper
<1>2. UNCHANGED <<size, trailer, offset, mode, dec_buf>> /\ n' = n /\ WellFormed' = WellFormed
  BY DEF CopyWrapper, dec_buf_size, WellFormed
<1>3. n \in 0..(Word - 1)
  BY <1>1, Numbers
<1>4. from \in 0..(Word - 1)
  BY <1>1, Numbers, WrapIsWord
<1>5. WellFormed => from = size - 4 - trailer + copied
  <2> SUFFICES ASSUME WellFormed PROVE from = size - 4 - trailer + copied
    OBVIOUS
  <2>1. copied <= trailer
    BY <1>1 DEF IInv, InWrapper
  <2>2. size - 4 - trailer + copied \in 0..(Word - 1)
    BY <2>1, <1>1, Numbers DEF WellFormed
  <2> QED
    BY <2>2, WrapInRange
<1>6. CASE from >= size - 4
  <2>1. pc' = BodyStage(n) /\ copied' = copied
    BY <1>6, <1>4, <1>1, Numbers DEF CopyWrapper
  <2>2. /\ BodyStage(n) = "block" => /\ n # 8 /\ offset % 8 = 0 /\ mode = (offset \div 8) % 4
                                     /\ n > 8 => offset + 8 < n
        /\ BodyStage(n) = "tail" => n >= 8 /\ Ciphered(n) <= offset /\ offset <= n
        /\ BodyStage(n) \in {"block", "tail"}
    BY <1>1, <1>3, EnterBody
  <2>3. Words' /\ Cells' /\ ArrayIsFunction' /\ AtStart' /\ Allocated' /\ Prefix' /\ InWrapper' /\ AtEnd'
        /\ WellFormedNeverAborts'
    BY <2>1, <2>2, <1>1, <1>2 DEF IInv, Words, Stages, Cells, ArrayIsFunction, AtStart, Allocated, Prefix, InWrapper,
       AtEnd, WellFormedNeverAborts
  <2>4. InBlocks' /\ InTail'
    BY <2>1, <2>2, <1>1, <1>2, Numbers DEF InBlocks, InTail
  <2> QED
    BY <2>3, <2>4 DEF IInv
<1>7. CASE from < size - 4
  <2>1. from < size
    BY <1>7, <1>4, <1>1, Numbers
  <2>2. CASE copied < trailer
    <3>1. copied' = copied + 1 /\ pc' = pc
      BY <2>1, <2>2, <1>7, <1>4, <1>1, Numbers DEF CopyWrapper
    <3>2. copied' \in 0..(Word - 1)
      BY <3>1, <2>2, <1>1, Numbers
    <3>3. Words'
      BY <3>1, <3>2, <1>1, <1>2 DEF Words
    <3>4. InWrapper'
      BY <3>1, <2>2, <1>1, <1>2, Numbers DEF InWrapper
    <3> QED
      BY <3>1, <3>3, <3>4, <1>1, <1>2 DEF IInv, Cells, ArrayIsFunction, AtStart, Allocated, Prefix,
         InBlocks, InTail, AtEnd, WellFormedNeverAborts
  <2>3. CASE ~(copied < trailer)
    <3>1. pc' = "abort" /\ copied' = copied
      BY <2>3, <1>7, <1>4, <1>1, Numbers DEF CopyWrapper
    <3>2. ~WellFormed
      BY <1>5, <1>7, <2>3, <1>1, Numbers
    <3> QED
      BY <3>1, <3>2, <1>1, <1>2 DEF IInv, Words, Stages, Final, Cells, ArrayIsFunction, AtStart, Allocated, Prefix,
         InWrapper, InBlocks, InTail, AtEnd, WellFormedNeverAborts
  <2> QED
    BY <2>2, <2>3
<1> QED
  BY <1>4, <1>6, <1>7, <1>1, Numbers

LEMMA DecodeBlockIInv == IInv /\ DecodeBlock => IInv'
<1> SUFFICES ASSUME IInv, DecodeBlock PROVE IInv'
  OBVIOUS
<1> DEFINE n == dec_buf_size
           block == offset..(offset + 7)
<1>1. Words /\ Cells /\ pc = "block"
  BY DEF IInv, DecodeBlock
<1>2. UNCHANGED <<size, trailer, copied>> /\ n' = n /\ WellFormed' = WellFormed
  BY DEF DecodeBlock, dec_buf_size, WellFormed
<1>3. /\ n \in Nat /\ n # 8 /\ n <= Heap /\ DOMAIN dec_buf = 0..(n - 1)
      /\ offset \in Nat /\ offset % 8 = 0 /\ mode = (offset \div 8) % 4
      /\ n < 8 => offset = 0
      /\ n > 8 => offset + 8 < n
  BY <1>1, Numbers DEF IInv, Allocated, InBlocks
<1>4. CASE block \subseteq 0..(size - 1) /\ block \subseteq DOMAIN dec_buf
  <2>1. offset + 7 \in DOMAIN dec_buf
    BY <1>4, <1>3
  <2>2. n > 8 /\ offset + 8 < n
    BY <2>1, <1>3
  <2>3. NextOffset(offset) = offset + 8
    BY <2>2, <1>3, <1>1, Numbers, WrapInRange DEF NextOffset
  <2>4. Wrap(n - 8) = n - 8
    BY <2>2, <1>3, <1>1, Numbers, WrapInRange
  <2>5. /\ dec_buf' = [i \in DOMAIN dec_buf |->
                        IF i \in block THEN <<CipherOf(mode), offset>> ELSE dec_buf[i]]
        /\ offset' = offset + 8
        /\ mode' = (mode + 1) % 4
        /\ pc' = IF offset + 8 < n - 8 THEN "block" ELSE "tail"
    BY <1>4, <2>3, <2>4 DEF DecodeBlock, NextMode, AnotherBlock
  <2>6. mode' \in 0..3 /\ offset' \in 0..(Word - 1)
    BY <2>5, <2>2, <1>3, <1>1, Numbers
  <2>7. Words'
    BY <2>5, <2>6, <1>1, <1>2 DEF Words, Stages
  <2>8. Cells' /\ ArrayIsFunction'
    BY <2>5, <1>1, Numbers, CipherOfMode DEF Cells, ArrayIsFunction
  <2>9. offset + 8 <= Ciphered(n)
    BY <2>2, <1>3, CipheredCovers
  <2>10. ASSUME NEW i \in DOMAIN dec_buf'
         PROVE  dec_buf'[i] = IF i < offset' THEN Layout(n)[i] ELSE Zero
    <3>1. i \in 0..(n - 1) /\ dec_buf'[i] = IF i \in block THEN <<CipherOf(mode), offset>> ELSE dec_buf[i]
      BY <2>5, <1>3
    <3>2. dec_buf[i] = IF i < offset THEN Layout(n)[i] ELSE Zero
      BY <3>1, <1>1, <1>3 DEF IInv, Prefix
    <3>3. CASE i \in block
      <4>1. 8 * (i \div 8) = offset /\ i \div 8 = offset \div 8
        BY <3>3, <1>3, BlockOf
      <4>2. i < Ciphered(n)
        BY <2>9, <3>3, <1>3 DEF Ciphered
      <4> HIDE DEF n
      <4>3. Layout(n)[i] = <<CipherOf((i \div 8) % 4), 8 * (i \div 8)>>
        BY <4>2, <3>1, <1>3, LayoutCell
      <4>4. Layout(n)[i] = <<CipherOf(mode), offset>>
        BY <4>1, <4>3, <1>3
      <4>5. i < offset'
        BY <3>3, <2>5, <1>3
      <4> QED
        BY <4>4, <4>5, <3>1, <3>3
    <3>4. CASE i \notin block
      <4>1. i < offset' <=> i < offset
        BY <3>4, <3>1, <2>5, <1>3
      <4> QED
        BY <4>1, <3>1, <3>2, <3>4
    <3> QED
      BY <3>3, <3>4
  <2>11. DOMAIN dec_buf' = 0..(n - 1)
    BY <2>5, <1>3
  <2>12. Allocated' /\ Prefix'
    BY <2>10, <2>11, <2>5, <1>1, <1>2, <1>3 DEF IInv, Allocated, Prefix
  <2>13. InBlocks'
    BY <2>2, <2>5, <1>2, <1>3, NextBlockOffset DEF InBlocks
  <2>14. InTail'
    <3> SUFFICES ASSUME pc' = "tail"
                 PROVE  n >= 8 /\ Ciphered(n) <= offset' /\ offset' <= n /\ offset' <= size
      BY <1>2 DEF InTail, Ciphered
    <3>1. offset + 8 >= n - 8
      BY <2>5, <1>3
    <3>2. Ciphered(n) = offset + 8
      BY <3>1, <2>2, <1>3, NextBlockOffset, CipheredEnds
    <3>3. offset + 7 \in 0..(size - 1)
      BY <1>4, <1>3
    <3> QED
      BY <3>2, <3>3, <2>2, <2>5, <1>3, <1>1, Numbers
  <2>15. AtStart' /\ InWrapper' /\ AtEnd' /\ WellFormedNeverAborts'
    BY <2>5 DEF AtStart, InWrapper, AtEnd, WellFormedNeverAborts
  <2> QED
    BY <2>7, <2>8, <2>12, <2>13, <2>14, <2>15 DEF IInv
<1>5. CASE ~(block \subseteq 0..(size - 1) /\ block \subseteq DOMAIN dec_buf)
  <2>1. pc' = "abort" /\ UNCHANGED <<dec_buf, offset, mode>>
    BY <1>5 DEF DecodeBlock
  <2>2. ~WellFormed
    <3> SUFFICES ASSUME WellFormed PROVE FALSE
      OBVIOUS
    <3>1. n >= 8 /\ n <= size - 4
      BY <1>1, WellFormedPayload
    <3>2. offset + 8 < n
      BY <3>1, <1>3
    <3>3. block \subseteq 0..(size - 1) /\ block \subseteq DOMAIN dec_buf
      BY <3>1, <3>2, <1>1, <1>3, Numbers, SMTT(30)
    <3> QED
      BY <3>3, <1>5
  <2> QED
    BY <2>1, <2>2, <1>1, <1>2 DEF IInv, Words, Stages, Final, Cells, ArrayIsFunction, AtStart, Allocated, Prefix,
       InWrapper, InBlocks, InTail, AtEnd, WellFormedNeverAborts
<1> QED
  BY <1>4, <1>5

LEMMA CopyTailIInv == IInv /\ CopyTail => IInv'
<1> SUFFICES ASSUME IInv, CopyTail PROVE IInv'
  OBVIOUS
<1> DEFINE n == dec_buf_size
<1>1. Words /\ Cells /\ pc = "tail"
  BY DEF IInv, CopyTail
<1>2. UNCHANGED <<size, trailer, copied, mode>> /\ n' = n /\ WellFormed' = WellFormed
  BY DEF CopyTail, dec_buf_size, WellFormed
<1>3. /\ n \in Nat /\ n >= 8 /\ n <= Heap /\ DOMAIN dec_buf = 0..(n - 1)
      /\ offset \in Nat /\ Ciphered(n) <= offset /\ offset <= n /\ offset <= size
      /\ size \in Nat
      /\ \A i \in DOMAIN dec_buf : dec_buf[i] = IF i < offset THEN Layout(n)[i] ELSE Zero
  BY <1>1, Numbers DEF IInv, Allocated, InTail, Prefix
<1>4. CASE offset >= n
  <2>1. pc' = "done" /\ UNCHANGED <<dec_buf, offset>>
    BY <1>4, <1>3 DEF CopyTail
  <2>2. dec_buf = Layout(n)
    <3>1. \A i \in 0..(n - 1) : dec_buf[i] = Layout(n)[i]
      BY <1>3, <1>4
    <3>2. dec_buf = [i \in DOMAIN dec_buf |-> dec_buf[i]]
      BY <1>1, <2>1 DEF IInv, ArrayIsFunction
    <3> QED
      BY <3>1, <3>2, <1>3 DEF Layout
  <2>3. n \in 8..size
    BY <1>3, <1>4
  <2> QED
    BY <2>1, <2>2, <2>3, <1>1, <1>2 DEF IInv, Words, Stages, Final, Cells, ArrayIsFunction, AtStart, Allocated, Prefix,
       InWrapper, InBlocks, InTail, AtEnd, WellFormedNeverAborts
<1>5. CASE offset < n
  <2>1. CASE offset < size
    <3>1. dec_buf' = [dec_buf EXCEPT ![offset] = Plain(offset)] /\ offset' = offset + 1 /\ pc' = "tail"
      BY <1>5, <2>1, <1>3, <1>1 DEF CopyTail
    <3>2. DOMAIN dec_buf' = 0..(n - 1)
      BY <3>1, <1>3
    <3>3. ASSUME NEW i \in DOMAIN dec_buf'
          PROVE  dec_buf'[i] = IF i < offset' THEN Layout(n)[i] ELSE Zero
      <4>1. i \in 0..(n - 1) /\ dec_buf'[i] = IF i = offset THEN Plain(offset) ELSE dec_buf[i]
        BY <3>1, <3>2, <1>3
      <4>2. i = offset => Layout(n)[i] = Plain(offset)
        <5> HIDE DEF n
        <5>1. n \in Nat
          BY <1>3
        <5>2. i = offset => ~(i < Ciphered(n))
          BY <4>1, <1>3, <5>1 DEF Ciphered
        <5> QED
          BY <4>1, <5>1, <5>2, LayoutCell
      <4>3. i < offset' <=> i < offset \/ i = offset
        BY <4>1, <3>1, <1>3
      <4>4. CASE i = offset
        BY <4>1, <4>2, <4>3, <4>4
      <4>5. CASE i # offset
        <5> HIDE DEF n
        <5>1. dec_buf[i] = IF i < offset THEN Layout(n)[i] ELSE Zero
          BY <4>1, <1>3
        <5> QED
          BY <4>1, <4>3, <4>5, <5>1
      <4> QED
        BY <4>4, <4>5
    <3>4. Words'
      <4>1. offset + 1 \in 0..(Word - 1)
        BY <1>1, <1>3, <1>5, Numbers
      <4> QED
        BY <4>1, <3>1, <1>1, <1>2 DEF Words, Stages
    <3>5. Cells' /\ ArrayIsFunction'
      <4>1. Plain(offset) \in (Ciphers \cup {"zero", "plain"}) \X (0..(Word - 1))
        BY <1>1, Numbers DEF Plain
      <4>2. \A i \in DOMAIN dec_buf' :
              dec_buf'[i] \in (Ciphers \cup {"zero", "plain"}) \X (0..(Word - 1))
        BY <3>1, <4>1, <1>1 DEF Cells
      <4>3. ArrayIsFunction'
        BY <3>1 DEF ArrayIsFunction
      <4> QED
        BY <4>2, <4>3 DEF Cells
    <3>6. Allocated' /\ Prefix' /\ InTail'
      BY <3>1, <3>2, <3>3, <1>1, <1>2, <1>3, <1>5, <2>1 DEF IInv, Allocated, Prefix, InTail, Ciphered
    <3> QED
      BY <3>1, <3>4, <3>5, <3>6 DEF IInv, AtStart, InWrapper, InBlocks, AtEnd, WellFormedNeverAborts
  <2>2. CASE ~(offset < size)
    <3>1. pc' = "abort" /\ UNCHANGED <<dec_buf, offset>>
      BY <1>5, <2>2, <1>3 DEF CopyTail
    <3>2. ~WellFormed
      BY <1>1, <1>5, <2>2, <1>3, Numbers, WellFormedPayload
    <3> QED
      BY <3>1, <3>2, <1>1, <1>2 DEF IInv, Words, Stages, Final, Cells, ArrayIsFunction, AtStart, Allocated, Prefix,
         InWrapper, InBlocks, InTail, AtEnd, WellFormedNeverAborts
  <2> QED
    BY <2>1, <2>2
<1> QED
  BY <1>3, <1>4, <1>5

\* Every step of the decoder keeps the invariant.
LEMMA NextIInv == IInv /\ [Next]_vars => IInv'
<1> SUFFICES ASSUME IInv, [Next]_vars PROVE IInv'
  OBVIOUS
<1>1. CASE UNCHANGED vars
  BY <1>1 DEF vars, IInv, Words, Cells, ArrayIsFunction, AtStart, Allocated, Prefix, InWrapper, InBlocks, InTail,
     AtEnd, WellFormedNeverAborts, WellFormed, dec_buf_size
<1> QED
  BY <1>1, ReadTrailerIInv, CopyWrapperIInv, DecodeBlockIInv, CopyTailIInv DEF Next, Returned

\* The variables keep their types (the state of DigitalSea_Scipio).
THEOREM TypeCorrect == Spec => []TypeOK
<1>1. IInv => TypeOK
  BY DEF IInv, TypeOK, Words, Cells
<1> QED
  BY <1>1, InitIInv, NextIInv, PTL DEF Spec

\* Whatever the length of the file and its trailer, an array that the call
\* returns has, at every position, the byte its layout calls for.
THEOREM ReturnedArrayIsLayout == Spec => []ReturnsLayout
<1>1. IInv => ReturnsLayout
  BY DEF IInv, ReturnsLayout, AtEnd
<1> QED
  BY <1>1, InitIInv, NextIInv, PTL DEF Spec

\* No bounds assert of the decoder fails on a well-formed file of any length.
THEOREM WellFormedFilesDecode == Spec => []WellFormedNeverAborts
<1>1. IInv => WellFormedNeverAborts
  BY DEF IInv
<1> QED
  BY <1>1, InitIInv, NextIInv, PTL DEF Spec

\* A call returns only a payload of eight bytes at least that lies within the
\* file, whatever its length and its trailer: the wrap-around of the payload's
\* size never passes for one.
THEOREM MalformedFilesNeverReturn == Spec => []MalformedNeverReturns
<1>1. IInv => MalformedNeverReturns
  <2> SUFFICES ASSUME IInv, pc = "done" PROVE wrapper_size \in -4..(size - 12)
    BY DEF MalformedNeverReturns
  <2>1. /\ size \in 0..Heap /\ trailer \in 0..(Word - 1)
        /\ Heap \in Nat /\ 2 * Heap < Word /\ Word \in Nat /\ Word >= 64
        /\ dec_buf_size \in 8..size
    BY Numbers DEF IInv, AtEnd
  <2>2. CASE size - 4 - trailer \in 0..(Word - 1)
    <3>1. dec_buf_size = size - 4 - trailer
      BY <2>2, WrapInRange DEF dec_buf_size
    <3>2. trailer \in 0..(size - 12) /\ 2 * trailer < Word
      BY <2>1, <3>1
    <3> QED
      BY <2>1, <3>2 DEF wrapper_size, Signed
  <2>3. CASE size - 4 - trailer \in (1 - Word)..(-1)
    <3>1. dec_buf_size = size - 4 - trailer + Word
      BY <2>3, WrapBelowZero DEF dec_buf_size
    <3>2. trailer - Word \in -4..(size - 12) /\ ~(2 * trailer < Word)
      BY <2>1, <3>1
    <3> QED
      BY <2>1, <3>2 DEF wrapper_size, Signed
  <2>4. size - 4 - trailer >= 1 - Word
    BY <2>1, <2>2, <2>3, WrapBelowZero, WrapIsWord DEF dec_buf_size
  <2> QED
    BY <2>1, <2>2, <2>3, <2>4
<1> QED
  BY <1>1, InitIInv, NextIInv, PTL DEF Spec

\* The state part of WrittenOnce: what this step may do to the array.
Kept ==
  \A i \in DOMAIN dec_buf : dec_buf[i] # Zero => i \in DOMAIN dec_buf' /\ dec_buf'[i] = dec_buf[i]

\* From the invariant: while blocks and tail are decoded, a cell that is not
\* zero lies below the offset, and each step writes at or above it.
LEMMA StepKeeps == IInv /\ [Next]_vars => Kept
<1> SUFFICES ASSUME IInv, [Next]_vars,
                    NEW i \in DOMAIN dec_buf, dec_buf[i] # Zero
             PROVE  i \in DOMAIN dec_buf' /\ dec_buf'[i] = dec_buf[i]
  BY DEF Kept
<1>1. pc \in {"block", "tail"} => i < offset /\ i \in Nat /\ offset \in Nat
  <2> SUFFICES ASSUME pc \in {"block", "tail"} PROVE i < offset /\ i \in Nat /\ offset \in Nat
    OBVIOUS
  <2>1. dec_buf_size \in Nat /\ offset \in Nat
    BY Numbers DEF IInv
  <2>2. i \in 0..(dec_buf_size - 1)
    BY DEF IInv, Allocated
  <2>3. dec_buf[i] = IF i < offset THEN Layout(dec_buf_size)[i] ELSE Zero
    BY DEF IInv, Prefix
  <2> QED
    BY <2>1, <2>2, <2>3
<1>2. CASE UNCHANGED dec_buf
  BY <1>2
<1>3. CASE ReadTrailer
  BY <1>3 DEF ReadTrailer, IInv, AtStart
<1>4. CASE DecodeBlock
  <2>1. pc = "block" /\ i < offset /\ i \in Nat /\ offset \in Nat
    BY <1>1, <1>4 DEF DecodeBlock
  <2>2. i \notin offset..(offset + 7)
    BY <2>1
  <2> QED
    BY <1>4, <2>2 DEF DecodeBlock
<1>5. CASE CopyTail
  <2>1. pc = "tail" /\ i # offset
    BY <1>1, <1>5 DEF CopyTail
  <2> QED
    BY <1>5, <2>1 DEF CopyTail
<1> QED
  BY <1>2, <1>3, <1>4, <1>5 DEF Next, CopyWrapper, Returned, vars

\* No step of a call changes a byte that was decoded, or drops it: blocks and
\* tail never overlap, and the array stays where it was allocated.
THEOREM NoByteTwice == Spec => WrittenOnce
<1>1. Kept => (\A i \in DOMAIN dec_buf :
                 dec_buf[i] # Zero => i \in DOMAIN dec_buf' /\ dec_buf'[i] = dec_buf[i])
  BY DEF Kept
<1> QED
  BY <1>1, InitIInv, NextIInv, StepKeeps, PTL DEF Spec, WrittenOnce

-----------------------------------------------------------------------------
(* The words of the ciphers.  Of the mixing functions only one thing       *)
(* matters: that they make words of words.                                 *)

LEMMA Width == M \in Nat \ {0} /\ CipherWord = 0..(M - 1)
BY WidthAssumption, PowerOfTwo DEF M, CipherWord

LEMMA WordOfInt ==
  ASSUME NEW x \in Int
  PROVE  W(x) \in CipherWord
BY Width DEF W

LEMMA WordOfWord ==
  ASSUME NEW x \in CipherWord
  PROVE  x \in Int /\ W(x) = x
BY Width, SMTT(30) DEF W

LEMMA SumOfWords ==
  ASSUME NEW x \in CipherWord, NEW y \in CipherWord
  PROVE  Add(x, y) \in CipherWord /\ Sub(x, y) \in CipherWord
BY WordOfWord, WordOfInt DEF Add, Sub

\* A difference undoes a sum, carry or not.
LEMMA SubUndoesAdd ==
  ASSUME NEW x \in CipherWord, NEW y \in CipherWord
  PROVE  Sub(Add(x, y), y) = x
<1> DEFINE q == (x + y) \div M
<1>1. x \in Int /\ y \in Int /\ M \in Nat \ {0}
  BY WordOfWord, Width
<1>2. q \in Int /\ x + y = M * q + ((x + y) % M)
  BY <1>1, Division
<1>3. Add(x, y) = (x + y) % M /\ Add(x, y) \in Int
  BY <1>1, SumOfWords, WordOfWord DEF Add, W
<1> HIDE DEF q
<1>4. Add(x, y) - y = x + M * (-q)
  <2> DEFINE r == (x + y) % M
             p == M * q
  <2>1. p \in Int /\ M * (-q) = -p
    BY <1>1, <1>2
  <2>2. r \in Int /\ x + y = p + r /\ Add(x, y) = r
    BY <1>1, <1>2, <1>3
  <2> HIDE DEF p, r
  <2> QED
    BY <1>1, <2>1, <2>2
<1>5. W(x + M * (-q)) = W(x)
  <2>1. -q \in Int
    BY <1>2
  <2>2. (x + M * (-q)) % M = x % M
    BY <1>1, <2>1, SameRemainder
  <2> QED
    BY <2>2 DEF W
<1> QED
  BY <1>4, <1>5, WordOfWord DEF Sub

LEMMA ShiftedWord ==
  ASSUME NEW x \in CipherWord, NEW k \in Nat
  PROVE  Shl(x, k) \in CipherWord /\ Shr(x, k) \in CipherWord
<1> DEFINE p == 2^k
           q == x \div p
<1>1. x \in Nat /\ x < M /\ M \in Nat /\ CipherWord = 0..(M - 1) /\ p \in Nat \ {0}
  BY Width, PowerOfTwo
<1>2. Shl(x, k) \in CipherWord
  BY <1>1, WordOfInt DEF Shl
<1> HIDE DEF p
<1>3. q \in Int /\ x = p * q + (x % p) /\ x % p \in 0..(p - 1)
  BY <1>1, Division
<1> HIDE DEF q
<1>4. q >= 0
  <2>1. SUFFICES ASSUME q <= -1 PROVE FALSE
    BY <1>3
  <2>2. p * q <= -p
    BY <1>1, <1>3, <2>1
  <2> QED
    BY <1>1, <1>3, <2>2
<1>5. q <= p * q
  BY <1>1, <1>3, <1>4
<1>6. q \in CipherWord
  BY <1>1, <1>3, <1>4, <1>5
<1> QED
  BY <1>2, <1>6 DEF Shr, q, p

LEMMA XorOfWords ==
  ASSUME NEW x \in CipherWord, NEW y \in CipherWord
  PROVE  BitXor(x, y) \in CipherWord /\ BitXor(BitXor(x, y), y) = x
BY XorAssumption

LEMMA KeyOfWord ==
  ASSUME NEW i \in {0, 1, 2, 3, 13}
  PROVE  Key(i) \in CipherWord
<1>1. /\ KeyWords[1] \in Int /\ KeyWords[2] \in Int /\ KeyWords[3] \in Int
      /\ KeyWords[4] \in Int /\ KeyWords[14] \in Int
  BY DEF KeyWords
<1>2. KeyWords[i + 1] \in Int
  BY <1>1
<1> QED
  BY <1>2, WordOfInt DEF Key

-----------------------------------------------------------------------------
(* The mixing functions make words.                                        *)

LEMMA MixedWord ==
  ASSUME NEW z \in CipherWord, NEW y \in CipherWord, NEW s \in Int, NEW k \in CipherWord
  PROVE  Mix(z, y, s, k) \in CipherWord
<1>1. /\ Shr(z, 5) \in CipherWord /\ Shl(y, 2) \in CipherWord
      /\ Shr(y, 3) \in CipherWord /\ Shl(z, 4) \in CipherWord /\ W(s) \in CipherWord
  BY ShiftedWord, WordOfInt
<1>2. BitXor(Shr(z, 5), Shl(y, 2)) \in CipherWord /\ BitXor(Shr(y, 3), Shl(z, 4)) \in CipherWord
  BY <1>1, XorOfWords
<1>3. BitXor(W(s), y) \in CipherWord /\ BitXor(k, z) \in CipherWord
  BY <1>1, XorOfWords
<1>4. /\ Add(BitXor(Shr(z, 5), Shl(y, 2)), BitXor(Shr(y, 3), Shl(z, 4))) \in CipherWord
      /\ Add(BitXor(W(s), y), BitXor(k, z)) \in CipherWord
  BY <1>2, <1>3, SumOfWords
<1> QED
  BY <1>4, XorOfWords DEF Mix

LEMMA FeistelWord ==
  ASSUME NEW x \in CipherWord, NEW s \in Int, NEW ka \in CipherWord, NEW kb \in CipherWord
  PROVE  Feistel(x, s, ka, kb) \in CipherWord
<1>1. Shl(x, 4) \in CipherWord /\ Shr(x, 5) \in CipherWord /\ W(s) \in CipherWord
  BY ShiftedWord, WordOfInt
<1>2. /\ Add(ka, Shl(x, 4)) \in CipherWord /\ Add(W(s), x) \in CipherWord
      /\ Add(kb, Shr(x, 5)) \in CipherWord
  BY <1>1, SumOfWords
<1>3. BitXor(Add(ka, Shl(x, 4)), Add(W(s), x)) \in CipherWord
  BY <1>2, XorOfWords
<1> QED
  BY <1>2, <1>3, XorOfWords DEF Feistel

LEMMA ScheduleWord ==
  ASSUME NEW x \in CipherWord, NEW s \in Int, NEW k \in CipherWord
  PROVE  Schedule(x, s, k) \in CipherWord
<1>1. Shl(x, 4) \in CipherWord /\ Shr(x, 5) \in CipherWord /\ W(s) \in CipherWord
  BY ShiftedWord, WordOfInt
<1>2. BitXor(Shl(x, 4), Shr(x, 5)) \in CipherWord
  BY <1>1, XorOfWords
<1>3. Add(x, BitXor(Shl(x, 4), Shr(x, 5))) \in CipherWord /\ Add(W(s), k) \in CipherWord
  BY <1>1, <1>2, SumOfWords
<1> QED
  BY <1>3, XorOfWords DEF Schedule

-----------------------------------------------------------------------------
(* Every round of a decoder undoes that of its encoder.                    *)

Block == CipherWord \X CipherWord

\* A round changes one word by the other, and then that by the new one; it is
\* undone in the other order, whatever the words f and g that are mixed in.
LEMMA HalvesUndone ==
  ASSUME NEW b \in Block, NEW f \in CipherWord, NEW g \in CipherWord
  PROVE  /\ <<Add(b[1], f), Add(b[2], g)>> \in Block
         /\ Sub(Add(b[1], f), f) = b[1] /\ Sub(Add(b[2], g), g) = b[2]
<1>1. b[1] \in CipherWord /\ b[2] \in CipherWord
  BY DEF Block
<1> QED
  BY <1>1, SumOfWords, SubUndoesAdd DEF Block

LEMMA TEAUndone ==
  ASSUME NEW b \in Block, NEW s \in Int
  PROVE  /\ TEAEncodeRound(b, s) \in Block
         /\ TEARound(TEAEncodeRound(b, s), s) = b
<1> DEFINE f == Feistel(b[2], s, Key(0), Key(1))
           b0 == Add(b[1], f)
           g == Feistel(b0, s, Key(2), Key(3))
           b1 == Add(b[2], g)
<1>1. b = <<b[1], b[2]>> /\ b[1] \in CipherWord /\ b[2] \in CipherWord
  BY DEF Block
<1>2. f \in CipherWord
  BY <1>1, KeyOfWord, FeistelWord
<1>3. b0 \in CipherWord
  BY <1>1, <1>2, SumOfWords
<1>4. g \in CipherWord
  BY <1>3, KeyOfWord, FeistelWord
<1>5. <<b0, b1>> \in Block /\ Sub(b0, f) = b[1] /\ Sub(b1, g) = b[2]
  BY <1>2, <1>4, HalvesUndone
<1>6. TEAEncodeRound(b, s) = <<b0, b1>>
  BY DEF TEAEncodeRound
<1>7. TEARound(<<b0, b1>>, s) = <<Sub(b0, Feistel(Sub(b1, g), s, Key(0), Key(1))), Sub(b1, g)>>
  BY DEF TEARound
<1> QED
  BY <1>1, <1>5, <1>6, <1>7

LEMMA XXTEAKeys ==
  ASSUME NEW e \in 0..3
  PROVE  /\ BitXor(1, e) = IF e % 2 = 0 THEN e + 1 ELSE e - 1
         /\ BitXor(1, e) \in 0..3
BY XorAssumption

LEMMA XXTEAUndone ==
  ASSUME NEW b \in Block, NEW s \in Nat
  PROVE  /\ XXTEAEncodeRound(b, s) \in Block
         /\ XXTEARound(XXTEAEncodeRound(b, s), s) = b
<1> DEFINE e == Shr(s, 2) % 4
           k == Key(e)
           kk == Key(BitXor(1, e))
           f == Mix(b[2], b[2], s, k)
           b0 == Add(b[1], f)
           g == Mix(b0, b0, s, kk)
           b1 == Add(b[2], g)
<1>1. b = <<b[1], b[2]>> /\ b[1] \in CipherWord /\ b[2] \in CipherWord
  BY DEF Block
<1>2. e \in 0..3
  <2>1. 2^2 = 4
    OBVIOUS
  <2>2. Shr(s, 2) \in Int
    BY <2>1 DEF Shr
  <2> QED
    BY <2>2
<1>3. k \in CipherWord /\ kk \in CipherWord
  BY <1>2, KeyOfWord, XXTEAKeys
<1>4. f \in CipherWord
  BY <1>1, <1>3, MixedWord
<1>5. b0 \in CipherWord
  BY <1>1, <1>4, SumOfWords
<1>6. g \in CipherWord
  BY <1>3, <1>5, MixedWord
<1>7. <<b0, b1>> \in Block /\ Sub(b0, f) = b[1] /\ Sub(b1, g) = b[2]
  BY <1>4, <1>6, HalvesUndone
<1>8. XXTEAEncodeRound(b, s) = <<b0, b1>>
  BY <1>2, XXTEAKeys DEF XXTEAEncodeRound
<1>9. XXTEARound(<<b0, b1>>, s) = <<Sub(b0, Mix(Sub(b1, g), Sub(b1, g), s, k)), Sub(b1, g)>>
  BY DEF XXTEARound
<1> QED
  BY <1>1, <1>7, <1>8, <1>9

\* Both schedules name the same keys, in the two rounds there are.
LEMMA XTEAKeys ==
  ASSUME NEW s \in {Delta, 2 * Delta}
  PROVE  /\ (s - Delta) % 4 = s \div Delta - 1
         /\ (s - Delta) % 4 \in 0..3 /\ Shr(s, 11) % 4 \in 0..3
<1>1. 2^11 = 2048
  OBVIOUS
<1>2. s \div 2^11 \in Int
  BY <1>1 DEF Delta
<1>3. CASE s = Delta
  BY <1>2, <1>3 DEF Delta, Shr
<1>4. CASE s = 2 * Delta
  BY <1>2, <1>4 DEF Delta, Shr
<1> QED
  BY <1>3, <1>4

LEMMA XTEAUndone ==
  ASSUME NEW b \in Block, NEW s \in {Delta, 2 * Delta}
  PROVE  /\ XTEAEncodeRound(b, s) \in Block
         /\ XTEARound(XTEAEncodeRound(b, s), s) = b
<1> DEFINE k == Key((s - Delta) % 4)
           kk == Key(Shr(s, 11) % 4)
           f == Schedule(b[2], s - Delta, k)
           b0 == Add(b[1], f)
           g == Schedule(b0, s, kk)
           b1 == Add(b[2], g)
<1>1. b = <<b[1], b[2]>> /\ b[1] \in CipherWord /\ b[2] \in CipherWord
  BY DEF Block
<1>2. s \in Int /\ s - Delta \in Int
  BY DEF Delta
<1>3. k \in CipherWord /\ kk \in CipherWord
  BY KeyOfWord, XTEAKeys
<1>4. f \in CipherWord
  BY <1>1, <1>2, <1>3, ScheduleWord
<1>5. b0 \in CipherWord
  BY <1>1, <1>4, SumOfWords
<1>6. g \in CipherWord
  BY <1>2, <1>3, <1>5, ScheduleWord
<1>7. <<b0, b1>> \in Block /\ Sub(b0, f) = b[1] /\ Sub(b1, g) = b[2]
  BY <1>4, <1>6, HalvesUndone
<1>8. XTEAEncodeRound(b, s) = <<b0, b1>>
  BY DEF XTEAEncodeRound
<1>9. XTEARound(<<b0, b1>>, s) = <<Sub(b0, Schedule(Sub(b1, g), s - Delta, k)), Sub(b1, g)>>
  BY XTEAKeys DEF XTEARound
<1> QED
  BY <1>1, <1>7, <1>8, <1>9

LEMMA XORUndone ==
  ASSUME NEW b \in Block, NEW o \in Nat
  PROVE  /\ XORBlock(b, o) \in Block
         /\ XORBlock(XORBlock(b, o), o) = b
<1> DEFINE k == BitXor(Key(13), W(o))
           kk == BitXor(Key(2), W(o))
<1>1. b = <<b[1], b[2]>> /\ b[1] \in CipherWord /\ b[2] \in CipherWord
  BY DEF Block
<1>2. k \in CipherWord /\ kk \in CipherWord
  BY KeyOfWord, WordOfInt, XorOfWords
<1>3. /\ BitXor(b[1], k) \in CipherWord /\ BitXor(BitXor(b[1], k), k) = b[1]
      /\ BitXor(b[2], kk) \in CipherWord /\ BitXor(BitXor(b[2], kk), kk) = b[2]
  BY <1>1, <1>2, XorOfWords
<1> HIDE DEF k, kk
<1>4. \A c \in Block : XORBlock(c, o) = <<BitXor(c[1], k), BitXor(c[2], kk)>>
  BY DEF XORBlock, k, kk
<1>5. XORBlock(b, o) = <<BitXor(b[1], k), BitXor(b[2], kk)>>
  BY <1>4
<1>6. XORBlock(b, o) \in Block
  BY <1>3, <1>5 DEF Block
<1>7. XORBlock(XORBlock(b, o), o) = <<BitXor(BitXor(b[1], k), k), BitXor(BitXor(b[2], kk), kk)>>
  BY <1>4, <1>5, <1>6
<1> QED
  BY <1>1, <1>3, <1>6, <1>7

-----------------------------------------------------------------------------
(* The rounds together.                                                    *)

\* The block between the two rounds of an encoder; cipher 2 has one only.
Halfway(m, b) ==
  CASE m = 0 -> XXTEAEncodeRound(b, Delta)
    [] m = 1 -> TEAEncodeRound(b, Delta)
    [] m = 3 -> XTEAEncodeRound(b, Delta)

\* What the sum says of the block in work.
RoundsLeft ==
  /\ cipher \in 0..3 /\ position \in Nat /\ plain \in Block
  /\ sum \in {0, Delta, 2 * Delta}
  /\ sum = 2 * Delta => word = Encrypt(cipher, position, plain)
  /\ sum = Delta => cipher # 2 /\ word = Halfway(cipher, plain)
  /\ sum = 0 => word = plain

LEMMA RoundsInit == CipherInit => RoundsLeft
BY PlainAssumption DEF CipherInit, RoundsLeft, Block, Delta

\* A round of an encoder takes the block it is halfway to where the decoder starts.
LEMMA Halves ==
  ASSUME NEW b \in Block, NEW o \in Nat
  PROVE  /\ Encrypt(0, o, b) = XXTEAEncodeRound(Halfway(0, b), 2 * Delta)
         /\ Encrypt(1, o, b) = TEAEncodeRound(Halfway(1, b), 2 * Delta)
         /\ Encrypt(2, o, b) = XORBlock(b, o)
         /\ Encrypt(3, o, b) = XTEAEncodeRound(Halfway(3, b), 2 * Delta)
         /\ \A m \in {0, 1, 3} : Halfway(m, b) \in Block
<1>1. /\ Halfway(0, b) = XXTEAEncodeRound(b, Delta)
      /\ Halfway(1, b) = TEAEncodeRound(b, Delta)
      /\ Halfway(3, b) = XTEAEncodeRound(b, Delta)
  BY DEF Halfway
<1>2. Delta \in Nat
  BY DEF Delta
<1>3. \A m \in {0, 1, 3} : Halfway(m, b) \in Block
  <2>1. XXTEAEncodeRound(b, Delta) \in Block
    BY <1>2, XXTEAUndone
  <2>2. TEAEncodeRound(b, Delta) \in Block
    BY <1>2, TEAUndone
  <2>3. XTEAEncodeRound(b, Delta) \in Block
    BY XTEAUndone
  <2> QED
    BY <1>1, <2>1, <2>2, <2>3
<1> QED
  BY <1>1, <1>3 DEF Encrypt

\* Every step of the decoder takes one round away.
LEMMA RoundsStep == RoundsLeft /\ [CipherNext]_cipherVars => RoundsLeft'
<1> SUFFICES ASSUME RoundsLeft, [CipherNext]_cipherVars PROVE RoundsLeft'
  OBVIOUS
<1>1. CASE UNCHANGED cipherVars
  BY <1>1 DEF RoundsLeft, cipherVars
<1>2. CASE CipherNext
  <2>1. /\ cipher \in 0..3 /\ position \in Nat /\ plain \in Block
        /\ cipher' = cipher /\ position' = position /\ plain' = plain
        /\ sum \in {Delta, 2 * Delta} /\ Delta \in Nat \ {0}
    BY <1>2 DEF RoundsLeft, CipherNext, Delta
  <2> DEFINE h == Halfway(cipher, plain)
  <2>2. SUFFICES /\ sum = 2 * Delta /\ cipher # 2 => sum' = Delta /\ word' = h
                 /\ sum = Delta => sum' = 0 /\ word' = plain
                 /\ cipher = 2 => sum' = 0 /\ word' = plain
    BY <2>1 DEF RoundsLeft
  <2>3. CASE XXTEA
    <3>1. cipher = 0 /\ word' = XXTEARound(word, sum) /\ sum' = sum - Delta
      BY <2>3 DEF XXTEA
    <3>2. CASE sum = 2 * Delta
      <4>1. word = XXTEAEncodeRound(h, 2 * Delta) /\ h \in Block /\ 2 * Delta \in Nat
        BY <2>1, <3>1, <3>2, Halves DEF RoundsLeft
      <4>2. word' = h
        BY <3>1, <3>2, <4>1, XXTEAUndone
      <4> QED
        BY <2>1, <3>1, <3>2, <4>2
    <3>3. CASE sum = Delta
      <4>1. word = XXTEAEncodeRound(plain, Delta)
        BY <2>1, <3>1, <3>3 DEF RoundsLeft, Halfway
      <4>2. word' = plain
        BY <2>1, <3>1, <3>3, <4>1, XXTEAUndone
      <4> QED
        BY <2>1, <3>1, <3>3, <4>2
    <3> QED
      BY <2>1, <3>2, <3>3
  <2>4. CASE TEA
    <3>1. cipher = 1 /\ word' = TEARound(word, sum) /\ sum' = sum - Delta
      BY <2>4 DEF TEA
    <3>2. CASE sum = 2 * Delta
      <4>1. word = TEAEncodeRound(h, 2 * Delta) /\ h \in Block /\ 2 * Delta \in Int
        BY <2>1, <3>1, <3>2, Halves DEF RoundsLeft
      <4>2. word' = h
        BY <3>1, <3>2, <4>1, TEAUndone
      <4> QED
        BY <2>1, <3>1, <3>2, <4>2
    <3>3. CASE sum = Delta
      <4>1. word = TEAEncodeRound(plain, Delta)
        BY <2>1, <3>1, <3>3 DEF RoundsLeft, Halfway
      <4>2. word' = plain
        BY <2>1, <3>1, <3>3, <4>1, TEAUndone
      <4> QED
        BY <2>1, <3>1, <3>3, <4>2
    <3> QED
      BY <2>1, <3>2, <3>3
  <2>5. CASE XOR
    <3>1. cipher = 2 /\ word' = XORBlock(word, position) /\ sum' = 0
      BY <2>5 DEF XOR
    <3>2. sum = 2 * Delta
      BY <2>1, <3>1 DEF RoundsLeft
    <3>3. word = XORBlock(plain, position)
      BY <2>1, <3>1, <3>2, Halves DEF RoundsLeft
    <3>4. word' = plain
      BY <2>1, <3>1, <3>3, XORUndone
    <3> QED
      BY <2>1, <3>1, <3>2, <3>4
  <2>6. CASE XTEA
    <3>1. cipher = 3 /\ word' = XTEARound(word, sum) /\ sum' = sum - Delta
      BY <2>6 DEF XTEA
    <3>2. CASE sum = 2 * Delta
      <4>1. word = XTEAEncodeRound(h, 2 * Delta) /\ h \in Block
        BY <2>1, <3>1, <3>2, Halves DEF RoundsLeft
      <4>2. word' = h
        BY <3>1, <3>2, <4>1, XTEAUndone
      <4> QED
        BY <2>1, <3>1, <3>2, <4>2
    <3>3. CASE sum = Delta
      <4>1. word = XTEAEncodeRound(plain, Delta)
        BY <2>1, <3>1, <3>3 DEF RoundsLeft, Halfway
      <4>2. word' = plain
        BY <2>1, <3>1, <3>3, <4>1, XTEAUndone
      <4> QED
        BY <2>1, <3>1, <3>3, <4>2
    <3> QED
      BY <2>1, <3>2, <3>3
  <2> QED
    BY <1>2, <2>3, <2>4, <2>5, <2>6 DEF CipherNext
<1> QED
  BY <1>1, <1>2 DEF CipherNext

\* DigitalSea_Scipio undoes the encoder of every cipher: a block is what was
\* encrypted when the sum has come down to zero, for words of every width.
THEOREM CiphersRecover == CipherSpec => []Recovers
<1>1. RoundsLeft => Recovers
  BY DEF RoundsLeft, Recovers
<1> QED
  BY <1>1, RoundsInit, RoundsStep, PTL DEF CipherSpec
=============================================================================
