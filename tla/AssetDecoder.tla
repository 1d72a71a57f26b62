---------------------------- MODULE AssetDecoder ----------------------------
(***************************************************************************)
(* DigitalSea_Scipio (src/AssetDecoder.cpp): the decoder of an encrypted   *)
(* asset bundle.  The last four bytes of the file give the size of a       *)
(* "wrapper"; what lies before the wrapper is the payload, and is decoded  *)
(* in blocks of eight bytes by four ciphers taken in turn.  The last one   *)
(* to eight bytes are copied as they are.                                  *)
(*                                                                         *)
(* A byte of the output is abstracted to the pair <<cipher, block>> that   *)
(* produced it: which algorithm, and the offset of the block it belongs    *)
(* to (the ciphers themselves are module BlockCipher).  Lengths are        *)
(* unsigned words modulo Word, 2^32 in the code; a small Word keeps the    *)
(* wrap-arounds of short and of malformed files within reach.              *)
(***************************************************************************)
EXTENDS Integers

CONSTANTS
  Word,       \* the modulus of unsigned int
  Heap,       \* malloc serves a buffer of at most Heap payload bytes
  FileSizes,  \* the lengths of input considered
  Trailers    \* the trailing words considered, as unsigned words

ASSUME WordAssumption == Word \in Nat /\ Word >= 64 /\ Word % 8 = 0
\* A 32-bit process cannot allocate half of its address space.
ASSUME HeapAssumption == Heap \in Nat /\ 2 * Heap < Word
\* A file that was read into memory fits there.
ASSUME FileAssumption == FileSizes \subseteq 0..Heap /\ Trailers \subseteq 0..(Word - 1)

VARIABLES
  pc,        \* where DigitalSea_Scipio is
  size,      \* *p_max_length, the length of the input
  trailer,   \* the last four bytes of the input, read as a big-endian word
  copied,    \* v21, the wrapper bytes copied so far
  offset,    \* v45, the next payload byte
  mode,      \* v177 / v47, the cipher of the next block
  dec_buf    \* the output array

vars == <<pc, size, trailer, copied, offset, mode, dec_buf>>

Wrap(n) == n % Word
Signed(n) == IF 2 * n < Word THEN n ELSE n - Word

wrapper_size == Signed(trailer)
dec_buf_size == Wrap(size - 4 - trailer)

Ciphers == {"XXTEA", "TEA", "XOR", "XTEA"}
CipherOf(m) == CASE m = 0 -> "XXTEA" [] m = 1 -> "TEA" [] m = 2 -> "XOR" [] m = 3 -> "XTEA"

Zero == <<"zero", 0>>                 \* what NewSpecific's memset leaves
Plain(i) == <<"plain", i>>

\* "abort" is a failed assert, "crash" the null pointer of a failed malloc,
\* "undefined" the heap overrun of an allocation whose size wrapped.
Final == {"done", "abort", "crash", "undefined"}
Stages == {"start", "wrapper", "block", "tail"} \cup Final

Init ==
  /\ pc = "start"
  /\ size \in FileSizes
  /\ trailer \in Trailers
  /\ copied = 0
  /\ offset = 0
  /\ mode = 0
  /\ dec_buf = [i \in {} |-> Zero]

-----------------------------------------------------------------------------
\* Faulty variants of the operators below.
AnyShortSkips(n) == IF n <= 8 THEN "tail" ELSE "block"
LastBlockCiphered(next) == next <= Wrap(dec_buf_size - 8)
ComparesWithSize(next) == next < dec_buf_size
OffsetNotAdvanced(o) == o
ModeNotMasked(m) == m + 1

\* A payload of exactly eight bytes skips the block loop.
BodyStage(n) == IF n = 8 THEN "tail" ELSE "block"

\* The unsigned test for another turn of the block loop.
AnotherBlock(next) == next < Wrap(dec_buf_size - 8)

NextOffset(o) == Wrap(o + 8)
NextMode(m) == (m + 1) % 4

\* NewSpecific adds a 16-byte header to the length before it allocates.
ReadTrailer ==
  /\ pc = "start"
  /\ \/ /\ size < 4
        /\ pc' = "abort"
        /\ UNCHANGED dec_buf
     \/ /\ size >= 4
        /\ dec_buf_size + 16 >= Word
        /\ pc' = "undefined"
        /\ UNCHANGED dec_buf
     \/ /\ size >= 4
        /\ dec_buf_size + 16 < Word
        /\ dec_buf_size > Heap
        /\ pc' = "crash"
        /\ UNCHANGED dec_buf
     \/ /\ size >= 4
        /\ dec_buf_size <= Heap
        /\ pc' = IF wrapper_size > 0 THEN "wrapper" ELSE BodyStage(dec_buf_size)
        /\ dec_buf' = [i \in 0..(dec_buf_size - 1) |-> Zero]
  /\ UNCHANGED <<size, trailer, copied, offset, mode>>

\* The wrapper bytes are copied out and decoded in a buffer nobody reads.
CopyWrapper ==
  /\ pc = "wrapper"
  /\ LET from == Wrap(size - 4 - trailer + copied)
     IN  \/ /\ from >= size - 4
            /\ pc' = BodyStage(dec_buf_size)
            /\ UNCHANGED copied
         \/ /\ from < size - 4
            /\ IF from < size /\ copied < trailer
                 THEN copied' = copied + 1 /\ UNCHANGED pc
                 ELSE pc' = "abort" /\ UNCHANGED copied
  /\ UNCHANGED <<size, trailer, offset, mode, dec_buf>>

\* One turn of the block loop: eight checked reads, the cipher of this turn,
\* eight checked writes, and the test for another turn.
DecodeBlock ==
  /\ pc = "block"
  /\ LET block == offset..(offset + 7)
         next  == NextOffset(offset)
     IN  IF block \subseteq 0..(size - 1) /\ block \subseteq DOMAIN dec_buf
           THEN /\ dec_buf' = [i \in DOMAIN dec_buf |->
                                 IF i \in block THEN <<CipherOf(mode), offset>> ELSE dec_buf[i]]
                /\ offset' = next
                /\ mode' = NextMode(mode)
                /\ pc' = IF AnotherBlock(next) THEN "block" ELSE "tail"
           ELSE /\ pc' = "abort"
                /\ UNCHANGED <<dec_buf, offset, mode>>
  /\ UNCHANGED <<size, trailer, copied>>

\* The bytes that no block covers are copied one by one.
CopyTail ==
  /\ pc = "tail"
  /\ \/ /\ offset >= dec_buf_size
        /\ pc' = "done"
        /\ UNCHANGED <<dec_buf, offset>>
     \/ /\ offset < dec_buf_size
        /\ IF offset < size /\ offset \in DOMAIN dec_buf
             THEN /\ dec_buf' = [dec_buf EXCEPT ![offset] = Plain(offset)]
                  /\ offset' = offset + 1
                  /\ UNCHANGED pc
             ELSE /\ pc' = "abort"
                  /\ UNCHANGED <<dec_buf, offset>>
  /\ UNCHANGED <<size, trailer, copied, mode>>

Returned == pc \in Final /\ UNCHANGED vars

Next == ReadTrailer \/ CopyWrapper \/ DecodeBlock \/ CopyTail \/ Returned

\* A sequential function: it runs until it returns or the process ends.
Spec == Init /\ [][Next]_vars /\ WF_vars(Next)

-----------------------------------------------------------------------------
(* What the decoder promises.                                              *)

\* A file whose trailer leaves a payload of at least eight bytes.
WellFormed == size >= 4 /\ trailer <= size - 4 /\ size - 4 - trailer >= 8

\* The number of bytes the ciphers cover: all the blocks that leave at
\* least one byte for the tail.
Ciphered(n) == 8 * ((n - 1) \div 8)

\* The layout of a decoded payload of n bytes, position by position, stated
\* without reference to how the loop walks.
Layout(n) ==
  [i \in 0..(n - 1) |->
     IF i < Ciphered(n) THEN <<CipherOf((i \div 8) % 4), 8 * (i \div 8)>> ELSE Plain(i)]

\* Type correctness of the decoder's variables.
TypeOK ==
  /\ pc \in Stages
  /\ size \in FileSizes
  /\ trailer \in Trailers
  /\ copied \in 0..(Word - 1)
  /\ offset \in 0..(Word - 1)
  /\ mode \in 0..3
  /\ \A i \in DOMAIN dec_buf : dec_buf[i] \in (Ciphers \cup {"zero", "plain"}) \X (0..(Word - 1))

\* The array a call returns holds every payload byte, each produced by the
\* cipher its position calls for, and by the block it lies in: no byte is
\* skipped, decoded twice or left zero where blocks and tail meet.
ReturnsLayout == pc = "done" => dec_buf = Layout(dec_buf_size)

\* On a well-formed file none of the decoder's bounds asserts fails and no
\* allocation wraps, whatever the sizes of payload and wrapper.
WellFormedNeverAborts == WellFormed => pc \notin {"abort", "crash", "undefined"}

\* A call returns only if the trailer, as a signed word, leaves a payload of
\* eight bytes at least that lies within the file.  Any other trailer ends
\* the process: a shorter payload makes the size minus eight wrap, so that the
\* loop is entered and its asserts fail; a longer one is not allocated, or
\* fails where the input ends.  Trailers from -4 to -1 do return: their
\* payload runs on into the trailer itself.
MalformedNeverReturns == pc = "done" => wrapper_size \in -4..(size - 12)

\* A byte once decoded is never written again, and the array is not resized
\* after its allocation.
WrittenOnce ==
  [][\A i \in DOMAIN dec_buf : dec_buf[i] # Zero => i \in DOMAIN dec_buf' /\ dec_buf'[i] = dec_buf[i]]_vars

\* Every call ends, and on a well-formed file it ends by returning.
Terminates == <>(pc \in Final)
=============================================================================
