------------------------------ MODULE BcStream ------------------------------
(***************************************************************************)
(* The input buffer of the bytecode reader: bcread_fill_mod, bcread_need,  *)
(* bcread_want and bcread_mem (src/src/lj_bcread.c), the growth of the     *)
(* string buffer behind them (src/src/lj_buf.c), and the file reader       *)
(* (src/src/lj_load.c), which delivers the dump chunk by chunk in one      *)
(* buffer it overwrites every time.                                        *)
(*                                                                         *)
(* The unread bytes are the window from ls->p to ls->pe.  It lies either   *)
(* in the reader's buffer, while the string buffer is empty, or in the     *)
(* string buffer.  A byte is its position in the file, or Junk where no    *)
(* file byte was stored; a string that is decrypted in place (kgc strings  *)
(* of a dump) turns its bytes into Junk as well.  The string buffer has a  *)
(* generation, which every reallocation changes, so that a pointer into    *)
(* freed memory can be told from one into the buffer.                      *)
(***************************************************************************)
EXTENDS Integers

CONSTANTS
  N,          \* the length of the file
  Lens,       \* the lengths the parser asks for and takes
  ChunkMax,   \* the size of the reader's buffer (LUAL_BUFFERSIZE)
  MinBuf,     \* LJ_MIN_SBUF
  MaxBuf      \* LJ_MAX_BUF

ASSUME LengthAssumption == N \in Nat \ {0} /\ Lens \subseteq Nat \ {0}
ASSUME ChunkAssumption == ChunkMax \in Nat \ {0}
\* No dump is longer than the largest buffer (2 GB less a page).
ASSUME BufAssumption == MinBuf \in Nat \ {0} /\ MaxBuf \in Nat /\ N <= MaxBuf

Junk == -1
Reader == 0              \* the place of the window when it is in the reader's buffer

VARIABLES
  unread,    \* the position of the next byte the reader will deliver
  chunk,     \* FileReaderCtx.buf
  mem,       \* the memory of ls->sb
  size,      \* sbufsz(&ls->sb)
  gen,       \* which allocation mem is (0: none yet)
  sblen,     \* sbuflen(&ls->sb)
  place,     \* where ls->p and ls->pe point: Reader, or an allocation of ls->sb
  p, pe,     \* ls->p and ls->pe, as offsets there
  c,         \* ls->c: -1 once the reader said it has no more
  pc,        \* "idle"; "turn" and "refill" inside bcread_fill_mod; "error"
  len, need, \* the arguments of the last request
  granted,   \* how many bytes the last request promised and were not taken
  block      \* the bytes last taken

buffers == <<chunk, mem, size, gen, sblen>>
vars == <<unread, buffers, place, p, pe, c, pc, len, need, granted, block>>

Least(a, b) == IF a < b THEN a ELSE b
Most(a, b) == IF a < b THEN b ELSE a

\* The byte an input pointer reads; a dangling pointer reads anything.
ByteAt(off) ==
  IF place = Reader THEN chunk[off] ELSE IF place = gen THEN mem[off] ELSE Junk

\* What the reader leaves in its buffer when it delivers the next sz bytes.
Delivered(buf, first, sz) == [i \in DOMAIN buf |-> IF i < sz THEN first + i ELSE buf[i]]

\* The first chunk is there, and the lexer took its first byte.
Init ==
  /\ unread \in 1..Least(ChunkMax, N)
  /\ chunk = Delivered([i \in 0..(ChunkMax - 1) |-> Junk], 0, unread)
  /\ mem = [i \in {} |-> Junk]
  /\ size = 0
  /\ gen = 0
  /\ sblen = 0
  /\ place = Reader
  /\ p = 1
  /\ pe = unread
  /\ c = 0
  /\ pc = "idle"
  /\ len = 0
  /\ need = FALSE
  /\ granted = 0
  /\ block = [i \in {} |-> 0]

-----------------------------------------------------------------------------
\* A bug: the size is doubled once, whatever is needed.
DoubledOnce(osz, sz) == {2 * Most(osz, MinBuf)}

\* The sizes buf_grow may choose: the old size, or the least one, doubled
\* until it is large enough.
Doubled(osz, sz) ==
  LET base == Most(osz, MinBuf)
  IN  {s \in sz..(2 * (sz + base)) :
         \E k \in 0..sz : s = base * 2^k /\ (k = 0 \/ base * 2^(k - 1) < sz)}

\* lj_buf_need: make room for sz bytes, keeping what the buffer holds.
\* A reallocation moves the buffer.
BufNeed(sz) ==
  IF sz <= size
    THEN UNCHANGED <<size, gen>>
    ELSE size' \in Doubled(size, sz) /\ gen' = gen + 1

\* A bug: the pointers are taken from the buffer before it grows.
KeptPlace(n) == place' = gen /\ p' = 0 /\ pe' = n

\* After lj_buf_need the pointers are set anew, to n bytes of the buffer.
Rebase(n) == place' = gen' /\ p' = 0 /\ pe' = n

\* A bug: the bytes appended land on those moved to the front before.
StoredAtFront(buf, osz, nsz, at, n, bytes) ==
  [i \in 0..(nsz - 1) |-> IF i < n THEN bytes[i] ELSE IF i < osz THEN buf[i] ELSE Junk]

\* A buffer of osz bytes reallocated to nsz, and n bytes copied to at.
Stored(buf, osz, nsz, at, n, bytes) ==
  [i \in 0..(nsz - 1) |->
     IF i \in at..(at + n - 1) THEN bytes[i - at] ELSE IF i < osz THEN buf[i] ELSE Junk]

\* bcread_need and bcread_want: only a window too short calls for a fill.
Request(l, nd) ==
  /\ pc = "idle"
  /\ \/ /\ p + l <= pe
        /\ granted' = l
        /\ UNCHANGED pc
     \/ /\ p + l > pe
        /\ l > MaxBuf \/ c < 0
        /\ pc' = "error"
        /\ UNCHANGED granted
     \/ /\ p + l > pe
        /\ l <= MaxBuf /\ c >= 0
        /\ pc' = "turn"
        /\ UNCHANGED granted
  /\ len' = l
  /\ need' = nd
  /\ UNCHANGED <<unread, buffers, place, p, pe, c, block>>

\* The first half of a turn of bcread_fill_mod: the unread bytes go to the
\* front of the string buffer, before the reader overwrites its own.
MoveRemainder ==
  /\ pc = "turn"
  /\ pc' = "refill"
  /\ LET n == pe - p
         window == [i \in 0..(n - 1) |-> ByteAt(p + i)]
     IN  \/ /\ n = 0
            /\ sblen' = 0
            /\ UNCHANGED <<mem, size, gen, place, p, pe>>
         \/ /\ n > 0
            /\ IF sblen = 0 THEN BufNeed(len) ELSE UNCHANGED <<size, gen>>
            /\ mem' = Stored(mem, size, size', 0, n, window)
            /\ sblen' = n
            /\ Rebase(n)
  /\ UNCHANGED <<unread, chunk, c, len, need, granted, block>>

\* A bug: the end of the file is looked at only when the bytes are needed.
NoMoreIfNeeded == unread = N /\ need

\* lj_reader_file at the end of the file: no buffer, or an empty one.
NoMore == unread = N

\* A bug: fewer bytes than were needed will do, as long as there are some.
EndIsBadIfEmpty == need /\ pe = p

\* The end of the file is an error only if the bytes were needed.
EndIsBad == need

\* The reader has no more.
EndOfFile ==
  /\ pc = "refill"
  /\ NoMore
  /\ IF EndIsBad
       THEN pc' = "error" /\ UNCHANGED <<c, granted>>
       ELSE pc' = "idle" /\ c' = -1 /\ granted' = pe - p
  /\ UNCHANGED <<unread, buffers, place, p, pe, len, need, block>>

\* The loop of bcread_fill_mod ends when the window is long enough.
Enough(n) == n >= len

\* The second half of a turn: the reader delivers a chunk of any size, and
\* it is appended to the remainder, or becomes the window itself.
Refill ==
  /\ pc = "refill"
  /\ \E sz \in 1..Least(ChunkMax, N - unread) :
       LET n == pe - p
       IN  /\ chunk' = Delivered(chunk, unread, sz)
           /\ unread' = unread + sz
           /\ \/ /\ n > 0
                 /\ BufNeed(Most(n + sz, len))
                 /\ mem' = Stored(mem, size, size', sblen, sz, chunk')
                 /\ sblen' = n + sz
                 /\ Rebase(n + sz)
              \/ /\ n = 0
                 /\ place' = Reader
                 /\ p' = 0
                 /\ pe' = sz
                 /\ UNCHANGED <<mem, size, gen, sblen>>
           /\ IF Enough(n + sz)
                THEN pc' = "idle" /\ granted' = len
                ELSE pc' = "turn" /\ UNCHANGED granted
  /\ UNCHANGED <<c, len, need, block>>

\* bcread_mem: take k bytes.  A string constant is decrypted where it lies,
\* and its bytes are file bytes no longer.
Take(k) ==
  /\ pc = "idle"
  /\ k <= granted
  /\ block' = [i \in 0..(k - 1) |-> ByteAt(p + i)]
  /\ p' = p + k
  /\ granted' = granted - k
  /\ \/ UNCHANGED <<chunk, mem>>
     \/ /\ place = Reader
        /\ chunk' = [i \in DOMAIN chunk |-> IF i \in p..(p + k - 1) THEN Junk ELSE chunk[i]]
        /\ UNCHANGED mem
     \/ /\ place # Reader
        /\ mem' = [i \in DOMAIN mem |-> IF i \in p..(p + k - 1) THEN Junk ELSE mem[i]]
        /\ UNCHANGED chunk
  /\ UNCHANGED <<unread, size, gen, sblen, place, pe, c, pc, len, need>>

Parser == \/ \E l \in Lens, nd \in BOOLEAN : Request(l, nd)
          \/ \E k \in Lens : Take(k)
Fill == MoveRemainder \/ EndOfFile \/ Refill

Next == Parser \/ Fill

\* A fill runs to its end; what the parser asks for next is its own choice.
Spec == Init /\ [][Next]_vars /\ WF_vars(Fill)

-----------------------------------------------------------------------------
\* Type correctness of the reader's state.
TypeOK ==
  /\ unread \in 1..N
  /\ chunk \in [0..(ChunkMax - 1) -> {Junk} \cup 0..(N - 1)]
  /\ size \in Nat /\ gen \in Nat /\ sblen \in 0..size
  /\ mem \in [0..(size - 1) -> {Junk} \cup 0..(N - 1)]
  /\ place \in 0..gen
  /\ p \in Nat /\ pe \in Nat /\ p <= pe
  /\ c \in {-1, 0}
  /\ pc \in {"idle", "turn", "refill", "error"}
  /\ len \in Lens \cup {0} /\ need \in BOOLEAN
  /\ granted \in 0..(pe - p)
  /\ \E k \in Lens \cup {0} : block \in [0..(k - 1) -> {Junk} \cup 0..(N - 1)]

\* The window never points into memory that a reallocation freed, and lies
\* in the string buffer exactly when that buffer is in use, which is what
\* bcread_fill_mod tells the two cases apart by.
WindowLive ==
  pe > p => /\ place \in {Reader, gen}
            /\ (place = Reader) <=> (sblen = 0)
            /\ place # Reader => pe = sblen

\* The unread bytes are, one for one, the file's bytes that the reader has
\* delivered and the parser has not taken: none is lost, doubled or
\* overwritten where a window moves from one buffer to the other.
WindowIsFile ==
  \A i \in 0..(pe - p - 1) : ByteAt(p + i) = unread - (pe - p) + i

\* Every fill ends: with the bytes, at the end of the file, or in an error.
FillEnds == (pc \in {"turn", "refill"}) ~> (pc \in {"idle", "error"})

\* Whatever the sizes of the chunks, the parser sees the stream of module
\* ByteStream: to each request, with its length and whether it is a need or
\* a want, the answer that the file alone determines; then the same bytes.
Stream == INSTANCE ByteStream WITH
  pos <- unread - (pe - p), eof <- (c = -1),
  status <- IF pc = "idle" THEN "ok" ELSE IF pc = "error" THEN "error" ELSE "asked"

ReadsStream == Stream!StreamSpec
=============================================================================
