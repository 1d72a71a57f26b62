--------------------------- MODULE BcStream_proofs ---------------------------
(* Proofs about BcStream, for every file, chunking and request lengths.     *)
EXTENDS BcStream, TLAPS

Byte == {Junk} \cup 0..(N - 1)

Types ==
  /\ unread \in 1..N
  /\ chunk \in [0..(ChunkMax - 1) -> Byte]
  /\ size \in Nat /\ gen \in Nat /\ sblen \in 0..size
  /\ mem \in [0..(size - 1) -> Byte]
  /\ place \in 0..gen
  /\ p \in Nat /\ pe \in Nat /\ p <= pe
  /\ c \in {-1, 0}
  /\ pc \in {"idle", "turn", "refill", "error"}
  /\ len \in Lens \cup {0} /\ need \in BOOLEAN
  /\ granted \in 0..(pe - p)
  /\ \E k \in Lens \cup {0} : block \in [0..(k - 1) -> Byte]

\* The unread bytes are some of those the reader delivered.
Delivery == pe - p < unread

\* An allocation has a generation of its own.
Allocation == size > 0 => gen > 0

\* Where the window lies, and that it lies inside.
Place ==
  pe > p => \/ place = Reader /\ sblen = 0 /\ pe <= ChunkMax
            \/ place = gen /\ gen > 0 /\ sblen = pe

\* Inside a fill the window is too short, there is room for what is asked,
\* and the reader had no end yet.
Filling == pc \in {"turn", "refill"} => c = 0 /\ 0 < len /\ len <= MaxBuf /\ pe - p < len

\* Between the halves of a turn the remainder, if any, fills the buffer.
HalfTurn ==
  pc = "refill" => IF pe > p THEN place = gen /\ gen > 0 /\ p = 0 /\ sblen = pe ELSE sblen = 0

\* The end was seen only after the last byte.
AtEnd == c = -1 => unread = N

IInv ==
  /\ Types
  /\ Delivery
  /\ Allocation
  /\ Place
  /\ Filling
  /\ HalfTurn
  /\ AtEnd
  /\ WindowIsFile

-----------------------------------------------------------------------------
LEMMA Constants ==
  /\ N \in Nat /\ N > 0 /\ ChunkMax \in Nat /\ ChunkMax > 0
  /\ MinBuf \in Nat /\ MinBuf > 0 /\ MaxBuf \in Nat /\ N <= MaxBuf
  /\ Lens \subseteq Nat /\ \A l \in Lens : l > 0
  /\ Reader = 0 /\ Junk = -1
  BY LengthAssumption, ChunkAssumption, BufAssumption DEF Reader, Junk

LEMMA LeastIs ==
  ASSUME NEW a \in Int, NEW b \in Int
  PROVE  Least(a, b) \in Int /\ Least(a, b) <= a /\ Least(a, b) <= b
  BY DEF Least

LEMMA MostIs ==
  ASSUME NEW a \in Int, NEW b \in Int
  PROVE  Most(a, b) \in Int /\ a <= Most(a, b) /\ b <= Most(a, b)
  BY DEF Most

\* A chunk is the next bytes of the file.
LEMMA DeliveredIs ==
  ASSUME NEW buf \in [0..(ChunkMax - 1) -> Byte], NEW first \in Nat, NEW sz \in Nat,
         sz <= ChunkMax, first + sz <= N
  PROVE  /\ Delivered(buf, first, sz) \in [0..(ChunkMax - 1) -> Byte]
         /\ \A i \in 0..(sz - 1) : Delivered(buf, first, sz)[i] = first + i
  BY Constants DEF Delivered, Byte

\* A reallocated buffer has the size that was asked for at least, and a
\* generation of its own.
LEMMA BufNeedIs ==
  ASSUME Types, Allocation, NEW sz \in Nat, sz > 0, BufNeed(sz)
  PROVE  /\ size' \in Nat /\ size' >= sz /\ size' >= size
         /\ gen' \in Nat /\ gen' >= gen /\ gen' > 0
<1>1. CASE sz <= size
  BY <1>1 DEF BufNeed, Types, Allocation
<1>2. CASE ~(sz <= size)
  <2>1. size' \in Doubled(size, sz) /\ gen' = gen + 1
    BY <1>2 DEF BufNeed
  <2>2. Most(size, MinBuf) \in Int
    BY Constants, MostIs DEF Types
  <2>3. size' \in sz..(2 * (sz + Most(size, MinBuf)))
    BY <2>1 DEF Doubled
  <2> QED
    BY <1>2, <2>1, <2>2, <2>3 DEF Types
<1> QED
  BY <1>1, <1>2

LEMMA Offsets ==
  ASSUME NEW at \in Nat, NEW n \in Nat, NEW s \in Nat, at + n <= s
  PROVE  /\ \A i \in 0..(n - 1) : at + i \in 0..(s - 1)
         /\ \A i \in 0..(n - 1) : at + i \in at..(at + n - 1)
         /\ \A i \in 0..(n - 1) : (at + i) - at = i
         /\ \A i \in 0..(at - 1) : i \in 0..(s - 1) /\ i \notin at..(at + n - 1)
  OBVIOUS

\* Bytes stored at an offset are found there, and what lies before them is
\* kept.
LEMMA StoredIs ==
  ASSUME NEW osz \in Nat, NEW buf \in [0..(osz - 1) -> Byte], NEW nsz \in Nat,
         NEW at \in Nat, NEW n \in Nat, at + n <= nsz,
         NEW bytes, \A i \in 0..(n - 1) : bytes[i] \in Byte
  PROVE  /\ Stored(buf, osz, nsz, at, n, bytes) \in [0..(nsz - 1) -> Byte]
         /\ \A i \in 0..(n - 1) : Stored(buf, osz, nsz, at, n, bytes)[at + i] = bytes[i]
         /\ \A i \in 0..(at - 1) : i < osz => Stored(buf, osz, nsz, at, n, bytes)[i] = buf[i]
<1> DEFINE S == Stored(buf, osz, nsz, at, n, bytes)
<1>1. ASSUME NEW i \in 0..(nsz - 1)
      PROVE  (IF i \in at..(at + n - 1) THEN bytes[i - at] ELSE IF i < osz THEN buf[i] ELSE Junk) \in Byte
  <2>1. CASE i \in at..(at + n - 1)
    <3>1. i - at \in 0..(n - 1)
      BY <2>1
    <3> QED
      BY <2>1, <3>1
  <2>2. CASE i \notin at..(at + n - 1) /\ i < osz
    BY <2>2
  <2>3. CASE i \notin at..(at + n - 1) /\ ~(i < osz)
    BY <2>3 DEF Byte
  <2> QED
    BY <2>1, <2>2, <2>3
<1>2. S \in [0..(nsz - 1) -> Byte]
  BY <1>1 DEF Stored
<1>3. ASSUME NEW i \in 0..(n - 1) PROVE S[at + i] = bytes[i]
  <2>1. at + i \in 0..(nsz - 1)
    BY Offsets
  <2>2. at + i \in at..(at + n - 1)
    BY Offsets
  <2>3. (at + i) - at = i
    BY Offsets
  <2> QED
    BY <2>1, <2>2, <2>3 DEF Stored
<1>4. ASSUME NEW i \in 0..(at - 1), i < osz PROVE S[i] = buf[i]
  <2>1. i \in 0..(nsz - 1) /\ i \notin at..(at + n - 1)
    BY Offsets
  <2> QED
    BY <2>1, <1>4 DEF Stored
<1> QED
  BY <1>2, <1>3, <1>4

-----------------------------------------------------------------------------
\* The numbers of a state of the invariant.
LEMMA Numbers ==
  ASSUME IInv
  PROVE  /\ unread \in Nat /\ 0 < unread /\ unread <= N
         /\ p \in Nat /\ pe \in Nat /\ p <= pe /\ pe - p < unread
         /\ size \in Nat /\ gen \in Nat /\ sblen \in Nat /\ sblen <= size
         /\ place \in Nat /\ granted \in Nat /\ granted <= pe - p
         /\ len \in Nat /\ N \in Nat /\ N > 0 /\ ChunkMax \in Nat
  BY Constants DEF IInv, Types, Delivery

\* What the invariant says of a byte of the window.
LEMMA WindowByte ==
  ASSUME IInv, NEW i \in 0..(pe - p - 1)
  PROVE  ByteAt(p + i) = unread - (pe - p) + i /\ ByteAt(p + i) \in Byte
<1>1. ByteAt(p + i) = unread - (pe - p) + i
  BY DEF IInv, WindowIsFile
<1>2. unread - (pe - p) + i \in 0..(N - 1)
  BY Numbers
<1> QED
  BY <1>1, <1>2 DEF Byte

LEMMA InitIInv == Init => IInv
<1> SUFFICES ASSUME Init PROVE IInv
  OBVIOUS
<1>1. unread \in 1..N /\ unread <= ChunkMax
  BY Constants DEF Init, Least
<1>2. [i \in 0..(ChunkMax - 1) |-> Junk] \in [0..(ChunkMax - 1) -> Byte]
  BY DEF Byte
<1>3. /\ chunk \in [0..(ChunkMax - 1) -> Byte]
      /\ \A i \in 0..(unread - 1) : chunk[i] = 0 + i
  BY <1>1, <1>2, DeliveredIs, Constants DEF Init
<1>4. mem \in [0..(size - 1) -> Byte]
  BY DEF Init
<1>5. block \in [0..(0 - 1) -> Byte]
  BY DEF Init
<1>6. Types
  <2>1. \E k \in Lens \cup {0} : block \in [0..(k - 1) -> Byte]
    BY <1>5
  <2>2. pe - p \in Nat /\ p <= pe
    BY <1>1 DEF Init
  <2> QED
    BY <1>1, <1>3, <1>4, <2>1, <2>2, Constants DEF Init, Types
<1>7. WindowIsFile
  <2> SUFFICES ASSUME NEW i \in 0..(pe - p - 1)
               PROVE  ByteAt(p + i) = unread - (pe - p) + i
    BY DEF WindowIsFile
  <2>1. 1 + i \in 0..(unread - 1) /\ p = 1 /\ pe = unread
    BY <1>1 DEF Init
  <2>2. ByteAt(p + i) = chunk[1 + i]
    BY <2>1 DEF Init, ByteAt
  <2> QED
    BY <1>1, <1>3, <2>1, <2>2
<1> QED
  BY <1>1, <1>6, <1>7, Constants
     DEF Init, IInv, Delivery, Allocation, Place, Filling, HalfTurn, AtEnd

LEMMA RequestIInv == ASSUME IInv, NEW l \in Lens, NEW nd \in BOOLEAN, Request(l, nd) PROVE IInv'
<1>1. l \in Nat /\ l > 0
  BY Constants
<1>2. /\ pc = "idle"
      /\ UNCHANGED <<unread, chunk, mem, size, gen, sblen, place, p, pe, c, block>>
  BY DEF Request, buffers
<1>3. granted' \in 0..(pe - p)
  BY <1>1 DEF Request, IInv, Types
<1>4. /\ pc' \in {"idle", "turn", "error"}
      /\ len' \in Lens \cup {0} /\ need' \in BOOLEAN
      /\ pc' = "turn" => c = 0 /\ 0 < len' /\ len' <= MaxBuf /\ pe - p < len'
  BY <1>1 DEF Request, IInv, Types
<1>5. Types'
  BY <1>2, <1>3, <1>4 DEF IInv, Types
<1>6. WindowIsFile'
  BY <1>2 DEF IInv, WindowIsFile, ByteAt
<1> QED
  BY <1>2, <1>4, <1>5, <1>6 DEF IInv, Delivery, Allocation, Place, Filling, HalfTurn, AtEnd

LEMMA MoveRemainderIInv == ASSUME IInv, MoveRemainder PROVE IInv'
<1> DEFINE n == pe - p
           window == [i \in 0..(n - 1) |-> ByteAt(p + i)]
<1>1. /\ pc = "turn" /\ pc' = "refill"
      /\ UNCHANGED <<unread, chunk, c, len, need, granted, block>>
  BY DEF MoveRemainder
<1>2. n \in Nat /\ c = 0 /\ len \in Nat /\ 0 < len /\ n < len
  BY <1>1, Constants DEF IInv, Types, Filling
<1>3. CASE n = 0
  <2>1. sblen' = 0 /\ UNCHANGED <<mem, size, gen, place, p, pe>>
    BY <1>3 DEF MoveRemainder
  <2>2. Types'
    BY <2>1, <1>1 DEF IInv, Types
  <2>3. Place' /\ WindowIsFile' /\ HalfTurn'
    BY <2>1, <1>3 DEF IInv, Types, Place, WindowIsFile, HalfTurn
  <2> QED
    BY <2>1, <2>2, <2>3, <1>1 DEF IInv, Delivery, Allocation, Filling, AtEnd
<1>4. CASE n > 0
  <2>1. /\ IF sblen = 0 THEN BufNeed(len) ELSE UNCHANGED <<size, gen>>
        /\ mem' = Stored(mem, size, size', 0, n, window)
        /\ sblen' = n /\ place' = gen' /\ p' = 0 /\ pe' = n
    BY <1>4, <1>2 DEF MoveRemainder, Rebase
  <2>2. size' \in Nat /\ n <= size' /\ gen' \in Nat /\ gen' > 0
    <3>1. CASE sblen = 0
      BY <3>1, <2>1, <1>2, BufNeedIs DEF IInv
    <3>2. CASE sblen # 0
      BY <3>2, <2>1, <1>4, <1>2 DEF IInv, Types, Place, Allocation
    <3> QED
      BY <3>1, <3>2
  <2>3. \A i \in 0..(n - 1) : window[i] = ByteAt(p + i) /\ window[i] \in Byte
    BY WindowByte
  <2> HIDE DEF window
  <2>4. /\ mem' \in [0..(size' - 1) -> Byte]
        /\ \A i \in 0..(n - 1) : mem'[0 + i] = window[i]
    <3>1. /\ mem \in [0..(size - 1) -> Byte] /\ size \in Nat
          /\ 0 \in Nat /\ n \in Nat /\ 0 + n <= size' /\ size' \in Nat
      BY <1>2, <2>2 DEF IInv, Types
    <3>2. \A i \in 0..(n - 1) : window[i] \in Byte
      BY <2>3
    <3> HIDE DEF n
    <3>3. Stored(mem, size, size', 0, n, window) \in [0..(size' - 1) -> Byte]
      BY <3>1, <3>2, StoredIs
    <3>4. \A i \in 0..(n - 1) : Stored(mem, size, size', 0, n, window)[0 + i] = window[i]
      BY <3>1, <3>2, StoredIs
    <3> QED
      BY <2>1, <3>3, <3>4
  <2>5. \A i \in 0..(n - 1) : mem'[0 + i] = unread - n + i
    BY <2>3, <2>4, WindowByte
  <2>6. Types'
    <3>1. sblen' \in 0..size' /\ place' \in 0..gen' /\ granted' \in 0..(pe' - p')
      BY <2>1, <2>2, <1>1, <1>2, Numbers
    <3>2. p' \in Nat /\ pe' \in Nat /\ p' <= pe'
      BY <2>1, <1>2
    <3>3. /\ unread' \in 1..N /\ chunk' \in [0..(ChunkMax - 1) -> Byte]
          /\ c' \in {-1, 0} /\ pc' \in {"idle", "turn", "refill", "error"}
          /\ len' \in Lens \cup {0} /\ need' \in BOOLEAN
          /\ \E k \in Lens \cup {0} : block' \in [0..(k - 1) -> Byte]
      BY <1>1 DEF IInv, Types
    <3>4. size' \in Nat /\ gen' \in Nat /\ mem' \in [0..(size' - 1) -> Byte]
      BY <2>2, <2>4
    <3> QED
      BY <3>1, <3>2, <3>3, <3>4 DEF Types
  <2>7. WindowIsFile'
    <3> SUFFICES ASSUME NEW i \in 0..(pe' - p' - 1)
                 PROVE  ByteAt(p + i)' = unread' - (pe' - p') + i
      BY DEF WindowIsFile
    <3>1. i \in 0..(n - 1)
      BY <2>1, <1>2
    <3>2. ByteAt(p + i)' = mem'[0 + i]
      BY <2>1, <2>2, Constants DEF ByteAt
    <3> QED
      BY <3>1, <3>2, <2>1, <2>5, <1>1, <1>2
  <2>8. Place' /\ HalfTurn' /\ Allocation' /\ Filling' /\ Delivery' /\ AtEnd'
    BY <2>1, <2>2, <1>1, <1>2, <1>4
       DEF IInv, Types, Place, HalfTurn, Allocation, Filling, Delivery, AtEnd
  <2> QED
    BY <2>6, <2>7, <2>8 DEF IInv
<1> QED
  BY <1>2, <1>3, <1>4

LEMMA EndOfFileIInv == ASSUME IInv, EndOfFile PROVE IInv'
<1>1. /\ pc = "refill" /\ unread = N
      /\ UNCHANGED <<unread, chunk, mem, size, gen, sblen, place, p, pe, len, need, block>>
      /\ pc' \in {"idle", "error"}
      /\ c' \in {-1, 0}
      /\ granted' \in 0..(pe - p)
  BY DEF EndOfFile, NoMore, EndIsBad, buffers, IInv, Types
<1>2. Types'
  BY <1>1 DEF IInv, Types
<1>3. WindowIsFile'
  BY <1>1 DEF IInv, WindowIsFile, ByteAt
<1> QED
  BY <1>1, <1>2, <1>3 DEF IInv, Delivery, Allocation, Place, Filling, HalfTurn, AtEnd

LEMMA RefillIInv == ASSUME IInv, Refill PROVE IInv'
<1> DEFINE n == pe - p
<1>1. /\ pc = "refill"
      /\ UNCHANGED <<c, len, need, block>>
  BY DEF Refill
<1>2. PICK sz \in 1..Least(ChunkMax, N - unread) :
        /\ chunk' = Delivered(chunk, unread, sz)
        /\ unread' = unread + sz
        /\ p' = 0
        /\ pe' = n + sz
        /\ \/ /\ n > 0
              /\ BufNeed(Most(n + sz, len))
              /\ mem' = Stored(mem, size, size', sblen, sz, chunk')
              /\ sblen' = n + sz
              /\ place' = gen'
           \/ /\ n = 0
              /\ place' = Reader
              /\ UNCHANGED <<mem, size, gen, sblen>>
        /\ IF n + sz >= len
             THEN pc' = "idle" /\ granted' = len
             ELSE pc' = "turn" /\ UNCHANGED granted
  BY Numbers DEF Refill, Rebase, Enough
<1>3. sz \in Nat /\ sz > 0 /\ sz <= ChunkMax /\ unread + sz <= N
  BY Numbers DEF Least
<1>4. n \in Nat /\ c = 0 /\ len \in Nat /\ 0 < len /\ len <= MaxBuf /\ n < len /\ n < unread
  BY <1>1, Numbers DEF IInv, Filling
<1>5. /\ chunk' \in [0..(ChunkMax - 1) -> Byte]
      /\ \A i \in 0..(sz - 1) : chunk'[i] = unread + i
  BY <1>2, <1>3, Numbers, DeliveredIs, SMTT(30) DEF IInv, Types
<1>6. /\ pc' \in {"idle", "turn"}
      /\ pc' = "turn" => n + sz < len
      /\ granted' \in 0..(pe' - p')
  BY <1>2, <1>3, <1>4, Numbers
<1>7. /\ unread' \in 1..N /\ c' \in {-1, 0} /\ len' \in Lens \cup {0} /\ need' \in BOOLEAN
      /\ \E k \in Lens \cup {0} : block' \in [0..(k - 1) -> Byte]
      /\ p' \in Nat /\ pe' \in Nat /\ p' <= pe'
  BY <1>1, <1>2, <1>3, <1>4, Numbers DEF IInv, Types
<1>8. Delivery' /\ Filling' /\ AtEnd' /\ HalfTurn'
  BY <1>1, <1>2, <1>3, <1>4, <1>6, Numbers DEF Delivery, Filling, AtEnd, HalfTurn
<1>9. CASE n = 0
  <2>1. place' = Reader /\ UNCHANGED <<mem, size, gen, sblen>> /\ pe' = sz /\ sblen = 0
    BY <1>1, <1>2, <1>3, <1>9, Numbers DEF IInv, HalfTurn
  <2>2. Types'
    <3>1. /\ size' \in Nat /\ gen' \in Nat /\ sblen' \in 0..size' /\ place' \in 0..gen'
          /\ mem' \in [0..(size' - 1) -> Byte]
      BY <2>1, Constants DEF IInv, Types
    <3>2. pc' \in {"idle", "turn", "refill", "error"}
      BY <1>6
    <3> QED
      BY <3>1, <3>2, <1>5, <1>6, <1>7 DEF Types
  <2>3. Place' /\ Allocation'
    BY <2>1, <1>2, <1>3 DEF IInv, Place, Allocation
  <2>4. WindowIsFile'
    <3> SUFFICES ASSUME NEW i \in 0..(pe' - p' - 1)
                 PROVE  ByteAt(p + i)' = unread' - (pe' - p') + i
      BY DEF WindowIsFile
    <3>1. i \in 0..(sz - 1) /\ p' + i = i
      BY <2>1, <1>2, <1>3
    <3>2. ByteAt(p + i)' = chunk'[i]
      BY <2>1, <3>1 DEF ByteAt
    <3>3. unread' - (pe' - p') + i = unread + i
      BY <3>1, <2>1, <1>2, <1>3, Numbers
    <3> QED
      BY <3>1, <3>2, <3>3, <1>5
  <2> QED
    BY <2>2, <2>3, <2>4, <1>8 DEF IInv
<1>10. CASE n > 0
  <2>1. /\ BufNeed(Most(n + sz, len))
        /\ mem' = Stored(mem, size, size', sblen, sz, chunk')
        /\ sblen' = n + sz /\ place' = gen'
    BY <1>2, <1>10
  <2>2. place = gen /\ gen > 0 /\ p = 0 /\ sblen = pe /\ sblen = n
    BY <1>1, <1>10, Numbers DEF IInv, HalfTurn
  <2>3. Most(n + sz, len) \in Nat /\ Most(n + sz, len) > 0 /\ n + sz <= Most(n + sz, len)
    BY <1>3, <1>4 DEF Most
  <2>4. /\ size' \in Nat /\ n + sz <= size' /\ size' >= size
        /\ gen' \in Nat /\ gen' > 0
    <3>1. PICK want \in Nat : want = Most(n + sz, len)
      BY <2>3
    <3>2. BufNeed(want) /\ want > 0 /\ n + sz <= want
      BY <3>1, <2>1, <2>3 DEF BufNeed
    <3>3. size' \in Nat /\ size' >= want /\ size' >= size /\ gen' \in Nat /\ gen' > 0
      BY <3>2, BufNeedIs DEF IInv
    <3> QED
      BY <3>2, <3>3, <1>3, <1>4, Numbers
  <2>5. /\ mem \in [0..(size - 1) -> Byte] /\ size \in Nat /\ n <= size
        /\ sblen \in Nat /\ sz \in Nat /\ sblen + sz <= size'
    BY <2>2, <2>4, <1>3, <1>4, Numbers DEF IInv, Types
  <2>6. \A i \in 0..(sz - 1) : chunk'[i] \in Byte
    BY <1>3, <1>5, Numbers, SMTT(30) DEF Byte
  <2>7. mem' \in [0..(size' - 1) -> Byte]
    BY <2>1, <2>4, <2>5, <2>6, StoredIs
  <2>8. \A i \in 0..(sz - 1) : mem'[sblen + i] = chunk'[i]
    BY <2>1, <2>4, <2>5, <2>6, StoredIs, SMTT(30)
  <2>9. \A i \in 0..(sblen - 1) : i < size => mem'[i] = mem[i]
    BY <2>1, <2>4, <2>5, <2>6, StoredIs, SMTT(30)
  <2>10. Types'
    <3>1. sblen' \in 0..size' /\ place' \in 0..gen'
      BY <2>1, <2>4, <1>3, <1>4
    <3> QED
      BY <3>1, <2>4, <2>7, <1>5, <1>6, <1>7 DEF Types
  <2>11. Place' /\ Allocation'
    BY <2>1, <2>4, <1>2, <1>3, <1>4 DEF Place, Allocation
  <2>12. WindowIsFile'
    <3> SUFFICES ASSUME NEW i \in 0..(pe' - p' - 1)
                 PROVE  ByteAt(p + i)' = unread' - (pe' - p') + i
      BY DEF WindowIsFile
    <3>1. i \in 0..(n + sz - 1) /\ p' + i = i
      BY <1>2, <1>3, <1>4
    <3>2. ByteAt(p + i)' = mem'[i]
      BY <2>1, <2>4, <3>1, Constants DEF ByteAt
    <3>3. unread' - (pe' - p') + i = unread - n + i
      BY <1>2, <1>3, <1>4, <3>1, Numbers
    <3>4. CASE i < n
      <4>1. i \in 0..(n - 1) /\ i \in 0..(sblen - 1) /\ i < size /\ p + i = i
        BY <3>1, <3>4, <2>2, <2>5, <1>4
      <4>2. mem'[i] = mem[i]
        BY <4>1, <2>9
      <4>3. ByteAt(p + i) = mem[i]
        BY <4>1, <2>2, Constants DEF ByteAt
      <4>4. ByteAt(p + i) = unread - n + i
        BY <4>1 DEF IInv, WindowIsFile
      <4> QED
        BY <4>2, <4>3, <4>4, <3>2, <3>3
    <3>5. CASE ~(i < n)
      <4>1. i - n \in 0..(sz - 1) /\ sblen + (i - n) = i
        BY <3>1, <3>5, <2>2, <1>3, <1>4
      <4>2. mem'[i] = chunk'[i - n]
        BY <4>1, <2>8
      <4>3. chunk'[i - n] = unread + (i - n)
        BY <4>1, <1>5
      <4> QED
        BY <4>1, <4>2, <4>3, <3>1, <3>2, <3>3, <1>4, Numbers
    <3> QED
      BY <3>4, <3>5
  <2> QED
    BY <2>10, <2>11, <2>12, <1>8 DEF IInv
<1> QED
  BY <1>4, <1>9, <1>10

LEMMA TakeIInv == ASSUME IInv, NEW k \in Lens, Take(k) PROVE IInv'
<1>1. k \in Nat /\ k > 0
  BY Constants
<1>2. /\ pc = "idle" /\ k <= granted
      /\ block' = [i \in 0..(k - 1) |-> ByteAt(p + i)]
      /\ p' = p + k
      /\ granted' = granted - k
      /\ UNCHANGED <<unread, size, gen, sblen, place, pe, c, pc, len, need>>
  BY DEF Take
<1>3. /\ k <= pe - p /\ p' = p + k /\ p' <= pe /\ granted' = granted - k
       /\ unread' = unread /\ pe' = pe
  BY <1>1, <1>2, Numbers, SMTT(30)
<1>4. p \in Nat /\ pe \in Nat /\ k \in Nat /\ unread \in Nat
  BY <1>1, Numbers
<1>5. \A i \in 0..(k - 1) : ByteAt(p + i) \in Byte
  <2> SUFFICES ASSUME NEW i \in 0..(k - 1) PROVE ByteAt(p + i) \in Byte
    OBVIOUS
  <2>1. i \in 0..(pe - p - 1)
    BY <1>3, <1>4
  <2> QED
    BY <2>1, WindowByte
<1>6. block' \in [0..(k - 1) -> Byte]
  BY <1>2, <1>5
<1>7. /\ p' \in Nat /\ p' <= pe /\ granted' \in 0..(pe - p') /\ pe - p' < unread
      /\ pe > p' => pe > p
  <2>1. /\ p \in Nat /\ pe \in Nat /\ granted \in Nat /\ unread \in Nat
        /\ p <= pe /\ granted <= pe - p /\ pe - p < unread
    BY Numbers
  <2>2. k <= granted /\ p' = p + k /\ granted' = granted - k
    BY <1>2
  <2>3. p' \in Nat /\ p' <= pe /\ pe - p' < unread /\ (pe > p' => pe > p)
    BY <1>1, <2>1, <2>2
  <2>4. granted' \in 0..(pe - p')
    BY <1>1, <2>1, <2>2
  <2> QED
    BY <2>3, <2>4
<1>8. /\ chunk' \in [0..(ChunkMax - 1) -> Byte]
      /\ mem' \in [0..(size - 1) -> Byte]
  <2>1. /\ chunk \in [0..(ChunkMax - 1) -> Byte]
        /\ mem \in [0..(size - 1) -> Byte]
        /\ Junk \in Byte
    BY DEF IInv, Types, Byte
  <2> QED
    BY <2>1 DEF Take
<1>9. \A i \in Nat : i >= p + k =>
        /\ place = Reader /\ i < ChunkMax => chunk'[i] = chunk[i]
        /\ place # Reader /\ i < size => mem'[i] = mem[i]
  <2> SUFFICES ASSUME NEW i \in Nat, i >= p + k
               PROVE  /\ place = Reader /\ i < ChunkMax => chunk'[i] = chunk[i]
                      /\ place # Reader /\ i < size => mem'[i] = mem[i]
    OBVIOUS
  <2>1. i \notin p..(p + k - 1)
    BY <1>1, Numbers
  <2>2. i < ChunkMax => i \in DOMAIN chunk
    BY Constants DEF IInv, Types
  <2>3. i < size => i \in DOMAIN mem
    BY Numbers DEF IInv, Types
  <2> QED
    BY <2>1, <2>2, <2>3 DEF Take
<1>10. Types'
  <2>1. \E m \in Lens \cup {0} : block' \in [0..(m - 1) -> Byte]
    BY <1>6
  <2> QED
    BY <2>1, <1>2, <1>7, <1>8 DEF IInv, Types
<1>11. WindowIsFile'
  <2> SUFFICES ASSUME NEW i \in 0..(pe' - p' - 1)
               PROVE  ByteAt(p + i)' = unread' - (pe' - p') + i
    BY DEF WindowIsFile
  <2>1. k + i \in 0..(pe - p - 1) /\ p' + i = p + (k + i) /\ p' + i \in Nat /\ p' + i >= p + k
        /\ p' + i < pe
    BY <1>3, <1>4
  <2>2. ByteAt(p + (k + i)) = unread - (pe - p) + (k + i)
    BY <2>1, WindowByte
  <2>3. unread' - (pe' - p') + i = unread - (pe - p) + (k + i)
    BY <1>3, <1>4, <2>1
  <2>4. ByteAt(p + i)' = ByteAt(p + (k + i))
    <3>1. CASE place = Reader
      <4>1. p' + i < ChunkMax
        BY <3>1, <2>1, Numbers, Constants DEF IInv, Place
      <4> QED
        BY <3>1, <4>1, <2>1, <1>2, <1>9 DEF ByteAt
    <3>2. CASE place # Reader
      <4>1. place = gen /\ p' + i < size
        BY <3>2, <2>1, Numbers DEF IInv, Place
      <4> QED
        BY <3>2, <4>1, <2>1, <1>2, <1>9 DEF ByteAt
    <3> QED
      BY <3>1, <3>2
  <2> QED
    BY <2>2, <2>3, <2>4
<1> QED
  BY <1>2, <1>7, <1>10, <1>11, Numbers
     DEF IInv, Delivery, Allocation, Place, Filling, HalfTurn, AtEnd

LEMMA NextIInv == IInv /\ [Next]_vars => IInv'
<1> SUFFICES ASSUME IInv, [Next]_vars PROVE IInv'
  OBVIOUS
<1>1. CASE UNCHANGED vars
  <2>1. UNCHANGED <<unread, chunk, mem, size, gen, sblen, place, p, pe, c, pc, len, need,
                    granted, block>>
    BY <1>1 DEF vars, buffers
  <2> QED
    BY <2>1 DEF IInv, Types, Delivery, Allocation, Place, Filling, HalfTurn, AtEnd,
                WindowIsFile, ByteAt
<1> QED
  BY <1>1, RequestIInv, TakeIInv, MoveRemainderIInv, EndOfFileIInv, RefillIInv
     DEF Next, Parser, Fill

-----------------------------------------------------------------------------
LEMMA Invariant == Spec => []IInv
  BY InitIInv, NextIInv, PTL DEF Spec

\* The reader's state has its types in every reachable state.
THEOREM TypeCorrect == Spec => []TypeOK
<1>1. IInv => TypeOK
  BY DEF IInv, Types, TypeOK, Byte
<1> QED
  BY <1>1, Invariant, PTL

\* No input pointer is left behind in memory that a reallocation freed, for
\* any growth of the string buffer, any chunks and any requests.
THEOREM PointersStayLive == Spec => []WindowLive
<1>1. IInv => WindowLive
  BY Numbers, Constants DEF IInv, Place, WindowLive
<1> QED
  BY <1>1, Invariant, PTL

\* No byte is lost, doubled or overwritten while it waits in the window.
THEOREM WindowHoldsTheFile == Spec => []WindowIsFile
<1>1. IInv => WindowIsFile
  BY DEF IInv
<1> QED
  BY <1>1, Invariant, PTL

-----------------------------------------------------------------------------
\* The refinement: every step of the reader is a step of the stream or none.

LEMMA StreamInitially == Init => Stream!StreamInit
  BY Constants DEF Init, Least, Stream!StreamInit

LEMMA RequestStreams ==
  ASSUME IInv, NEW l \in Lens, NEW nd \in BOOLEAN, Request(l, nd)
  PROVE  [Stream!StreamNext]_(Stream!streamVars)
<1>1. l \in Nat /\ l > 0 /\ MaxBuf \in Nat /\ N <= MaxBuf
  BY Constants
<1>2. pc = "idle" /\ len' = l /\ need' = nd /\ UNCHANGED <<unread, p, pe, c, block>>
  BY DEF Request
<1>3. CASE p + l <= pe /\ granted' = l /\ pc' = pc
  <2>1. unread - (pe - p) + l <= N
    BY <1>1, <1>3, Numbers
  <2>2. Stream!Request(l, nd)
    BY <1>2, <1>3, <2>1 DEF Stream!Request, Stream!Outcome
  <2> QED
    BY <2>2 DEF Stream!StreamNext
<1>4. CASE p + l > pe /\ (l > MaxBuf \/ c < 0) /\ pc' = "error" /\ granted' = granted
  <2>1. ~(unread - (pe - p) + l <= N)
    BY <1>1, <1>4, Numbers DEF IInv, AtEnd, Types
  <2>2. l > MaxBuf \/ c = -1
    BY <1>4 DEF IInv, Types
  <2>3. pc' # "idle" /\ (c' = -1) = (c = -1)
    BY <1>2, <1>4
  <2>4. Stream!Outcome(l, nd)
    BY <1>4, <2>1, <2>2, <2>3 DEF Stream!Outcome
  <2>5. Stream!Request(l, nd)
    BY <1>2, <1>4, <2>4 DEF Stream!Request
  <2> QED
    BY <2>5 DEF Stream!StreamNext
<1>5. CASE pc' = "turn" /\ granted' = granted
  <2>1. Stream!Request(l, nd)
    BY <1>2, <1>5 DEF Stream!Request
  <2> QED
    BY <2>1 DEF Stream!StreamNext
<1> QED
  BY <1>3, <1>4, <1>5 DEF Request

LEMMA MoveRemainderStreams == ASSUME IInv, MoveRemainder PROVE UNCHANGED Stream!streamVars
<1>1. /\ pc = "turn" /\ pc' = "refill" /\ UNCHANGED <<unread, c, len, need, granted, block>>
  BY DEF MoveRemainder
<1>2. pe' - p' = pe - p
  BY Numbers DEF MoveRemainder, Rebase
<1> QED
  BY <1>1, <1>2 DEF Stream!streamVars

LEMMA EndOfFileStreams ==
  ASSUME IInv, EndOfFile PROVE [Stream!StreamNext]_(Stream!streamVars)
<1>1. /\ pc = "refill" /\ unread = N /\ UNCHANGED <<unread, p, pe, len, need, block>>
  BY DEF EndOfFile, NoMore
<1>2. c = 0 /\ pe - p < len /\ ~(len > MaxBuf)
  BY <1>1, Numbers, Constants DEF IInv, Filling, Types
<1>3. ~(unread - (pe - p) + len <= N) /\ N - (unread - (pe - p)) = pe - p
  BY <1>1, <1>2, Numbers
<1>4. Stream!Outcome(len, need)
  <2>1. CASE need
    BY <1>1, <1>2, <1>3, <2>1 DEF EndOfFile, EndIsBad, Stream!Outcome
  <2>2. CASE ~need
    BY <1>1, <1>2, <1>3, <2>2 DEF EndOfFile, EndIsBad, Stream!Outcome
  <2> QED
    BY <2>1, <2>2
<1>5. Stream!Answer
  BY <1>1, <1>4 DEF Stream!Answer
<1> QED
  BY <1>5 DEF Stream!StreamNext

LEMMA RefillStreams == ASSUME IInv, Refill PROVE [Stream!StreamNext]_(Stream!streamVars)
<1>1. pc = "refill" /\ UNCHANGED <<c, len, need, block>>
  BY DEF Refill
<1>2. c = 0 /\ pe - p < len /\ len \in Nat
  BY <1>1, Numbers DEF IInv, Filling, Types
<1>3. PICK sz \in 1..Least(ChunkMax, N - unread) :
        /\ unread' = unread + sz /\ p' = 0 /\ pe' = (pe - p) + sz
        /\ IF (pe - p) + sz >= len
             THEN pc' = "idle" /\ granted' = len
             ELSE pc' = "turn" /\ UNCHANGED granted
  BY Numbers DEF Refill, Rebase, Enough
<1>4. sz \in Nat /\ unread + sz <= N
  BY Numbers DEF Least
<1>5. unread' - (pe' - p') = unread - (pe - p)
  BY <1>3, <1>4, Numbers
<1>6. CASE (pe - p) + sz >= len
  <2>1. unread - (pe - p) + len <= N
    BY <1>2, <1>4, <1>6, Numbers
  <2>2. Stream!Answer
    BY <1>1, <1>2, <1>3, <1>5, <1>6, <2>1 DEF Stream!Answer, Stream!Outcome
  <2> QED
    BY <2>2 DEF Stream!StreamNext
<1>7. CASE ~((pe - p) + sz >= len)
  BY <1>1, <1>3, <1>5, <1>7 DEF Stream!streamVars
<1> QED
  BY <1>6, <1>7

LEMMA TakeStreams == ASSUME IInv, NEW k \in Lens, Take(k) PROVE Stream!Take(k)
<1>1. /\ pc = "idle" /\ k <= granted /\ p' = p + k /\ granted' = granted - k
      /\ block' = [i \in 0..(k - 1) |-> ByteAt(p + i)]
      /\ UNCHANGED <<unread, pe, c, pc, len, need>>
  BY DEF Take
<1>2. k \in Nat
  BY Constants
<1>3. \A i \in 0..(k - 1) : ByteAt(p + i) = unread - (pe - p) + i
  <2> SUFFICES ASSUME NEW i \in 0..(k - 1) PROVE ByteAt(p + i) = unread - (pe - p) + i
    OBVIOUS
  <2>1. k <= granted /\ granted <= pe - p /\ p \in Nat /\ pe \in Nat /\ granted \in Nat
    BY <1>1, Numbers
  <2>2. i \in 0..(pe - p - 1)
    BY <1>2, <2>1
  <2> QED
    BY <2>2, WindowByte
<1>4. block' = [i \in 0..(k - 1) |-> unread - (pe - p) + i]
  BY <1>1, <1>3
<1>5. unread' - (pe' - p') = unread - (pe - p) + k
  BY <1>1, <1>2, Numbers, SMTT(30)
<1> QED
  BY <1>1, <1>4, <1>5 DEF Stream!Take

LEMMA Steps == IInv /\ [Next]_vars => [Stream!StreamNext]_(Stream!streamVars)
<1> SUFFICES ASSUME IInv, [Next]_vars PROVE [Stream!StreamNext]_(Stream!streamVars)
  OBVIOUS
<1>1. CASE UNCHANGED vars
  BY <1>1 DEF vars, buffers, Stream!streamVars
<1>2. ASSUME NEW k \in Lens, Take(k) PROVE Stream!StreamNext
  BY <1>2, TakeStreams DEF Stream!StreamNext
<1> QED
  BY <1>1, <1>2, RequestStreams, MoveRemainderStreams, EndOfFileStreams, RefillStreams
     DEF Next, Parser, Fill

\* The reader implements the stream: which requests succeed, are cut short or
\* are errors, and what bytes a parser sees of a dump, does not depend on the
\* chunks the file arrives in, nor on the buffers it passes.
THEOREM ReadsTheStream == Spec => ReadsStream
  BY StreamInitially, Invariant, Steps, PTL DEF Spec, ReadsStream, Stream!StreamSpec
=============================================================================
