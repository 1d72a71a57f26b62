----------------------------- MODULE ByteStream -----------------------------
(***************************************************************************)
(* What the bytecode reader (src/src/lj_bcread.c) relies on when it takes  *)
(* bytes from a dump: a file of N bytes read from front to back.  Nothing  *)
(* here knows of chunks or of buffers: whether a request succeeds, is cut  *)
(* short by the end of the file, or is an error, depends on the request    *)
(* and on the file only.  It may be answered at once or later.             *)
(*                                                                         *)
(* A byte of the file is its position.                                     *)
(***************************************************************************)
EXTENDS Integers

CONSTANTS
  N,       \* the length of the file
  Lens,    \* the lengths requested
  MaxBuf   \* the largest request there is room for

VARIABLES
  pos,       \* the next byte of the file
  len,       \* how many bytes the last request asked for
  need,      \* whether all of them are needed, or wanted only
  granted,   \* how many bytes the last request promised and were not taken
  eof,       \* a request met the end of the file
  status,    \* "asked" while a request waits, "ok", or "error" after LJ_ERR_BCBAD
  block      \* the bytes last taken

streamVars == <<pos, len, need, granted, eof, status, block>>

\* The lexer has read the first byte, to tell a dump from a source text.
StreamInit ==
  /\ pos = 1
  /\ len = 0
  /\ need = FALSE
  /\ granted = 0
  /\ eof = FALSE
  /\ status = "ok"
  /\ block = [i \in {} |-> 0]

\* What the file answers to a request for l bytes.  Fewer bytes left is an
\* error if they are needed, if a request was cut short before, or if there
\* would be no room for them; otherwise the request is cut short.
Outcome(l, needed) ==
  IF pos + l <= N
    THEN status' = "ok" /\ granted' = l /\ UNCHANGED eof
    ELSE IF needed \/ eof \/ l > MaxBuf
           THEN status' = "error" /\ UNCHANGED <<granted, eof>>
           ELSE status' = "ok" /\ granted' = N - pos /\ eof' = TRUE

Request(l, needed) ==
  /\ status = "ok"
  /\ len' = l
  /\ need' = needed
  /\ \/ status' = "asked" /\ UNCHANGED <<granted, eof>>
     \/ Outcome(l, needed)
  /\ UNCHANGED <<pos, block>>

Answer ==
  /\ status = "asked"
  /\ Outcome(len, need)
  /\ UNCHANGED <<pos, len, need, block>>

\* A block is the next bytes of the file, in order.
Take(k) ==
  /\ status = "ok"
  /\ k <= granted
  /\ block' = [i \in 0..(k - 1) |-> pos + i]
  /\ pos' = pos + k
  /\ granted' = granted - k
  /\ UNCHANGED <<len, need, eof, status>>

StreamNext ==
  \/ \E l \in Lens, needed \in BOOLEAN : Request(l, needed)
  \/ Answer
  \/ \E k \in Lens : Take(k)

StreamSpec == StreamInit /\ [][StreamNext]_streamVars
=============================================================================
