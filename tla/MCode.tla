-------------------------------- MODULE MCode --------------------------------
(***************************************************************************)
(* Areas of machine code (src/src/lj_mcode.c) and the transactions of the  *)
(* assembler on them.  An area is writable or executable, never both, and  *)
(* the protection of the newest one is cached.                             *)
(***************************************************************************)
EXTENDS Integers, Sequences

CONSTANTS
  AreaSize,   \* the parameter sizemcode: the room of an area
  MaxAreas    \* as many areas as the parameter maxmcode admits

ASSUME AreaAssumption == AreaSize \in Nat \ {0} /\ MaxAreas \in Nat \ {0}

VARIABLES
  mc,         \* the areas, oldest first, and what is known of the newest
  open        \* the assembler has reserved the room of the newest area

codeVars == <<mc, open>>

GEN == "RW"   \* MCPROT_GEN
RUN == "RX"   \* MCPROT_RUN

\* No area.  The protection that is still cached then is not looked at.
NoCode == [prot |-> <<>>, cached |-> RUN, room |-> 0]

\* mcode_protect
Protected(m, prot) ==
  IF m.cached = prot THEN m
  ELSE [m EXCEPT !.prot[Len(m.prot)] = prot, !.cached = prot]

\* mcode_allocarea
Allocated(m) == [prot |-> Append(m.prot, GEN), cached |-> GEN, room |-> AreaSize]

\* lj_mcode_reserve
Reserved(m) == IF m.prot = <<>> THEN Allocated(m) ELSE Protected(m, GEN)

\* lj_mcode_commit
Committed(m, size) == Protected([m EXCEPT !.room = @ - size], RUN)

\* lj_mcode_abort
Aborted(m) == IF m.prot = <<>> THEN m ELSE Protected(m, RUN)

\* lj_mcode_patch, before and after exits in area i are patched.
PatchBegun(m, i) ==
  IF i = Len(m.prot) THEN Protected(m, GEN) ELSE [m EXCEPT !.prot[i] = GEN]
PatchDone(m, i) ==
  IF i = Len(m.prot) THEN Protected(m, RUN) ELSE [m EXCEPT !.prot[i] = RUN]
Patched(m, i) == PatchDone(PatchBegun(m, i), i)

\* A bug: the assembler starts again in the same area.
LimitedForGood(m) == [err : {"MCODEOV", "MCODEAL", "MCODELM"}, mc : {Aborted(m)}]

\* lj_mcode_limiterr: the code is too long for any area, or no area may or can
\* be added, or the assembler starts again in a new one.  What it needs is
\* not compared with the room of the newest area: exit stubs at its bottom
\* and the red zones count as well, so that a fresh one may be too small for
\* code that is not too long, and one with little in it for code that is.
Limited(m) ==
  LET added == IF Len(m.prot) < MaxAreas THEN {Allocated(Aborted(m))} ELSE {}
  IN  [err : {"MCODEOV", "MCODEAL"}, mc : {Aborted(m)}] \cup [err : {"MCODELM"}, mc : added]

-----------------------------------------------------------------------------
CodeInit == mc = NoCode /\ open = FALSE

ReserveCode == ~open /\ open' = TRUE /\ mc' = Reserved(mc)
LimitCode == open /\ UNCHANGED open /\ mc' \in {l.mc : l \in Limited(mc)}

\* The exits of one older trace, in area i, may be patched before the commit.
CommitCode(size) ==
  /\ open /\ open' = FALSE
  /\ size <= mc.room
  /\ \/ mc' = Committed(mc, size)
     \/ \E i \in DOMAIN mc.prot : mc' = Committed(Patched(mc, i), size)
AbortCode == open' = FALSE /\ mc' = Aborted(mc)

\* lj_mcode_free
FreeCode == open' = FALSE /\ mc' = NoCode

CodeNext ==
  ReserveCode \/ LimitCode \/ (\E size \in 1..AreaSize : CommitCode(size))
    \/ AbortCode \/ FreeCode

CodeSpec == CodeInit /\ [][CodeNext]_codeVars

\* Outside transactions no area is writable, and during one the newest area
\* only: "NONE of them is writable" (lj_mcode.c:174).
NoneWritable ==
  \A i \in DOMAIN mc.prot : mc.prot[i] = GEN => open /\ i = Len(mc.prot)
=============================================================================
