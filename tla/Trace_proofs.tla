----------------------------- MODULE Trace_proofs -----------------------------
(***************************************************************************)
(* Proofs about MCode and Trace, for every program and every size of the   *)
(* machine code: that machine code is writable in transactions only, and   *)
(* that Trace uses it so; that the compiler is clean when it is idle; and, *)
(* for every program that does not flush single traces during calls of a   *)
(* stitched trace, that no trace in use is collected.                      *)
(***************************************************************************)
EXTENDS Trace, NumberFacts

-----------------------------------------------------------------------------
(* Machine code.                                                           *)

CodeTypeOK ==
  /\ mc \in [prot : Seq({GEN, RUN}), cached : {GEN, RUN}, room : 0..AreaSize]
  /\ open \in BOOLEAN

\* What is cached is the protection of the newest area,
CachedIsNewest == mc.prot # <<>> => mc.prot[Len(mc.prot)] = mc.cached

\* the older areas run, and the newest one does outside a transaction.
OlderRun == \A i \in DOMAIN mc.prot : i < Len(mc.prot) => mc.prot[i] = RUN
NewestRuns == ~open /\ mc.prot # <<>> => mc.cached = RUN

OpenHasArea == open => mc.prot # <<>>

CodeInv == CodeTypeOK /\ CachedIsNewest /\ OlderRun /\ NewestRuns /\ OpenHasArea

\* The areas as a set of facts, without transactions.
Area(m) ==
  /\ m \in [prot : Seq({GEN, RUN}), cached : {GEN, RUN}, room : 0..AreaSize]
  /\ m.prot # <<>> => m.prot[Len(m.prot)] = m.cached
  /\ \A i \in DOMAIN m.prot : i < Len(m.prot) => m.prot[i] = RUN

\* mcode_protect of the newest area.
LEMMA ProtectedArea ==
  ASSUME NEW m, Area(m), m.prot # <<>>, NEW prot \in {GEN, RUN}
  PROVE  Area(Protected(m, prot)) /\ Protected(m, prot).cached = prot
         /\ Len(Protected(m, prot).prot) = Len(m.prot) /\ Protected(m, prot).prot # <<>>
         /\ Protected(m, prot).room = m.room
<1> DEFINE n == [m EXCEPT !.prot[Len(m.prot)] = prot, !.cached = prot]
<1>1. m \in [prot : Seq({GEN, RUN}), cached : {GEN, RUN}, room : 0..AreaSize]
  BY DEF Area
<1>2. Len(m.prot) \in Nat \ {0} /\ m.prot \in Seq({GEN, RUN})
  BY <1>1
<1>3. n.prot = [m.prot EXCEPT ![Len(m.prot)] = prot] /\ n.cached = prot /\ n.room = m.room
  BY <1>1
<1>4. n.prot \in Seq({GEN, RUN}) /\ Len(n.prot) = Len(m.prot)
      /\ \A i \in 1..Len(m.prot) : n.prot[i] = IF i = Len(m.prot) THEN prot ELSE m.prot[i]
  BY <1>2, <1>3
<1>5. n \in [prot : Seq({GEN, RUN}), cached : {GEN, RUN}, room : 0..AreaSize]
  BY <1>1, <1>4
<1>6. Area(n) /\ n.prot # <<>>
  BY <1>2, <1>3, <1>4, <1>5 DEF Area
<1>7. QED
  BY <1>1, <1>3, <1>4, <1>6 DEF Protected

\* mcode_allocarea, when the areas before the new one run.
LEMMA AllocatedArea ==
  ASSUME NEW m, Area(m), m.prot # <<>> => m.cached = RUN
  PROVE  Area(Allocated(m)) /\ Allocated(m).prot # <<>>
<1> DEFINE n == Allocated(m)
<1>1. m.prot \in Seq({GEN, RUN})
  BY DEF Area
<1>2. n.prot = Append(m.prot, GEN) /\ n.cached = GEN /\ n.room = AreaSize
  BY DEF Allocated
<1>3. n.prot \in Seq({GEN, RUN}) /\ Len(n.prot) = Len(m.prot) + 1
      /\ \A i \in 1..Len(m.prot) : n.prot[i] = m.prot[i]
      /\ n.prot[Len(n.prot)] = GEN
  BY <1>1, <1>2
<1>4. \A i \in 1..Len(m.prot) : m.prot[i] = RUN
  <2> TAKE i \in 1..Len(m.prot)
  <2>1. CASE i < Len(m.prot)
    BY <1>1, <2>1 DEF Area
  <2>2. CASE i = Len(m.prot)
    BY <1>1, <2>2 DEF Area
  <2>3. QED
    BY <1>1, <2>1, <2>2
<1>5. n \in [prot : Seq({GEN, RUN}), cached : {GEN, RUN}, room : 0..AreaSize]
  BY <1>3, AreaAssumption DEF Allocated
<1>6. QED
  BY <1>1, <1>2, <1>3, <1>4, <1>5 DEF Area

\* lj_mcode_abort
LEMMA AbortedArea ==
  ASSUME NEW m, Area(m)
  PROVE  /\ Area(Aborted(m)) /\ (Aborted(m).prot # <<>> => Aborted(m).cached = RUN)
         /\ m.prot # <<>> => Aborted(m).prot # <<>>
<1>1. CASE m.prot = <<>>
  BY <1>1 DEF Aborted
<1>2. CASE m.prot # <<>>
  BY <1>2, ProtectedArea DEF Aborted, RUN
<1>3. QED
  BY <1>1, <1>2

\* lj_mcode_commit
LEMMA CommittedArea ==
  ASSUME NEW m, Area(m), NEW size \in 0..m.room, m.prot # <<>>
  PROVE  Area(Committed(m, size)) /\ Committed(m, size).cached = RUN
<1> DEFINE n == [m EXCEPT !.room = @ - size]
<1>1. m \in [prot : Seq({GEN, RUN}), cached : {GEN, RUN}, room : 0..AreaSize]
  BY DEF Area
<1>2. n.prot = m.prot /\ n.cached = m.cached /\ n.room \in 0..AreaSize
  BY <1>1, AreaAssumption
<1>3. n \in [prot : Seq({GEN, RUN}), cached : {GEN, RUN}, room : 0..AreaSize]
  BY <1>1, <1>2
<1>4. Area(n)
  BY <1>2, <1>3 DEF Area
<1>5. QED
  BY <1>2, <1>4, ProtectedArea DEF Committed, RUN

\* lj_mcode_patch, twice.
LEMMA PatchedArea ==
  ASSUME NEW m, Area(m), NEW i \in DOMAIN m.prot
  PROVE  Area(Patched(m, i)) /\ Patched(m, i).prot # <<>> /\ Patched(m, i).room = m.room
<1>1. m \in [prot : Seq({GEN, RUN}), cached : {GEN, RUN}, room : 0..AreaSize]
  BY DEF Area
<1>2. m.prot # <<>> /\ Len(m.prot) \in Nat \ {0} /\ i \in 1..Len(m.prot)
  BY <1>1
<1>3. CASE i = Len(m.prot)
  <2> DEFINE b == Protected(m, GEN)
  <2>1. Area(b) /\ Len(b.prot) = Len(m.prot) /\ b.room = m.room
    BY <1>2, ProtectedArea DEF GEN
  <2>2. b.prot # <<>>
    BY <1>2, <2>1
  <2> HIDE DEF b
  <2>3. Area(Protected(b, RUN)) /\ Len(Protected(b, RUN).prot) = Len(m.prot)
        /\ Protected(b, RUN).room = m.room
    BY <2>1, <2>2, ProtectedArea DEF RUN
  <2>4. Patched(m, i) = Protected(b, RUN)
    BY <1>3, <2>1 DEF Patched, PatchBegun, PatchDone, b
  <2>5. Protected(b, RUN).prot # <<>>
    BY <1>2, <2>3
  <2>6. QED
    BY <2>3, <2>4, <2>5
<1>4. CASE i # Len(m.prot)
  <2> DEFINE b == [m EXCEPT !.prot[i] = GEN]
  <2>1. b.prot = [m.prot EXCEPT ![i] = GEN] /\ b \in [prot : Seq({GEN, RUN}), cached : {GEN, RUN}, room : 0..AreaSize]
        /\ Len(b.prot) = Len(m.prot) /\ b.cached = m.cached /\ b.room = m.room
    BY <1>1, <1>2 DEF GEN
  <2> HIDE DEF b
  <2> DEFINE d == [b EXCEPT !.prot[i] = RUN]
  <2>2. d.prot = [b.prot EXCEPT ![i] = RUN] /\ d \in [prot : Seq({GEN, RUN}), cached : {GEN, RUN}, room : 0..AreaSize]
        /\ Len(d.prot) = Len(m.prot) /\ d.cached = m.cached /\ d.room = m.room
    BY <1>2, <2>1 DEF RUN
  <2>3. \A j \in 1..Len(m.prot) : d.prot[j] = IF j = i THEN RUN ELSE m.prot[j]
    BY <1>1, <1>2, <2>1, <2>2
  <2>4. Patched(m, i) = d
    BY <1>4, <2>1 DEF Patched, PatchBegun, PatchDone, b
  <2> HIDE DEF d
  <2>5. Area(d)
    BY <1>2, <1>4, <2>2, <2>3, SMTT(30) DEF Area
  <2>6. QED
    BY <1>2, <2>2, <2>4, <2>5
<1>5. QED
  BY <1>3, <1>4

-----------------------------------------------------------------------------
\* When all areas are freed the invariant holds of none.
LEMMA NoArea == Area(NoCode) /\ NoCode.prot = <<>>
<1>1. NoCode.prot = <<>> /\ NoCode.cached = RUN /\ NoCode.room = 0
  BY DEF NoCode
<1>2. NoCode \in [prot : Seq({GEN, RUN}), cached : {GEN, RUN}, room : 0..AreaSize]
  BY AreaAssumption DEF NoCode
<1>3. QED
  BY <1>1, <1>2 DEF Area

\* The parts of the invariant, as one statement of the areas.
LEMMA InvIsArea ==
  CodeInv <=> Area(mc) /\ open \in BOOLEAN /\ (~open /\ mc.prot # <<>> => mc.cached = RUN)
                /\ (open => mc.prot # <<>>)
BY DEF CodeInv, CodeTypeOK, CachedIsNewest, OlderRun, NewestRuns, OpenHasArea, Area

\* There is no area at first.
LEMMA CodeInvInit == CodeInit => CodeInv
BY InvIsArea, NoArea DEF CodeInit

\* Every transaction of lj_mcode.c keeps the invariant.
LEMMA CodeInvStep == CodeInv /\ [CodeNext]_codeVars => CodeInv'
<1> SUFFICES ASSUME CodeInv, [CodeNext]_codeVars PROVE CodeInv'
  OBVIOUS
<1> USE DEF GEN, RUN
<1>1. Area(mc) /\ open \in BOOLEAN /\ (~open /\ mc.prot # <<>> => mc.cached = RUN)
      /\ (open => mc.prot # <<>>)
  BY InvIsArea
<1>2. SUFFICES Area(mc') /\ open' \in BOOLEAN /\ (~open' /\ mc'.prot # <<>> => mc'.cached = RUN)
               /\ (open' => mc'.prot # <<>>)
  BY DEF CodeInv, CodeTypeOK, CachedIsNewest, OlderRun, NewestRuns, OpenHasArea, Area
<1>3. CASE ReserveCode
  <2>1. CASE mc.prot = <<>>
    BY <1>1, <1>3, <2>1, AllocatedArea DEF ReserveCode, Reserved
  <2>2. CASE mc.prot # <<>>
    BY <1>1, <1>3, <2>2, ProtectedArea DEF ReserveCode, Reserved
  <2>3. QED
    BY <2>1, <2>2
<1>4. CASE LimitCode
  <2>1. open /\ open' = open /\ mc' \in {Aborted(mc), Allocated(Aborted(mc))}
    BY <1>4 DEF LimitCode, Limited
  <2>2. Area(Aborted(mc)) /\ (Aborted(mc).prot # <<>> => Aborted(mc).cached = RUN)
        /\ Aborted(mc).prot # <<>>
    BY <1>1, <2>1, AbortedArea
  <2>3. Area(Allocated(Aborted(mc))) /\ Allocated(Aborted(mc)).prot # <<>>
    BY <2>2, AllocatedArea
  <2>4. QED
    BY <1>1, <2>1, <2>2, <2>3
<1>5. ASSUME NEW size \in 1..AreaSize, CommitCode(size) PROVE Area(mc') /\ open' = FALSE /\ mc'.cached = RUN
  <2>1. size \in 0..mc.room
    BY <1>1, <1>5, AreaAssumption DEF CommitCode, Area
  <2>2. CASE mc' = Committed(mc, size)
    BY <1>1, <1>5, <2>1, <2>2, CommittedArea DEF CommitCode
  <2>3. CASE \E i \in DOMAIN mc.prot : mc' = Committed(Patched(mc, i), size)
    <3>1. PICK i \in DOMAIN mc.prot : mc' = Committed(Patched(mc, i), size)
      BY <2>3
    <3>2. Area(Patched(mc, i)) /\ Patched(mc, i).prot # <<>> /\ Patched(mc, i).room = mc.room
      BY <1>1, PatchedArea
    <3>3. QED
      BY <1>5, <2>1, <3>1, <3>2, CommittedArea DEF CommitCode
  <2>4. QED
    BY <1>5, <2>2, <2>3 DEF CommitCode
<1>6. CASE AbortCode
  BY <1>1, <1>6, AbortedArea DEF AbortCode
<1>7. CASE FreeCode
  BY <1>7, NoArea DEF FreeCode
<1>8. CASE UNCHANGED codeVars
  BY <1>1, <1>8 DEF codeVars
<1>9. QED
  BY <1>3, <1>4, <1>5, <1>6, <1>7, <1>8 DEF CodeNext

\* The newest area is writable in a transaction only, the others never.
LEMMA CodeInvImplies == CodeInv => NoneWritable
<1> SUFFICES ASSUME CodeInv, NEW i \in DOMAIN mc.prot, mc.prot[i] = GEN
             PROVE  open /\ i = Len(mc.prot)
  BY DEF NoneWritable
<1>1. Len(mc.prot) \in Nat \ {0} /\ i \in 1..Len(mc.prot) /\ mc.prot # <<>>
  BY DEF CodeInv, CodeTypeOK
<1>2. i = Len(mc.prot)
  BY <1>1 DEF CodeInv, OlderRun, GEN, RUN
<1>3. open
  BY <1>1, <1>2 DEF CodeInv, CachedIsNewest, NewestRuns, GEN, RUN
<1>4. QED
  BY <1>2, <1>3

\* Outside transactions no area of machine code is writable, and in one only
\* the newest area is (lj_mcode.c:172-178): mcode_protect and its cache,
\* new areas, patches of older areas and aborts keep it so.
THEOREM CodeIsProtected == CodeSpec => []NoneWritable
<1>1. CodeSpec => []CodeInv
  BY CodeInvInit, CodeInvStep, PTL DEF CodeSpec
<1>2. QED
  BY <1>1, CodeInvImplies, PTL

-----------------------------------------------------------------------------
(* What a trace leaves behind.                                             *)

JitFields == {"state", "parent", "exitno", "site", "err", "patch", "skip", "again"}
Shaped == DOMAIN jit = JitFields /\ "no" \in DOMAIN cur

\* Machine code is reserved while a trace is assembled or has just failed.
OpenInAsm == open => jit.state \in {"ASM", "ERR"}

\* No number is taken before a trace starts, and no instruction waits to be
\* patched then, nor when it is assembled again.
BeforeStart == jit.state \in {"IDLE", "START"} => cur.no = 0 /\ jit.patch = NoPatch
NoneWaits ==
  jit.state = "ASM" \/ (jit.state = "ERR" /\ jit.err = "MCODELM") => jit.patch = NoPatch

TraceInv == CodeInv /\ Shaped /\ OpenInAsm /\ BeforeStart /\ NoneWaits

\* An area that does not exist is not patched.
LEMMA PatchedOrNot ==
  ASSUME NEW m, NEW i, i \notin DOMAIN m.prot, Area(m), m.prot # <<>>
  PROVE  Patched(m, i) = m
<1>1. m \in [prot : Seq({GEN, RUN}), cached : {GEN, RUN}, room : 0..AreaSize]
  BY DEF Area
<1>2. i # Len(m.prot)
  BY <1>1
<1>3. [m EXCEPT !.prot[i] = GEN] = m /\ [m EXCEPT !.prot[i] = RUN] = m
  <2>1. [m.prot EXCEPT ![i] = GEN] = m.prot /\ [m.prot EXCEPT ![i] = RUN] = m.prot
    BY <1>1
  <2>2. [m EXCEPT !.prot = m.prot] = m
    BY <1>1
  <2>3. QED
    BY <2>1, <2>2
<1>4. PatchBegun(m, i) = m /\ PatchDone(m, i) = m
  BY <1>2, <1>3 DEF PatchBegun, PatchDone
<1>5. QED
  BY <1>4 DEF Patched

-----------------------------------------------------------------------------
\* The collector, the flushes of some traces, and the program's calls leave
\* the compiler and its machine code alone.
Quiet == UNCHANGED <<cur, jit, mc, open>>

LEMMA CollectIsQuiet == Collect => Quiet
BY Zenon DEF Collect, GCStart, TraverseStack, Atomic, GCEnd, TraverseProto, TraverseTrace,
       FreeTrace, GCOnly, Quiet

\* Of the flushes only lj_trace_flushall frees machine code.
LEMMA FlushIsQuiet == Flush => FlushAll \/ Quiet
BY DEF Flush, FlushTrace, Reenable, FlushProto, FlushOnly, Quiet

\* A step of the compiler is one of these.
LEMMA Steps ==
  ASSUME [Next]_vars
  PROVE  \/ Quiet
         \/ StartOff \/ StartFull \/ (\E o \in {"RECORD", "END", "ERR"} : StartTrace(o))
         \/ (\E o \in {"RECORD", "ERR", "ASM"} : End(o))
         \/ Reserve \/ Overrun \/ AsmError \/ Stop \/ Reassemble
         \/ (\E b \in BOOLEAN : Abort(b))
         \/ Record \/ FlushAll
         \/ AsyncAbort \/ (\E s \in Sites : Hot(s))
         \/ (\E s \in Sites, n \in Numbers : HotExit(n, s) \/ Return(n, s))
<1>1. CASE Event
  BY <1>1 DEF Event, Call, Unwind, EventOnly, Quiet
<1>2. CASE Compile
  BY <1>2 DEF Compile, Start, Assemble
<1>3. CASE UNCHANGED vars
  BY <1>3 DEF vars, Quiet
<1>4. QED
  BY <1>1, <1>2, <1>3, CollectIsQuiet, FlushIsQuiet DEF Next

\* Every step of the trace compiler is a transaction, or a part of one, or
\* leaves machine code alone.
LEMMA Transaction ==
  ASSUME TraceInv, [Next]_vars
  PROVE  [CodeNext]_codeVars
<1>1. mc \in [prot : Seq({GEN, RUN}), cached : {GEN, RUN}, room : 0..AreaSize]
      /\ Area(mc) /\ (open => mc.prot # <<>>)
  BY InvIsArea DEF TraceInv, CodeInv, CodeTypeOK, OpenHasArea
<1>2. CASE Quiet
  BY <1>2 DEF Quiet, codeVars
<1>3. CASE StartOff \/ AsmError \/ AsyncAbort
  BY <1>3 DEF StartOff, AsmError, AsyncAbort, EventOnly, codeVars
<1>4. CASE \E o \in {"RECORD", "END", "ERR"} : StartTrace(o)
  BY <1>4 DEF StartTrace, codeVars
<1>5. CASE \E o \in {"RECORD", "ERR", "ASM"} : End(o)
  BY <1>5 DEF End, codeVars
<1>6. CASE Record
  BY Zenon, <1>6 DEF Record, RecordOn, RecordError, RecordStop, RecordDownrec, RecordInto,
              RecordUnroll, RecordOnly, codeVars
<1>7. CASE \/ \E s \in Sites : Hot(s)
           \/ \E s \in Sites, n \in Numbers : HotExit(n, s) \/ Return(n, s)
  BY Zenon, <1>7 DEF Hot, HotExit, Return, EventOnly, codeVars
<1>8. CASE StartFull \/ FlushAll
  BY <1>8 DEF StartFull, FlushAll, FlushedAll, CodeNext, FreeCode
<1>9. CASE Reserve
  BY <1>9 DEF Reserve, CodeNext, ReserveCode, codeVars
<1>10. CASE Overrun
  BY <1>10 DEF Overrun, CodeNext, LimitCode
<1>11. CASE Stop
  <2>1. PICK size \in 1..mc.room :
          mc' = Committed(IF SideStop THEN Patched(mc, slot[jit.parent].area) ELSE mc, size)
    BY <1>11 DEF Stop
  <2>2. open /\ open' = FALSE
    BY <1>11 DEF Stop
  <2>3. size \in 1..AreaSize /\ size <= mc.room
    BY <1>1, AreaAssumption
  <2>4. \/ mc' = Committed(mc, size)
        \/ \E i \in DOMAIN mc.prot : mc' = Committed(Patched(mc, i), size)
    BY <1>1, <2>1, <2>2, PatchedOrNot
  <2>5. QED
    BY <2>2, <2>3, <2>4 DEF CodeNext, CommitCode
<1>12. CASE Reassemble
  BY <1>12 DEF Reassemble, CodeNext, AbortCode
<1>13. CASE \E b \in BOOLEAN : Abort(b)
  BY <1>13 DEF Abort, FlushedAll, CodeNext, AbortCode, FreeCode
<1>14. QED
  BY Steps, <1>2, <1>3, <1>4, <1>5, <1>6, <1>7, <1>8, <1>9, <1>10, <1>11, <1>12, <1>13

-----------------------------------------------------------------------------
\* The invariant of the compiler's own state.
Controlled == Shaped /\ OpenInAsm /\ BeforeStart /\ NoneWaits

\* trace_pendpatch with force leaves nothing to patch.
LEMMA ForcedLeavesNone == Left(TRUE) = NoPatch
BY DEF Left, Due

\* A start has all fields and no patch.
LEMMA StartedFields ==
  ASSUME NEW parent, NEW exitno, NEW s
  PROVE  /\ DOMAIN Started(parent, exitno, s) = JitFields
         /\ Started(parent, exitno, s).state = "START"
         /\ Started(parent, exitno, s).patch = NoPatch
BY DEF Started, Idle, JitFields

\* The idle compiler, and a start that is given up, have no patch either.
LEMMA SilentFields ==
  /\ DOMAIN Idle = JitFields /\ Idle.state = "IDLE" /\ Idle.patch = NoPatch
  /\ DOMAIN Silent = JitFields /\ Silent.state \in {"IDLE", "ERR"}
  /\ Silent.patch = NoPatch /\ Silent.err \in {"", "RECERR"}
BY DEF Silent, Idle, JitFields

\* The program's events start a trace in an idle compiler, or end one.
LEMMA ControlEvent ==
  ASSUME Controlled,
         \/ Quiet \/ FlushAll \/ AsyncAbort \/ \E s \in Sites : Hot(s)
         \/ \E s \in Sites, n \in Numbers : HotExit(n, s) \/ Return(n, s)
  PROVE  Controlled'
<1>1. CASE Quiet
  BY <1>1 DEF Quiet, Controlled, Shaped, OpenInAsm, BeforeStart, NoneWaits
<1>2. CASE FlushAll
  BY <1>2 DEF FlushAll, FlushedAll, MayFlush, Controlled, Shaped, OpenInAsm, BeforeStart, NoneWaits
<1>3. CASE AsyncAbort
  <2>1. UNCHANGED <<cur, open>> /\ jit.state = "RECORD"
        /\ jit' = [jit EXCEPT !.state = "ABORTED"]
    BY <1>3 DEF AsyncAbort, EventOnly
  <2>2. DOMAIN jit' = JitFields /\ jit'.state = "ABORTED"
    BY <2>1 DEF Controlled, Shaped, JitFields
  <2>3. QED
    BY <2>1, <2>2 DEF Controlled, Shaped, OpenInAsm, BeforeStart, NoneWaits
<1>4. CASE \/ \E s \in Sites : Hot(s)
           \/ \E s \in Sites, n \in Numbers : HotExit(n, s) \/ Return(n, s)
  <2>1. /\ jit.state = "IDLE" /\ UNCHANGED <<cur, open>>
        /\ \E parent, exitno, s : jit' = Started(parent, exitno, s)
    BY Zenon, <1>4 DEF Hot, HotExit, Return, EventOnly
  <2>2. DOMAIN jit' = JitFields /\ jit'.state = "START" /\ jit'.patch = NoPatch
    BY <2>1, StartedFields
  <2>3. QED
    BY <2>1, <2>2 DEF Controlled, Shaped, OpenInAsm, BeforeStart, NoneWaits
<1>5. QED
  BY <1>1, <1>2, <1>3, <1>4

\* trace_start takes a number, or gives up without a trace.
LEMMA ControlStart ==
  ASSUME Controlled,
         StartOff \/ StartFull \/ \E o \in {"RECORD", "END", "ERR"} : StartTrace(o)
  PROVE  Controlled'
<1>1. CASE StartOff \/ StartFull
  <2>1. jit.state = "START" /\ jit' = Silent /\ cur' = cur /\ (open' => open)
    BY <1>1 DEF StartOff, StartFull, FlushedAll
  <2>2. jit'.state \in {"IDLE", "ERR"} /\ jit'.patch = NoPatch /\ jit'.err # "MCODELM"
        /\ DOMAIN jit' = JitFields
    BY Zenon, <2>1, SilentFields
  <2>3. QED
    BY <2>1, <2>2 DEF Controlled, Shaped, OpenInAsm, BeforeStart, NoneWaits
<1>2. ASSUME NEW o \in {"RECORD", "END", "ERR"}, StartTrace(o)
      PROVE  Controlled'
  <2>1. jit.state = "START" /\ open' = open
    BY <1>2 DEF StartTrace
  <2>2. DOMAIN jit' = DOMAIN jit
    BY <1>2 DEF StartTrace
  <2>3. jit'.state = o
    BY <1>2 DEF StartTrace, Controlled, Shaped, JitFields
  <2>4. jit'.err # "MCODELM"
    BY <1>2 DEF StartTrace, Controlled, Shaped, JitFields
  <2>5. DOMAIN cur' = DOMAIN NoTrace
    BY <1>2 DEF StartTrace
  <2>6. QED
    BY <2>1, <2>2, <2>3, <2>4, <2>5 DEF Controlled, Shaped, OpenInAsm, BeforeStart, NoneWaits, NoTrace
<1>3. QED
  BY <1>1, <1>2

\* The recorder mends what waits, and may put off one more instruction, but
\* does not reserve machine code.
LEMMA ControlRecord ==
  ASSUME Controlled, Record
  PROVE  Controlled'
<1>1. jit.state = "RECORD" /\ open' = open /\ DOMAIN cur' = DOMAIN cur
  BY Zenon DEF Record, RecordOn, RecordError, RecordStop, RecordDownrec, RecordInto, RecordUnroll,
         RecordOnly
<1>2. /\ DOMAIN jit' = DOMAIN jit
      /\ jit'.state \in {"RECORD", "ERR", "END"} /\ jit'.err # "MCODELM"
  <2> DEFINE Is(state, err) ==
        /\ DOMAIN Recorded(state, err) = DOMAIN jit
        /\ Recorded(state, err).state = state /\ Recorded(state, err).err = err
  <2>1. Is("RECORD", "") /\ Is("ERR", "RECERR") /\ Is("END", "") /\ Is("ERR", "DOWNREC")
    BY DEF Recorded, Controlled, Shaped, JitFields
  <2>2. CASE RecordOn \/ RecordError \/ RecordStop \/ \E s \in Sites : RecordUnroll(s)
    <3>1. \/ jit' = Recorded("RECORD", "") \/ jit' = Recorded("ERR", "RECERR")
          \/ jit' = Recorded("END", "")
      BY Zenon, <2>2 DEF RecordOn, RecordError, RecordStop, RecordUnroll
    <3>2. QED
      BY Zenon, <2>1, <3>1
  <2>3. ASSUME NEW s \in Sites, RecordDownrec(s)
        PROVE  /\ DOMAIN jit' = DOMAIN jit
               /\ jit'.state = "ERR" /\ jit'.err # "MCODELM"
    <3>1. jit' = [Recorded("ERR", "DOWNREC") EXCEPT !.site = s]
      BY Zenon, <2>3 DEF RecordDownrec
    <3>2. /\ DOMAIN jit' = DOMAIN Recorded("ERR", "DOWNREC")
          /\ jit'.state = Recorded("ERR", "DOWNREC").state
          /\ jit'.err = Recorded("ERR", "DOWNREC").err
      BY Zenon, <2>1, <3>1 DEF Controlled, Shaped, JitFields
    <3>3. QED
      BY Zenon, <2>1, <3>2
  <2>4. ASSUME NEW s \in Sites, RecordInto(s)
        PROVE  /\ DOMAIN jit' = DOMAIN jit
               /\ jit'.state = "RECORD" /\ jit'.err # "MCODELM"
    <3>1. \E patch : jit' = [Recorded("RECORD", "") EXCEPT !.patch = patch]
      BY Zenon, <2>4 DEF RecordInto
    <3>2. /\ DOMAIN jit' = DOMAIN Recorded("RECORD", "")
          /\ jit'.state = Recorded("RECORD", "").state
          /\ jit'.err = Recorded("RECORD", "").err
      BY Zenon, <2>1, <3>1 DEF Controlled, Shaped, JitFields
    <3>3. QED
      BY Zenon, <2>1, <3>2
  <2>5. QED
    BY <2>2, <2>3, <2>4 DEF Record
<1>3. QED
  BY <1>1, <1>2 DEF Controlled, Shaped, OpenInAsm, BeforeStart, NoneWaits

\* The optimizer mends whatever waits before it goes on.
LEMMA ControlEnd ==
  ASSUME Controlled, NEW o \in {"RECORD", "ERR", "ASM"}, End(o)
  PROVE  Controlled'
<1>1. jit.state = "END" /\ open' = open
  BY DEF End
<1>2. DOMAIN cur' = DOMAIN cur
  BY DEF End
<1>3. DOMAIN jit' = DOMAIN jit
  BY DEF End
<1>4. jit'.state = o /\ jit'.patch = NoPatch
  BY ForcedLeavesNone DEF End, Controlled, Shaped, JitFields
<1>5. QED
  BY <1>1, <1>2, <1>3, <1>4 DEF Controlled, Shaped, OpenInAsm, BeforeStart, NoneWaits

\* Assembly keeps its room open until it fails or the trace is saved, and
\* has nothing left to patch.
LEMMA ControlAssemble ==
  ASSUME Controlled, Reserve \/ Overrun \/ AsmError \/ Stop \/ Reassemble
  PROVE  Controlled'
<1>1. CASE Reserve \/ Overrun \/ AsmError
  <2>1. jit.state = "ASM" /\ cur' = cur
    BY <1>1 DEF Reserve, Overrun, AsmError, Unsaved
  <2>2. jit' = jit \/ \E err : jit' = Fail(err)
    BY <1>1 DEF Reserve, Overrun, AsmError
  <2>3. \A err : /\ DOMAIN Fail(err) = DOMAIN jit
                 /\ Fail(err).state = "ERR" /\ Fail(err).patch = jit.patch
    BY DEF Fail, Controlled, Shaped, JitFields
  <2>4. QED
    BY <2>1, <2>2, <2>3 DEF Controlled, Shaped, OpenInAsm, BeforeStart, NoneWaits
<1>2. CASE Stop
  <2>1. jit.state = "ASM" /\ open' = FALSE /\ cur' = NoTrace
        /\ jit' = [Idle EXCEPT !.patch = jit.patch]
    BY <1>2 DEF Stop
  <2>2. DOMAIN jit' = JitFields /\ jit'.state = "IDLE" /\ jit'.patch = jit.patch
    BY Zenon, <2>1 DEF Idle, JitFields
  <2>3. QED
    BY <2>1, <2>2 DEF Controlled, Shaped, OpenInAsm, BeforeStart, NoneWaits, NoTrace
<1>3. CASE Reassemble
  <2>1. /\ jit.state = "ERR" /\ jit.err = "MCODELM" /\ open' = FALSE /\ cur' = cur
        /\ jit' = [jit EXCEPT !.state = "ASM", !.err = ""]
    BY <1>3 DEF Reassemble, Unsaved
  <2>2. DOMAIN jit' = JitFields /\ jit'.state = "ASM" /\ jit'.patch = jit.patch
    BY <2>1 DEF Controlled, Shaped, JitFields
  <2>3. QED
    BY <2>1, <2>2 DEF Controlled, Shaped, OpenInAsm, BeforeStart, NoneWaits
<1>4. QED
  BY <1>1, <1>2, <1>3

\* trace_abort closes the transaction and mends what waits, whether or not
\* another start follows.
LEMMA ControlAbort ==
  ASSUME Controlled, NEW b \in BOOLEAN, Abort(b)
  PROVE  Controlled'
<1>1. open' = FALSE
  BY DEF Abort, FlushedAll
<1>2. CASE Restarts /\ jit.state = "ERR"
  <2>1. \E s : jit' = [Started(0, 0, s) EXCEPT !.again = TRUE, !.patch = NoPatch]
    BY Zenon, <1>2, ForcedLeavesNone DEF Abort
  <2>2. DOMAIN jit' = JitFields /\ jit'.state = "START" /\ jit'.patch = NoPatch
    BY <2>1, StartedFields DEF JitFields
  <2>3. DOMAIN cur' = DOMAIN cur /\ cur'.no = 0
    BY <1>2 DEF Abort, Controlled, Shaped
  <2>4. QED
    BY <1>1, <2>2, <2>3 DEF Controlled, Shaped, OpenInAsm, BeforeStart, NoneWaits
<1>3. CASE ~(Restarts /\ jit.state = "ERR")
  <2>1. jit' = [Idle EXCEPT !.patch = NoPatch] /\ cur' = NoTrace
    BY <1>3, ForcedLeavesNone DEF Abort
  <2>2. DOMAIN jit' = JitFields /\ jit'.state = "IDLE" /\ jit'.patch = NoPatch
    BY Zenon, <2>1 DEF Idle, JitFields
  <2>3. QED
    BY <1>1, <2>1, <2>2 DEF Controlled, Shaped, OpenInAsm, BeforeStart, NoneWaits, NoTrace
<1>4. QED
  BY <1>2, <1>3

-----------------------------------------------------------------------------
\* Nothing is patched, recorded or reserved at first.
LEMMA TraceInvInit == Init => TraceInv
<1>1. ASSUME Init
      PROVE  TraceInv
  <2>1. CodeInv
    BY <1>1, CodeInvInit DEF Init
  <2>2. DOMAIN jit = JitFields /\ jit.state = "IDLE" /\ jit.patch = NoPatch /\ cur = NoTrace
    BY Zenon, <1>1, SilentFields DEF Init
  <2>3. open = FALSE
    BY <1>1 DEF Init, CodeInit
  <2>4. QED
    BY <2>1, <2>2, <2>3 DEF TraceInv, Shaped, OpenInAsm, BeforeStart, NoneWaits, NoTrace
<1>2. QED
  BY <1>1

\* No step of the program, the compiler or the collector breaks it.
LEMMA TraceInvStep == TraceInv /\ [Next]_vars => TraceInv'
<1>1. ASSUME TraceInv, [Next]_vars
      PROVE  TraceInv'
  <2>1. CodeInv'
    BY <1>1, Transaction, CodeInvStep DEF TraceInv
  <2>2. Controlled
    BY <1>1 DEF TraceInv, Controlled
  <2>3. Controlled'
    BY <1>1, <2>2, Steps, ControlEvent, ControlStart, ControlRecord, ControlEnd,
       ControlAssemble, ControlAbort
  <2>4. QED
    BY <2>1, <2>3 DEF TraceInv, Controlled
<1>2. QED
  BY <1>1

\* Whatever ends a trace (trace_stop, trace_abort, a start that is given up
\* or a flush), the idle compiler holds no trace number and no instruction
\* that waits to be patched, and none of the areas of machine code is writable.
THEOREM IdleStaysClean == Spec => []IdleIsClean
<1>1. TraceInv => IdleIsClean
  BY CodeInvImplies DEF TraceInv, OpenInAsm, BeforeStart, IdleIsClean
<1>2. QED
  BY <1>1, TraceInvInit, TraceInvStep, PTL DEF Spec

\* Whatever the compiler does with machine code (lj_asm_trace, trace_stop,
\* trace_abort and lj_trace_flushall), it reserves, commits, limits, aborts
\* and frees it in the order that lj_mcode.c is made for.
THEOREM UsesTransactions == Spec => TransactsCode
<1>1. Init => CodeInit
  BY DEF Init
<1>2. TraceInv /\ [Next]_vars => [CodeNext]_codeVars
  BY Transaction
<1>3. QED
  BY <1>1, <1>2, TraceInvInit, TraceInvStep, PTL DEF Spec, TransactsCode, CodeSpec

-----------------------------------------------------------------------------
(* Why no trace in use is collected.                                       *)

Kept == Traces \ gc.dead
NextRoots == [n \in Numbers |-> NextRoot(n)]
NextSides == [n \in Numbers |-> NextSide(n)]
Refs == [n \in Numbers |-> Children(n)]
ChainedRoots == UNION {Chain(p) : p \in Protos}

\* What the prototypes keep.
Rooted == Reach(UNION {First(p) : p \in Protos}, Refs)

\* A trace that may be in the chain of prototype p.
StartsIn(p, n) ==
  /\ IsTrace(n) /\ slot[n].root = 0
  /\ slot[n].site \in Sites /\ world.proto[slot[n].site] = p

\* The heap of traces.
Closed == \A n \in Kept : Children(n) \subseteq Kept
LinksToRoots == \A n \in Kept : \A m \in Links(n) : m = n \/ slot[m].root = 0
RootsInProto ==
  \A n \in Kept : \A m \in NextRoot(n) :
    slot[n].site \in Sites /\ StartsIn(world.proto[slot[n].site], m)
FirstInProto == \A p \in Protos : First(p) \subseteq Kept /\ \A n \in First(p) : StartsIn(p, n)
Acyclic == \A n \in Kept : n \notin Reach(NextRoot(n), NextRoots)
SidesInChain ==
  \A r \in Kept : slot[r].root = 0 =>
    /\ \A n \in SideChain(r) : slot[n].root = r
    /\ \A n \in {r} \cup SideChain(r) : SideExit(n) \subseteq SideChain(r)
Heap == Closed /\ LinksToRoots /\ RootsInProto /\ FirstInProto /\ Acyclic /\ SidesInChain

\* Compiled code.
Runs(s, n) == n \in Chain(world.proto[s]) /\ slot[n].site = s
SoundCode(c) ==
  \A s \in Sites : /\ c[s].op = "J" => Runs(s, c[s].d)
                   /\ c[s].fori <=> c[s].op = "J" /\ Kind(s) = "FORL"
CodeRuns ==
  /\ SoundCode(code)
  /\ jit.patch # NoPatch =>
       /\ jit.patch.site \in Sites /\ Runs(jit.patch.site, jit.patch.d)
       /\ code[jit.patch.site] = Plain

Waiting == frames \subseteq Rooted
InAreas ==
  \A n \in Traces : /\ slot[n].area \in DOMAIN mc.prot
                    /\ slot[n].root = 0 => slot[n].site \in Sites

\* The compiler's references.
RootOf(n) == IF slot[n].root = 0 THEN n ELSE slot[n].root
Anchored(n, K) ==
  /\ n \in K /\ RootOf(n) \in K
  /\ slot[RootOf(n)].root = 0 /\ n \in {RootOf(n)} \cup SideChain(RootOf(n))
Early == jit.state \in {"START", "RECORD", "ABORTED", "END"}
Compiling == jit.state \in {"RECORD", "ABORTED", "END", "ASM", "ERR"}
Parents ==
  jit.state # "IDLE" =>
    /\ jit.parent = 0 \/ jit.exitno = 0
    /\ jit.parent # 0 => Anchored(jit.parent, Kept) /\ (Early => Anchored(jit.parent, Rooted))
    /\ jit.exitno # 0 =>
         /\ jit.exitno \in Kept /\ slot[jit.exitno].link = 0
         /\ Early => jit.exitno \in Rooted
Current ==
  Compiling =>
    /\ cur.no # 0
    /\ cur.root = IF jit.parent = 0 THEN 0 ELSE RootOf(jit.parent)
    /\ cur.site = Nil <=> jit.parent # 0
    /\ jit.state \in {"RECORD", "ABORTED"} => cur.link = 0
    /\ cur.link \in {0, cur.no} \/ (cur.link \in Kept /\ slot[cur.link].root = 0)
Starting ==
  jit.state = "START" =>
    /\ jit.site \in Sites
    /\ jit.parent = 0 /\ jit.exitno = 0 =>
         /\ code[jit.site].op = ""
         /\ Kind(jit.site) \in {"FORL", "LOOP", "FUNCF"} \/ (jit.again /\ Kind(jit.site) = "RET")
    /\ jit.again => /\ jit.parent = 0 /\ jit.exitno = 0
                    /\ ~pt[world.proto[jit.site]].nojit /\ FreeNumbers # {}
                    /\ cur.root \in Kept \cup {0}
    /\ ~jit.again => cur = NoTrace
RootStarts ==
  Compiling /\ jit.parent = 0 /\ jit.exitno = 0 =>
    /\ cur.site \in Sites /\ code[cur.site].op # "J" /\ jit.patch.site # cur.site
    /\ Kind(cur.site) # "CALL"
Restarting ==
  jit.state = "ERR" /\ jit.err = "DOWNREC" =>
    /\ jit.site \in Sites /\ code[jit.site].op = "" /\ Kind(jit.site) = "RET"
    /\ ~pt[world.proto[jit.site]].nojit /\ jit.patch = NoPatch
    /\ cur.site # jit.site
Resting == jit.state = "IDLE" => cur = NoTrace
Compiler == Parents /\ Current /\ Starting /\ RootStarts /\ Restarting /\ Resting

\* The collector.
Passed == [n \in Numbers |-> IF n \in gc.black \cup ChainedRoots THEN {} ELSE NextRoot(n)]
Covered == Reach(gc.black \cup gc.gray, Passed)
Phases ==
  /\ gc.phase # "sweep" => gc.dead = {}
  /\ gc.phase # "propagate" => gc.black = {} /\ gc.gray = {}
  /\ gc.black \cup gc.gray \cup gc.dead \subseteq Traces
Marking ==
  gc.phase = "propagate" =>
    /\ \A n \in gc.black : Children(n) \subseteq Covered
    /\ \A p \in Protos \ gc.todo : First(p) \subseteq Covered
Collector == Phases /\ Marking

SafeInv == TypeOK /\ Heap /\ CodeRuns /\ Waiting /\ InAreas /\ Compiler /\ Collector

-----------------------------------------------------------------------------
\* Reach has what it starts from and what follows its members,
LEMMA ReachHas ==
  ASSUME NEW N, NEW next \in [N -> SUBSET N], NEW S \in SUBSET N
  PROVE  /\ S \subseteq Reach(S, next) /\ Reach(S, next) \subseteq N
         /\ \A m \in Reach(S, next) : next[m] \subseteq Reach(S, next)
<1>1. DOMAIN next = N
  OBVIOUS
<1>2. ASSUME NEW m \in Reach(S, next), NEW n \in next[m]
      PROVE  n \in Reach(S, next)
  <2>1. m \in N /\ n \in N
    BY <1>1, <1>2 DEF Reach
  <2>2. ASSUME NEW T \in SUBSET N, S \subseteq T, \A k \in T : next[k] \subseteq T
        PROVE  n \in T
    <3>1. m \in T
      BY <1>1, <1>2, <2>2 DEF Reach
    <3>2. QED
      BY <1>2, <2>2, <3>1
  <2>3. QED
    BY <1>1, <2>1, <2>2 DEF Reach
<1>3. S \subseteq Reach(S, next) /\ Reach(S, next) \subseteq N
  BY <1>1 DEF Reach
<1>4. QED
  BY <1>2, <1>3

\* and is the least such set.
LEMMA ReachLeast ==
  ASSUME NEW N, NEW next \in [N -> SUBSET N], NEW S \in SUBSET N, NEW T \in SUBSET N,
         S \subseteq T, \A m \in T : next[m] \subseteq T
  PROVE  Reach(S, next) \subseteq T
<1>1. DOMAIN next = N
  OBVIOUS
<1>2. QED
  BY <1>1 DEF Reach

\* More is reached from more.
LEMMA ReachGrows ==
  ASSUME NEW N, NEW f \in [N -> SUBSET N], NEW g \in [N -> SUBSET N],
         NEW R \in SUBSET N, NEW S \in SUBSET N,
         R \subseteq Reach(S, g),
         \A m \in Reach(S, g) : f[m] \subseteq Reach(S, g)
  PROVE  Reach(R, f) \subseteq Reach(S, g)
<1>1. Reach(S, g) \in SUBSET N
  BY ReachHas
<1>2. QED
  BY <1>1, ReachLeast

\* Steps from nodes that are not reached, and from a node to itself, make no
\* difference.
Alike(N, f, g, S, T) ==
  /\ f \in [N -> SUBSET N] /\ g \in [N -> SUBSET N] /\ S \subseteq T /\ T \subseteq N
  /\ \A m \in T : f[m] \subseteq T
  /\ \A m \in T : f[m] \ {m} = g[m] \ {m}
LEMMA ReachAgrees ==
  ASSUME NEW N, NEW f, NEW g, NEW S, NEW T, Alike(N, f, g, S, T)
  PROVE  Reach(S, f) = Reach(S, g)
<1> USE DEF Alike
<1>1. /\ S \subseteq Reach(S, f) /\ Reach(S, f) \subseteq N
      /\ \A m \in Reach(S, f) : f[m] \subseteq Reach(S, f)
  BY ReachHas
<1>2. /\ S \subseteq Reach(S, g) /\ Reach(S, g) \subseteq N
      /\ \A m \in Reach(S, g) : g[m] \subseteq Reach(S, g)
  BY ReachHas
<1>3. Reach(S, f) \subseteq T
  BY ReachLeast
<1>4. \A m \in Reach(S, f) : g[m] \subseteq Reach(S, f)
  BY <1>1, <1>3
<1>5. Reach(S, g) \subseteq Reach(S, f)
  BY <1>1, <1>4, ReachLeast
<1>6. \A m \in Reach(S, g) : f[m] \subseteq Reach(S, g)
  BY <1>2, <1>3, <1>5
<1>7. Reach(S, f) \subseteq Reach(S, g)
  BY <1>2, <1>6, ReachLeast
<1>8. QED
  BY <1>5, <1>7

-----------------------------------------------------------------------------
\* What the parameters of a program are.
WorldFacts ==
  /\ world.traces \in Nat \ {0} /\ Numbers \subseteq Nat \ {0} /\ Numbers = 1..world.traces
  /\ Nil \notin Sites /\ Nil # Cur
  /\ \A s \in Sites : /\ Kind(s) \in {"FORL", "LOOP", "FUNCF", "RET", "CALL"}
                      /\ world.proto[s] \in Protos
  /\ Nil \notin GCtrace(world) /\ Cur \notin GCtrace(world)
LEMMA WorldFact == world \in Worlds => WorldFacts
<1> SUFFICES ASSUME world \in Worlds PROVE WorldFacts
  OBVIOUS
<1>1. /\ world.kind \in [DOMAIN world.kind -> {"FORL", "LOOP", "FUNCF", "RET", "CALL"}]
      /\ world.traces \in Nat \ {0} /\ Nil \notin DOMAIN world.kind
      /\ Nil \notin GCtrace(world) /\ Cur \notin GCtrace(world)
  BY WorldAssumption
<1>2. QED
  BY <1>1, NilAssumption DEF WorldFacts, Numbers, Sites, Kind, Protos

\* Saved traces have numbers of traces in them.
TraceFacts ==
  /\ Traces \subseteq Numbers /\ \A n \in Numbers : IsTrace(n) <=> n \in Traces
  /\ \A n \in Traces :
       /\ slot[n] \in GCtrace(world) /\ slot[n].site \in Sites \cup {Nil}
       /\ slot[n].root \in Numbers \cup {0} /\ slot[n].link \in Numbers \cup {0}
       /\ slot[n].nextroot \in Numbers \cup {0} /\ slot[n].nextside \in Numbers \cup {0}
       /\ slot[n].side \in Numbers \cup {0}
  /\ \A n \in Numbers :
       /\ NextRoot(n) \subseteq Numbers /\ NextSide(n) \subseteq Numbers
       /\ Links(n) \subseteq Numbers /\ SideExit(n) \subseteq Numbers
       /\ Children(n) \subseteq Numbers
       /\ n \notin Traces => Children(n) = {} /\ SideExit(n) = {}
  /\ \A p \in Protos : First(p) \subseteq Numbers
LEMMA TraceFact == TypeOK => TraceFacts
<1> SUFFICES ASSUME TypeOK PROVE TraceFacts
  OBVIOUS
<1>1. WorldFacts
  BY WorldFact DEF TypeOK
<1>2. slot \in [Numbers -> {Nil, Cur} \cup GCtrace(world)]
      /\ pt \in [Protos -> ProtoStates]
  BY DEF TypeOK, SlotsTyped, CodeTyped
<1>3. Traces \subseteq Numbers /\ \A n \in Numbers : IsTrace(n) <=> n \in Traces
  BY DEF Traces
<1>4. 0..world.traces = Numbers \cup {0}
  BY <1>1 DEF WorldFacts, Numbers
<1>5. ASSUME NEW n \in Traces
      PROVE  /\ slot[n] \in GCtrace(world) /\ slot[n].site \in Sites \cup {Nil}
             /\ slot[n].root \in Numbers \cup {0} /\ slot[n].link \in Numbers \cup {0}
             /\ slot[n].nextroot \in Numbers \cup {0} /\ slot[n].nextside \in Numbers \cup {0}
             /\ slot[n].side \in Numbers \cup {0}
  <2>1. slot[n] \in GCtrace(world)
    BY <1>2, <1>3 DEF IsTrace
  <2>2. QED
    BY <2>1, <1>4 DEF GCtrace, Sites
<1>6. ASSUME NEW n \in Numbers
      PROVE  /\ NextRoot(n) \subseteq Numbers /\ NextSide(n) \subseteq Numbers
             /\ Links(n) \subseteq Numbers /\ SideExit(n) \subseteq Numbers
             /\ Children(n) \subseteq Numbers
             /\ n \notin Traces => Children(n) = {} /\ SideExit(n) = {}
  BY <1>3, <1>5 DEF NextRoot, NextSide, Links, SideExit, Children
<1>7. ASSUME NEW p \in Protos
      PROVE  First(p) \subseteq Numbers
  BY <1>2, <1>4 DEF First, ProtoStates
<1>8. QED
  BY <1>3, <1>5, <1>6, <1>7 DEF TraceFacts

\* The closures that the invariant is about.
ChainFacts ==
  /\ \A p \in Protos :
       /\ First(p) \subseteq Chain(p) /\ Chain(p) \subseteq Numbers
       /\ \A n \in Chain(p) : NextRoot(n) \subseteq Chain(p)
  /\ \A n \in Numbers :
       /\ NextSide(n) \subseteq SideChain(n) /\ SideChain(n) \subseteq Numbers
       /\ \A m \in SideChain(n) : NextSide(m) \subseteq SideChain(n)
  /\ \A p \in Protos : First(p) \subseteq Rooted
  /\ Rooted \subseteq Numbers /\ \A n \in Rooted : Children(n) \subseteq Rooted
  /\ NextRoots \in [Numbers -> SUBSET Numbers] /\ NextSides \in [Numbers -> SUBSET Numbers]
  /\ Refs \in [Numbers -> SUBSET Numbers]
  /\ \A p \in Protos : Chain(p) = Reach(First(p), NextRoots)
  /\ \A n \in Numbers : SideChain(n) = Reach(NextSide(n), NextSides)
LEMMA ChainFact == TraceFacts => ChainFacts
<1> SUFFICES ASSUME TraceFacts PROVE ChainFacts
  OBVIOUS
<1>1. /\ NextRoots \in [Numbers -> SUBSET Numbers] /\ NextSides \in [Numbers -> SUBSET Numbers]
      /\ Refs \in [Numbers -> SUBSET Numbers]
  BY DEF TraceFacts, NextRoots, NextSides, Refs
<1>2. UNION {First(p) : p \in Protos} \subseteq Numbers
      /\ \A p \in Protos : First(p) \subseteq UNION {First(q) : q \in Protos}
  BY DEF TraceFacts
<1>3. ASSUME NEW p \in Protos
      PROVE  /\ First(p) \subseteq Chain(p) /\ Chain(p) \subseteq Numbers
             /\ \A n \in Chain(p) : NextRoot(n) \subseteq Chain(p)
             /\ Chain(p) = Reach(First(p), NextRoots)
  <2>1. First(p) \subseteq Numbers /\ Chain(p) = Reach(First(p), NextRoots)
    BY DEF TraceFacts, Chain, NextRoots
  <2>2. /\ First(p) \subseteq Chain(p) /\ Chain(p) \subseteq Numbers
        /\ \A n \in Chain(p) : NextRoots[n] \subseteq Chain(p)
    BY <1>1, <2>1, ReachHas
  <2>3. QED
    BY <2>1, <2>2 DEF NextRoots
<1>4. ASSUME NEW n \in Numbers
      PROVE  /\ NextSide(n) \subseteq SideChain(n) /\ SideChain(n) \subseteq Numbers
             /\ \A m \in SideChain(n) : NextSide(m) \subseteq SideChain(n)
             /\ SideChain(n) = Reach(NextSide(n), NextSides)
  <2>1. NextSide(n) \subseteq Numbers /\ SideChain(n) = Reach(NextSide(n), NextSides)
    BY DEF TraceFacts, SideChain, NextSides
  <2>2. /\ NextSide(n) \subseteq SideChain(n) /\ SideChain(n) \subseteq Numbers
        /\ \A m \in SideChain(n) : NextSides[m] \subseteq SideChain(n)
    BY <1>1, <2>1, ReachHas
  <2>3. QED
    BY <2>1, <2>2 DEF NextSides
<1>5. /\ UNION {First(p) : p \in Protos} \subseteq Rooted /\ Rooted \subseteq Numbers
      /\ \A n \in Rooted : Refs[n] \subseteq Rooted
  BY ZenonT(60), <1>1, <1>2, ReachHas DEF Rooted
<1>6. QED
  BY <1>1, <1>2, <1>3, <1>4, <1>5 DEF ChainFacts, Refs

-----------------------------------------------------------------------------
\* In a heap that is sound, chains are kept and hold what they should.
HeapFacts ==
  /\ Kept \subseteq Traces /\ Kept \subseteq Numbers
  /\ \A p \in Protos : \A n \in Chain(p) : n \in Kept /\ StartsIn(p, n)
  /\ \A p \in Protos : Chain(p) \subseteq Rooted
  /\ \A n \in Kept : SideChain(n) \subseteq Kept
  /\ \A n \in Kept : Reach(NextRoot(n), NextRoots) \subseteq Kept
  /\ Rooted \subseteq Kept /\ \A n \in Rooted : SideChain(n) \subseteq Rooted
LEMMA HeapFact == TypeOK /\ Heap => HeapFacts
<1> SUFFICES ASSUME TypeOK, Heap PROVE HeapFacts
  OBVIOUS
<1>1. TraceFacts /\ ChainFacts
  BY TraceFact, ChainFact
<1>2. Kept \subseteq Traces /\ Kept \subseteq Numbers
  BY <1>1 DEF Kept, TraceFacts
<1>3. /\ NextRoots \in [Numbers -> SUBSET Numbers] /\ NextSides \in [Numbers -> SUBSET Numbers]
      /\ Refs \in [Numbers -> SUBSET Numbers]
  BY <1>1 DEF ChainFacts
<1>4. \A n \in Kept : NextRoot(n) \subseteq Kept /\ NextSide(n) \subseteq Kept
  BY DEF Heap, Closed, Children
<1>5. ASSUME NEW p \in Protos
      PROVE  Chain(p) \subseteq Kept /\ \A n \in Chain(p) : StartsIn(p, n)
  <2> DEFINE T == {n \in Kept : StartsIn(p, n)}
  <2>1. First(p) \subseteq T /\ T \subseteq Numbers
    BY <1>2 DEF Heap, FirstInProto
  <2>2. ASSUME NEW m \in T
        PROVE  NextRoots[m] \subseteq T
    <3>1. NextRoot(m) \subseteq Kept /\ NextRoots[m] = NextRoot(m)
      BY <1>2, <1>4 DEF NextRoots
    <3>2. \A n \in NextRoot(m) : StartsIn(p, n)
      BY DEF Heap, RootsInProto, StartsIn
    <3>3. QED
      BY <3>1, <3>2
  <2> HIDE DEF T
  <2>3. Reach(First(p), NextRoots) \subseteq T
    BY <1>3, <2>1, <2>2, ReachLeast
  <2>4. QED
    BY <1>1, <2>3 DEF ChainFacts, T
<1>6. ASSUME NEW n \in Kept
      PROVE  SideChain(n) \subseteq Kept /\ Reach(NextRoot(n), NextRoots) \subseteq Kept
  <2>1. NextRoot(n) \subseteq Kept /\ NextSide(n) \subseteq Kept /\ n \in Numbers
    BY <1>2, <1>4
  <2>2. \A m \in Kept : NextRoots[m] \subseteq Kept /\ NextSides[m] \subseteq Kept
    BY <1>2, <1>4 DEF NextRoots, NextSides
  <2>3. Reach(NextRoot(n), NextRoots) \subseteq Kept /\ Reach(NextSide(n), NextSides) \subseteq Kept
    BY <1>2, <1>3, <2>1, <2>2, ReachLeast
  <2>4. QED
    BY <1>1, <2>1, <2>3 DEF ChainFacts
<1>7. Rooted \subseteq Kept
  <2>1. UNION {First(p) : p \in Protos} \subseteq Kept
    BY DEF Heap, FirstInProto
  <2>2. \A m \in Kept : Refs[m] \subseteq Kept
    BY <1>2 DEF Heap, Closed, Refs
  <2>3. QED
    BY <1>2, <1>3, <2>1, <2>2, ReachLeast DEF Rooted
<1>8. ASSUME NEW p \in Protos
      PROVE  Chain(p) \subseteq Rooted
  <2>1. First(p) \subseteq Rooted /\ Rooted \subseteq Numbers /\ First(p) \subseteq Numbers
    BY <1>1 DEF ChainFacts
  <2>2. \A m \in Rooted : NextRoots[m] \subseteq Rooted
    BY <1>1, <2>1 DEF ChainFacts, Children, NextRoots
  <2>3. Reach(First(p), NextRoots) \subseteq Rooted
    BY <1>3, <2>1, <2>2, ReachLeast
  <2>4. QED
    BY <1>1, <2>3 DEF ChainFacts
<1>9. ASSUME NEW n \in Rooted
      PROVE  SideChain(n) \subseteq Rooted
  <2>1. Rooted \subseteq Numbers /\ NextSide(n) \subseteq Rooted /\ n \in Numbers
    BY <1>1 DEF ChainFacts, Children
  <2>2. \A m \in Rooted : NextSides[m] \subseteq Rooted
    BY <1>1, <2>1 DEF ChainFacts, Children, NextSides
  <2>3. Reach(NextSide(n), NextSides) \subseteq Rooted
    BY <1>3, <2>1, <2>2, ReachLeast
  <2>4. QED
    BY <1>1, <2>1, <2>3 DEF ChainFacts
<1>10. QED
  BY <1>2, <1>5, <1>6, <1>7, <1>8, <1>9 DEF HeapFacts

\* A step that leaves the traces that are kept as they are, except that a
\* trace without a link may link to itself.
SameTrace(n) ==
  /\ slot'[n].root = slot[n].root /\ slot'[n].site = slot[n].site
  /\ slot'[n].nextroot = slot[n].nextroot /\ slot'[n].nextside = slot[n].nextside
  /\ slot'[n].side = slot[n].side
  /\ slot'[n].link = slot[n].link \/ (slot[n].link = 0 /\ slot'[n].link = n)
SameHeap ==
  /\ world' = world /\ Kept' = Kept /\ \A p \in Protos : First(p)' = First(p)
  /\ \A n \in Kept : SameTrace(n)
SameChains ==
  /\ Protos' = Protos /\ Numbers' = Numbers /\ Sites' = Sites
  /\ \A p \in Protos : Chain(p)' = Chain(p)
  /\ \A n \in Kept : SideChain(n)' = SideChain(n)
  /\ Rooted' = Rooted
LEMMA HeapKept ==
  ASSUME TypeOK, TypeOK', Heap, SameHeap
  PROVE  Heap' /\ SameChains
<1>1. TraceFacts /\ ChainFacts /\ HeapFacts
  BY TraceFact, ChainFact, HeapFact
<1>2. TraceFacts' /\ ChainFacts'
  BY TraceFact, ChainFact, PTL
<1>3. Protos' = Protos /\ Numbers' = Numbers /\ Sites' = Sites /\ Kept' = Kept
  BY DEF SameHeap, Protos, Numbers, Sites
<1>4. /\ Kept \subseteq Numbers /\ Kept \subseteq Traces /\ Kept \subseteq Traces'
      /\ \A n \in Kept : IsTrace(n) /\ IsTrace(n)'
  BY <1>1, <1>2, <1>3 DEF HeapFacts, TraceFacts, Kept
<1>5. /\ NextRoots \in [Numbers -> SUBSET Numbers] /\ NextSides \in [Numbers -> SUBSET Numbers]
      /\ Refs \in [Numbers -> SUBSET Numbers]
      /\ NextRoots' \in [Numbers -> SUBSET Numbers] /\ NextSides' \in [Numbers -> SUBSET Numbers]
      /\ Refs' \in [Numbers -> SUBSET Numbers]
  BY <1>1, <1>2, <1>3 DEF ChainFacts
<1>6. ASSUME NEW n \in Kept
      PROVE  /\ NextRoot(n)' = NextRoot(n) /\ NextSide(n)' = NextSide(n)
             /\ SideExit(n)' = SideExit(n) /\ Links(n)' \ {n} = Links(n) \ {n}
             /\ Links(n) \subseteq Links(n)' /\ Links(n)' \subseteq Links(n) \cup {n}
             /\ Children(n)' \ {n} = Children(n) \ {n}
             /\ Children(n)' \subseteq Children(n) \cup {n}
             /\ NextRoots'[n] = NextRoots[n] /\ NextSides'[n] = NextSides[n]
             /\ Refs'[n] \ {n} = Refs[n] \ {n}
  <2>1. SameTrace(n) /\ IsTrace(n) /\ IsTrace(n)' /\ n \in Numbers
    BY <1>4 DEF SameHeap
  <2>2. /\ NextRoot(n)' = NextRoot(n) /\ NextSide(n)' = NextSide(n) /\ SideExit(n)' = SideExit(n)
    BY <2>1 DEF SameTrace, NextRoot, NextSide, SideExit
  <2>3. Links(n)' = Links(n) \/ (Links(n) = {} /\ Links(n)' \subseteq {n})
    BY <2>1 DEF SameTrace, Links
  <2>4. QED
    BY <1>3, <2>1, <2>2, <2>3 DEF Children, NextRoots, NextSides, Refs
<1>7. \A n \in Kept : NextRoot(n) \subseteq Kept /\ NextSide(n) \subseteq Kept /\ Children(n) \subseteq Kept
  BY DEF Heap, Closed, Children
<1>8. \A n \in Kept : NextRoots[n] \subseteq Kept /\ NextSides[n] \subseteq Kept /\ Refs[n] \subseteq Kept
  BY <1>4, <1>7 DEF NextRoots, NextSides, Refs
<1> Kept \in SUBSET Numbers
  BY <1>4
<1>a. \A m \in Kept : NextRoots[m] \ {m} = NextRoots'[m] \ {m}
  BY <1>6
<1>b. \A m \in Kept : NextSides[m] \ {m} = NextSides'[m] \ {m}
  BY <1>6
<1>c. \A m \in Kept : Refs[m] \ {m} = Refs'[m] \ {m}
  BY <1>6
<1>9. ASSUME NEW p \in Protos
      PROVE  Chain(p)' = Chain(p)
  <2>1. First(p) \subseteq Kept /\ First(p)' = First(p)
    BY DEF Heap, FirstInProto, SameHeap
  <2>2. First(p) \in SUBSET Numbers /\ \A m \in Kept : NextRoots[m] \subseteq Kept
    BY <1>4, <1>8, <2>1
  <2>3. Alike(Numbers, NextRoots, NextRoots', First(p), Kept)
    BY <1>5, <1>a, <2>1, <2>2 DEF Alike
  <2>4. QED
    BY <1>1, <1>2, <1>3, <2>1, <2>3, ReachAgrees DEF ChainFacts
<1>10. ASSUME NEW n \in Kept
       PROVE  SideChain(n)' = SideChain(n)
              /\ Reach(NextRoot(n)', NextRoots') = Reach(NextRoot(n), NextRoots)
  <2>1. /\ NextSide(n) \subseteq Kept /\ NextSide(n)' = NextSide(n) /\ n \in Numbers
        /\ NextRoot(n) \subseteq Kept /\ NextRoot(n)' = NextRoot(n)
    BY <1>4, <1>6, <1>7
  <2>2. NextSide(n) \in SUBSET Numbers /\ NextRoot(n) \in SUBSET Numbers
        /\ (\A m \in Kept : NextRoots[m] \subseteq Kept)
        /\ \A m \in Kept : NextSides[m] \subseteq Kept
    BY <1>4, <1>8, <2>1
  <2>3. Alike(Numbers, NextSides, NextSides', NextSide(n), Kept)
    BY <1>5, <1>b, <2>1, <2>2 DEF Alike
  <2>4. Alike(Numbers, NextRoots, NextRoots', NextRoot(n), Kept)
    BY <1>5, <1>a, <2>1, <2>2 DEF Alike
  <2>5. QED
    BY <1>1, <1>2, <1>3, <2>1, <2>3, <2>4, ReachAgrees DEF ChainFacts
<1>11. Rooted' = Rooted
  <2> DEFINE F == UNION {First(p) : p \in Protos}
  <2>1. F \subseteq Kept /\ F' = F
    BY <1>3 DEF Heap, FirstInProto, SameHeap
  <2>2. Reach(F, Refs) = Reach(F, Refs')
    <3> HIDE DEF F
    <3>1. F \in SUBSET Numbers /\ \A m \in Kept : Refs[m] \subseteq Kept
      BY <1>4, <1>8, <2>1
    <3>2. Alike(Numbers, Refs, Refs', F, Kept)
      BY <1>5, <1>c, <2>1, <3>1 DEF Alike
    <3>3. QED
      BY <3>2, ReachAgrees
  <2>3. QED
    BY <2>1, <2>2 DEF Rooted
<1>12. \A n \in Kept : slot'[n].root = slot[n].root /\ slot'[n].site = slot[n].site
  BY DEF SameHeap, SameTrace
<1>13. Closed' /\ LinksToRoots'
  <2>1. Closed'
    BY <1>3, <1>6, <1>7 DEF Closed
  <2>2. \A n \in Kept : \A m \in Links(n)' : m = n \/ slot'[m].root = 0
    BY <1>6, <1>7, <1>12 DEF Heap, LinksToRoots, Children
  <2>3. QED
    BY <1>3, <2>1, <2>2 DEF LinksToRoots
<1>14. ASSUME NEW p \in Protos, NEW n \in Kept, StartsIn(p, n)
       PROVE  StartsIn(p, n)'
  BY <1>3, <1>4, <1>12, <1>14 DEF StartsIn, SameHeap
<1>15. RootsInProto' /\ FirstInProto'
  <2>1. FirstInProto'
    BY <1>3, <1>14 DEF Heap, FirstInProto, SameHeap
  <2>2. ASSUME NEW n \in Kept, NEW m \in NextRoot(n)
        PROVE  (slot[n].site \in Sites /\ StartsIn(world.proto[slot[n].site], m))'
    <3>1. slot[n].site \in Sites /\ StartsIn(world.proto[slot[n].site], m) /\ m \in Kept
      BY <1>7 DEF Heap, RootsInProto
    <3>2. world.proto[slot[n].site] \in Protos
      BY <3>1 DEF Protos
    <3>3. StartsIn(world.proto[slot[n].site], m) => (StartsIn(world.proto[slot[n].site], m))'
      BY <1>3, <1>4, <1>12, <3>1 DEF StartsIn, SameHeap
    <3>4. QED
      BY <1>3, <1>12, <3>1, <3>3
  <2>3. RootsInProto'
    BY <1>3, <1>6, <2>2 DEF RootsInProto, SameHeap
  <2>4. QED
    BY <2>1, <2>3
<1>16. Acyclic'
  BY <1>3, <1>10 DEF Heap, Acyclic
<1>17. SidesInChain'
  <2>1. ASSUME NEW r \in Kept, slot'[r].root = 0
        PROVE  /\ \A n \in SideChain(r) : slot'[n].root = r
               /\ \A n \in {r} \cup SideChain(r) : SideExit(n)' \subseteq SideChain(r)
    <3>1. slot[r].root = 0 /\ SideChain(r) \subseteq Kept
      BY <1>1, <1>12, <2>1 DEF HeapFacts
    <3>2. QED
      BY <1>6, <1>12, <3>1 DEF Heap, SidesInChain
  <2>2. QED
    BY <1>3, <1>10, <2>1 DEF SidesInChain
<1>18. QED
  BY <1>3, <1>9, <1>10, <1>11, <1>13, <1>15, <1>16, <1>17 DEF Heap, SameChains

-----------------------------------------------------------------------------
\* Pointers that lead to the same trace, or to none, are the same.
LEMMA SamePointer == \A a, b : {a} \ {0} = {b} \ {0} => a = b
  OBVIOUS

\* trace_flushroot takes one trace from the chain of its prototype, and
\* leaves the rest of the heap as it is.
Unlinks(n) ==
  /\ n \in Traces /\ slot[n].root = 0 /\ slot[n].site \in Sites
  /\ world' = world /\ gc'.dead = gc.dead
  /\ pt' = UnlinkedProto(n) /\ slot' = UnlinkedSlot(n)
SameSides ==
  /\ Numbers' = Numbers /\ Protos' = Protos /\ Sites' = Sites
  /\ Traces' = Traces /\ Kept' = Kept
  /\ \A m \in Numbers : SideChain(m)' = SideChain(m)
  /\ \A m \in Numbers :
       /\ Links(m)' = Links(m) /\ NextSide(m)' = NextSide(m) /\ SideExit(m)' = SideExit(m)
       /\ (slot'[m] = Cur <=> slot[m] = Cur) /\ (slot'[m] = Nil <=> slot[m] = Nil)
       /\ m \in Traces => /\ slot'[m].root = slot[m].root /\ slot'[m].site = slot[m].site
                          /\ slot'[m].link = slot[m].link /\ slot'[m].side = slot[m].side
                          /\ slot'[m].area = slot[m].area
                          /\ slot'[m].linktype = slot[m].linktype

\* What the unlinked trace changes in the pointers.
NewPointers(n, p) ==
  /\ \A q \in Protos \ {p} : First(q)' = First(q)
  /\ First(p)' = IF First(p) = {n} THEN NextRoot(n) ELSE First(p)
  /\ \A m \in Numbers :
       NextRoot(m)' = IF m \in Chain(p) /\ First(p) # {n} /\ NextRoot(m) = {n}
                        THEN NextRoot(n) ELSE NextRoot(m)

\* The step in terms of fields.
LEMMA UnlinkFields ==
  ASSUME TypeOK, TypeOK', NEW n \in Numbers, Unlinks(n), NEW p, p = world.proto[slot[n].site]
  PROVE  SameSides /\ NewPointers(n, p)
<1>1. TraceFacts /\ TraceFacts' /\ ChainFacts /\ ChainFacts' /\ WorldFacts
  BY TraceFact, ChainFact, WorldFact, PTL DEF TypeOK
<1>2. Numbers' = Numbers /\ Protos' = Protos /\ Sites' = Sites /\ p \in Protos
  BY DEF Unlinks, Numbers, Protos, Sites
<1>3. /\ slot \in [Numbers -> {Nil, Cur} \cup GCtrace(world)]
      /\ pt \in [Protos -> ProtoStates]
  BY DEF TypeOK, SlotsTyped, CodeTyped
<1>4. \A m \in Numbers :
        slot'[m] = IF m \in Chain(p) /\ IsTrace(m) /\ pt[p].trace # n /\ slot[m].nextroot = n
                     THEN [slot[m] EXCEPT !.nextroot = slot[n].nextroot] ELSE slot[m]
  BY DEF Unlinks, UnlinkedSlot
<1>5. ASSUME NEW m \in Numbers
      PROVE  /\ (slot'[m] = Cur <=> slot[m] = Cur) /\ (slot'[m] = Nil <=> slot[m] = Nil)
             /\ m \in Traces =>
                  /\ slot'[m].root = slot[m].root /\ slot'[m].site = slot[m].site
                  /\ slot'[m].link = slot[m].link /\ slot'[m].side = slot[m].side
                  /\ slot'[m].nextside = slot[m].nextside
                  /\ slot'[m].area = slot[m].area /\ slot'[m].linktype = slot[m].linktype
                  /\ slot'[m].nextroot =
                       IF m \in Chain(p) /\ pt[p].trace # n /\ slot[m].nextroot = n
                         THEN slot[n].nextroot ELSE slot[m].nextroot
  <2>1. CASE m \in Chain(p) /\ IsTrace(m) /\ pt[p].trace # n /\ slot[m].nextroot = n
    <3>1. slot'[m] = [slot[m] EXCEPT !.nextroot = slot[n].nextroot]
      BY <1>4, <2>1
    <3>2. slot[m] \in GCtrace(world) /\ slot[n].nextroot \in 0..world.traces
      BY <1>1, <2>1 DEF TraceFacts, Unlinks, WorldFacts, IsTrace
    <3>3. slot'[m] \in GCtrace(world)
      BY <3>1, <3>2 DEF GCtrace
    <3>4. slot'[m] \notin {Nil, Cur} /\ slot[m] \notin {Nil, Cur}
      BY <1>1, <3>2, <3>3 DEF WorldFacts
    <3>5. QED
      BY <2>1, <3>1, <3>2, <3>4 DEF GCtrace
  <2>2. CASE ~(m \in Chain(p) /\ IsTrace(m) /\ pt[p].trace # n /\ slot[m].nextroot = n)
    <3>1. slot'[m] = slot[m]
      BY <1>4, <2>2
    <3>2. m \in Traces <=> IsTrace(m)
      BY <1>1 DEF TraceFacts
    <3>3. QED
      BY <2>2, <3>1, <3>2
  <2>3. QED
    BY <2>1, <2>2
<1>6. \A m \in Numbers : IsTrace(m)' = IsTrace(m)
  BY <1>5 DEF IsTrace
<1>7. Traces' = Traces /\ Kept' = Kept
  BY <1>2, <1>6 DEF Traces, Kept, Unlinks
<1>8. \A m \in Numbers :
        /\ Links(m)' = Links(m) /\ NextSide(m)' = NextSide(m) /\ SideExit(m)' = SideExit(m)
  BY <1>1, <1>5, <1>6 DEF Links, NextSide, SideExit, TraceFacts
<1>9. NextSides' = NextSides
  BY <1>2, <1>8 DEF NextSides
<1>10. \A m \in Numbers : SideChain(m)' = SideChain(m)
  BY <1>1, <1>2, <1>8, <1>9 DEF ChainFacts
<1>11. n # 0 /\ pt[p].trace = n <=> First(p) = {n}
  BY <1>1 DEF WorldFacts, First
<1>12. NewPointers(n, p)
  <2>1. IsTrace(n) /\ NextRoot(n) = {slot[n].nextroot} \ {0} /\ n # 0
    BY <1>1 DEF Unlinks, TraceFacts, NextRoot, WorldFacts
  <2>2. \A q \in Protos : pt'[q].trace = IF q = p /\ pt[p].trace = n THEN slot[n].nextroot
                                         ELSE pt[q].trace
    BY <1>2, <1>3 DEF Unlinks, UnlinkedProto
  <2>3. \A q \in Protos \ {p} : First(q)' = First(q)
    BY <2>2 DEF First
  <2>4. First(p)' = IF First(p) = {n} THEN NextRoot(n) ELSE First(p)
    <3>1. First(p)' = {pt'[p].trace} \ {0}
      BY DEF First, Unlinks
    <3>2. QED
      BY <1>2, <2>1, <2>2, <3>1 DEF First
  <2>5. ASSUME NEW m \in Numbers
        PROVE  NextRoot(m)' = IF m \in Chain(p) /\ First(p) # {n} /\ NextRoot(m) = {n}
                                THEN NextRoot(n) ELSE NextRoot(m)
    <3>1. CASE m \in Traces
      <4>1. IsTrace(m) /\ IsTrace(m)' /\ (NextRoot(m) = {n} <=> slot[m].nextroot = n)
        BY <1>1, <1>6, <2>1, <3>1 DEF TraceFacts, NextRoot
      <4>2. First(p) # {n} <=> pt[p].trace # n
        BY <2>1 DEF First
      <4>3. QED
        BY <1>5, <2>1, <3>1, <4>1, <4>2 DEF NextRoot
    <3>2. CASE m \notin Traces
      <4>1. ~IsTrace(m) /\ ~IsTrace(m)'
        BY <1>1, <1>6, <3>2 DEF TraceFacts
      <4>2. QED
        BY <4>1 DEF NextRoot
    <3>3. QED
      BY <3>1, <3>2
  <2>6. QED
    BY <2>3, <2>4, <2>5 DEF NewPointers
<1>13. SameSides
  BY <1>2, <1>5, <1>7, <1>8, <1>10 DEF SameSides
<1>14. QED
  BY <1>12, <1>13

\* It leaves the chains, in which no trace comes twice, without that trace.
Unlinked(n, p) ==
  /\ Chain(p)' = Chain(p) \ {n}
  /\ \A q \in Protos \ {p} : Chain(q)' = Chain(q) /\ n \notin Chain(q)
LEMMA UnlinkChains ==
  ASSUME TypeOK, TypeOK', Heap, NEW n \in Numbers, Unlinks(n),
         NEW p, p = world.proto[slot[n].site], n \in Chain(p)
  PROVE  Unlinked(n, p)
<1>1. SameSides /\ NewPointers(n, p)
  BY UnlinkFields
<1>2. TraceFacts /\ TraceFacts' /\ ChainFacts /\ ChainFacts' /\ HeapFacts
  BY TraceFact, ChainFact, HeapFact, PTL
<1>3. Numbers' = Numbers /\ Protos' = Protos /\ p \in Protos
  BY <1>1 DEF SameSides, Unlinks, Protos
<1>4. /\ NextRoots \in [Numbers -> SUBSET Numbers] /\ NextRoots' \in [Numbers -> SUBSET Numbers]
      /\ \A m \in Numbers : NextRoots[m] = NextRoot(m) /\ NextRoots'[m] = NextRoot(m)'
  BY <1>2, <1>3 DEF ChainFacts, NextRoots
<1>5. \A q \in Protos :
        /\ Chain(q) = Reach(First(q), NextRoots) /\ First(q) \subseteq Numbers
        /\ Chain(q)' = Reach(First(q)', NextRoots') /\ First(q)' \subseteq Numbers
        /\ First(q) \subseteq Chain(q) /\ Chain(q) \subseteq Numbers
        /\ First(q)' \subseteq Chain(q)' /\ Chain(q)' \subseteq Numbers
        /\ \A m \in Chain(q) : NextRoot(m) \subseteq Chain(q)
        /\ \A m \in Chain(q)' : NextRoot(m)' \subseteq Chain(q)'
  BY <1>2, <1>3 DEF ChainFacts, TraceFacts
<1> DEFINE R == Reach(NextRoot(n), NextRoots)
<1>6. /\ n \notin R /\ NextRoot(n) \subseteq R /\ R \subseteq Numbers
      /\ \A m \in R : NextRoot(m) \subseteq R
  <2>1. NextRoot(n) \subseteq Numbers /\ n \in Kept
    BY <1>2, <1>3 DEF TraceFacts, HeapFacts
  <2>2. n \notin R
    BY <2>1 DEF Heap, Acyclic
  <2>3. /\ NextRoot(n) \subseteq R /\ R \subseteq Numbers
        /\ \A m \in R : NextRoots[m] \subseteq R
    BY <1>4, <2>1, ReachHas
  <2>4. QED
    BY <1>4, <2>2, <2>3
<1>7. First(p) = {n} => Chain(p) \subseteq {n} \cup R
  <2> SUFFICES ASSUME First(p) = {n} PROVE Chain(p) \subseteq {n} \cup R
    OBVIOUS
  <2> DEFINE T == {n} \cup R
  <2>1. First(p) \subseteq T /\ T \subseteq Numbers /\ \A m \in T : NextRoots[m] \subseteq T
    BY <1>4, <1>6
  <2> HIDE DEF T
  <2>2. Reach(First(p), NextRoots) \subseteq T
    BY <1>3, <1>4, <1>5, <2>1, ReachLeast
  <2>3. QED
    BY <1>3, <1>5, <2>2 DEF T
<1> HIDE DEF R
<1>8. \A m \in Numbers : NextRoot(m) = {n} \/ n \notin NextRoot(m)
  BY DEF NextRoot
<1>9. First(p) = {n} \/ n \notin First(p)
  BY DEF First
<1>10. \A m \in Numbers :
         NextRoot(m)' = IF m \in Chain(p) /\ First(p) # {n} /\ NextRoot(m) = {n}
                          THEN NextRoot(n) ELSE NextRoot(m)
  BY <1>1 DEF NewPointers
<1>11. First(p)' = IF First(p) = {n} THEN NextRoot(n) ELSE First(p)
  BY <1>1 DEF NewPointers
<1>12. Chain(p)' \subseteq Chain(p) \ {n}
  <2> DEFINE T == Chain(p) \ {n}
  <2>1. NextRoot(n) \subseteq T
    BY <1>3, <1>5, <1>6
  <2>2. First(p)' \subseteq T
    BY <1>3, <1>5, <1>9, <1>11, <2>1
  <2>3. ASSUME NEW m \in T
        PROVE  NextRoots'[m] \subseteq T
    <3>1. m \in Numbers /\ m \in Chain(p) /\ m # n /\ NextRoot(m) \subseteq Chain(p)
      BY <1>3, <1>5
    <3>2. First(p) = {n} => n \notin NextRoot(m)
      BY <1>6, <1>7, <3>1
    <3>3. QED
      BY <1>4, <1>8, <1>10, <2>1, <3>1, <3>2
  <2>4. T \subseteq Numbers
    BY <1>3, <1>5
  <2> HIDE DEF T
  <2>5. Reach(First(p)', NextRoots') \subseteq T
    BY <1>3, <1>4, <1>5, <2>2, <2>3, <2>4, ReachLeast
  <2>6. QED
    BY <1>3, <1>5, <2>5 DEF T
<1>13. Chain(p) \subseteq Chain(p)' \cup {n}
  <2> DEFINE C == Chain(p)'
             T == IF NextRoot(n) \subseteq C THEN C \cup {n} ELSE C
  <2>1. /\ First(p)' \subseteq C /\ C \subseteq Numbers /\ n \notin C
        /\ \A m \in C : NextRoot(m)' \subseteq C
    BY <1>3, <1>5, <1>12
  <2>2. C \subseteq Chain(p)
    BY <1>12
  <2> HIDE DEF C
  <2>3. First(p) \subseteq T
    BY <1>11, <2>1
  <2>4. ASSUME NEW m \in T
        PROVE  NextRoots[m] \subseteq T
    <3>1. CASE m \in C
      <4>1. m \in Numbers /\ m \in Chain(p) /\ NextRoot(m)' \subseteq C
        BY <2>1, <2>2, <3>1
      <4>2. CASE NextRoot(m) = {n}
        BY <1>4, <1>10, <1>11, <2>1, <4>1, <4>2
      <4>3. CASE NextRoot(m) # {n}
        BY <1>4, <1>10, <4>1, <4>3
      <4>4. QED
        BY <4>2, <4>3
    <3>2. CASE m \notin C
      BY <1>4, <3>2
    <3>3. QED
      BY <3>1, <3>2
  <2>5. T \subseteq Numbers /\ T \subseteq C \cup {n}
    BY <2>1
  <2> HIDE DEF T
  <2>6. Reach(First(p), NextRoots) \subseteq T
    BY <1>3, <1>4, <1>5, <2>3, <2>4, <2>5, ReachLeast
  <2>7. QED
    BY <1>3, <1>5, <2>5, <2>6 DEF C
<1>14. ASSUME NEW q \in Protos \ {p}
       PROVE  Chain(q)' = Chain(q) /\ n \notin Chain(q)
  <2>1. \A m \in Chain(q) : m \notin Chain(p)
    BY <1>2, <1>3 DEF HeapFacts, StartsIn
  <2>2. First(q)' = First(q) /\ First(q) \subseteq Chain(q) /\ Chain(q) \subseteq Numbers
    BY <1>1, <1>5 DEF NewPointers
  <2>3. \A m \in Chain(q) : NextRoots[m] \subseteq Chain(q) /\ NextRoots'[m] = NextRoots[m]
    BY <1>4, <1>5, <1>10, <2>1, <2>2
  <2>4. Alike(Numbers, NextRoots, NextRoots', First(q), Chain(q))
    BY <1>4, <2>2, <2>3 DEF Alike
  <2>5. QED
    BY <1>5, <2>1, <2>2, <2>4, ReachAgrees
<1>15. QED
  BY <1>12, <1>13, <1>14 DEF Unlinked

\* The heap is sound without it,
LEMMA UnlinkHeap ==
  ASSUME TypeOK, TypeOK', Heap, NEW n \in Numbers, Unlinks(n),
         NEW p, p = world.proto[slot[n].site], n \in Chain(p)
  PROVE  Heap'
<1>1. SameSides /\ NewPointers(n, p)
  BY UnlinkFields
<1>2. TraceFacts /\ TraceFacts' /\ ChainFacts /\ ChainFacts' /\ HeapFacts
  BY TraceFact, ChainFact, HeapFact, PTL
<1>3. /\ Numbers' = Numbers /\ Protos' = Protos /\ Sites' = Sites /\ Kept' = Kept
      /\ p \in Protos /\ world' = world
  BY <1>1 DEF SameSides, Unlinks, Protos
<1>4. /\ NextRoots \in [Numbers -> SUBSET Numbers] /\ NextRoots' \in [Numbers -> SUBSET Numbers]
      /\ \A m \in Numbers : NextRoots[m] = NextRoot(m) /\ NextRoots'[m] = NextRoot(m)'
  BY <1>2, <1>3 DEF ChainFacts, NextRoots
<1>5. n \in Kept /\ StartsIn(p, n) /\ Kept \subseteq Numbers /\ Kept \subseteq Traces
  BY <1>2, <1>3 DEF HeapFacts
<1>6. ASSUME NEW m \in Numbers
      PROVE  NextRoot(m)' = NextRoot(m) \/ (NextRoot(m) = {n} /\ NextRoot(m)' = NextRoot(n))
  BY <1>1 DEF NewPointers
<1>7. \A m \in Kept : NextRoot(m) \subseteq Kept
  BY DEF Heap, Closed, Children
<1>8. \A m \in Kept : /\ slot'[m].root = slot[m].root /\ slot'[m].site = slot[m].site
                      /\ IsTrace(m)' = IsTrace(m)
  BY <1>1, <1>5 DEF SameSides, IsTrace
<1>9. ASSUME NEW q \in Protos, NEW m \in Kept, StartsIn(q, m)
      PROVE  StartsIn(q, m)'
  BY <1>3, <1>5, <1>8, <1>9 DEF StartsIn
<1>10. Closed'
  <2>1. ASSUME NEW m \in Kept
        PROVE  Children(m)' \subseteq Kept
    <3>1. m \in Numbers /\ Children(m) \subseteq Kept /\ NextRoot(n) \subseteq Kept
      BY <1>5, <1>7 DEF Heap, Closed
    <3>2. /\ Links(m)' = Links(m) /\ NextSide(m)' = NextSide(m)
          /\ NextRoot(m)' \subseteq NextRoot(m) \cup NextRoot(n)
      BY <1>1, <1>6, <3>1 DEF SameSides
    <3>3. QED
      BY <3>1, <3>2 DEF Children
  <2>2. QED
    BY <1>3, <2>1 DEF Closed
<1>11. LinksToRoots'
  <2>1. ASSUME NEW m \in Kept, NEW k \in Links(m)'
        PROVE  k = m \/ slot'[k].root = 0
    <3>1. Links(m)' = Links(m) /\ Links(m) \subseteq Kept
      BY <1>1, <1>5 DEF SameSides, Heap, Closed, Children
    <3>2. QED
      BY <1>8, <2>1, <3>1 DEF Heap, LinksToRoots
  <2>2. QED
    BY <1>3, <2>1 DEF LinksToRoots
<1>12. RootsInProto'
  <2>1. ASSUME NEW m \in Kept, NEW k \in NextRoot(m)'
        PROVE  (slot[m].site \in Sites /\ StartsIn(world.proto[slot[m].site], k))'
    <3>1. \E j \in NextRoot(m) : TRUE
      BY <1>5, <1>6, <2>1
    <3>2. slot[m].site \in Sites
      BY <3>1 DEF Heap, RootsInProto
    <3>3. PICK q \in Protos : q = world.proto[slot[m].site]
      BY <3>2 DEF Protos
    <3>4. k \in Kept /\ StartsIn(q, k)
      <4>1. CASE k \in NextRoot(m)
        BY <1>7, <3>3, <4>1 DEF Heap, RootsInProto
      <4>2. CASE NextRoot(m) = {n} /\ k \in NextRoot(n)
        <5>1. StartsIn(q, n)
          BY <3>3, <4>2 DEF Heap, RootsInProto
        <5>2. QED
          BY <1>5, <1>7, <4>2, <5>1 DEF Heap, RootsInProto, StartsIn
      <4>3. QED
        BY <1>5, <1>6, <2>1, <4>1, <4>2
    <3>5. StartsIn(world.proto[slot[m].site], k) => (StartsIn(world.proto[slot[m].site], k))'
      BY <1>3, <1>5, <1>8, <3>4 DEF StartsIn
    <3>6. QED
      BY <1>3, <1>8, <3>2, <3>3, <3>4, <3>5
  <2>2. QED
    BY <1>3, <2>1 DEF RootsInProto, StartsIn
<1>13. FirstInProto'
  <2>1. ASSUME NEW q \in Protos, NEW k \in First(q)'
        PROVE  k \in Kept /\ StartsIn(q, k)
    <3>1. CASE k \in First(q)
      BY <3>1 DEF Heap, FirstInProto
    <3>2. CASE q = p /\ k \in NextRoot(n)
      BY <1>5, <1>7, <3>2 DEF Heap, RootsInProto, StartsIn
    <3>3. QED
      BY <1>1, <2>1, <3>1, <3>2 DEF NewPointers
  <2>2. QED
    BY <1>3, <1>9, <2>1 DEF FirstInProto
<1>14. Acyclic'
  <2>1. ASSUME NEW m \in Kept
        PROVE  m \notin Reach(NextRoot(m)', NextRoots')
    <3> DEFINE R == Reach(NextRoot(m), NextRoots)
    <3>1. m \notin R /\ m \in Numbers /\ NextRoot(m) \subseteq Numbers
      BY <1>2, <1>5 DEF Heap, Acyclic, TraceFacts
    <3>2. NextRoot(m) \subseteq R /\ R \subseteq Numbers /\ \A k \in R : NextRoots[k] \subseteq R
      BY <1>4, <3>1, ReachHas
    <3> HIDE DEF R
    <3>3. NextRoot(m)' \subseteq R
      BY <1>4, <1>6, <3>1, <3>2
    <3>4. \A k \in R : NextRoots'[k] \subseteq R
      BY <1>4, <1>6, <3>2
    <3>5. Reach(NextRoot(m)', NextRoots') \subseteq R
      BY <1>4, <3>2, <3>3, <3>4, ReachLeast
    <3>6. QED
      BY <3>1, <3>5
  <2>2. QED
    BY <1>3, <2>1 DEF Acyclic
<1>15. SidesInChain'
  <2>1. ASSUME NEW r \in Kept, slot'[r].root = 0
        PROVE  /\ \A m \in SideChain(r)' : slot'[m].root = r
               /\ \A m \in {r} \cup SideChain(r)' : SideExit(m)' \subseteq SideChain(r)'
    <3>1. slot[r].root = 0 /\ SideChain(r)' = SideChain(r) /\ SideChain(r) \subseteq Kept
      BY <1>1, <1>2, <1>5, <1>8, <2>1 DEF SameSides, HeapFacts
    <3>2. \A m \in {r} \cup SideChain(r) : SideExit(m)' = SideExit(m)
      BY <1>1, <1>5, <3>1 DEF SameSides
    <3>3. QED
      BY <1>8, <3>1, <3>2 DEF Heap, SidesInChain
  <2>2. QED
    BY <1>3, <2>1 DEF SidesInChain
<1>16. QED
  BY <1>10, <1>11, <1>12, <1>13, <1>14, <1>15 DEF Heap

\* whether or not the trace is still in the chain.
LEMMA UnlinkKeeps ==
  ASSUME TypeOK, TypeOK', Heap, NEW n \in Numbers, Unlinks(n),
         NEW p, p = world.proto[slot[n].site]
  PROVE  Heap' /\ SameSides /\ Unlinked(n, p)
<1>1. SameSides /\ NewPointers(n, p)
  BY UnlinkFields
<1>2. CASE n \in Chain(p)
  BY <1>1, <1>2, UnlinkHeap, UnlinkChains
<1>3. CASE n \notin Chain(p)
  <2>1. TraceFacts /\ ChainFacts /\ HeapFacts /\ p \in Protos
    BY TraceFact, ChainFact, HeapFact DEF Unlinks, Protos
  <2>2. First(p) # {n} /\ \A m \in Chain(p) : NextRoot(m) # {n}
    BY <1>3, <2>1 DEF ChainFacts
  <2>3. /\ \A q \in Protos : First(q)' = First(q)
        /\ \A m \in Numbers : NextRoot(m)' = NextRoot(m)
    BY <1>1, <2>2 DEF NewPointers
  <2>4. ASSUME NEW m \in Kept
        PROVE  SameTrace(m)
    <3>1. m \in Numbers /\ m \in Traces /\ IsTrace(m) /\ IsTrace(m)'
      BY <1>1, <2>1 DEF HeapFacts, TraceFacts, SameSides, IsTrace
    <3>2. slot'[m].nextroot = slot[m].nextroot
      <4>1. {slot'[m].nextroot} \ {0} = {slot[m].nextroot} \ {0}
        BY <2>3, <3>1 DEF NextRoot
      <4>2. QED
        BY <4>1, SamePointer
    <3>3. slot'[m].nextside = slot[m].nextside
      <4>1. {slot'[m].nextside} \ {0} = {slot[m].nextside} \ {0}
        BY <1>1, <3>1 DEF SameSides, NextSide
      <4>2. QED
        BY <4>1, SamePointer
    <3>4. QED
      BY <1>1, <3>1, <3>2, <3>3 DEF SameSides, SameTrace
  <2>5. SameHeap
    BY <1>1, <2>3, <2>4 DEF SameHeap, SameSides, Unlinks
  <2>6. Heap' /\ SameChains
    BY <2>5, HeapKept
  <2>7. ASSUME NEW q \in Protos \ {p}
        PROVE  n \notin Chain(q)
    BY <2>1 DEF HeapFacts, StartsIn
  <2>8. QED
    BY <1>1, <1>3, <2>1, <2>6, <2>7 DEF SameChains, Unlinked
<1>4. QED
  BY <1>2, <1>3

-----------------------------------------------------------------------------
\* The invariant, with TraceInv, what is shown above of the compiler's own state, for
\* programs that do not flush single traces during calls of a stitched one.
Safe == SafeInv /\ TraceInv /\ ~world.flushInCalls

\* A program stays the one it is.
Fixed ==
  /\ world' = world /\ Sites' = Sites /\ Numbers' = Numbers /\ Protos' = Protos
  /\ \A s \in Sites : Kind(s)' = Kind(s)
  /\ JitStates' = JitStates /\ CurStates' = CurStates /\ PatchStates' = PatchStates
  /\ Instructions' = Instructions /\ ProtoStates' = ProtoStates
LEMMA FixedStep == [Next]_vars => Fixed
<1> SUFFICES ASSUME [Next]_vars PROVE world' = world
  BY Zenon DEF Fixed, Sites, Numbers, Protos, Kind, JitStates, CurStates, PatchStates,
         Instructions, ProtoStates
<1>1. CASE Compile
  BY Zenon, <1>1 DEF Compile, Start, StartOff, StartFull, StartTrace, End, Assemble, Reserve, Overrun,
              AsmError, Stop, Reassemble, Abort, AsmOnly
<1>2. CASE Record
  BY Zenon, <1>2 DEF Record, RecordOn, RecordError, RecordStop, RecordDownrec, RecordInto,
              RecordUnroll, RecordOnly
<1>3. CASE Collect
  BY Zenon, <1>3 DEF Collect, GCStart, TraverseStack, Atomic, GCEnd, TraverseProto, TraverseTrace,
              FreeTrace, GCOnly
<1>4. CASE Flush
  BY <1>4 DEF Flush, FlushAll, FlushTrace, Reenable, FlushProto, FlushOnly
<1>5. CASE Event
  BY Zenon, <1>5 DEF Event, AsyncAbort, Hot, HotExit, Call, Return, Unwind, EventOnly
<1>6. QED
  BY <1>1, <1>2, <1>3, <1>4, <1>5 DEF Next, vars

\* A step that concerns the program or the collector only.
LEMMA QuietSteps ==
  Collect \/ FlushAll \/ (\E n \in Numbers : FlushTrace(n) \/ Call(n) \/ Unwind(n))
    \/ (\E p \in Protos : Reenable(p) \/ \E off \in BOOLEAN : FlushProto(p, off))
  => UNCHANGED <<cur, jit>>
BY Zenon DEF Collect, GCStart, TraverseStack, Atomic, GCEnd, TraverseProto, TraverseTrace, FreeTrace,
       GCOnly, FlushAll, FlushTrace, Reenable, FlushProto, FlushOnly, Call, Unwind, EventOnly

\* Records of the compiler.
Typings ==
  /\ NoPatch \in PatchStates /\ NoTrace \in CurStates /\ Idle \in JitStates /\ Silent \in JitStates
  /\ \A parent \in Numbers \cup {0}, exitno \in Numbers \cup {0}, s \in Sites :
       Started(parent, exitno, s) \in JitStates
  /\ Plain \in Instructions /\ Plain.op = "" /\ Plain.fori = FALSE
  /\ 0..world.traces = Numbers \cup {0}
LEMMA Typing == WorldFacts => Typings
<1> SUFFICES ASSUME WorldFacts PROVE Typings
  OBVIOUS
<1>1. 0..world.traces = Numbers \cup {0}
  BY DEF WorldFacts
<1>2. NoPatch \in PatchStates
  BY <1>1 DEF NoPatch, PatchStates
<1>3. NoTrace \in CurStates
  BY <1>1 DEF NoTrace, CurStates, LinkTypes
<1>4. Idle \in JitStates
  <2> HIDE DEF PatchStates
  <2>1. QED
    BY <1>1, <1>2 DEF Idle, JitStates
<1>5. Silent \in JitStates
  BY Zenon, <1>4 DEF Silent, JitStates
<1>6. ASSUME NEW parent \in Numbers \cup {0}, NEW exitno \in Numbers \cup {0}, NEW s \in Sites
      PROVE  Started(parent, exitno, s) \in JitStates
  BY Zenon, <1>1, <1>4 DEF Started, JitStates
<1>7. Plain \in Instructions /\ Plain.op = "" /\ Plain.fori = FALSE
  BY <1>1 DEF Plain, Instructions
<1>8. QED
  BY Zenon, <1>1, <1>2, <1>3, <1>4, <1>5, <1>6, <1>7 DEF Typings

\* trace_findfree finds a free number, and none is below it.
LEMMA FreeNumber ==
  ASSUME TypeOK, WorldFacts, FreeNumbers # {}
  PROVE  /\ Min(FreeNumbers) \in Numbers /\ slot[Min(FreeNumbers)] = Nil
         /\ \A n \in Numbers : n < Min(FreeNumbers) => slot[n] # Nil
<1>1. FreeNumbers \subseteq Numbers /\ FreeNumbers \subseteq Nat
  BY DEF FreeNumbers, WorldFacts
<1>2. Min(FreeNumbers) \in FreeNumbers /\ \A n \in FreeNumbers : Min(FreeNumbers) <= n
  BY <1>1, NatMin
<1> DEFINE k == Min(FreeNumbers)
<1>3. k \in Numbers /\ slot[k] = Nil /\ k \in Nat
  BY <1>1, <1>2 DEF FreeNumbers
<1> HIDE DEF k
<1>4. ASSUME NEW n \in Numbers, n < k, slot[n] = Nil
      PROVE  FALSE
  <2>1. n \in Nat /\ freetrace \in Nat /\ ~(n < freetrace)
    BY <1>1, <1>4 DEF TypeOK, SlotsTyped, WorldFacts
  <2>2. n \in FreeNumbers
    BY <1>4, <2>1 DEF FreeNumbers
  <2>3. k <= n
    BY <1>2, <2>2 DEF k
  <2>4. QED
    BY <1>3, <1>4, <2>1, <2>3
<1>5. QED
  BY <1>3, <1>4 DEF k

\* What trace_start does to the compiler's state.
MovesRet(o) ==
  jit.parent # 0 /\ Kind(jit.site) = "RET" /\ code[jit.site].op = "J" /\ o = "RECORD"
Starts(o, n) ==
  /\ jit' \in JitStates /\ cur' \in CurStates
  /\ jit'.state = o /\ jit'.parent = jit.parent /\ jit'.exitno = jit.exitno
  /\ jit'.err \in {"", "RECERR"} /\ jit'.again = FALSE
  /\ jit'.patch = IF MovesRet(o) THEN [site |-> jit.site, d |-> code[jit.site].d] ELSE jit.patch
  /\ cur'.no = n /\ cur'.site = (IF jit.parent # 0 THEN Nil ELSE jit.site) /\ cur'.link = 0
  /\ cur'.root = IF jit.parent = 0 THEN 0 ELSE RootOf(jit.parent)
  /\ n \in Numbers /\ slot[n] = Nil /\ \A m \in Numbers : m < n => slot[m] # Nil
  /\ slot' = [slot EXCEPT ![n] = Cur] /\ freetrace' = n + 1
  /\ code' = IF MovesRet(o) THEN [code EXCEPT ![jit.site] = Plain] ELSE code
LEMMA StartFields ==
  ASSUME TypeOK, WorldFacts, TraceFacts, Fixed, jit.parent # 0 => jit.parent \in Traces,
         jit.site \in Sites, NEW o \in {"RECORD", "END", "ERR"}, StartTrace(o)
  PROVE  Starts(o, Min(FreeNumbers))
<1> DEFINE n == Min(FreeNumbers)
<1>1. Typings /\ cur \in CurStates /\ jit \in JitStates
      /\ code \in [Sites -> Instructions]
  BY Typing DEF TypeOK, CompilerTyped, CodeTyped
<1>2. n \in Numbers /\ slot[n] = Nil /\ \A m \in Numbers : m < n => slot[m] # Nil
  BY FreeNumber DEF StartTrace
<1>3. /\ slot' = [slot EXCEPT ![n] = Cur] /\ freetrace' = n + 1
      /\ code' = IF MovesRet(o) THEN [code EXCEPT ![jit.site] = Plain] ELSE code
  BY DEF StartTrace, MovesRet
<1>4. PICK root \in Numbers \cup {0} : root = IF jit.parent = 0 THEN 0 ELSE RootOf(jit.parent)
  BY Zenon, <1>1 DEF TraceFacts, RootOf, Typings, JitStates
<1>5. PICK site \in Sites \cup {Nil} : site = IF jit.parent # 0 THEN Nil ELSE jit.site
  BY Zenon, <1>1 DEF JitStates
<1>6. cur' = [NoTrace EXCEPT !.no = n, !.site = site, !.root = root,
                             !.linktype = IF o = "END" THEN "INTERP" ELSE "NONE"]
  BY <1>4, <1>5 DEF StartTrace, RootOf
<1>7. PICK patch \in PatchStates :
        patch = IF MovesRet(o) THEN [site |-> jit.site, d |-> code[jit.site].d] ELSE jit.patch
  BY Zenon, <1>1 DEF JitStates, PatchStates, Instructions
<1>8. jit' = [jit EXCEPT !.state = o, !.site = Nil, !.again = FALSE,
                 !.err = IF o = "ERR" THEN "RECERR" ELSE "", !.skip = MovesRet(o), !.patch = patch]
  BY <1>7 DEF StartTrace, MovesRet
<1> HIDE DEF n
<1>9. cur' \in CurStates /\ cur'.no = n /\ cur'.site = site /\ cur'.root = root /\ cur'.link = 0
  BY ZenonT(60), <1>1, <1>2, <1>6 DEF Fixed, NoTrace, CurStates, Typings, LinkTypes
<1>10. MovesRet(o) \in BOOLEAN
  BY DEF MovesRet
<1>11. /\ jit' \in JitStates /\ jit'.state = o /\ jit'.parent = jit.parent
       /\ jit'.exitno = jit.exitno /\ jit'.err \in {"", "RECERR"} /\ jit'.again = FALSE
       /\ jit'.patch = patch
  BY Zenon, <1>1, <1>8, <1>10 DEF Fixed, JitStates
<1>12. QED
  BY Zenon, <1>2, <1>3, <1>4, <1>5, <1>7, <1>9, <1>11 DEF n, Starts

-----------------------------------------------------------------------------
\* What is known in all lemmas of one step.
Context ==
  /\ Safe /\ Fixed /\ WorldFacts /\ TraceFacts /\ ChainFacts /\ HeapFacts /\ Typings
  /\ cur \in CurStates /\ jit \in JitStates /\ jit.patch \in PatchStates
  /\ TypeOK /\ Heap /\ CodeRuns /\ Waiting /\ InAreas /\ Compiler /\ Collector
  /\ BeforeStart /\ NoneWaits /\ OpenInAsm /\ CodeInv
LEMMA ContextHolds == Safe /\ [Next]_vars => Context
<1> SUFFICES ASSUME Safe, [Next]_vars PROVE Context
  OBVIOUS
<1>1. TypeOK /\ Heap /\ Fixed
  BY FixedStep DEF Safe, SafeInv
<1>2. WorldFacts /\ TraceFacts /\ HeapFacts
  BY <1>1, WorldFact, TraceFact, HeapFact DEF TypeOK
<1>3. ChainFacts /\ Typings
  BY <1>2, ChainFact, Typing
<1>4. cur \in CurStates /\ jit \in JitStates /\ jit.patch \in PatchStates
  BY Zenon, <1>1 DEF TypeOK, CompilerTyped, JitStates
<1>5. QED
  BY <1>1, <1>2, <1>3, <1>4 DEF Safe, SafeInv, TraceInv, Context

\* Bytecode that consists of instructions, and prototypes.
TypedProtos(p) == p \in [Protos -> ProtoStates]
TypedCode(c, p) ==
  /\ c \in [Sites -> Instructions]
  /\ \A s \in Sites :
       c[s].op = "I" => Kind(s) \in {"FORL", "LOOP", "FUNCF"} /\ p[world.proto[s]].iloop

\* trace_pendpatch gives an instruction back the trace it runs.
MendedFacts(force) ==
  /\ TypedCode(Mended(force), pt) /\ SoundCode(Mended(force))
  /\ Left(force) \in PatchStates
  /\ Left(force) # NoPatch =>
       Left(force) = jit.patch /\ Mended(force) = code /\ Left(force).site \in Sites
  /\ \A s \in Sites : Mended(force)[s] = code[s] \/ (s = jit.patch.site /\ Mended(force)[s].op = "J")
LEMMA MendedCode ==
  ASSUME Context, NEW force \in BOOLEAN
  PROVE  MendedFacts(force)
<1>1. TypedCode(code, pt) /\ SoundCode(code)
  BY DEF Context, TypeOK, CodeTyped, TypedCode, CodeRuns
<1>2. jit.patch \in PatchStates /\ NoPatch \in PatchStates
  BY Zenon DEF Context, Typings
<1>3. CASE ~Due(force)
  <2>1. Mended(force) = code /\ Left(force) = jit.patch
    BY <1>3 DEF Mended, Left
  <2>2. QED
    BY <1>1, <1>2, <2>1 DEF MendedFacts, Context, CodeRuns
<1>4. CASE Due(force)
  <2> DEFINE s == jit.patch.site
             n == jit.patch.d
             new == Compiled(s, n)
  <2>1. /\ s \in Sites /\ Runs(s, n) /\ n \in 0..world.traces
    BY <1>2, <1>4 DEF Due, Context, CodeRuns, PatchStates
  <2>2. new \in Instructions
        /\ new.op = "J" /\ new.d = n /\ (new.fori <=> Kind(s) = "FORL")
    BY <2>1 DEF Compiled, Instructions
  <2>3. Mended(force) = [code EXCEPT ![s] = new] /\ Left(force) = NoPatch
    BY <1>4 DEF Mended, Left
  <2> HIDE DEF new, s, n
  <2>4. Mended(force) \in [Sites -> Instructions]
        /\ \A t \in Sites : Mended(force)[t] = IF t = s THEN new ELSE code[t]
    BY <1>1, <2>1, <2>2, <2>3 DEF TypedCode
  <2>5. TypedCode(Mended(force), pt) /\ SoundCode(Mended(force))
    BY <1>1, <2>1, <2>2, <2>4 DEF TypedCode, SoundCode
  <2>6. QED
    BY <1>2, <2>2, <2>3, <2>4, <2>5 DEF MendedFacts, s
<1>5. QED
  BY <1>3, <1>4

\* A trace links to nothing, to itself, or to a trace that an instruction runs.
LEMMA StopFacts ==
  ASSUME NEW stop \in Stops
  PROVE  /\ stop.linktype \in LinkTypes
         /\ \/ stop.link = 0 \/ stop.link = cur.no
            \/ \E t \in Sites : Mended(FALSE)[t].op = "J" /\ stop.link = Mended(FALSE)[t].d
<1>1. CASE \E l \in {"RETURN", "STITCH"} : stop = [link |-> 0, linktype |-> l]
  BY <1>1 DEF LinkTypes
<1>2. CASE stop = [link |-> cur.no, linktype |-> "LOOP"]
  BY <1>2 DEF LinkTypes
<1>3. CASE \E t \in Sites : /\ Mended(FALSE)[t].op = "J"
                           /\ stop = [link |-> Mended(FALSE)[t].d, linktype |-> "ROOT"]
  <2>1. PICK t \in Sites : /\ Mended(FALSE)[t].op = "J"
                          /\ stop = [link |-> Mended(FALSE)[t].d, linktype |-> "ROOT"]
    BY <1>3
  <2>2. stop.link = Mended(FALSE)[t].d /\ stop.linktype = "ROOT"
    BY <2>1
  <2>3. QED
    BY <2>1, <2>2 DEF LinkTypes
<1>4. QED
  <2> DEFINE A == {[link |-> 0, linktype |-> l] : l \in {"RETURN", "STITCH"}}
             B == {[link |-> cur.no, linktype |-> "LOOP"] : i \in {0} \cap {jit.exitno}}
             T == {t \in Sites : /\ Mended(FALSE)[t].op = "J" /\ ~Returns(t)
                                 /\ RootTrace => Kind(t) \in {"FORL", "FUNCF"}}
             C == {[link |-> Mended(FALSE)[t].d, linktype |-> "ROOT"] : t \in T}
  <2>1. stop \in A \cup B \cup C
    BY DEF Stops
  <2>2. CASE stop \in A
    BY <1>1, <2>2
  <2>3. CASE stop \in B
    BY <1>2, <2>3
  <2>4. CASE stop \in C
    BY <1>3, <2>4
  <2> HIDE DEF A, B, C
  <2>5. QED
    BY <2>1, <2>2, <2>3, <2>4

\* What the recorder leaves of the compiler's state, of which records are made.
SameStart ==
  /\ jit'.parent = jit.parent /\ jit'.exitno = jit.exitno /\ jit'.again = jit.again
  /\ cur'.no = cur.no /\ cur'.root = cur.root /\ cur'.site = cur.site
Records ==
  /\ jit.state = "RECORD" /\ jit' \in JitStates /\ cur' \in CurStates /\ SameStart
  /\ \/ jit'.state \in {"RECORD", "ERR"} /\ cur' = cur
     \/ jit'.state = "END" /\ \E stop \in Stops : cur'.link = stop.link
  /\ jit'.err # "DOWNREC" => jit'.site = jit.site
  /\ jit'.err = "DOWNREC" => jit'.state = "ERR" /\ \E s \in Sites : RecordDownrec(s) /\ jit'.site = s
  /\ \/ code' = Mended(FALSE) /\ jit'.patch = Left(FALSE)
     \/ \E s \in Sites : RecordInto(s) /\ jit'.patch = [site |-> s, d |-> Mended(FALSE)[s].d]
     \/ \E s \in Sites : RecordUnroll(s) /\ jit'.patch = Left(FALSE)
LEMMA RecordFields ==
  ASSUME Context, Record
  PROVE  Records
<1>1. cur \in CurStates /\ jit \in JitStates /\ Typings /\ Fixed
  BY DEF Context
<1>2. MendedFacts(FALSE)
  BY MendedCode
<1> DEFINE Is(r, state, err) ==
      /\ r \in JitStates /\ r.state = state /\ r.err = err /\ r.patch = Left(FALSE)
      /\ r.parent = jit.parent /\ r.exitno = jit.exitno /\ r.again = jit.again
      /\ r.site = jit.site
<1>3. \A state \in {"RECORD", "ERR", "END"}, err \in {"", "RECERR", "DOWNREC"} :
        Is(Recorded(state, err), state, err)
  BY ZenonT(60), <1>1, <1>2 DEF MendedFacts, Recorded, JitStates
<1>4. jit.state = "RECORD" /\ JitStates' = JitStates /\ CurStates' = CurStates
  BY Zenon, <1>1 DEF Fixed, Record, RecordOn, RecordError, RecordStop, RecordDownrec, RecordInto, RecordUnroll
<1>5. CASE RecordOn \/ RecordError
  <2>1. cur' = cur /\ code' = Mended(FALSE)
        /\ (jit' = Recorded("RECORD", "") \/ jit' = Recorded("ERR", "RECERR"))
    BY Zenon, <1>5 DEF RecordOn, RecordError
  <2>2. QED
    BY ZenonT(60), <1>1, <1>3, <1>4, <2>1 DEF Records, SameStart
<1>6. CASE RecordStop
  <2>1. PICK stop \in Stops : cur' = [cur EXCEPT !.link = stop.link, !.linktype = stop.linktype]
    BY Zenon, <1>6 DEF RecordStop
  <2>2. stop.link \in Numbers \cup {0} /\ stop.linktype \in LinkTypes
    <3>1. cur.no \in Numbers \cup {0}
      BY Zenon, <1>1 DEF Typings, CurStates
    <3>2. \A t \in Sites : Mended(FALSE)[t].d \in Numbers \cup {0}
      BY Zenon, <1>1, <1>2 DEF MendedFacts, TypedCode, Typings, Instructions
    <3>3. QED
      BY <3>1, <3>2, StopFacts
  <2>3. /\ cur' \in CurStates /\ cur'.no = cur.no /\ cur'.root = cur.root
        /\ cur'.site = cur.site /\ cur'.link = stop.link
    BY Zenon, <1>1, <2>1, <2>2 DEF CurStates, Typings
  <2>4. jit' = Recorded("END", "") /\ code' = Mended(FALSE)
    BY Zenon, <1>6 DEF RecordStop
  <2>5. QED
    BY Zenon, <1>3, <1>4, <2>3, <2>4 DEF Records, SameStart
<1>7. ASSUME NEW s \in Sites, RecordDownrec(s)
      PROVE  Records
  <2>1. cur' = cur /\ code' = Mended(FALSE) /\ jit' = [Recorded("ERR", "DOWNREC") EXCEPT !.site = s]
    BY Zenon, <1>7 DEF RecordDownrec
  <2>2. Is(Recorded("ERR", "DOWNREC"), "ERR", "DOWNREC")
    BY Zenon, <1>3
  <2>3. /\ jit' \in JitStates /\ jit'.state = "ERR" /\ jit'.err = "DOWNREC"
        /\ jit'.patch = Left(FALSE) /\ jit'.parent = jit.parent /\ jit'.exitno = jit.exitno
        /\ jit'.again = jit.again /\ jit'.site = s
    BY Zenon, <1>1, <2>1, <2>2 DEF JitStates
  <2>4. QED
    BY <1>1, <1>4, <1>7, <2>1, <2>3 DEF Records, SameStart
<1>8. ASSUME NEW s \in Sites, RecordInto(s)
      PROVE  Records
  <2>1. PICK patch \in PatchStates : patch = [site |-> s, d |-> Mended(FALSE)[s].d]
    BY Zenon, <1>2 DEF MendedFacts, TypedCode, PatchStates, Instructions
  <2>2. cur' = cur /\ jit' = [Recorded("RECORD", "") EXCEPT !.patch = patch]
    BY Zenon, <1>8, <2>1 DEF RecordInto
  <2>3. Is(Recorded("RECORD", ""), "RECORD", "")
    BY Zenon, <1>3
  <2>4. /\ jit' \in JitStates /\ jit'.state = "RECORD" /\ jit'.err = ""
        /\ jit'.patch = patch /\ jit'.parent = jit.parent /\ jit'.exitno = jit.exitno
        /\ jit'.again = jit.again /\ jit'.site = jit.site
    BY Zenon, <1>1, <2>2, <2>3 DEF JitStates
  <2>5. QED
    BY Zenon, <1>1, <1>4, <1>8, <2>1, <2>2, <2>4 DEF Records, SameStart
<1>9. ASSUME NEW s \in Sites, RecordUnroll(s)
      PROVE  Records
  <2>1. cur' = cur /\ jit' = Recorded("ERR", "RECERR")
    BY <1>9 DEF RecordUnroll
  <2>2. QED
    BY Zenon, <1>1, <1>3, <1>4, <1>9, <2>1 DEF Records, SameStart
<1>10. QED
  BY <1>5, <1>6, <1>7, <1>8, <1>9 DEF Record

\* The optimizer,
Ends(o) ==
  /\ jit.state = "END" /\ jit' \in JitStates /\ cur' \in CurStates /\ SameStart
  /\ jit'.state = o /\ jit'.err \in {"", "RECERR"} /\ jit'.site = jit.site
  /\ code' = Mended(TRUE) /\ jit'.patch = NoPatch
  /\ IF o = "RECORD" THEN cur'.link = 0 ELSE cur' = cur
LEMMA EndFields ==
  ASSUME Context, NEW o \in {"RECORD", "ERR", "ASM"}, End(o)
  PROVE  Ends(o)
<1>1. cur \in CurStates /\ jit \in JitStates /\ Typings /\ Fixed
  BY DEF Context
<1>2. /\ jit.state = "END" /\ code' = Mended(TRUE)
      /\ jit' = [jit EXCEPT !.state = o, !.patch = NoPatch,
                            !.err = IF o = "ERR" THEN "RECERR" ELSE ""]
      /\ cur' = IF o = "RECORD" THEN [cur EXCEPT !.link = 0, !.linktype = "NONE"] ELSE cur
  BY ForcedLeavesNone DEF End
<1>3. NoPatch \in PatchStates
  BY Zenon, <1>1 DEF Typings
<1>4. /\ jit' \in JitStates /\ jit'.state = o /\ jit'.patch = NoPatch
      /\ jit'.err \in {"", "RECERR"} /\ jit'.parent = jit.parent
      /\ jit'.exitno = jit.exitno /\ jit'.site = jit.site /\ jit'.again = jit.again
  BY Zenon, <1>1, <1>2, <1>3 DEF JitStates, Fixed
<1>5. /\ cur' \in CurStates /\ cur'.no = cur.no /\ cur'.site = cur.site /\ cur'.root = cur.root
      /\ IF o = "RECORD" THEN cur'.link = 0 ELSE cur' = cur
  BY Zenon, <1>1, <1>2 DEF CurStates, LinkTypes, Fixed, Typings
<1>6. QED
  BY <1>2, <1>4, <1>5 DEF Ends, SameStart

\* the assembler until the trace is saved,
Assembles ==
  /\ jit.state = "ASM" \/ (jit.state = "ERR" /\ jit.err = "MCODELM")
  /\ jit' \in JitStates /\ cur' = cur /\ SameStart
  /\ jit'.state \in {"ASM", "ERR"} /\ (jit'.state = "ERR" => jit'.err # "DOWNREC")
  /\ jit'.patch = jit.patch /\ jit'.site = jit.site
  /\ UNCHANGED <<world, code, pt, slot, freetrace, penalty, frames, gc>>
LEMMA AssembleFields ==
  ASSUME Context, Reserve \/ Overrun \/ AsmError \/ Reassemble
  PROVE  Assembles
<1>1. cur \in CurStates /\ jit \in JitStates /\ JitStates' = JitStates
  BY DEF Context, Fixed
<1>2. UNCHANGED <<world, code, pt, slot, freetrace, cur, penalty, frames, gc>>
  BY DEF Reserve, Overrun, AsmError, Reassemble, Unsaved, AsmOnly
<1>3. CASE Reassemble
  <2>1. jit.state = "ERR" /\ jit.err = "MCODELM" /\ jit' = [jit EXCEPT !.state = "ASM", !.err = ""]
    BY <1>3 DEF Reassemble
  <2>2. QED
    BY Zenon, <1>1, <1>2, <2>1 DEF Assembles, SameStart, JitStates
<1>4. CASE jit' = jit /\ jit.state = "ASM"
  BY <1>1, <1>2, <1>4 DEF Assembles, SameStart
<1>5. ASSUME NEW err \in {"RECERR", "MCODEAL", "MCODELM", "MCODEOV"},
             jit' = Fail(err), jit.state = "ASM"
      PROVE  Assembles
  BY Zenon, <1>1, <1>2, <1>5 DEF Assembles, SameStart, Fail, JitStates
<1>6. \A l \in Limited(mc) : l.err \in {"MCODEAL", "MCODELM", "MCODEOV"}
  BY DEF Limited
<1>7. CASE Reserve
  BY <1>4, <1>5, <1>7 DEF Reserve
<1>8. CASE Overrun
  BY <1>5, <1>6, <1>8 DEF Overrun
<1>9. CASE AsmError
  BY <1>5, <1>9 DEF AsmError
<1>10. QED
  BY <1>3, <1>7, <1>8, <1>9

\* trace_stop,
Idles ==
  /\ jit' \in JitStates /\ jit'.state = "IDLE" /\ jit'.patch = NoPatch
  /\ jit'.parent = 0 /\ jit'.exitno = 0 /\ jit'.again = FALSE
  /\ cur' = NoTrace /\ cur' \in CurStates /\ cur'.no = 0
LEMMA StopFields ==
  ASSUME Context, Stop
  PROVE  Idles /\ jit.state = "ASM" /\ jit.patch = NoPatch
<1>1. jit.state = "ASM" /\ cur' = NoTrace /\ jit' = [Idle EXCEPT !.patch = jit.patch]
  BY DEF Stop
<1>2. jit.patch = NoPatch
  BY <1>1 DEF Context, NoneWaits
<1>3. Idle \in JitStates /\ NoPatch \in PatchStates /\ NoTrace \in CurStates
      /\ JitStates' = JitStates /\ CurStates' = CurStates
  BY Zenon DEF Context, Typings, Fixed
<1>4. /\ jit' \in JitStates /\ jit'.state = "IDLE" /\ jit'.patch = NoPatch
      /\ jit'.parent = 0 /\ jit'.exitno = 0 /\ jit'.again = FALSE
  BY Zenon, <1>1, <1>2, <1>3 DEF Idle, JitStates
<1>5. QED
  BY <1>1, <1>2, <1>3, <1>4 DEF Idles, NoTrace

\* and trace_abort.
Aborts ==
  /\ jit.state \in {"ERR", "ABORTED"} /\ jit.err # "MCODELM"
  /\ \/ /\ ~(Restarts /\ jit.state = "ERR") /\ Idles
     \/ /\ Restarts /\ jit.state = "ERR"
        /\ jit' \in JitStates /\ jit'.state = "START" /\ jit'.patch = NoPatch
        /\ jit'.parent = 0 /\ jit'.exitno = 0 /\ jit'.again /\ jit'.site = jit.site
        /\ cur' \in CurStates /\ cur'.no = 0
LEMMA AbortFields ==
  ASSUME Context, NEW b \in BOOLEAN, Abort(b)
  PROVE  Aborts
<1>1. cur \in CurStates /\ Typings /\ JitStates' = JitStates /\ CurStates' = CurStates
  BY DEF Context, Fixed
<1>2. jit.state \in {"ERR", "ABORTED"} /\ jit.err # "MCODELM"
  BY DEF Abort
<1>3. CASE Restarts /\ jit.state = "ERR"
  <2>1. /\ jit' = [Started(0, 0, jit.site) EXCEPT !.again = TRUE, !.patch = NoPatch]
        /\ cur' = [cur EXCEPT !.no = 0]
    BY <1>3, ForcedLeavesNone DEF Abort
  <2>2. Started(0, 0, jit.site) \in JitStates /\ NoPatch \in PatchStates
    BY Zenon, <1>1, <1>3 DEF Typings, Restarts, Context, Compiler, Restarting
  <2>3. /\ Started(0, 0, jit.site).parent = 0 /\ Started(0, 0, jit.site).exitno = 0
        /\ Started(0, 0, jit.site).state = "START" /\ Started(0, 0, jit.site).site = jit.site
    BY DEF Started, Idle
  <2>4. /\ jit' \in JitStates /\ jit'.state = "START" /\ jit'.patch = NoPatch
        /\ jit'.parent = 0 /\ jit'.exitno = 0 /\ jit'.again /\ jit'.site = jit.site
    BY Zenon, <1>1, <2>1, <2>2, <2>3 DEF JitStates
  <2>5. cur' \in CurStates /\ cur'.no = 0
    BY Zenon, <1>1, <2>1 DEF CurStates, Typings
  <2>6. QED
    BY <1>2, <1>3, <2>4, <2>5 DEF Aborts
<1>4. CASE ~(Restarts /\ jit.state = "ERR")
  <2>1. jit' = [Idle EXCEPT !.patch = NoPatch] /\ cur' = NoTrace
    BY <1>4, ForcedLeavesNone DEF Abort
  <2>2. jit' = Idle
    BY Zenon, <2>1 DEF Idle
  <2>3. Idles
    BY Zenon, <1>1, <2>1, <2>2 DEF Idles, Typings, Idle, NoTrace
  <2>4. QED
    BY <1>2, <1>4, <2>3 DEF Aborts
<1>5. QED
  BY <1>3, <1>4

\* The compiler's state is made of states and numbers when it starts,
LEMMA StartTyped ==
  ASSUME Context,
         \/ AsyncAbort \/ \E s \in Sites : Hot(s) \/ \E n \in Numbers : HotExit(n, s) \/ Return(n, s)
         \/ Start
  PROVE  CompilerTyped'
<1> USE DEF CompilerTyped, Fixed
<1>0. Typings /\ cur \in CurStates /\ jit \in JitStates /\ Fixed
  BY DEF Context
<1>1. CASE AsyncAbort
  BY Zenon, <1>0, <1>1 DEF AsyncAbort, EventOnly, JitStates
<1>2. CASE \E s \in Sites : Hot(s) \/ \E n \in Numbers : HotExit(n, s) \/ Return(n, s)
  <2>1. PICK parent \in Numbers \cup {0}, exitno \in Numbers \cup {0}, s \in Sites :
          jit' = Started(parent, exitno, s)
    BY Zenon, <1>2 DEF Hot, HotExit, Return
  <2>2. jit' \in JitStates
    BY Zenon, <1>0, <2>1 DEF Typings
  <2>3. QED
    BY Zenon, <1>0, <1>2, <2>2 DEF Hot, HotExit, Return, EventOnly
<1>3. CASE StartOff \/ StartFull
  BY Zenon, <1>0, <1>3 DEF StartOff, StartFull, Typings
<1>4. ASSUME NEW o \in {"RECORD", "END", "ERR"}, StartTrace(o)
      PROVE  CompilerTyped'
  <2>1. jit.state = "START"
    BY <1>4 DEF StartTrace
  <2>2. jit.site \in Sites /\ (jit.parent # 0 => jit.parent \in Traces)
    BY Zenon, <2>1 DEF Context, Compiler, Starting, Parents, Anchored, Kept
  <2>3. QED
    BY Zenon, <1>4, <2>2, StartFields DEF Starts, Context
<1>5. QED
  BY <1>1, <1>2, <1>3, <1>4 DEF Start

\* and whatever it does then.
LEMMA CompilerTypedStep ==
  ASSUME Context, [Next]_vars
  PROVE  CompilerTyped'
<1>1. CASE UNCHANGED <<cur, jit>>
  BY <1>1 DEF Context, CompilerTyped, Fixed
<1>2. CASE Start
  BY <1>2, StartTyped
<1>3. CASE \E o \in {"RECORD", "ERR", "ASM"} : End(o)
  BY Zenon, <1>3, EndFields DEF Ends, CompilerTyped, Context, Fixed
<1>4. CASE Reserve \/ Overrun \/ AsmError \/ Reassemble
  BY <1>4, AssembleFields DEF Assembles, CompilerTyped, Context, Fixed
<1>5. CASE Stop
  BY <1>5, StopFields DEF Idles, CompilerTyped, Context, Fixed
<1>6. CASE \E b \in BOOLEAN : Abort(b)
  BY <1>6, AbortFields DEF Aborts, Idles, CompilerTyped, Context, Fixed
<1>7. CASE Record
  BY <1>7, RecordFields DEF Records, CompilerTyped, Context, Fixed
<1>8. CASE AsyncAbort \/ \E s \in Sites : Hot(s) \/ \E n \in Numbers : HotExit(n, s) \/ Return(n, s)
  BY <1>8, StartTyped
<1>9. QED
  BY <1>1, <1>2, <1>3, <1>4, <1>5, <1>6, <1>7, <1>8, QuietSteps
  DEF Next, Compile, Assemble, Event, Flush, vars

-----------------------------------------------------------------------------
\* Bytecode and prototypes are of their types for parameters c and p.
LEMMA CodeTypedBy ==
  ASSUME Context, TypedProtos(pt'), TypedCode(code', pt')
  PROVE  CodeTyped'
BY DEF Context, CodeTyped, TypedProtos, TypedCode, Fixed

\* Unpatched instructions are plain,
PlainWhere(c, S) ==
  \A s \in Sites :
    \/ Unpatched(c, S)[s] = Plain /\ (c[s].op = "J" /\ \E n \in S : slot[n].site = s)
    \/ Unpatched(c, S)[s] = c[s] /\ ~(c[s].op = "J" /\ \E n \in S : slot[n].site = s)
LEMMA UnpatchedCode ==
  ASSUME Typings, NEW c, NEW p, NEW S, TypedCode(c, p)
  PROVE  TypedCode(Unpatched(c, S), p) /\ PlainWhere(c, S)
<1>1. \A s \in Sites :
        Unpatched(c, S)[s] = IF c[s].op = "J" /\ \E n \in S : slot[n].site = s THEN Plain ELSE c[s]
  BY DEF Unpatched
<1>2. Plain \in Instructions /\ Plain.op = ""
  BY Zenon DEF Typings
<1>3. \A s \in Sites : c[s] \in Instructions
  BY DEF TypedCode
<1>4. Unpatched(c, S) \in [Sites -> Instructions]
  BY Zenon, <1>2, <1>3 DEF Unpatched
<1>5. QED
  BY Zenon, <1>1, <1>2, <1>4 DEF TypedCode, PlainWhere

\* prototypes without their traces are prototypes,
LEMMA FlushedCode ==
  ASSUME Context, NEW c, NEW p, TypedCode(c, p), TypedProtos(p), FlushedAll(c, p)
  PROVE  CodeTyped'
<1>1. pt' = [q \in Protos |-> [p[q] EXCEPT !.trace = 0]]
      /\ code' = Unpatched(c, {n \in Traces : Root(n)})
  BY DEF FlushedAll
<1>2. \A q \in Protos : [p[q] EXCEPT !.trace = 0] \in ProtoStates
                        /\ [p[q] EXCEPT !.trace = 0].iloop = p[q].iloop
  BY Zenon DEF TypedProtos, ProtoStates, Context, Typings
<1>3. TypedProtos(pt') /\ \A q \in Protos : pt'[q].iloop = p[q].iloop
  BY <1>1, <1>2 DEF TypedProtos
<1>4. TypedCode(code', p)
  BY <1>1, UnpatchedCode DEF Context
<1>5. TypedCode(code', pt')
  BY <1>3, <1>4 DEF TypedCode, Context, WorldFacts
<1>6. QED
  BY <1>3, <1>5, CodeTypedBy

\* and so they are without one.
LEMMA UnlinkedCode ==
  ASSUME Context, NEW c, TypedCode(c, pt), NEW n \in Traces, slot[n].site \in Sites,
         code' = Unpatched(c, {n}), pt' = UnlinkedProto(n)
  PROVE  CodeTyped'
<1> DEFINE x == world.proto[slot[n].site]
<1>1. TypedProtos(pt) /\ x \in Protos /\ slot[n].nextroot \in 0..world.traces
  BY Zenon DEF Context, TypeOK, CodeTyped, TypedProtos, WorldFacts, TraceFacts, Typings
<1>2. pt' = [pt EXCEPT ![x].trace = IF @ = n THEN slot[n].nextroot ELSE @]
  BY DEF UnlinkedProto
<1> HIDE DEF x
<1>3. TypedProtos(pt') /\ \A q \in Protos : pt'[q].iloop = pt[q].iloop
  BY <1>1, <1>2 DEF TypedProtos, ProtoStates
<1>4. TypedCode(code', pt)
  BY UnpatchedCode DEF Context
<1>5. TypedCode(code', pt')
  BY <1>3, <1>4 DEF TypedCode, Context, WorldFacts
<1>6. QED
  BY <1>3, <1>5, CodeTypedBy

\* lj_trace_flush and the flush of a function that calls itself unlink a
\* root trace that is there.
LEMMA FlushUnlinks ==
  ASSUME Context
  PROVE  /\ \A n \in Numbers : FlushTrace(n) => Unlinks(n)
         /\ \A s \in Sites : RecordUnroll(s) =>
              /\ Mended(FALSE)[s].d \in Numbers /\ Unlinks(Mended(FALSE)[s].d)
              /\ Runs(s, Mended(FALSE)[s].d) /\ Mended(FALSE)[s].op = "J"
<1>1. ASSUME NEW n \in Numbers, FlushTrace(n)
      PROVE  Unlinks(n)
  <2>1. n \in Traces /\ slot[n].root = 0
    BY <1>1 DEF FlushTrace, Root, Traces
  <2>2. slot[n].site \in Sites
    BY <2>1 DEF Context, InAreas
  <2>3. QED
    BY <1>1, <2>1, <2>2 DEF FlushTrace, FlushOnly, Unlinks
<1>2. ASSUME NEW s \in Sites, RecordUnroll(s)
      PROVE  /\ Mended(FALSE)[s].d \in Numbers /\ Unlinks(Mended(FALSE)[s].d)
             /\ Runs(s, Mended(FALSE)[s].d) /\ Mended(FALSE)[s].op = "J"
  <2> DEFINE n == Mended(FALSE)[s].d
  <2>1. SoundCode(Mended(FALSE)) /\ Mended(FALSE)[s].op = "J"
    BY <1>2, MendedCode DEF MendedFacts, RecordUnroll, Returns
  <2>2. Runs(s, n) /\ world.proto[s] \in Protos
    BY <2>1 DEF SoundCode, Context, WorldFacts
  <2>3. n \in Kept /\ StartsIn(world.proto[s], n)
    BY <2>2 DEF Runs, Context, HeapFacts
  <2>4. n \in Numbers /\ n \in Traces
    BY <2>3 DEF Context, HeapFacts
  <2>5. world' = world /\ gc' = gc /\ pt' = UnlinkedProto(n) /\ slot' = UnlinkedSlot(n)
    BY <1>2 DEF RecordUnroll, RecordOnly
  <2> HIDE DEF n
  <2>6. QED
    BY <2>1, <2>2, <2>3, <2>4, <2>5 DEF n, Unlinks, StartsIn
<1>3. QED
  BY <1>1, <1>2

\* Bytecode and prototypes stay of their types when code is flushed,
LEMMA FlushTyped ==
  ASSUME Context, Flush \/ StartFull
  PROVE  CodeTyped'
<1>1. TypedCode(code, pt) /\ TypedProtos(pt)
  BY DEF Context, TypeOK, CodeTyped, TypedCode, TypedProtos
<1>2. CASE FlushAll \/ StartFull
  BY <1>1, <1>2, FlushedCode DEF FlushAll, StartFull
<1>3. ASSUME NEW n \in Numbers, FlushTrace(n)
      PROVE  CodeTyped'
  BY <1>1, <1>3, FlushUnlinks, UnlinkedCode DEF FlushTrace, Unlinks
<1>4. ASSUME NEW p \in Protos, NEW off \in BOOLEAN, FlushProto(p, off)
      PROVE  CodeTyped'
  <2>1. /\ code' = Unpatched(code, Chain(p))
        /\ pt' = [pt EXCEPT ![p].trace = 0, ![p].nojit = @ \/ off]
    BY <1>4 DEF FlushProto
  <2>2. TypedProtos(pt') /\ \A q \in Protos : pt'[q].iloop = pt[q].iloop
    BY ZenonT(60), <1>1, <2>1 DEF TypedProtos, ProtoStates, Context, Typings
  <2>3. TypedCode(code', pt)
    BY <1>1, <2>1, UnpatchedCode DEF Context
  <2>4. TypedCode(code', pt')
    BY <2>2, <2>3 DEF TypedCode, Context, WorldFacts
  <2>5. QED
    BY <2>2, <2>4, CodeTypedBy
<1>5. ASSUME NEW p \in Protos, Reenable(p)
      PROVE  CodeTyped'
  <2>1. /\ pt' = [pt EXCEPT ![p].nojit = FALSE, ![p].iloop = FALSE]
        /\ code' = [s \in Sites |->
                      IF pt[p].iloop /\ world.proto[s] = p /\ code[s].op = "I" THEN Plain
                      ELSE code[s]]
    BY <1>5 DEF Reenable
  <2>2. TypedProtos(pt') /\ \A q \in Protos : q # p => pt'[q].iloop = pt[q].iloop
    BY <1>1, <2>1 DEF TypedProtos, ProtoStates
  <2>3. code' \in [Sites -> Instructions]
    BY Zenon, <1>1, <2>1 DEF TypedCode, Context, Typings
  <2>4. ASSUME NEW s \in Sites, code'[s].op = "I"
        PROVE  Kind(s) \in {"FORL", "LOOP", "FUNCF"} /\ pt'[world.proto[s]].iloop
    <3>1. code'[s] = code[s] /\ ~(pt[p].iloop /\ world.proto[s] = p)
      BY Zenon, <2>1, <2>4 DEF Context, Typings
    <3>2. Kind(s) \in {"FORL", "LOOP", "FUNCF"} /\ pt[world.proto[s]].iloop
      BY <1>1, <2>4, <3>1 DEF TypedCode
    <3>3. QED
      BY <2>2, <3>1, <3>2 DEF Context, WorldFacts
  <2>5. QED
    BY <2>2, <2>3, <2>4, CodeTypedBy DEF TypedCode
<1>6. QED
  BY <1>2, <1>3, <1>4, <1>5 DEF Flush

\* when a failed trace is penalized or blacklisted,
AbortedCode(b) == IF b THEN Blacklisted(Mended(TRUE)) ELSE Mended(TRUE)
AbortedProtos(b) == IF b THEN [pt EXCEPT ![world.proto[cur.site]].iloop = TRUE] ELSE pt
SameTraces(p) == \A q \in Protos : p[q].trace = pt[q].trace
AbortFacts(b) ==
  /\ TypedCode(AbortedCode(b), AbortedProtos(b)) /\ TypedProtos(AbortedProtos(b))
  /\ SoundCode(AbortedCode(b)) /\ SameTraces(AbortedProtos(b))
  /\ \A q \in Protos : AbortedProtos(b)[q].nojit = pt[q].nojit
  /\ \A s \in Sites : AbortedCode(b)[s] = Mended(TRUE)[s] \/ (b /\ s = cur.site)
LEMMA AbortFact ==
  ASSUME Context, NEW b \in BOOLEAN, Abort(b)
  PROVE  AbortFacts(b)
<1>1. TypedCode(Mended(TRUE), pt) /\ SoundCode(Mended(TRUE)) /\ TypedProtos(pt)
      /\ \A s \in Sites : Mended(TRUE)[s] = code[s] \/ s = jit.patch.site
  BY MendedCode DEF MendedFacts, Context, TypeOK, CodeTyped, TypedProtos
<1>2. CASE ~b
  BY <1>1, <1>2 DEF AbortFacts, AbortedCode, AbortedProtos, SameTraces
<1>3. CASE b
  <2>1. jit.state \in {"ERR", "ABORTED"} /\ Penalized
    BY <1>3 DEF Abort
  <2>2. /\ cur.site \in Sites /\ code[cur.site].op # "J" /\ jit.patch.site # cur.site
        /\ Kind(cur.site) \in {"FORL", "LOOP", "FUNCF"}
    BY <2>1 DEF Penalized, Context, Compiler, RootStarts, Compiling, WorldFacts
  <2> DEFINE s == cur.site
             x == world.proto[cur.site]
             c == Blacklisted(Mended(TRUE))
  <2>3. x \in Protos /\ s \in Sites /\ Kind(s) \in {"FORL", "LOOP", "FUNCF"}
    BY <2>2 DEF Context, WorldFacts
  <2>4. AbortedProtos(b) = [pt EXCEPT ![x].iloop = TRUE]
    BY <1>3 DEF AbortedProtos
  <2>5. c = [Mended(TRUE) EXCEPT ![s] = [@ EXCEPT !.op = "I"]]
    BY DEF Blacklisted
  <2>6. Mended(TRUE)[s].op # "J" /\ Mended(TRUE)[s] \in Instructions
    BY <1>1, <2>2 DEF TypedCode
  <2> HIDE DEF s, x, c
  <2>7. /\ TypedProtos(AbortedProtos(b)) /\ SameTraces(AbortedProtos(b))
        /\ \A q \in Protos : AbortedProtos(b)[q].nojit = pt[q].nojit
        /\ \A q \in Protos : AbortedProtos(b)[q].iloop = IF q = x THEN TRUE ELSE pt[q].iloop
    <3> DEFINE p == AbortedProtos(b)
    <3>1. p = [pt EXCEPT ![x] = [pt[x] EXCEPT !.iloop = TRUE]]
      BY <2>4
    <3>2. pt \in [Protos -> ProtoStates]
      BY <1>1 DEF TypedProtos
    <3> DEFINE px == [pt[x] EXCEPT !.iloop = TRUE]
    <3>3. px \in ProtoStates /\ px.iloop = TRUE /\ px.trace = pt[x].trace /\ px.nojit = pt[x].nojit
      BY <2>3, <3>2 DEF ProtoStates
    <3>4. \A q \in Protos : p[q] = IF q = x THEN px ELSE pt[q]
      BY <2>3, <3>1, <3>2
    <3>5. p \in [Protos -> ProtoStates]
      BY <3>1, <3>2, <3>3
    <3> HIDE DEF p, px
    <3>6. QED
      BY <3>3, <3>4, <3>5 DEF TypedProtos, SameTraces, p
  <2> DEFINE new == [Mended(TRUE)[s] EXCEPT !.op = "I"]
  <2>8. new \in Instructions /\ new.op = "I" /\ new.fori = Mended(TRUE)[s].fori
    BY Zenon, <2>6 DEF Instructions
  <2>9. c = [Mended(TRUE) EXCEPT ![s] = new]
    BY <1>1, <2>3, <2>5 DEF TypedCode
  <2> HIDE DEF new
  <2>10. c \in [Sites -> Instructions] /\ \A t \in Sites : c[t] = IF t = s THEN new ELSE Mended(TRUE)[t]
    BY <1>1, <2>3, <2>8, <2>9 DEF TypedCode
  <2>11. TypedCode(c, AbortedProtos(b))
    <3>1. ASSUME NEW t \in Sites, c[t].op = "I"
          PROVE  Kind(t) \in {"FORL", "LOOP", "FUNCF"} /\ AbortedProtos(b)[world.proto[t]].iloop
      <4>1. world.proto[t] \in Protos
        BY DEF Context, WorldFacts
      <4>2. CASE t = s
        BY <2>3, <2>7, <4>1, <4>2 DEF s, x
      <4>3. CASE t # s
        BY <1>1, <2>7, <2>10, <3>1, <4>1, <4>3 DEF TypedCode
      <4>4. QED
        BY <4>2, <4>3
    <3>2. QED
      BY <2>10, <3>1 DEF TypedCode
  <2>12. SoundCode(c)
    BY <1>1, <2>6, <2>8, <2>10 DEF SoundCode
  <2>13. AbortedCode(b) = c
    BY <1>3 DEF AbortedCode, c
  <2>14. QED
    BY <1>3, <2>7, <2>10, <2>11, <2>12, <2>13 DEF AbortFacts, s
<1>4. QED
  BY <1>2, <1>3

\* and in every other step.
LEMMA CodeTypedStep ==
  ASSUME Context, [Next]_vars
  PROVE  CodeTyped'
<1>1. TypedCode(code, pt) /\ TypedProtos(pt) /\ Typings /\ Fixed /\ WorldFacts
  BY DEF Context, TypeOK, CodeTyped, TypedCode, TypedProtos
<1>2. CASE UNCHANGED <<code, pt>>
  BY <1>2, CodeTypedBy, <1>1
<1>3. CASE Flush \/ StartFull
  BY <1>3, FlushTyped
<1>4. CASE Collect \/ Event \/ (Assemble /\ ~Stop) \/ Reassemble
  BY Zenon, <1>2, <1>4
  DEF Collect, GCStart, TraverseStack, Atomic, GCEnd, TraverseProto, TraverseTrace, FreeTrace,
      GCOnly, Event, AsyncAbort, Hot, HotExit, Call, Return, Unwind, EventOnly,
      Assemble, Reserve, Overrun, AsmError, Reassemble, Unsaved
<1>5. CASE StartOff
  <2>1. CASE UNCHANGED <<code, pt>>
    BY <1>2, <2>1
  <2>2. CASE /\ jit.parent = 0 /\ jit.exitno = 0
             /\ code' = [code EXCEPT ![jit.site] = Interpreted]
             /\ pt' = [pt EXCEPT ![world.proto[jit.site]].iloop = TRUE]
    <3>1. /\ jit.site \in Sites /\ pt[world.proto[jit.site]].nojit
          /\ Kind(jit.site) \in {"FORL", "LOOP", "FUNCF"}
      BY Zenon, <1>5, <2>2 DEF StartOff, Context, Compiler, Starting
    <3>2. Interpreted \in Instructions
      BY Zenon, <1>1 DEF Interpreted, Typings, Instructions
    <3> DEFINE x == world.proto[jit.site]
    <3>3. x \in Protos
      BY <1>1, <3>1 DEF WorldFacts
    <3>4. pt' = [pt EXCEPT ![x].iloop = TRUE]
      BY <2>2
    <3> HIDE DEF x
    <3>5. TypedProtos(pt') /\ \A q \in Protos : pt'[q].iloop = IF q = x THEN TRUE ELSE pt[q].iloop
      BY <1>1, <3>3, <3>4 DEF TypedProtos, ProtoStates
    <3>6. TypedCode(code', pt')
      <4>1. code' \in [Sites -> Instructions]
            /\ \A s \in Sites : code'[s] = IF s = jit.site THEN Interpreted ELSE code[s]
        BY <1>1, <2>2, <3>1, <3>2 DEF TypedCode
      <4>2. ASSUME NEW s \in Sites, code'[s].op = "I"
            PROVE  Kind(s) \in {"FORL", "LOOP", "FUNCF"} /\ pt'[world.proto[s]].iloop
        <5>1. world.proto[s] \in Protos
          BY <1>1 DEF WorldFacts
        <5>2. CASE s = jit.site
          BY <3>1, <3>5, <5>1, <5>2 DEF x
        <5>3. CASE s # jit.site
          BY <1>1, <3>5, <4>1, <4>2, <5>1, <5>3 DEF TypedCode
        <5>4. QED
          BY <5>2, <5>3
      <4>3. QED
        BY <4>1, <4>2 DEF TypedCode
    <3>7. QED
      BY <3>5, <3>6, CodeTypedBy
  <2>3. QED
    BY <1>5, <2>1, <2>2 DEF StartOff
<1>6. ASSUME NEW c, TypedCode(c, pt), NEW s, code' = [c EXCEPT ![s] = Plain], pt' = pt
      PROVE  CodeTyped'
  <2>1. TypedCode(code', pt')
    BY Zenon, <1>1, <1>6 DEF TypedCode, Typings
  <2>2. QED
    BY <1>1, <1>6, <2>1, CodeTypedBy
<1>7. ASSUME NEW o \in {"RECORD", "END", "ERR"}, StartTrace(o)
      PROVE  CodeTyped'
  <2>1. pt' = pt /\ (code' = code \/ code' = [code EXCEPT ![jit.site] = Plain])
    BY <1>7 DEF StartTrace
  <2>2. QED
    BY <1>1, <1>2, <1>6, <2>1
<1>8. CASE Record
  <2>1. TypedCode(Mended(FALSE), pt)
    BY MendedCode DEF MendedFacts
  <2>2. ASSUME NEW s \in Sites, RecordUnroll(s)
        PROVE  CodeTyped'
    BY <2>1, <2>2, FlushUnlinks, UnlinkedCode DEF RecordUnroll, Unlinks
  <2>3. CASE RecordOn \/ RecordError \/ RecordStop \/ \E s \in Sites : RecordDownrec(s)
    <3>1. code' = Mended(FALSE) /\ pt' = pt
      BY Zenon, <2>3 DEF RecordOn, RecordError, RecordStop, RecordDownrec
    <3>2. QED
      BY <1>1, <2>1, <3>1, CodeTypedBy
  <2>4. ASSUME NEW s \in Sites, RecordInto(s)
        PROVE  CodeTyped'
    BY Zenon, <1>6, <2>1, <2>4 DEF RecordInto
  <2>5. QED
    BY <1>8, <2>2, <2>3, <2>4 DEF Record
<1>9. CASE \E o \in {"RECORD", "ERR", "ASM"} : End(o)
  <2>1. TypedCode(Mended(TRUE), pt)
    BY MendedCode DEF MendedFacts
  <2>2. code' = Mended(TRUE) /\ pt' = pt
    BY <1>9 DEF End
  <2>3. QED
    BY <1>1, <2>1, <2>2, CodeTypedBy
<1>10. CASE Stop
  <2>1. CASE ~RootStop
    BY <1>2, <1>10, <2>1 DEF Stop
  <2>2. CASE RootStop
    <3> DEFINE x == world.proto[cur.site]
               new == Compiled(cur.site, cur.no)
    <3>1. /\ code' = [code EXCEPT ![cur.site] = new] /\ pt' = [pt EXCEPT ![x].trace = cur.no]
          /\ cur.site \in Sites /\ cur.no \in 0..world.traces
      BY <1>10, <2>2 DEF Stop, RootStop, Context, CurStates
    <3>2. new \in Instructions /\ new.op = "J"
      BY <3>1 DEF Compiled, Instructions
    <3> HIDE DEF x, new
    <3>3. TypedProtos(pt') /\ \A q \in Protos : pt'[q].iloop = pt[q].iloop
      BY <1>1, <3>1 DEF TypedProtos, ProtoStates
    <3>4. TypedCode(code', pt')
      BY <1>1, <3>1, <3>2, <3>3 DEF TypedCode, WorldFacts
    <3>5. QED
      BY <3>3, <3>4, CodeTypedBy
  <2>3. QED
    BY <2>1, <2>2
<1>11. ASSUME NEW b \in BOOLEAN, Abort(b)
       PROVE  CodeTyped'
  <2>1. TypedCode(AbortedCode(b), AbortedProtos(b)) /\ TypedProtos(AbortedProtos(b))
    BY <1>11, AbortFact DEF AbortFacts
  <2>2. \/ code' = AbortedCode(b) /\ pt' = AbortedProtos(b)
        \/ FlushedAll(AbortedCode(b), AbortedProtos(b))
    BY <1>11 DEF Abort, AbortedCode, AbortedProtos
  <2>3. QED
    BY <2>1, <2>2, FlushedCode, CodeTypedBy
<1>12. QED
  BY <1>2, <1>3, <1>4, <1>5, <1>7, <1>8, <1>9, <1>10, <1>11 DEF Next, Compile, Start, Assemble, vars

-----------------------------------------------------------------------------
\* What trace_stop saves: a root trace, a side trace, or a stitched one.
Saves ==
  /\ cur.no \in Numbers /\ slot[cur.no] = Cur /\ cur.no \notin Traces
  /\ SideStop <=> jit.parent # 0
  /\ SideStop => /\ Anchored(jit.parent, Kept) /\ cur.root = RootOf(jit.parent)
                 /\ cur.root \in Kept /\ jit.parent \in Kept /\ slot[cur.root].root = 0
                 /\ jit.exitno = 0
  /\ ~SideStop => cur.root = 0 /\ cur.site \in Sites
  /\ jit.exitno # 0 => jit.exitno \in Kept /\ slot[jit.exitno].link = 0
\* The trace it saves,
Saved(m) ==
  /\ m.site = cur.site /\ m.root = cur.root /\ m.link = cur.link
  /\ m.nextroot = (IF RootStop THEN pt[world.proto[cur.site]].trace ELSE 0)
  /\ m.nextside = (IF SideStop THEN slot[cur.root].nextside ELSE 0)
  /\ m.side = 0 /\ m.area = Len(mc.prot)
\* and the others.
Relinked(n) ==
  /\ slot'[n].site = slot[n].site /\ slot'[n].root = slot[n].root
  /\ slot'[n].nextroot = slot[n].nextroot /\ slot'[n].area = slot[n].area
  /\ slot'[n].nextside = (IF SideStop /\ n = cur.root THEN cur.no ELSE slot[n].nextside)
  /\ slot'[n].side = (IF SideStop /\ n = jit.parent THEN cur.no ELSE slot[n].side)
  /\ slot'[n].link = (IF ~SideStop /\ n = jit.exitno THEN cur.no ELSE slot[n].link)
LEMMA StopSaves ==
  ASSUME Context, Stop
  PROVE  /\ Saves
         /\ slot' \in [Numbers -> {Nil, Cur} \cup GCtrace(world)]
         /\ slot'[cur.no] \in GCtrace(world) /\ Saved(slot'[cur.no])
         /\ \A n \in Traces : slot'[n] \in GCtrace(world) /\ Relinked(n)
         /\ \A n \in Numbers : n # cur.no /\ n \notin Traces => slot'[n] = slot[n]
<1> USE DEF Context
<1>1. Saves
  <2>1. cur.no \in Numbers /\ slot[cur.no] = Cur /\ cur.no \notin Traces
    <3>1. cur.no \in Numbers
      BY Zenon DEF Stop, Compiler, Current, Compiling, CurStates, Typings
    <3>2. slot[cur.no] = Cur
      BY <3>1 DEF TypeOK, SlotsTyped
    <3>3. QED
      BY <3>1, <3>2 DEF Traces, IsTrace
  <2>2. jit.state = "ASM" /\ Parents /\ Current
    BY DEF Stop, Compiler
  <2>3. SideStop <=> jit.parent # 0
    BY <2>2 DEF SideStop, Current, Compiling
  <2>4. SideStop => /\ Anchored(jit.parent, Kept) /\ cur.root = RootOf(jit.parent)
                    /\ cur.root \in Kept /\ jit.parent \in Kept /\ slot[cur.root].root = 0
                    /\ jit.exitno = 0
    BY <2>2, <2>3 DEF Parents, Current, Compiling, Anchored
  <2>5. ~SideStop => cur.root = 0 /\ cur.site \in Sites
    BY <2>2, <2>3 DEF Current, Compiling, SideStop, CurStates
  <2>6. jit.exitno # 0 => jit.exitno \in Kept /\ slot[jit.exitno].link = 0
    BY <2>2 DEF Parents
  <2>7. QED
    BY <2>1, <2>3, <2>4, <2>5, <2>6 DEF Saves
<1>2. PICK nextroot \in Numbers \cup {0} :
        nextroot = IF RootStop THEN pt[world.proto[cur.site]].trace ELSE 0
  <2>1. RootStop => cur.site \in Sites /\ world.proto[cur.site] \in Protos
    BY DEF RootStop, CurStates, WorldFacts
  <2>2. pt \in [Protos -> ProtoStates]
    BY DEF TypeOK, CodeTyped
  <2>3. RootStop => pt[world.proto[cur.site]].trace \in Numbers \cup {0}
    BY Zenon, <2>1, <2>2 DEF ProtoStates, Typings
  <2>4. QED
    BY <2>3
<1>3. PICK nextside \in Numbers \cup {0} :
        nextside = IF SideStop THEN slot[cur.root].nextside ELSE 0
  <2>1. SideStop => cur.root \in Traces
    BY <1>1 DEF Saves, HeapFacts
  <2>2. QED
    BY <2>1 DEF TraceFacts
<1> DEFINE new == [site |-> cur.site, root |-> cur.root, link |-> cur.link,
                   linktype |-> cur.linktype, nextroot |-> nextroot, nextside |-> nextside,
                   side |-> 0, done |-> FALSE, area |-> Len(mc.prot)]
<1>4. Len(mc.prot) \in Nat
  <2>1. mc.prot \in Seq({GEN, RUN})
    BY DEF CodeInv, CodeTypeOK
  <2>2. QED
    BY <2>1
<1>5. slot' = Linked(new)
  BY <1>2, <1>3 DEF Stop
<1>6. new \in GCtrace(world) /\ Saved(new)
  <2>1. Saved(new)
    BY <1>2, <1>3 DEF Saved
  <2>2. new \in GCtrace(world)
    BY Zenon, <1>4 DEF CurStates, Typings, GCtrace, Sites, LinkTypes
  <2>3. QED
    BY <2>1, <2>2
<1> HIDE DEF new
<1>7. slot'[cur.no] = new
  BY Zenon, <1>1, <1>5 DEF Linked, Saves
<1>8. ASSUME NEW n \in Traces
      PROVE  slot'[n] \in GCtrace(world) /\ Relinked(n)
  <2> DEFINE c == cur.no
             t == slot[n]
  <2>1. n \in Numbers /\ n # c /\ t \in GCtrace(world) /\ c \in 0..world.traces
    BY Zenon, <1>1 DEF TraceFacts, Saves, Typings
  <2>2. CASE SideStop /\ n = jit.parent
    <3>1. PICK side \in 0..world.traces : side = IF n = cur.root THEN c ELSE t.nextside
      BY <2>1 DEF GCtrace
    <3>2. slot'[n] = [t EXCEPT !.done = TRUE, !.side = c, !.nextside = side]
      BY Zenon, <1>5, <2>1, <2>2, <3>1 DEF Linked
    <3> HIDE DEF t, c
    <3>3. /\ slot'[n] \in GCtrace(world) /\ slot'[n].site = t.site /\ slot'[n].root = t.root
          /\ slot'[n].nextroot = t.nextroot /\ slot'[n].area = t.area
          /\ slot'[n].nextside = side /\ slot'[n].side = c /\ slot'[n].link = t.link
      BY <2>1, <3>1, <3>2 DEF GCtrace
    <3>4. QED
      BY <2>2, <3>1, <3>3 DEF Relinked, t, c
  <2>3. CASE SideStop /\ n # jit.parent /\ n = cur.root
    <3>1. slot'[n] = [t EXCEPT !.nextside = c]
      BY Zenon, <1>5, <2>1, <2>3 DEF Linked
    <3> HIDE DEF t, c
    <3>2. /\ slot'[n] \in GCtrace(world) /\ slot'[n].site = t.site /\ slot'[n].root = t.root
          /\ slot'[n].nextroot = t.nextroot /\ slot'[n].area = t.area
          /\ slot'[n].nextside = c /\ slot'[n].side = t.side /\ slot'[n].link = t.link
      BY <2>1, <3>1 DEF GCtrace
    <3>3. QED
      BY <2>3, <3>2 DEF Relinked, t, c
  <2>4. CASE ~SideStop /\ n = jit.exitno
    <3>1. slot'[n] = [t EXCEPT !.link = c]
      BY <1>5, <2>1, <2>4 DEF Linked
    <3> HIDE DEF t, c
    <3>2. /\ slot'[n] \in GCtrace(world) /\ slot'[n].site = t.site /\ slot'[n].root = t.root
          /\ slot'[n].nextroot = t.nextroot /\ slot'[n].area = t.area
          /\ slot'[n].nextside = t.nextside /\ slot'[n].side = t.side /\ slot'[n].link = c
      BY <2>1, <3>1 DEF GCtrace
    <3>3. QED
      BY <2>4, <3>2 DEF Relinked, t, c
  <2>5. CASE (SideStop => n # jit.parent /\ n # cur.root) /\ (~SideStop => n # jit.exitno)
    <3>1. slot'[n] = t
      BY Zenon, <1>5, <2>1, <2>5 DEF Linked
    <3>2. QED
      BY <2>1, <2>5, <3>1 DEF Relinked
  <2>6. QED
    BY <2>2, <2>3, <2>4, <2>5
<1>9. ASSUME NEW n \in Numbers, n # cur.no, n \notin Traces
      PROVE  slot'[n] = slot[n]
  <2>1. /\ SideStop => n # jit.parent /\ n # cur.root
        /\ n # jit.exitno
    <3>1. Kept \subseteq Traces /\ n # 0
      BY DEF HeapFacts, WorldFacts
    <3>2. QED
      BY <1>1, <1>9, <3>1 DEF Saves
  <2>2. QED
    BY Zenon, <1>5, <1>9, <2>1 DEF Linked
<1>10. slot' \in [Numbers -> {Nil, Cur} \cup GCtrace(world)]
  <2>1. \A n \in Numbers : slot'[n] \in {Nil, Cur} \cup GCtrace(world)
    <3>1. \A n \in Numbers : slot[n] \in {Nil, Cur} \cup GCtrace(world)
      BY DEF TypeOK, SlotsTyped
    <3>2. QED
      BY <1>6, <1>7, <1>8, <1>9, <3>1
  <2>2. slot' = [n \in Numbers |-> slot'[n]]
    BY Zenon, <1>5 DEF Linked
  <2>3. QED
    BY <2>1, <2>2
<1>11. QED
  BY <1>1, <1>6, <1>7, <1>8, <1>9, <1>10

\* trace_abort gives back the number, and may link the trace before a call to
\* itself.
Drops ==
  /\ cur.no \in Numbers /\ slot[cur.no] = Cur /\ cur.no \notin Traces
  /\ slot' \in [Numbers -> {Nil, Cur} \cup GCtrace(world)] /\ slot'[cur.no] = Nil
  /\ \A n \in Traces : /\ slot'[n] \in GCtrace(world) /\ SameTrace(n)
                       /\ slot'[n].area = slot[n].area
                       /\ slot'[n] = slot[n] \/ (jit.parent = 0 /\ n = jit.exitno)
  /\ \A n \in Numbers : n # cur.no /\ n \notin Traces => slot'[n] = slot[n]
  /\ freetrace' = IF cur.no <= freetrace THEN cur.no ELSE freetrace
LEMMA AbortDrops ==
  ASSUME Context, NEW b \in BOOLEAN, Abort(b), ~Flushes
  PROVE  Drops
<1> USE DEF Context
<1>1. jit.state \in {"ERR", "ABORTED"} /\ Parents /\ Current
  BY DEF Abort, Compiler
<1>2. cur.no \in Numbers /\ slot[cur.no] = Cur /\ cur.no \notin Traces
  <2>1. cur.no \in Numbers
    BY Zenon, <1>1 DEF Current, Compiling, CurStates, Typings
  <2>2. slot[cur.no] = Cur
    BY <2>1 DEF TypeOK, SlotsTyped
  <2>3. QED
    BY <2>1, <2>2 DEF Traces, IsTrace
<1>3. slot' = [n \in Numbers |->
                 IF n = cur.no THEN Nil
                 ELSE IF jit.parent = 0 /\ n = jit.exitno THEN [slot[n] EXCEPT !.link = n]
                 ELSE slot[n]]
      /\ freetrace' = Min({cur.no, freetrace})
  BY <1>2 DEF Abort, Dropped, WorldFacts
<1>4. slot'[cur.no] = Nil
  BY <1>2, <1>3
<1>5. ASSUME NEW n \in Traces
      PROVE  /\ slot'[n] \in GCtrace(world) /\ SameTrace(n) /\ slot'[n].area = slot[n].area
             /\ slot'[n] = slot[n] \/ (jit.parent = 0 /\ n = jit.exitno)
  <2> DEFINE t == slot[n]
  <2>1. n \in Numbers /\ n # cur.no /\ t \in GCtrace(world) /\ n \in 0..world.traces
    BY Zenon, <1>2 DEF TraceFacts, Typings
  <2>2. CASE jit.parent = 0 /\ n = jit.exitno
    <3>1. t.link = 0
      BY <1>1, <2>1, <2>2 DEF Parents, WorldFacts
    <3>2. slot'[n] = [t EXCEPT !.link = n]
      BY <1>3, <2>1, <2>2
    <3> HIDE DEF t
    <3>3. /\ slot'[n] \in GCtrace(world) /\ slot'[n].site = t.site /\ slot'[n].root = t.root
          /\ slot'[n].nextroot = t.nextroot /\ slot'[n].area = t.area
          /\ slot'[n].nextside = t.nextside /\ slot'[n].side = t.side /\ slot'[n].link = n
      BY <2>1, <3>2 DEF GCtrace
    <3>4. QED
      BY <2>2, <3>1, <3>3 DEF SameTrace, t
  <2>3. CASE ~(jit.parent = 0 /\ n = jit.exitno)
    BY <1>3, <2>1, <2>3 DEF SameTrace
  <2>4. QED
    BY <2>2, <2>3
<1>6. ASSUME NEW n \in Numbers, n # cur.no, n \notin Traces
      PROVE  slot'[n] = slot[n]
  <2>1. n # jit.exitno
    BY <1>1, <1>6 DEF Parents, HeapFacts, WorldFacts
  <2>2. QED
    BY <1>3, <1>6, <2>1
<1>7. slot' \in [Numbers -> {Nil, Cur} \cup GCtrace(world)]
  <2>1. \A n \in Numbers : slot[n] \in {Nil, Cur} \cup GCtrace(world)
    BY DEF TypeOK, SlotsTyped
  <2>2. \A n \in Numbers : slot'[n] \in {Nil, Cur} \cup GCtrace(world)
    BY <1>4, <1>5, <1>6, <2>1
  <2>3. QED
    BY <1>3, <2>2
<1>8. freetrace' = IF cur.no <= freetrace THEN cur.no ELSE freetrace
  <2>1. cur.no \in Nat /\ freetrace \in Nat
    BY <1>2 DEF WorldFacts, TypeOK, SlotsTyped
  <2>2. Min({cur.no, freetrace}) \in {cur.no, freetrace}
        /\ Min({cur.no, freetrace}) <= cur.no /\ Min({cur.no, freetrace}) <= freetrace
    BY <2>1, NatMin
  <2>3. QED
    BY <1>3, <2>1, <2>2
<1>9. QED
  BY <1>2, <1>4, <1>5, <1>6, <1>7, <1>8 DEF Drops

\* lj_trace_flushall frees all numbers, when none is being recorded.
LEMMA FlushedSlots ==
  ASSUME Context, NEW c, NEW p, FlushedAll(c, p), cur'.no = 0
  PROVE  SlotsTyped'
BY DEF FlushedAll, SlotsTyped, Context, Fixed, WorldFacts

\* The compiler's numbers stay taken, and the others are traces or free.
LEMMA SlotsTypedStep ==
  ASSUME Context, [Next]_vars
  PROVE  SlotsTyped'
<1> USE DEF Context
<1>1. SlotsTyped /\ GCtrace(world)' = GCtrace(world) /\ Numbers' = Numbers /\ world' = world
      /\ world.traces \in Nat
  BY DEF TypeOK, Fixed, WorldFacts
<1>2. CASE UNCHANGED <<slot, freetrace>> /\ cur'.no = cur.no
  BY <1>1, <1>2 DEF SlotsTyped
<1>3. CASE UNCHANGED <<slot, freetrace, cur>>
  BY <1>2, <1>3
<1>4. CASE FlushAll \/ StartFull
  <2>1. cur' = cur /\ cur.no = 0
    BY <1>4 DEF FlushAll, StartFull, MayFlush, BeforeStart
  <2>2. QED
    BY <1>4, <2>1, FlushedSlots DEF FlushAll, StartFull
<1>5. CASE (Flush /\ ~FlushAll /\ ~\E n \in Numbers : FlushTrace(n)) \/ Event \/ StartOff
           \/ (Assemble /\ ~Stop) \/ Reassemble
  BY Zenon, <1>3, <1>5
  DEF Flush, Reenable, FlushProto, FlushOnly, Event, AsyncAbort, Hot, HotExit, Call, Return,
      Unwind, EventOnly, StartOff, Assemble, Reserve, Overrun, AsmError, Reassemble, Unsaved
<1>6. CASE Collect /\ ~\E n \in Numbers : FreeTrace(n)
  BY Zenon, <1>3, <1>6
  DEF Collect, GCStart, TraverseStack, Atomic, GCEnd, TraverseProto, TraverseTrace, GCOnly
<1>7. ASSUME NEW n \in Numbers, FreeTrace(n)
      PROVE  SlotsTyped'
  <2>1. n \in Traces /\ slot' = [slot EXCEPT ![n] = Nil] /\ cur' = cur
        /\ freetrace' = Min({n, freetrace})
    BY <1>7 DEF FreeTrace, GCOnly, Collector, Phases
  <2>2. n \in Nat /\ freetrace \in Nat /\ slot[n] # Cur
    BY <1>1, <2>1 DEF WorldFacts, SlotsTyped, Traces, IsTrace
  <2>3. freetrace' \in {n, freetrace} /\ freetrace' <= n /\ freetrace' <= freetrace
    BY <2>1, <2>2, NatMin
  <2>4. \A m \in Numbers : slot'[m] = IF m = n THEN Nil ELSE slot[m]
    BY <1>1, <2>1 DEF SlotsTyped
  <2>5. slot' \in [Numbers -> {Nil, Cur} \cup GCtrace(world)]
    BY <1>1, <2>1 DEF SlotsTyped
  <2>6. freetrace' \in 0..(world.traces + 1)
    BY <1>1, <2>3, <1>7 DEF SlotsTyped, WorldFacts
  <2>7. ASSUME NEW m \in Numbers
        PROVE  (m < freetrace' => slot'[m] # Nil) /\ (slot'[m] = Cur <=> cur'.no = m)
    BY <1>1, <2>1, <2>2, <2>3, <2>4 DEF SlotsTyped, WorldFacts
  <2>8. QED
    BY <1>1, <2>5, <2>6, <2>7 DEF SlotsTyped
<1>8. ASSUME NEW n \in Traces, slot' = UnlinkedSlot(n), freetrace' = freetrace, cur' = cur
      PROVE  SlotsTyped'
  <2>1. \A m \in Numbers : slot'[m] = slot[m] \/
          (IsTrace(m) /\ slot'[m] = [slot[m] EXCEPT !.nextroot = slot[n].nextroot])
    BY <1>8 DEF UnlinkedSlot
  <2>2. ASSUME NEW m \in Numbers
        PROVE  /\ slot'[m] \in {Nil, Cur} \cup GCtrace(world)
               /\ \/ slot'[m] = slot[m]
                  \/ slot'[m] \in GCtrace(world) /\ slot[m] \in GCtrace(world)
    <3>1. slot[m] \in {Nil, Cur} \cup GCtrace(world)
      BY <1>1 DEF SlotsTyped
    <3>2. CASE slot'[m] = slot[m]
      BY <3>1, <3>2
    <3>3. CASE IsTrace(m) /\ slot'[m] = [slot[m] EXCEPT !.nextroot = slot[n].nextroot]
      <4>1. slot[m] \in GCtrace(world) /\ slot[n].nextroot \in 0..world.traces
        BY Zenon, <3>1, <3>3 DEF IsTrace, TraceFacts, Typings
      <4>2. slot'[m] \in GCtrace(world)
        BY <3>3, <4>1 DEF GCtrace
      <4>3. QED
        BY <4>1, <4>2
    <3>4. QED
      BY <2>1, <3>2, <3>3
  <2>3. slot' = [m \in Numbers |-> slot'[m]]
    BY <1>8 DEF UnlinkedSlot
  <2>4. QED
    BY <1>1, <1>8, <2>2, <2>3 DEF SlotsTyped, WorldFacts
<1>9. CASE (\E n \in Numbers : FlushTrace(n)) \/ (\E s \in Sites : RecordUnroll(s))
  BY <1>8, <1>9, FlushUnlinks
  DEF FlushTrace, FlushOnly, RecordUnroll, RecordOnly, Unlinks
<1>10. CASE Record /\ ~\E s \in Sites : RecordUnroll(s)
  <2>1. UNCHANGED <<slot, freetrace>>
    BY Zenon, <1>10 DEF Record, RecordOn, RecordError, RecordStop, RecordDownrec, RecordInto, RecordOnly
  <2>2. cur'.no = cur.no
    BY <1>10, RecordFields DEF Records, SameStart
  <2>3. QED
    BY <1>2, <2>1, <2>2
<1>11. CASE \E o \in {"RECORD", "ERR", "ASM"} : End(o)
  BY <1>2, <1>11, EndFields DEF Ends, SameStart, End
<1>12. ASSUME NEW o \in {"RECORD", "END", "ERR"}, StartTrace(o)
       PROVE  SlotsTyped'
  <2> DEFINE n == Min(FreeNumbers)
  <2>1. jit.state = "START"
    BY <1>12 DEF StartTrace
  <2>2. jit.site \in Sites /\ (jit.parent # 0 => jit.parent \in Traces) /\ cur.no = 0
    BY Zenon, <2>1 DEF Compiler, Starting, Parents, Anchored, Kept, BeforeStart
  <2>3. Starts(o, n)
    BY <1>12, <2>2, StartFields
  <2> HIDE DEF n
  <2>4. /\ n \in Numbers /\ \A m \in Numbers : m < n => slot[m] # Nil
        /\ slot' = [slot EXCEPT ![n] = Cur] /\ freetrace' = n + 1 /\ cur'.no = n
    BY Zenon, <2>3 DEF Starts
  <2>5. \A m \in Numbers : slot'[m] = IF m = n THEN Cur ELSE slot[m]
    BY <1>1, <2>4 DEF SlotsTyped
  <2>6. \A m \in Numbers : slot[m] # Cur
    BY <1>1, <2>2 DEF SlotsTyped, WorldFacts
  <2>7. slot' \in [Numbers -> {Nil, Cur} \cup GCtrace(world)]
        /\ freetrace' \in 0..(world.traces + 1)
    BY <1>1, <2>4 DEF SlotsTyped, WorldFacts
  <2>8. ASSUME NEW m \in Numbers
        PROVE  (m < freetrace' => slot'[m] # Nil) /\ (slot'[m] = Cur <=> cur'.no = m)
    BY <2>4, <2>5, <2>6 DEF WorldFacts
  <2>9. QED
    BY <1>1, <2>7, <2>8 DEF SlotsTyped
<1>13. CASE Stop
  <2>1. /\ Saves /\ slot' \in [Numbers -> {Nil, Cur} \cup GCtrace(world)]
        /\ slot'[cur.no] \in GCtrace(world)
        /\ \A n \in Traces : slot'[n] \in GCtrace(world)
        /\ \A n \in Numbers : n # cur.no /\ n \notin Traces => slot'[n] = slot[n]
    BY <1>13, StopSaves
  <2>2. freetrace' = freetrace /\ cur'.no = 0
    BY <1>13, StopFields DEF Idles, Stop
  <2>3. ASSUME NEW m \in Numbers
        PROVE  (m < freetrace' => slot'[m] # Nil) /\ (slot'[m] = Cur <=> cur'.no = m)
    BY <1>1, <2>1, <2>2 DEF SlotsTyped, WorldFacts, Saves
  <2>4. QED
    BY <1>1, <2>1, <2>2, <2>3 DEF SlotsTyped
<1>14. ASSUME NEW b \in BOOLEAN, Abort(b)
       PROVE  SlotsTyped'
  <2>1. cur'.no = 0
    BY <1>14, AbortFields DEF Aborts, Idles
  <2>2. CASE Flushes
    <3>1. FlushedAll(AbortedCode(b), AbortedProtos(b))
      BY <1>14, <2>2 DEF Abort, AbortedCode, AbortedProtos
    <3>2. QED
      BY <2>1, <3>1, FlushedSlots
  <2>3. CASE ~Flushes
    <3>1. Drops
      BY <1>14, <2>3, AbortDrops
    <3>2. cur.no \in Nat /\ freetrace \in Nat /\ freetrace' \in 0..(world.traces + 1)
      BY <1>1, <3>1 DEF Drops, SlotsTyped, WorldFacts
    <3>3. ASSUME NEW m \in Numbers
          PROVE  (m < freetrace' => slot'[m] # Nil) /\ (slot'[m] = Cur <=> cur'.no = m)
      <4>1. CASE m = cur.no
        BY <2>1, <3>1, <3>2, <4>1 DEF Drops, WorldFacts
      <4>2. CASE m # cur.no
        <5>1. m < freetrace' => m < freetrace
          BY <3>1, <3>2 DEF Drops, WorldFacts
        <5>2. QED
          BY <1>1, <2>1, <3>1, <4>2, <5>1 DEF Drops, SlotsTyped, WorldFacts
      <4>3. QED
        BY <4>1, <4>2
    <3>4. QED
      BY <1>1, <3>1, <3>2, <3>3 DEF SlotsTyped, Drops
  <2>4. QED
    BY <2>2, <2>3
<1>15. QED
  BY <1>3, <1>4, <1>5, <1>6, <1>7, <1>9, <1>10, <1>11, <1>12, <1>13, <1>14
  DEF Next, Compile, Start, Assemble, Flush, Collect, Record, vars

\* What a step does not do to the collector's state and the frames.
GCSteps ==
  \/ Collect \/ FlushAll \/ StartFull \/ Stop \/ \E b \in BOOLEAN : Abort(b) /\ Flushes
LEMMA GCUntouched ==
  ASSUME [Next]_vars, ~GCSteps
  PROVE  gc' = gc
<1>1. CASE Compile
  BY Zenon, <1>1 DEF Compile, Start, StartOff, StartTrace, End, Assemble, Reserve, Overrun, AsmError,
              Reassemble, Abort, GCSteps, Unsaved
<1>2. CASE Record
  BY Zenon, <1>2 DEF Record, RecordOn, RecordError, RecordStop, RecordDownrec, RecordInto,
              RecordUnroll, RecordOnly
<1>3. CASE Flush
  BY <1>3 DEF Flush, FlushTrace, Reenable, FlushProto, FlushOnly, GCSteps
<1>4. CASE Event
  BY Zenon, <1>4 DEF Event, AsyncAbort, Hot, HotExit, Call, Return, Unwind, EventOnly
<1>5. QED
  BY <1>1, <1>2, <1>3, <1>4 DEF Next, vars, GCSteps

\* What the collector has marked are traces' numbers.
LEMMA GCTypedStep ==
  ASSUME Context, [Next]_vars
  PROVE  GCTyped'
<1> USE DEF Context
<1> DEFINE Collectors == [phase : {"pause", "propagate", "sweep"}, todo : SUBSET Protos,
                          gray : SUBSET Numbers, black : SUBSET Numbers, dead : SUBSET Numbers]
<1>1. gc \in Collectors /\ Collectors' = Collectors
  BY DEF TypeOK, GCTyped, Fixed
<1>2. SUFFICES gc' \in Collectors
  BY <1>1 DEF GCTyped
<1>3. \A g \in Collectors, S \in SUBSET Numbers : Marked(g, S) \in Collectors
  BY DEF Marked
<1>4. CASE ~GCSteps
  BY <1>1, <1>4, GCUntouched
<1>5. ASSUME NEW c, NEW p, FlushedAll(c, p)
      PROVE  gc' \in Collectors
  <2>1. gc' = [gc EXCEPT !.gray = {}, !.black = {}, !.dead = {}]
    BY <1>5 DEF FlushedAll
  <2>2. QED
    BY <1>1, <2>1
<1>6. CASE FlushAll \/ StartFull \/ \E b \in BOOLEAN : Abort(b) /\ Flushes
  BY <1>5, <1>6 DEF FlushAll, StartFull, Abort
<1>7. CASE Stop
  <2>1. cur.no \in Numbers
    BY <1>7, StopSaves DEF Saves
  <2>2. gc' = gc \/ gc' = Marked(gc, {cur.no})
    BY <1>7 DEF Stop, Barrier
  <2>3. QED
    BY <1>1, <1>3, <2>1, <2>2
<1>8. CASE Collect
  <2>1. CASE GCStart
    BY <2>1 DEF GCStart
  <2>2. ASSUME NEW p \in Protos, TraverseProto(p)
        PROVE  gc' \in Collectors
    <3>1. [gc EXCEPT !.todo = @ \ {p}] \in Collectors /\ First(p) \in SUBSET Numbers
      BY <1>1 DEF TraceFacts
    <3>2. gc' = Marked([gc EXCEPT !.todo = @ \ {p}], First(p))
      BY <2>2 DEF TraverseProto
    <3> HIDE DEF Collectors
    <3>3. QED
      BY <1>3, <3>1, <3>2
  <2>3. ASSUME NEW n \in Numbers, TraverseTrace(n)
        PROVE  gc' \in Collectors
    <3>1. [gc EXCEPT !.gray = @ \ {n}, !.black = @ \cup {n}] \in Collectors
          /\ Children(n) \in SUBSET Numbers
      BY <1>1 DEF TraceFacts
    <3>2. gc' = Marked([gc EXCEPT !.gray = @ \ {n}, !.black = @ \cup {n}], Children(n))
      BY <2>3 DEF TraverseTrace
    <3> HIDE DEF Collectors
    <3>3. QED
      BY <1>3, <3>1, <3>2
  <2>4. CASE TraverseStack
    BY <1>1, <1>3, <2>4 DEF TraverseStack, TypeOK
  <2>5. CASE Atomic
    <3>1. gc' = [phase |-> "sweep", todo |-> {}, gray |-> {}, black |-> {}, dead |-> Traces \ Live]
      BY <2>5 DEF Atomic
    <3>2. Traces \ Live \in SUBSET Numbers
      BY DEF TraceFacts
    <3>3. QED
      BY <3>1, <3>2
  <2>6. CASE GCEnd
    BY <1>1, <2>6 DEF GCEnd
  <2>7. ASSUME NEW n \in Numbers, FreeTrace(n)
        PROVE  gc' \in Collectors
    BY <1>1, <2>7 DEF FreeTrace
  <2>8. QED
    BY <1>8, <2>1, <2>2, <2>3, <2>4, <2>5, <2>6, <2>7 DEF Collect
<1>9. QED
  BY <1>4, <1>6, <1>7, <1>8 DEF GCSteps

\* Every step of the model keeps the types.
LEMMA TypeOKStep ==
  ASSUME Context, [Next]_vars
  PROVE  TypeOK'
<1>1. Fixed /\ penalty \subseteq Sites /\ frames \subseteq Numbers /\ cur \in CurStates
      /\ world' \in Worlds
  BY DEF Context, TypeOK, Fixed
<1>2. penalty' \subseteq Sites
  <2>1. \/ penalty' = penalty \/ penalty' = {}
        \/ Penalized /\ penalty' = penalty \cup {cur.site}
    <3>1. CASE Compile
      BY Zenon, <3>1 DEF Compile, Start, StartOff, StartFull, StartTrace, End, Assemble, Reserve, Overrun,
                  AsmError, Stop, Reassemble, Abort, AsmOnly, FlushedAll
    <3>2. CASE Record
      BY Zenon, <3>2 DEF Record, RecordOn, RecordError, RecordStop, RecordDownrec, RecordInto,
                  RecordUnroll, RecordOnly
    <3>3. CASE Collect
      BY Zenon, <3>3 DEF Collect, GCStart, TraverseStack, Atomic, GCEnd, TraverseProto, TraverseTrace,
                  FreeTrace, GCOnly
    <3>4. CASE Flush
      BY <3>4 DEF Flush, FlushAll, FlushTrace, Reenable, FlushProto, FlushOnly, FlushedAll
    <3>5. CASE Event
      BY Zenon, <3>5 DEF Event, AsyncAbort, Hot, HotExit, Call, Return, Unwind, EventOnly
    <3>6. QED
      BY <3>1, <3>2, <3>3, <3>4, <3>5 DEF Next, vars
  <2>2. QED
    BY <1>1, <2>1 DEF Penalized, CurStates
<1>3. frames' \subseteq Numbers
  <2>1. frames' = frames \/ frames' = {} \/ \E n \in Numbers : frames' \in {frames \cup {n}, frames \ {n}}
    <3>1. CASE Compile
      BY Zenon, <3>1 DEF Compile, Start, StartOff, StartFull, StartTrace, End, Assemble, Reserve, Overrun,
                  AsmError, Stop, Reassemble, Abort, AsmOnly, FlushedAll
    <3>2. CASE Record
      BY Zenon, <3>2 DEF Record, RecordOn, RecordError, RecordStop, RecordDownrec, RecordInto,
                  RecordUnroll, RecordOnly
    <3>3. CASE Collect
      BY Zenon, <3>3 DEF Collect, GCStart, TraverseStack, Atomic, GCEnd, TraverseProto, TraverseTrace,
                  FreeTrace, GCOnly
    <3>4. CASE Flush
      BY <3>4 DEF Flush, FlushAll, FlushTrace, Reenable, FlushProto, FlushOnly, FlushedAll
    <3>5. CASE Event
      BY Zenon, <3>5 DEF Event, AsyncAbort, Hot, HotExit, Call, Return, Unwind, EventOnly
    <3>6. QED
      BY <3>1, <3>2, <3>3, <3>4, <3>5 DEF Next, vars
  <2>2. QED
    BY <1>1, <2>1
<1>4. mc'.room \in 0..AreaSize /\ open' \in BOOLEAN
  <2>1. CodeInv'
    BY TraceInvStep DEF Context, Safe, TraceInv
  <2>2. QED
    BY <2>1 DEF CodeInv, CodeTypeOK
<1>5. CodeTyped' /\ SlotsTyped' /\ CompilerTyped' /\ GCTyped'
  BY CodeTypedStep, SlotsTypedStep, CompilerTypedStep, GCTypedStep
<1>6. QED
  BY <1>1, <1>2, <1>3, <1>4, <1>5 DEF TypeOK, Fixed

-----------------------------------------------------------------------------
\* trace_stop adds the trace at the head of the chains it belongs to.
Adds(c, p, r) ==
  /\ c \in Numbers /\ c \notin Traces /\ c \notin Kept
  /\ Kept' = Kept \cup {c} /\ Traces' = Traces \cup {c}
  /\ \A n \in Kept : /\ slot'[n].root = slot[n].root /\ slot'[n].site = slot[n].site
                     /\ NextRoot(n)' = NextRoot(n)
                     /\ NextSide(n)' = (IF SideStop /\ n = r THEN {c} ELSE NextSide(n))
                     /\ SideExit(n)' = (IF SideStop /\ n = jit.parent THEN {c} ELSE SideExit(n))
                     /\ Links(n)' = Links(n) \/ (~SideStop /\ Links(n) = {} /\ Links(n)' = {c})
  /\ slot'[c].root = r /\ slot'[c].site = cur.site
  /\ NextRoot(c)' = (IF RootStop THEN First(p) ELSE {})
  /\ NextSide(c)' = (IF SideStop THEN NextSide(r) ELSE {})
  /\ SideExit(c)' = {} /\ Links(c)' = {cur.link} \ {0}
  /\ \A q \in Protos : First(q)' = IF RootStop /\ q = p THEN {c} ELSE First(q)
LEMMA StopAdds ==
  ASSUME Context, TypeOK', Stop, NEW c, c = cur.no, NEW r, r = cur.root,
         NEW p, p = world.proto[cur.site]
  PROVE  Adds(c, p, r)
<1> USE DEF Context
<1>1. /\ Saves /\ slot'[c] \in GCtrace(world) /\ Saved(slot'[c])
      /\ \A n \in Traces : slot'[n] \in GCtrace(world) /\ Relinked(n)
      /\ \A n \in Numbers : n # c /\ n \notin Traces => slot'[n] = slot[n]
  BY StopSaves
<1>2. Numbers' = Numbers /\ Protos' = Protos /\ c \in Numbers /\ c \notin Traces /\ c # 0
  BY <1>1 DEF Fixed, Saves, WorldFacts
<1>3. gc'.dead = gc.dead /\ gc.dead \subseteq Traces
  <2>1. gc' = gc \/ gc' = [gc EXCEPT !.gray = @ \cup ({c} \ gc.black)]
    BY DEF Stop, Barrier, Marked
  <2>2. gc'.dead = gc.dead
    BY <2>1 DEF TypeOK, GCTyped
  <2>3. QED
    BY <2>2 DEF Collector, Phases
<1>4. \A n \in Numbers : IsTrace(n)' <=> IsTrace(n) \/ n = c
  <2>1. \A n \in Numbers : IsTrace(n) <=> n \in Traces
    BY DEF TraceFacts
  <2>2. QED
    BY <1>1, <1>2, <2>1 DEF IsTrace, WorldFacts
<1>5. Traces' = Traces \cup {c} /\ Kept' = Kept \cup {c} /\ c \notin Kept
  BY <1>2, <1>3, <1>4 DEF Traces, Kept
<1>6. ASSUME NEW n \in Kept
      PROVE  /\ slot'[n].root = slot[n].root /\ slot'[n].site = slot[n].site
             /\ NextRoot(n)' = NextRoot(n)
             /\ NextSide(n)' = (IF SideStop /\ n = r THEN {c} ELSE NextSide(n))
             /\ SideExit(n)' = (IF SideStop /\ n = jit.parent THEN {c} ELSE SideExit(n))
             /\ Links(n)' = Links(n) \/ (~SideStop /\ Links(n) = {} /\ Links(n)' = {c})
  <2>1. n \in Traces /\ n \in Numbers /\ IsTrace(n) /\ IsTrace(n)' /\ Relinked(n)
    BY <1>1, <1>4 DEF HeapFacts, TraceFacts
  <2>2. ~SideStop /\ n = jit.exitno => slot[n].link = 0
    BY <1>1, <2>1 DEF Saves, WorldFacts
  <2>3. NextRoot(n)' = NextRoot(n) /\ NextSide(n)' = (IF SideStop /\ n = r THEN {c} ELSE NextSide(n))
    BY <1>2, <2>1 DEF Relinked, NextRoot, NextSide
  <2>4. SideExit(n)' = (IF SideStop /\ n = jit.parent THEN {c} ELSE SideExit(n))
    BY <1>2, <2>1 DEF Relinked, SideExit
  <2>5. Links(n)' = Links(n) \/ (~SideStop /\ Links(n) = {} /\ Links(n)' = {c})
    BY <1>2, <2>1, <2>2 DEF Relinked, Links
  <2>6. QED
    BY <2>1, <2>3, <2>4, <2>5 DEF Relinked
<1>7. /\ slot'[c].root = r /\ slot'[c].site = cur.site
      /\ NextRoot(c)' = (IF RootStop THEN First(p) ELSE {})
      /\ NextSide(c)' = (IF SideStop THEN NextSide(r) ELSE {})
      /\ SideExit(c)' = {} /\ Links(c)' = {cur.link} \ {0}
  <2>1. IsTrace(c)' /\ Saved(slot'[c])
    BY <1>1, <1>2, <1>4
  <2>2. NextRoot(c)' = (IF RootStop THEN First(p) ELSE {})
    BY <2>1 DEF Saved, NextRoot, First
  <2>3. SideStop => IsTrace(r)
    BY <1>1 DEF Saves, HeapFacts, TraceFacts
  <2>4. NextSide(c)' = (IF SideStop THEN NextSide(r) ELSE {})
    BY <2>1, <2>3 DEF Saved, NextSide
  <2>5. QED
    BY <2>1, <2>2, <2>4 DEF Saved, SideExit, Links
<1>8. ASSUME NEW q \in Protos
      PROVE  First(q)' = IF RootStop /\ q = p THEN {c} ELSE First(q)
  <2>1. pt \in [Protos -> ProtoStates]
    BY DEF TypeOK, CodeTyped
  <2>2. pt' = IF RootStop THEN [pt EXCEPT ![p].trace = c] ELSE pt
    BY DEF Stop
  <2>3. CASE RootStop
    <3>1. pt'[q].trace = IF q = p THEN c ELSE pt[q].trace
      BY <2>1, <2>2, <2>3 DEF ProtoStates
    <3>2. QED
      BY <1>2, <2>3, <3>1 DEF First
  <2>4. CASE ~RootStop
    BY <2>2, <2>4 DEF First
  <2>5. QED
    BY <2>3, <2>4
<1>9. QED
  BY <1>2, <1>5, <1>6, <1>7, <1>8 DEF Adds

\* Who a trace is when it is saved.
Roles(c, p, r) ==
  /\ SideStop => r \in Kept /\ slot[r].root = 0 /\ r # 0 /\ jit.parent \in {r} \cup SideChain(r)
  /\ ~SideStop => r = 0 /\ p \in Protos /\ p = world.proto[cur.site] /\ cur.site \in Sites
  /\ cur.link \in {0, c} \/ (cur.link \in Kept /\ slot[cur.link].root = 0)
  /\ RootStop => ~SideStop
LEMMA StopRoles ==
  ASSUME Context, Stop, NEW c, c = cur.no, NEW r, r = cur.root,
         NEW p, p = world.proto[cur.site]
  PROVE  Roles(c, p, r)
<1> USE DEF Context
<1>1. Saves
  BY StopSaves
<1>2. Current /\ Compiling
  BY DEF Stop, Compiler, Compiling
<1>3. SideStop => r \in Kept /\ slot[r].root = 0 /\ r # 0 /\ jit.parent \in {r} \cup SideChain(r)
  BY <1>1 DEF Saves, Anchored, HeapFacts, WorldFacts
<1>4. ~SideStop => r = 0 /\ p \in Protos /\ p = world.proto[cur.site] /\ cur.site \in Sites
  BY <1>1 DEF Saves, WorldFacts
<1>5. RootStop => ~SideStop
  BY DEF RootStop, SideStop
<1>6. QED
  BY <1>2, <1>3, <1>4, <1>5 DEF Current, Roles

\* No trace that is kept is in the side chains of two others, and the new one
\* is at the head of one.
SidesAdded(c, r) ==
  /\ \A n \in Kept : ~SideStop \/ n # r =>
       (slot[n].root = 0 => SideChain(n)' = SideChain(n))
  /\ SideStop => SideChain(r)' = {c} \cup SideChain(r)
  /\ ~SideStop => SideChain(c)' = {}
LEMMA StopSides ==
  ASSUME Context, TypeOK', Stop, NEW c, c = cur.no, NEW r, r = cur.root,
         NEW p, p = world.proto[cur.site]
  PROVE  SidesAdded(c, r)
<1> USE DEF Context
<1>1. Adds(c, p, r) /\ Roles(c, p, r)
  BY StopAdds, StopRoles
<1>2. TraceFacts' /\ ChainFacts' /\ Numbers' = Numbers
  BY TraceFact, ChainFact, PTL DEF Fixed
<1>3. /\ NextSides \in [Numbers -> SUBSET Numbers] /\ NextSides' \in [Numbers -> SUBSET Numbers]
      /\ \A m \in Numbers : NextSides[m] = NextSide(m) /\ NextSides'[m] = NextSide(m)'
  BY <1>2 DEF ChainFacts, NextSides
<1>4. /\ Kept \subseteq Numbers /\ c \in Numbers
      /\ \A n \in Kept : SideChain(n) \subseteq Kept
  BY <1>1 DEF HeapFacts, Adds
<1>5. \A n \in Kept : slot[n].root = 0 => \A m \in SideChain(n) : slot[m].root = n
  BY DEF Heap, SidesInChain
<1>6. \A n \in Kept : NextSide(n)' = (IF SideStop /\ n = r THEN {c} ELSE NextSide(n))
  BY <1>1 DEF Adds
<1>7. \A n \in Numbers : /\ SideChain(n) = Reach(NextSide(n), NextSides)
                         /\ SideChain(n)' = Reach(NextSide(n)', NextSides')
                         /\ NextSide(n) \subseteq SideChain(n)
                         /\ NextSide(n)' \subseteq SideChain(n)'
                         /\ \A m \in SideChain(n) : NextSide(m) \subseteq SideChain(n)
                         /\ \A m \in SideChain(n)' : NextSide(m)' \subseteq SideChain(n)'
                         /\ SideChain(n) \subseteq Numbers /\ SideChain(n)' \subseteq Numbers
                         /\ NextSide(n) \subseteq Numbers /\ NextSide(n)' \subseteq Numbers
  BY <1>2 DEF ChainFacts, TraceFacts
<1>8. ASSUME NEW n \in Kept, ~SideStop \/ n # r, slot[n].root = 0
      PROVE  SideChain(n)' = SideChain(n)
  <2>1. NextSide(n)' = NextSide(n)
    BY <1>6, <1>8
  <2>2. ASSUME NEW m \in SideChain(n)
        PROVE  NextSides'[m] = NextSides[m] /\ NextSides[m] \subseteq SideChain(n)
    <3>1. m \in Kept /\ slot[m].root = n /\ n # 0
      BY <1>4, <1>5, <1>8 DEF WorldFacts
    <3>2. ~SideStop \/ m # r
      BY <1>1, <3>1 DEF Roles
    <3>3. QED
      BY <1>3, <1>4, <1>6, <1>7, <3>1, <3>2
  <2>3. Alike(Numbers, NextSides, NextSides', NextSide(n), SideChain(n))
    BY <1>3, <1>4, <1>7, <2>2 DEF Alike
  <2>4. QED
    BY <1>4, <1>7, <2>1, <2>3, ReachAgrees
<1>9. ASSUME SideStop
      PROVE  SideChain(r)' = {c} \cup SideChain(r)
  <2>1. r \in Kept /\ r \in Numbers /\ slot[r].root = 0 /\ r # 0
        /\ NextSide(r)' = {c} /\ NextSide(c)' = NextSide(r)
    BY <1>1, <1>4, <1>6, <1>9 DEF Roles, Adds
  <2>2. ASSUME NEW m \in SideChain(r)
        PROVE  NextSides'[m] = NextSides[m] /\ NextSides[m] \subseteq SideChain(r)
    <3>1. m \in Kept /\ slot[m].root = r
      BY <1>4, <1>5, <2>1
    <3>2. m # r
      BY <2>1, <3>1
    <3>3. QED
      BY <1>3, <1>4, <1>6, <1>7, <2>1, <3>1, <3>2
  <2>3. SideChain(r)' \subseteq {c} \cup SideChain(r)
    <3> DEFINE T == {c} \cup SideChain(r)
    <3>1. {c} \subseteq T /\ T \subseteq Numbers /\ \A m \in T : NextSides'[m] \subseteq T
      BY <1>3, <1>4, <1>7, <2>1, <2>2
    <3> HIDE DEF T
    <3>2. Reach({c}, NextSides') \subseteq T
      BY <1>3, <1>4, <3>1, ReachLeast
    <3>3. QED
      BY <1>7, <2>1, <3>2 DEF T
  <2>4. {c} \cup SideChain(r) \subseteq SideChain(r)'
    <3> DEFINE T == SideChain(r) \cap SideChain(r)'
    <3>1. c \in SideChain(r)' /\ NextSide(r) \subseteq SideChain(r)'
      BY <1>7, <2>1
    <3>2. NextSide(r) \subseteq T /\ T \subseteq Numbers /\ \A m \in T : NextSides[m] \subseteq T
      BY <1>3, <1>7, <2>1, <2>2, <3>1
    <3> HIDE DEF T
    <3>3. Reach(NextSide(r), NextSides) \subseteq T
      BY <1>3, <1>7, <2>1, <3>2, ReachLeast
    <3>4. QED
      BY <1>7, <2>1, <3>1, <3>3 DEF T
  <2>5. QED
    BY <2>3, <2>4
<1>10. ASSUME ~SideStop
       PROVE  SideChain(c)' = {}
  <2>1. NextSide(c)' = {} /\ SideChain(c)' = Reach({}, NextSides')
    BY <1>1, <1>4, <1>7, <1>10 DEF Adds
  <2>2. Reach({}, NextSides') \subseteq {}
    BY <1>3, ReachLeast
  <2>3. QED
    BY <2>1, <2>2
<1>11. QED
  BY <1>8, <1>9, <1>10 DEF SidesAdded

\* The heap is sound with the trace that is saved,
LEMMA StopHeap ==
  ASSUME Context, TypeOK', Stop
  PROVE  Heap'
<1> USE DEF Context
<1>0. PICK c, r, p : c = cur.no /\ r = cur.root /\ p = world.proto[cur.site]
  OBVIOUS
<1>1. Adds(c, p, r) /\ Roles(c, p, r) /\ SidesAdded(c, r)
  BY <1>0, StopAdds, StopRoles, StopSides
<1>2. TraceFacts' /\ ChainFacts' /\ Numbers' = Numbers /\ Protos' = Protos /\ Sites' = Sites
      /\ world' = world
  BY TraceFact, ChainFact, PTL DEF Fixed
<1>3. /\ Kept' = Kept \cup {c} /\ c \notin Kept /\ Kept \subseteq Traces /\ c \in Numbers
      /\ Kept \subseteq Numbers /\ Traces' = Traces \cup {c} /\ c # 0
  BY <1>1 DEF Adds, HeapFacts, WorldFacts
<1>4. \A n \in Kept : Links(n) \subseteq Kept /\ NextRoot(n) \subseteq Kept /\ NextSide(n) \subseteq Kept
  BY DEF Heap, Closed, Children
<1>5. /\ \A n \in Kept :
           /\ slot'[n].root = slot[n].root /\ slot'[n].site = slot[n].site
           /\ NextRoot(n)' = NextRoot(n)
           /\ NextSide(n)' = (IF SideStop /\ n = r THEN {c} ELSE NextSide(n))
           /\ SideExit(n)' = (IF SideStop /\ n = jit.parent THEN {c} ELSE SideExit(n))
           /\ Links(n)' = Links(n) \/ (~SideStop /\ Links(n) = {} /\ Links(n)' = {c})
      /\ slot'[c].root = r /\ slot'[c].site = cur.site
      /\ NextRoot(c)' = (IF RootStop THEN First(p) ELSE {})
      /\ NextSide(c)' = (IF SideStop THEN NextSide(r) ELSE {})
      /\ SideExit(c)' = {} /\ Links(c)' = {cur.link} \ {0}
      /\ \A q \in Protos : First(q)' = IF RootStop /\ q = p THEN {c} ELSE First(q)
  BY <1>1 DEF Adds
<1>6. RootStop => p \in Protos /\ First(p) \subseteq Kept /\ \A n \in First(p) : StartsIn(p, n)
  BY <1>1 DEF Roles, Heap, FirstInProto
<1>7. ASSUME NEW q \in Protos, NEW n \in Kept, StartsIn(q, n)
      PROVE  StartsIn(q, n)'
  BY <1>2, <1>3, <1>5, <1>7 DEF StartsIn, TraceFacts
<1>8. Closed'
  <2>1. Links(c)' \cup NextRoot(c)' \cup NextSide(c)' \subseteq Kept \cup {c}
    BY <1>1, <1>4, <1>5, <1>6 DEF Roles
  <2>2. \A n \in Kept : Links(n)' \cup NextRoot(n)' \cup NextSide(n)' \subseteq Kept \cup {c}
    BY <1>4, <1>5
  <2>3. QED
    BY <1>3, <2>1, <2>2 DEF Closed, Children
<1>9. LinksToRoots'
  <2>1. ASSUME NEW m \in Links(c)'
        PROVE  m = c \/ slot'[m].root = 0
    BY <1>1, <1>5, <2>1 DEF Roles
  <2>2. ASSUME NEW n \in Kept, NEW m \in Links(n)'
        PROVE  m = n \/ slot'[m].root = 0
    <3>1. CASE m \in Links(n)
      BY <1>4, <1>5, <3>1 DEF Heap, LinksToRoots
    <3>2. CASE ~SideStop /\ m = c
      BY <1>1, <1>5, <3>2 DEF Roles
    <3>3. QED
      BY <1>5, <2>2, <3>1, <3>2
  <2>3. QED
    BY <1>3, <2>1, <2>2 DEF LinksToRoots
<1>10. RootsInProto'
  <2>1. ASSUME NEW n \in Kept', NEW m \in NextRoot(n)', NEW q, q = world'.proto[slot'[n].site]
        PROVE  slot'[n].site \in Sites /\ StartsIn(q, m)'
    <3>1. CASE n = c
      <4>1. RootStop /\ m \in First(p) /\ q = p /\ slot'[n].site \in Sites
        BY <1>1, <1>2, <1>5, <2>1, <3>1 DEF Roles
      <4>2. QED
        BY <1>6, <1>7, <4>1
    <3>2. CASE n \in Kept
      <4>1. m \in NextRoot(n) /\ m \in Kept /\ slot'[n].site = slot[n].site /\ q = world.proto[slot[n].site]
        BY <1>2, <1>4, <1>5, <2>1, <3>2
      <4>2. slot[n].site \in Sites /\ StartsIn(q, m)
        BY <3>2, <4>1 DEF Heap, RootsInProto
      <4>3. q \in Protos
        BY <4>1, <4>2 DEF WorldFacts
      <4>4. QED
        BY <1>7, <4>1, <4>2, <4>3
    <3>3. QED
      BY <1>3, <2>1, <3>1, <3>2
  <2>2. QED
    BY <1>2, <2>1 DEF RootsInProto, StartsIn
<1>11. FirstInProto'
  <2>1. ASSUME NEW q \in Protos, NEW n \in First(q)'
        PROVE  n \in Kept' /\ StartsIn(q, n)'
    <3>1. CASE RootStop /\ q = p
      <4>1. n = c /\ r = 0 /\ cur.site \in Sites /\ p = world.proto[cur.site]
        BY <1>1, <1>5, <2>1, <3>1 DEF Roles
      <4>2. IsTrace(c)'
        BY <1>2, <1>3 DEF TraceFacts
      <4>3. QED
        BY <1>2, <1>3, <1>5, <3>1, <4>1, <4>2 DEF StartsIn
    <3>2. CASE ~(RootStop /\ q = p)
      <4>1. n \in First(q)
        BY <1>5, <2>1, <3>2
      <4>2. n \in Kept /\ StartsIn(q, n)
        BY <4>1 DEF Heap, FirstInProto
      <4>3. QED
        BY <1>3, <1>7, <4>2
    <3>3. QED
      BY <3>1, <3>2
  <2>2. QED
    BY <1>2, <2>1 DEF FirstInProto
<1>12. Acyclic'
  <2>1. /\ NextRoots \in [Numbers -> SUBSET Numbers] /\ NextRoots' \in [Numbers -> SUBSET Numbers]
        /\ \A m \in Numbers : NextRoots[m] = NextRoot(m) /\ NextRoots'[m] = NextRoot(m)'
    BY <1>2 DEF ChainFacts, NextRoots
  <2>2. ASSUME NEW n \in Kept
        PROVE  n \notin Reach(NextRoot(n)', NextRoots')
    <3>1. Alike(Numbers, NextRoots, NextRoots', NextRoot(n), Kept)
      BY <1>3, <1>4, <1>5, <2>1 DEF Alike
    <3>2. Reach(NextRoot(n), NextRoots) = Reach(NextRoot(n), NextRoots')
      BY <3>1, ReachAgrees
    <3>3. QED
      BY <1>5, <3>2 DEF Heap, Acyclic
  <2>3. c \notin Reach(NextRoot(c)', NextRoots')
    <3>1. NextRoot(c)' \subseteq Kept /\ \A m \in Kept : NextRoots'[m] \subseteq Kept
      BY <1>3, <1>4, <1>5, <1>6, <2>1
    <3>2. Reach(NextRoot(c)', NextRoots') \subseteq Kept
      BY <1>3, <2>1, <3>1, ReachLeast
    <3>3. QED
      BY <1>3, <3>2
  <2>4. QED
    BY <1>3, <2>2, <2>3 DEF Acyclic
<1>13. SidesInChain'
  <2> DEFINE Sound(rr) == /\ \A n \in SideChain(rr)' : slot'[n].root = rr
                          /\ \A n \in {rr} \cup SideChain(rr)' : SideExit(n)' \subseteq SideChain(rr)'
  <2>1. CASE SideStop
    <3>1. /\ r \in Kept /\ slot[r].root = 0 /\ r # 0 /\ jit.parent \in {r} \cup SideChain(r)
          /\ SideChain(r)' = {c} \cup SideChain(r) /\ SideChain(r) \subseteq Kept
          /\ \A n \in SideChain(r) : slot[n].root = r
      BY <1>1, <2>1 DEF Roles, SidesAdded, HeapFacts, Heap, SidesInChain
    <3>2. Sound(r)
      <4>1. \A n \in {r} \cup SideChain(r) : SideExit(n) \subseteq SideChain(r)
        BY <3>1 DEF Heap, SidesInChain
      <4>2. \A n \in SideChain(r) : slot'[n].root = r
        BY <1>5, <3>1
      <4>3. \A n \in {r} \cup SideChain(r) : SideExit(n)' \subseteq {c} \cup SideChain(r)
        BY <1>5, <3>1, <4>1
      <4>4. QED
        BY <1>5, <3>1, <4>2, <4>3
    <3>3. ASSUME NEW rr \in Kept, slot[rr].root = 0, rr # r
          PROVE  Sound(rr)
      <4>1. /\ SideChain(rr)' = SideChain(rr) /\ SideChain(rr) \subseteq Kept
            /\ \A n \in SideChain(rr) : slot[n].root = rr
            /\ \A n \in {rr} \cup SideChain(rr) : SideExit(n) \subseteq SideChain(rr)
        BY <1>1, <3>3 DEF SidesAdded, HeapFacts, Heap, SidesInChain
      <4>2. \A n \in {rr} \cup SideChain(rr) : n \in Kept /\ n # jit.parent
        BY <1>3, <3>1, <3>3, <4>1 DEF WorldFacts
      <4>3. QED
        BY <1>5, <4>1, <4>2
    <3>4. QED
      BY <1>3, <1>5, <3>1, <3>2, <3>3 DEF SidesInChain
  <2>2. CASE ~SideStop
    <3>1. Sound(c)
      BY <1>1, <1>5, <2>2 DEF SidesAdded
    <3>2. ASSUME NEW rr \in Kept, slot[rr].root = 0
          PROVE  Sound(rr)
      <4>1. /\ SideChain(rr)' = SideChain(rr) /\ SideChain(rr) \subseteq Kept
            /\ \A n \in SideChain(rr) : slot[n].root = rr
            /\ \A n \in {rr} \cup SideChain(rr) : SideExit(n) \subseteq SideChain(rr)
        BY <1>1, <2>2, <3>2 DEF SidesAdded, HeapFacts, Heap, SidesInChain
      <4>2. QED
        BY <1>5, <2>2, <3>2, <4>1
    <3>3. QED
      BY <1>3, <1>5, <3>1, <3>2 DEF SidesInChain
  <2>3. QED
    BY <2>1, <2>2
<1>14. QED
  BY <1>8, <1>9, <1>10, <1>11, <1>12, <1>13 DEF Heap

\* and everything that was reached still is.
ChainsAdded(c, p) ==
  /\ \A q \in Protos : Chain(q)' = IF RootStop /\ q = p THEN {c} \cup Chain(q) ELSE Chain(q)
  /\ Rooted \subseteq Rooted'
LEMMA StopChains ==
  ASSUME Context, TypeOK', Stop, NEW c, c = cur.no, NEW r, r = cur.root,
         NEW p, p = world.proto[cur.site]
  PROVE  ChainsAdded(c, p)
<1> USE DEF Context
<1>1. Adds(c, p, r) /\ Roles(c, p, r)
  BY StopAdds, StopRoles
<1>2. TraceFacts' /\ ChainFacts' /\ Numbers' = Numbers /\ Protos' = Protos /\ HeapFacts'
  BY TraceFact, ChainFact, HeapFact, StopHeap, PTL DEF Fixed
<1>3. /\ NextRoots \in [Numbers -> SUBSET Numbers] /\ NextRoots' \in [Numbers -> SUBSET Numbers]
      /\ \A m \in Numbers : NextRoots[m] = NextRoot(m) /\ NextRoots'[m] = NextRoot(m)'
  BY <1>2 DEF ChainFacts, NextRoots
<1>4. /\ Refs \in [Numbers -> SUBSET Numbers] /\ Refs' \in [Numbers -> SUBSET Numbers]
      /\ \A m \in Numbers : Refs[m] = Children(m) /\ Refs'[m] = Children(m)'
  BY <1>2 DEF ChainFacts, Refs
<1>5. Kept' = Kept \cup {c} /\ c \notin Kept /\ c \notin Traces /\ Kept \subseteq Numbers /\ c \in Numbers
  BY <1>1 DEF Adds, HeapFacts
<1>6. /\ \A n \in Kept :
           /\ NextRoot(n)' = NextRoot(n)
           /\ NextSide(n)' = (IF SideStop /\ n = r THEN {c} ELSE NextSide(n))
           /\ Links(n)' = Links(n) \/ (~SideStop /\ Links(n) = {} /\ Links(n)' = {c})
      /\ NextRoot(c)' = (IF RootStop THEN First(p) ELSE {})
      /\ NextSide(c)' = (IF SideStop THEN NextSide(r) ELSE {})
      /\ \A q \in Protos : First(q)' = IF RootStop /\ q = p THEN {c} ELSE First(q)
  BY <1>1 DEF Adds
<1>7. \A q \in Protos : /\ Chain(q) = Reach(First(q), NextRoots)
                        /\ Chain(q)' = Reach(First(q)', NextRoots')
                        /\ First(q) \subseteq Chain(q) /\ First(q)' \subseteq Chain(q)'
                        /\ \A m \in Chain(q) : NextRoot(m) \subseteq Chain(q)
                        /\ \A m \in Chain(q)' : NextRoot(m)' \subseteq Chain(q)'
                        /\ Chain(q) \subseteq Kept /\ Chain(q) \subseteq Numbers
                        /\ Chain(q)' \subseteq Numbers /\ First(q) \subseteq Numbers
                        /\ First(q)' \subseteq Numbers
  BY <1>2 DEF ChainFacts, HeapFacts, TraceFacts
<1>8. ASSUME NEW q \in Protos
      PROVE  Reach(First(q), NextRoots') = Chain(q)
  <2>1. Alike(Numbers, NextRoots, NextRoots', First(q), Chain(q))
    BY <1>3, <1>5, <1>6, <1>7 DEF Alike
  <2>2. QED
    BY <1>7, <2>1, ReachAgrees
<1>9. ASSUME NEW q \in Protos, ~(RootStop /\ q = p)
      PROVE  Chain(q)' = Chain(q)
  BY <1>6, <1>7, <1>8, <1>9
<1>10. ASSUME RootStop
       PROVE  p \in Protos /\ Chain(p)' = {c} \cup Chain(p)
  <2>1. p \in Protos /\ First(p)' = {c} /\ NextRoot(c)' = First(p)
    BY <1>1, <1>6, <1>10 DEF Roles
  <2>2. Chain(p)' \subseteq {c} \cup Chain(p)
    <3> DEFINE T == {c} \cup Chain(p)
    <3>1. {c} \subseteq T /\ T \subseteq Numbers /\ \A m \in T : NextRoots'[m] \subseteq T
      BY <1>3, <1>5, <1>6, <1>7, <2>1
    <3> HIDE DEF T
    <3>2. Reach({c}, NextRoots') \subseteq T
      BY <1>3, <1>5, <3>1, ReachLeast
    <3>3. QED
      BY <1>7, <2>1, <3>2 DEF T
  <2>3. {c} \cup Chain(p) \subseteq Chain(p)'
    <3>1. c \in Chain(p)' /\ First(p) \subseteq Chain(p)'
      BY <1>7, <2>1
    <3>2. \A m \in Chain(p)' : NextRoots'[m] \subseteq Chain(p)'
      BY <1>3, <1>7, <2>1
    <3>3. Reach(First(p), NextRoots') \subseteq Chain(p)'
      BY <1>3, <1>7, <2>1, <3>1, <3>2, ReachLeast
    <3>4. QED
      BY <1>8, <2>1, <3>1, <3>3
  <2>4. QED
    BY <2>1, <2>2, <2>3
<1>11. Rooted \subseteq Rooted'
  <2> DEFINE R == UNION {First(q) : q \in Protos}
             S == UNION {First(q)' : q \in Protos}
  <2>1. Rooted = Reach(R, Refs) /\ Rooted' = Reach(S, Refs')
    BY <1>2 DEF Rooted
  <2>2. R \subseteq Numbers /\ S \subseteq Numbers
    BY <1>7
  <2>3. /\ \A q \in Protos : First(q)' \subseteq Rooted'
        /\ \A m \in Rooted' : Children(m)' \subseteq Rooted'
        /\ Rooted' \subseteq Kept' /\ Rooted' \subseteq Numbers
    BY <1>2 DEF ChainFacts, HeapFacts
  <2>4. R \subseteq Rooted'
    <3>1. ASSUME NEW q \in Protos
          PROVE  First(q) \subseteq Rooted'
      <4>1. CASE RootStop /\ q = p
        BY <1>6, <2>3, <4>1 DEF Children
      <4>2. CASE ~(RootStop /\ q = p)
        BY <1>6, <2>3, <4>2
      <4>3. QED
        BY <4>1, <4>2
    <3>2. QED
      BY <3>1
  <2>5. ASSUME NEW m \in Rooted'
        PROVE  Refs[m] \subseteq Rooted'
    <3>1. CASE m = c
      BY <1>4, <1>5, <3>1 DEF TraceFacts
    <3>2. CASE m \in Kept
      <4>1. Links(m) \subseteq Rooted' /\ NextRoot(m) \subseteq Rooted'
        BY <1>6, <2>3, <3>2 DEF Children
      <4>2. NextSide(m) \subseteq Rooted'
        <5>1. CASE SideStop /\ m = r
          <6>1. c \in Rooted' /\ NextSide(c)' = NextSide(m)
            BY <1>6, <2>3, <3>2, <5>1 DEF Children
          <6>2. QED
            BY <2>3, <6>1 DEF Children
        <5>2. CASE ~(SideStop /\ m = r)
          BY <1>6, <2>3, <3>2, <5>2 DEF Children
        <5>3. QED
          BY <5>1, <5>2
      <4>3. QED
        BY <1>4, <1>5, <3>2, <4>1, <4>2 DEF Children
    <3>3. QED
      BY <1>5, <2>3, <3>1, <3>2
  <2> HIDE DEF R, S
  <2>6. QED
    BY <1>4, <2>1, <2>2, <2>3, <2>4, <2>5, ReachLeast
<1>12. QED
  BY <1>9, <1>10, <1>11 DEF ChainsAdded

-----------------------------------------------------------------------------
\* A flush or the collector may leave fewer traces, as long as these are the
\* same as before.
FewerTraces == world' = world /\ slot' = slot /\ Kept' \subseteq Kept
SamePointers ==
  /\ Numbers' = Numbers /\ Protos' = Protos /\ Sites' = Sites /\ Traces' = Traces
  /\ \A n \in Numbers :
       /\ Links(n)' = Links(n) /\ NextRoot(n)' = NextRoot(n) /\ NextSide(n)' = NextSide(n)
       /\ SideExit(n)' = SideExit(n) /\ Children(n)' = Children(n)
       /\ SideChain(n)' = SideChain(n)
  /\ NextRoots' = NextRoots /\ NextSides' = NextSides /\ Refs' = Refs
LEMMA FewerKept ==
  ASSUME Context, TypeOK', FewerTraces
  PROVE  SamePointers /\ LinksToRoots' /\ RootsInProto' /\ Acyclic' /\ SidesInChain'
<1>1. /\ world' = world /\ slot' = slot /\ Kept' \subseteq Kept
      /\ Numbers' = Numbers /\ Protos' = Protos /\ Sites' = Sites
  BY DEF FewerTraces, Numbers, Protos, Sites
<1>2. \A n : IsTrace(n)' <=> IsTrace(n)
  BY <1>1 DEF IsTrace
<1>3. Traces' = Traces
  BY <1>1, <1>2 DEF Traces
<1>4. \A n : /\ Links(n)' = Links(n) /\ NextRoot(n)' = NextRoot(n)
             /\ NextSide(n)' = NextSide(n) /\ SideExit(n)' = SideExit(n)
  BY <1>1, <1>2 DEF Links, NextRoot, NextSide, SideExit
<1>5. \A n : Children(n)' = Children(n)
  BY <1>4 DEF Children
<1>6. NextRoots' = NextRoots /\ NextSides' = NextSides /\ Refs' = Refs
  BY <1>1, <1>4, <1>5 DEF NextRoots, NextSides, Refs
<1>7. TraceFacts' /\ ChainFacts /\ ChainFacts'
  BY TraceFact, ChainFact, PTL DEF Context
<1>8. \A n \in Numbers : SideChain(n)' = SideChain(n)
  BY <1>1, <1>4, <1>6, <1>7 DEF ChainFacts
<1>9. SamePointers
  BY <1>1, <1>3, <1>4, <1>5, <1>6, <1>8 DEF SamePointers
<1>10. LinksToRoots /\ RootsInProto /\ Acyclic /\ SidesInChain /\ Kept \subseteq Numbers
  BY DEF Context, Heap, HeapFacts
<1>11. LinksToRoots' /\ Acyclic'
  BY <1>1, <1>4, <1>6, <1>10 DEF LinksToRoots, Acyclic
<1>12. RootsInProto'
  BY <1>1, <1>2, <1>4, <1>10 DEF RootsInProto, StartsIn
<1>13. SidesInChain'
  BY <1>1, <1>4, <1>8, <1>10 DEF SidesInChain
<1>14. QED
  BY <1>9, <1>11, <1>12, <1>13

\* lj_trace_flushall leaves none,
LEMMA FlushedHeap ==
  ASSUME Context, TypeOK', NEW c, NEW p, FlushedAll(c, p)
  PROVE  /\ Heap' /\ Traces' = {} /\ Kept' = {}
         /\ \A q \in Protos : First(q)' = {} /\ Chain(q)' = {}
<1>1. Numbers' = Numbers /\ Protos' = Protos
  BY DEF Context, Fixed
<1>2. slot' = [n \in Numbers |-> Nil] /\ pt' = [q \in Protos |-> [p[q] EXCEPT !.trace = 0]]
  BY DEF FlushedAll
<1>3. Traces' = {} /\ Kept' = {}
  BY <1>1, <1>2 DEF Traces, Kept, IsTrace
<1>4. \A q \in Protos : First(q)' = {}
  <2>1. TypeOK' /\ ProtoStates' = ProtoStates
    BY DEF Context, Fixed
  <2>2. \A q \in Protos : pt'[q] \in ProtoStates
    BY <1>1, <2>1 DEF TypeOK, CodeTyped
  <2>3. ASSUME NEW q \in Protos
        PROVE  pt'[q].trace = 0
    <3>1. pt'[q] = [p[q] EXCEPT !.trace = 0] /\ DOMAIN pt'[q] = {"trace", "iloop", "nojit"}
      BY <1>2, <2>2 DEF ProtoStates
    <3>2. QED
      BY <3>1
  <2>4. QED
    BY <2>3 DEF First
<1>5. ChainFacts'
  BY TraceFact, ChainFact, PTL
<1>6. ASSUME NEW q \in Protos
      PROVE  Chain(q)' = {}
  <2>1. Chain(q)' = Reach({}, NextRoots') /\ NextRoots' \in [Numbers -> SUBSET Numbers]
    BY <1>1, <1>4, <1>5 DEF ChainFacts
  <2>2. Reach({}, NextRoots') \subseteq {}
    BY <2>1, ReachLeast
  <2>3. QED
    BY <2>1, <2>2
<1>7. Heap'
  BY <1>1, <1>3, <1>4 DEF Heap, Closed, LinksToRoots, RootsInProto, FirstInProto, Acyclic, SidesInChain
<1>8. QED
  BY <1>3, <1>4, <1>6, <1>7

\* the flush of a function unchains its traces,
LEMMA FlushProtoHeap ==
  ASSUME Context, TypeOK', NEW p \in Protos, NEW off \in BOOLEAN, FlushProto(p, off)
  PROVE  /\ Heap' /\ Kept' = Kept /\ SamePointers
         /\ Chain(p)' = {} /\ \A q \in Protos \ {p} : Chain(q)' = Chain(q)
<1>1. /\ world' = world /\ slot' = slot /\ gc' = gc
      /\ pt' = [pt EXCEPT ![p].trace = 0, ![p].nojit = @ \/ off]
  BY DEF FlushProto, FlushOnly
<1>2. Kept' = Kept
  BY <1>1 DEF Kept, Traces, Numbers, IsTrace
<1>3. SamePointers /\ LinksToRoots' /\ RootsInProto' /\ Acyclic' /\ SidesInChain'
  BY <1>1, <1>2, FewerKept DEF FewerTraces
<1>4. First(p)' = {} /\ \A q \in Protos \ {p} : First(q)' = First(q)
  <2>1. pt \in [Protos -> ProtoStates]
    BY DEF Context, TypeOK, CodeTyped
  <2>2. pt'[p].trace = 0 /\ \A q \in Protos \ {p} : pt'[q] = pt[q]
    BY <1>1, <2>1 DEF ProtoStates
  <2>3. QED
    BY <2>2 DEF First
<1>5. Heap /\ Protos' = Protos /\ Kept \subseteq Numbers
  BY <1>3 DEF Context, SamePointers, HeapFacts
<1>6. Closed'
  BY <1>2, <1>3, <1>5 DEF Heap, Closed, SamePointers
<1>7. \A q, n : StartsIn(q, n)' <=> StartsIn(q, n)
  BY <1>1 DEF StartsIn, IsTrace, Sites
<1>8. FirstInProto'
  BY <1>2, <1>4, <1>5, <1>7 DEF Heap, FirstInProto
<1>9. ChainFacts /\ ChainFacts'
  BY TraceFact, ChainFact, PTL DEF Context
<1>10. Chain(p)' = {}
  <2>1. Chain(p)' = Reach({}, NextRoots) /\ NextRoots \in [Numbers -> SUBSET Numbers]
    BY <1>3, <1>4, <1>5, <1>9 DEF ChainFacts, SamePointers
  <2>2. Reach({}, NextRoots) \subseteq {}
    BY <2>1, ReachLeast
  <2>3. QED
    BY <2>1, <2>2
<1>11. \A q \in Protos \ {p} : Chain(q)' = Chain(q)
  BY <1>3, <1>4, <1>5, <1>9 DEF ChainFacts, SamePointers
<1>12. QED
  BY <1>2, <1>3, <1>6, <1>8, <1>10, <1>11 DEF Heap

\* and the collector leaves what is reached from the prototypes and the stack.
LEMMA AtomicHeap ==
  ASSUME Context, TypeOK', Atomic
  PROVE  /\ Heap' /\ SamePointers /\ Rooted \subseteq Kept'
         /\ \A q \in Protos : Chain(q)' = Chain(q)
<1> USE DEF Context
<1>1. /\ world' = world /\ slot' = slot /\ pt' = pt /\ gc.phase = "propagate"
      /\ gc'.dead = Traces \ Live
  BY DEF Atomic, GCOnly
<1>2. gc.dead = {} /\ gc.black \subseteq Numbers /\ gc.gray \subseteq Numbers /\ frames \subseteq Numbers
      /\ gc.todo \subseteq Protos
  BY <1>1 DEF Collector, Phases, TypeOK, GCTyped
<1>3. Kept = Traces /\ Kept' = Traces \cap Live
  <2>1. Traces' = Traces
    BY <1>1 DEF Traces, Numbers, IsTrace
  <2>2. QED
    BY <1>1, <1>2, <2>1 DEF Kept
<1>4. SamePointers /\ LinksToRoots' /\ RootsInProto' /\ Acyclic' /\ SidesInChain'
  BY <1>1, <1>3, FewerKept DEF FewerTraces
<1> DEFINE S == gc.gray \cup frames \cup UNION {First(p) : p \in gc.todo}
           next == [n \in Numbers |-> Unmarked(n)]
           R == Reach(S, next)
<1>5. S \subseteq Numbers /\ next \in [Numbers -> SUBSET Numbers]
  BY <1>2 DEF TraceFacts, Unmarked
<1>6. Live = gc.black \cup R
  BY DEF Live
<1> HIDE DEF S, next
<1>7. S \subseteq R /\ R \subseteq Numbers /\ \A m \in R : next[m] \subseteq R
  BY <1>5, ReachHas
<1>8. \A m \in R : m \in gc.black \/ Children(m) \subseteq R
  BY <1>7 DEF next, Unmarked
<1> HIDE DEF R
<1>9. Live \subseteq Numbers /\ gc.gray \cup frames \subseteq Live
      /\ \A p \in gc.todo : First(p) \subseteq Live
  BY <1>2, <1>6, <1>7 DEF S
<1>10. Covered \subseteq Live
  <2>1. gc.black \cup gc.gray \subseteq Live
    BY <1>6, <1>9
  <2>2. Passed \in [Numbers -> SUBSET Numbers]
    BY DEF Passed, TraceFacts
  <2>3. \A m \in Live : Passed[m] \subseteq Live
    BY <1>6, <1>8, <1>9 DEF Passed, Children
  <2>4. Reach(gc.black \cup gc.gray, Passed) \subseteq Live
    BY <1>2, <1>9, <2>1, <2>2, <2>3, ReachLeast
  <2>5. QED
    BY <2>4 DEF Covered
<1>11. \A m \in Live : Children(m) \subseteq Live
  BY <1>1, <1>6, <1>8, <1>10 DEF Collector, Marking
<1>12. \A p \in Protos : First(p) \subseteq Live
  BY <1>1, <1>9, <1>10 DEF Collector, Marking
<1>13. Rooted \subseteq Live
  <2>1. UNION {First(p) : p \in Protos} \subseteq Live
    BY <1>12
  <2>2. \A m \in Live : Refs[m] \subseteq Live
    BY <1>9, <1>11 DEF Refs
  <2>3. QED
    BY <1>9, <2>1, <2>2, ReachLeast DEF ChainFacts, Rooted
<1>14. Rooted \subseteq Kept'
  BY <1>3, <1>13 DEF HeapFacts
<1>15. Closed'
  <2>1. \A n \in Kept' : Children(n) \subseteq Kept'
    BY <1>3, <1>11 DEF Heap, Closed
  <2>2. QED
    BY <1>3, <1>4, <2>1 DEF Closed, SamePointers, HeapFacts
<1>16. FirstInProto'
  <2>1. \A p : First(p)' = First(p)
    BY <1>1 DEF First
  <2>2. \A q, n : StartsIn(q, n)' <=> StartsIn(q, n)
    BY <1>1 DEF StartsIn, IsTrace, Sites
  <2>3. \A p \in Protos : First(p) \subseteq Kept' /\ \A n \in First(p) : StartsIn(p, n)
    BY <1>14 DEF ChainFacts, Heap, FirstInProto
  <2>4. QED
    BY <1>4, <2>1, <2>2, <2>3 DEF FirstInProto, SamePointers
<1>17. \A q \in Protos : Chain(q)' = Chain(q)
  <2>1. ChainFacts'
    BY TraceFact, ChainFact, PTL
  <2>2. \A p : First(p)' = First(p)
    BY <1>1 DEF First
  <2>3. QED
    BY <1>4, <2>1, <2>2 DEF ChainFacts, SamePointers
<1>18. QED
  BY <1>4, <1>14, <1>15, <1>16, <1>17 DEF Heap

\* The other steps leave the heap as it is.
Flushing == FlushAll \/ StartFull \/ \E b \in BOOLEAN : Abort(b) /\ Flushes
HeapSteps ==
  \/ Flushing \/ Stop \/ Atomic
  \/ \E n \in Numbers : FlushTrace(n)
  \/ \E s \in Sites : RecordUnroll(s)
  \/ \E p \in Protos, off \in BOOLEAN : FlushProto(p, off)
LEMMA HeapUntouched ==
  ASSUME Context, [Next]_vars, ~HeapSteps
  PROVE  SameHeap
<1> USE DEF Context
<1>1. Numbers' = Numbers /\ Protos' = Protos /\ world' = world
  BY DEF Fixed
<1>2. ASSUME gc'.dead = gc.dead, \A n \in Numbers : IsTrace(n)' <=> IsTrace(n),
             \A q \in Protos : pt'[q].trace = pt[q].trace, \A n \in Kept : SameTrace(n)
      PROVE  SameHeap
  <2>1. Traces' = Traces
    BY <1>1, <1>2 DEF Traces
  <2>2. Kept' = Kept
    BY <1>2, <2>1 DEF Kept
  <2>3. \A q \in Protos : First(q)' = First(q)
    BY <1>2 DEF First
  <2>4. QED
    BY <1>1, <1>2, <2>2, <2>3 DEF SameHeap
<1>3. CASE slot' = slot /\ gc'.dead = gc.dead /\ \A q \in Protos : pt'[q].trace = pt[q].trace
  BY <1>2, <1>3 DEF IsTrace, SameTrace
<1>4. CASE StartOff
  <2>1. slot' = slot /\ gc' = gc
        /\ (pt' = pt \/ pt' = [pt EXCEPT ![world.proto[jit.site]].iloop = TRUE])
    BY <1>4 DEF StartOff
  <2>2. \A q \in Protos : pt'[q].trace = pt[q].trace
    BY <2>1 DEF TypeOK, CodeTyped, ProtoStates
  <2>3. QED
    BY <1>3, <2>1, <2>2
<1>5. ASSUME NEW p \in Protos, Reenable(p)
      PROVE  SameHeap
  <2>1. slot' = slot /\ gc' = gc /\ pt' = [pt EXCEPT ![p].nojit = FALSE, ![p].iloop = FALSE]
    BY <1>5 DEF Reenable, FlushOnly
  <2>2. \A q \in Protos : pt'[q].trace = pt[q].trace
    BY <2>1 DEF TypeOK, CodeTyped, ProtoStates
  <2>3. QED
    BY <1>3, <2>1, <2>2
<1>6. CASE (\E o \in {"RECORD", "ERR", "ASM"} : End(o)) \/ Reserve \/ Overrun \/ AsmError \/ Reassemble
  <2>1. slot' = slot /\ gc' = gc /\ pt' = pt
    BY <1>6 DEF End, Reserve, Overrun, AsmError, Reassemble, Unsaved
  <2>2. QED
    BY <1>3, <2>1
<1>7. CASE Record
  <2>1. slot' = slot /\ gc' = gc /\ pt' = pt
    BY Zenon, <1>7 DEF Record, RecordOn, RecordError, RecordStop, RecordDownrec, RecordInto,
                RecordOnly, HeapSteps
  <2>2. QED
    BY <1>3, <2>1
<1>8. CASE Event \/ UNCHANGED vars
  <2>1. slot' = slot /\ gc' = gc /\ pt' = pt
    BY Zenon, <1>8 DEF Event, AsyncAbort, Hot, HotExit, Call, Return, Unwind, EventOnly, vars
  <2>2. QED
    BY <1>3, <2>1
<1>9. CASE Collect /\ ~\E n \in Numbers : FreeTrace(n)
  <2>1. slot' = slot /\ pt' = pt
    BY Zenon, <1>9 DEF Collect, GCStart, TraverseStack, Atomic, GCEnd, TraverseProto, TraverseTrace, GCOnly
  <2>2. gc'.dead = gc.dead
    <3>1. CASE GCStart
      BY <3>1 DEF GCStart, Collector, Phases
    <3>2. CASE GCEnd
      BY <3>2 DEF GCEnd, TypeOK, GCTyped
    <3>3. CASE TraverseStack \/ (\E p \in Protos : TraverseProto(p)) \/ \E n \in Numbers : TraverseTrace(n)
      BY Zenon, <3>3 DEF TraverseStack, TraverseProto, TraverseTrace, Marked, TypeOK, GCTyped
    <3>4. QED
      BY <1>9, <3>1, <3>2, <3>3 DEF Collect, HeapSteps
  <2>3. QED
    BY <1>3, <2>1, <2>2
<1>10. ASSUME NEW n \in Numbers, FreeTrace(n)
       PROVE  SameHeap
  <2>1. n \in gc.dead /\ slot' = [slot EXCEPT ![n] = Nil] /\ pt' = pt
        /\ gc' = [gc EXCEPT !.dead = @ \ {n}]
    BY <1>10 DEF FreeTrace, GCOnly
  <2>2. gc'.dead = gc.dead \ {n} /\ n \notin Kept
    BY <2>1 DEF TypeOK, GCTyped, Kept
  <2>3. \A m \in Numbers : slot'[m] = IF m = n THEN Nil ELSE slot[m]
    BY <2>1 DEF TypeOK, SlotsTyped
  <2>4. \A m \in Numbers : IsTrace(m)' <=> IsTrace(m) /\ m # n
    BY <2>3 DEF IsTrace
  <2>5. Traces' = Traces \ {n}
    BY <1>1, <2>4 DEF Traces
  <2>6. Kept' = Kept
    BY <2>1, <2>2, <2>5 DEF Kept
  <2>7. \A m \in Kept : SameTrace(m)
    BY <2>2, <2>3 DEF SameTrace, HeapFacts
  <2>8. QED
    BY <1>1, <2>1, <2>6, <2>7 DEF SameHeap, First
<1>11. ASSUME NEW o \in {"RECORD", "END", "ERR"}, StartTrace(o)
       PROVE  SameHeap
  <2> DEFINE n == Min(FreeNumbers)
  <2>1. /\ slot' = [slot EXCEPT ![n] = Cur] /\ pt' = pt /\ gc' = gc
    BY <1>11 DEF StartTrace
  <2>2. n \in Numbers /\ slot[n] = Nil
    BY <1>11, FreeNumber DEF StartTrace
  <2> HIDE DEF n
  <2>3. \A m \in Numbers : slot'[m] = IF m = n THEN Cur ELSE slot[m]
    BY <2>1 DEF TypeOK, SlotsTyped
  <2>4. \A m \in Numbers : IsTrace(m)' <=> IsTrace(m)
    BY <2>2, <2>3 DEF IsTrace
  <2>5. \A m \in Kept : m \in Numbers /\ m # n
    BY <2>2 DEF HeapFacts, TraceFacts, IsTrace
  <2>6. \A m \in Kept : SameTrace(m)
    BY <2>3, <2>5 DEF SameTrace
  <2>7. QED
    BY <1>2, <2>1, <2>4, <2>6
<1>12. ASSUME NEW b \in BOOLEAN, Abort(b), ~Flushes
       PROVE  SameHeap
  <2>1. Drops /\ AbortFacts(b)
    BY <1>12, AbortDrops, AbortFact
  <2>2. gc' = gc /\ pt' = AbortedProtos(b)
    BY <1>12 DEF Abort, AbortedProtos
  <2>3. \A m \in Numbers : IsTrace(m)' <=> IsTrace(m)
    BY <2>1 DEF Drops, IsTrace, TraceFacts, WorldFacts
  <2>4. QED
    BY <1>2, <2>1, <2>2, <2>3 DEF Drops, AbortFacts, SameTraces, HeapFacts
<1>13. CASE \E p \in Protos : Reenable(p)
  BY <1>5, <1>13
<1>14. QED
  BY <1>4, <1>5, <1>6, <1>7, <1>8, <1>9, <1>10, <1>11, <1>12
  DEF Next, Compile, Start, Assemble, Flush, HeapSteps, Flushing

\* Every step keeps the heap sound.
LEMMA HeapStep ==
  ASSUME Context, [Next]_vars, TypeOK'
  PROVE  Heap'
<1> USE DEF Context
<1>1. CASE ~HeapSteps
  BY <1>1, HeapUntouched, HeapKept
<1>2. CASE Flushing
  BY <1>2, FlushedHeap DEF Flushing, FlushAll, StartFull, Abort
<1>3. CASE Stop
  BY <1>3, StopHeap
<1>4. CASE Atomic
  BY <1>4, AtomicHeap
<1>5. ASSUME NEW n \in Numbers, Unlinks(n)
      PROVE  Heap'
  BY <1>5, UnlinkKeeps
<1>6. CASE (\E n \in Numbers : FlushTrace(n)) \/ \E s \in Sites : RecordUnroll(s)
  BY <1>5, <1>6, FlushUnlinks
<1>7. CASE \E p \in Protos, off \in BOOLEAN : FlushProto(p, off)
  BY <1>7, FlushProtoHeap
<1>8. QED
  BY <1>1, <1>2, <1>3, <1>4, <1>6, <1>7 DEF HeapSteps

-----------------------------------------------------------------------------
\* Unless code is flushed, the traces of instructions stay in their chains,
Unflushed ==
  ~(\/ Flushing \/ \E n \in Numbers : FlushTrace(n)
    \/ \E s \in Sites : RecordUnroll(s)
    \/ \E p \in Protos, off \in BOOLEAN : FlushProto(p, off))
RunsStay == \A s \in Sites : \A n : Runs(s, n) => Runs(s, n)'
LEMMA RunsKept ==
  ASSUME Context, [Next]_vars, TypeOK', Unflushed
  PROVE  RunsStay
<1> USE DEF Context
<1>1. \A s \in Sites : \A n : Runs(s, n) => world.proto[s] \in Protos /\ n \in Kept /\ n \in Traces
  BY DEF Runs, HeapFacts, WorldFacts
<1>2. world' = world
  BY DEF Fixed
<1>3. CASE ~HeapSteps
  <2>1. SameHeap /\ SameChains
    BY <1>3, HeapUntouched, HeapKept
  <2>2. ASSUME NEW s \in Sites, NEW n, Runs(s, n), NEW q, q = world.proto[s]
        PROVE  n \in Chain(q)' /\ slot'[n].site = s
    BY <1>1, <2>1, <2>2 DEF Runs, SameChains, SameHeap, SameTrace
  <2>3. QED
    BY <1>2, <2>2 DEF RunsStay, Runs
<1>4. CASE Atomic
  <2>1. slot' = slot /\ \A q \in Protos : Chain(q)' = Chain(q)
    BY <1>4, AtomicHeap DEF Atomic
  <2>2. ASSUME NEW s \in Sites, NEW n, Runs(s, n), NEW q, q = world.proto[s]
        PROVE  n \in Chain(q)' /\ slot'[n].site = s
    BY <1>1, <2>1, <2>2 DEF Runs
  <2>3. QED
    BY <1>2, <2>2 DEF RunsStay, Runs
<1>5. CASE Stop
  <2>1. PICK c, r, p : c = cur.no /\ r = cur.root /\ p = world.proto[cur.site]
    OBVIOUS
  <2>2. ChainsAdded(c, p) /\ Adds(c, p, r)
    BY <1>5, <2>1, StopChains, StopAdds
  <2>3. ASSUME NEW s \in Sites, NEW n, Runs(s, n), NEW q, q = world.proto[s]
        PROVE  n \in Chain(q)' /\ slot'[n].site = s
    BY <1>1, <2>2, <2>3 DEF Runs, ChainsAdded, Adds
  <2>4. QED
    BY <1>2, <2>3 DEF RunsStay, Runs
<1>6. QED
  BY <1>3, <1>4, <1>5 DEF HeapSteps, Unflushed

\* so that code that was sound before still is.
LEMMA SoundStays ==
  ASSUME Context, RunsStay, NEW c, c = code', SoundCode(c)
  PROVE  SoundCode(code)'
BY DEF Context, Fixed, RunsStay, SoundCode

\* Once no trace of a prototype is chained, none of its instructions runs one.
LEMMA FlushedCodeRuns ==
  ASSUME Context, TypeOK', NEW c, NEW p, FlushedAll(c, p), TypedCode(c, p), SoundCode(c)
  PROVE  SoundCode(code)'
<1> USE DEF Context
<1>1. PICK S : S = {n \in Traces : Root(n)} /\ code' = Unpatched(c, S)
  BY DEF FlushedAll
<1>2. PlainWhere(c, S)
  BY UnpatchedCode
<1>3. ASSUME NEW s \in Sites
      PROVE  code'[s].op # "J" /\ ~code'[s].fori
  <2>1. CASE c[s].op = "J"
    <3>1. Runs(s, c[s].d) /\ world.proto[s] \in Protos
      BY <2>1 DEF SoundCode, WorldFacts
    <3>2. c[s].d \in Traces /\ StartsIn(world.proto[s], c[s].d) /\ slot[c[s].d].site = s
      BY <3>1 DEF Runs, HeapFacts
    <3>3. \E n \in S : slot[n].site = s
      BY <1>1, <3>2 DEF StartsIn, Root
    <3>4. code'[s] = Plain
      BY <1>1, <1>2, <2>1, <3>3 DEF PlainWhere
    <3>5. QED
      BY Zenon, <3>4 DEF Typings
  <2>2. CASE c[s].op # "J"
    <3>1. code'[s] = c[s]
      BY <1>1, <1>2, <2>2 DEF PlainWhere
    <3>2. QED
      BY <2>2, <3>1 DEF SoundCode
  <2>3. QED
    BY <2>1, <2>2
<1>4. QED
  BY <1>3 DEF SoundCode, Fixed

\* The same of one function,
LEMMA FlushProtoRuns ==
  ASSUME Context, TypeOK', NEW p \in Protos, NEW off \in BOOLEAN, FlushProto(p, off)
  PROVE  SoundCode(code)'
<1> USE DEF Context
<1>1. code' = Unpatched(code, Chain(p)) /\ slot' = slot /\ world' = world /\ Sites' = Sites
  BY DEF FlushProto, Fixed
<1>2. \A q \in Protos \ {p} : Chain(q)' = Chain(q)
  BY FlushProtoHeap
<1>3. SoundCode(code) /\ TypedCode(code, pt)
  BY DEF CodeRuns, TypedCode, TypeOK, CodeTyped
<1>4. ASSUME NEW s \in Sites, NEW q, q = world.proto[s]
      PROVE  /\ code'[s].op = "J" => code'[s].d \in Chain(q)' /\ slot[code'[s].d].site = s
             /\ code'[s].fori <=> code'[s].op = "J" /\ Kind(s) = "FORL"
  <2>1. CASE code'[s] = Plain
    BY Zenon, <2>1 DEF Typings
  <2>2. CASE code'[s] = code[s] /\ ~(code[s].op = "J" /\ \E n \in Chain(p) : slot[n].site = s)
    <3>1. CASE code[s].op = "J"
      <4>1. code[s].d \in Chain(q) /\ slot[code[s].d].site = s /\ q \in Protos
        BY <1>3, <1>4, <3>1 DEF SoundCode, Runs, WorldFacts
      <4>2. q # p
        BY <2>2, <3>1, <4>1
      <4>3. QED
        BY <1>2, <1>3, <2>2, <4>1, <4>2 DEF SoundCode
    <3>2. CASE code[s].op # "J"
      BY <1>3, <2>2, <3>2 DEF SoundCode
    <3>3. QED
      BY <3>1, <3>2
  <2>3. PlainWhere(code, Chain(p))
    BY <1>3, UnpatchedCode
  <2>4. QED
    BY <1>1, <2>1, <2>2, <2>3 DEF PlainWhere
<1>5. QED
  BY <1>1, <1>4 DEF SoundCode, Runs, Fixed

\* and of one trace.
LEMMA UnlinkRuns ==
  ASSUME Context, TypeOK', NEW c, TypedCode(c, pt), SoundCode(c), NEW n \in Numbers, Unlinks(n),
         code' = Unpatched(c, {n})
  PROVE  SoundCode(code)'
<1> USE DEF Context
<1>1. PICK p : p = world.proto[slot[n].site]
  OBVIOUS
<1>2. SameSides /\ Unlinked(n, p)
  BY <1>1, UnlinkKeeps
<1>3. world' = world /\ Sites' = Sites
  BY DEF Fixed
<1>4. ASSUME NEW s \in Sites, NEW q, q = world.proto[s]
      PROVE  /\ code'[s].op = "J" => code'[s].d \in Chain(q)' /\ slot'[code'[s].d].site = s
             /\ code'[s].fori <=> code'[s].op = "J" /\ Kind(s) = "FORL"
  <2>1. CASE code'[s] = Plain
    BY Zenon, <2>1 DEF Typings
  <2>2. CASE code'[s] = c[s] /\ ~(c[s].op = "J" /\ slot[n].site = s)
    <3>1. CASE c[s].op = "J"
      <4>1. c[s].d \in Chain(q) /\ slot[c[s].d].site = s /\ q \in Protos /\ c[s].d # n
        BY <1>4, <2>2, <3>1 DEF SoundCode, Runs, WorldFacts
      <4>2. c[s].d \in Traces /\ c[s].d \in Numbers
        BY <4>1 DEF HeapFacts
      <4>3. c[s].d \in Chain(q)' /\ slot'[c[s].d].site = s
        BY <1>2, <4>1, <4>2 DEF SameSides, Unlinked
      <4>4. QED
        BY <2>2, <4>3 DEF SoundCode
    <3>2. CASE c[s].op # "J"
      BY <2>2, <3>2 DEF SoundCode
    <3>3. QED
      BY <3>1, <3>2
  <2>3. PlainWhere(c, {n})
    BY UnpatchedCode
  <2>4. QED
    BY <2>1, <2>2, <2>3 DEF PlainWhere
<1>5. QED
  BY <1>3, <1>4, ZenonT(60) DEF SoundCode, Runs, Fixed

\* Putting an instruction that runs no trace in the place of one leaves the
\* rest of the code sound.
LEMMA SoundBut ==
  ASSUME Context, NEW c, SoundCode(c), NEW s \in Sites, NEW i, i.op # "J", i.fori = FALSE,
         c \in [Sites -> Instructions]
  PROVE  SoundCode([c EXCEPT ![s] = i])
BY DEF SoundCode

\* A step that is no flush leaves sound code, given what it puts off.
LEMMA UnflushedRuns ==
  ASSUME Context, [Next]_vars, TypeOK', Unflushed
  PROVE  CodeRuns'
<1> USE DEF Context
<1>1. RunsStay /\ Sites' = Sites /\ TypedCode(code, pt) /\ SoundCode(code) /\ code \in [Sites -> Instructions]
  BY RunsKept DEF Fixed, CodeRuns, TypeOK, CodeTyped, TypedCode
<1>2. ASSUME NEW c, c = code', SoundCode(c), jit'.patch = NoPatch
      PROVE  CodeRuns'
  BY <1>1, <1>2, SoundStays DEF CodeRuns
<1>3. ASSUME NEW c, c = code', SoundCode(c), NEW s \in Sites, NEW n, Runs(s, n), code'[s] = Plain,
             jit'.patch.site = s, jit'.patch.d = n
      PROVE  CodeRuns'
  BY <1>1, <1>3, SoundStays DEF CodeRuns, RunsStay
<1>4. CASE code' = code /\ jit'.patch = jit.patch
  <2>1. CASE jit.patch = NoPatch
    BY <1>1, <1>2, <1>4, <2>1
  <2>2. CASE jit.patch # NoPatch
    <3>1. jit.patch.site \in Sites /\ Runs(jit.patch.site, jit.patch.d) /\ code[jit.patch.site] = Plain
      BY <2>2 DEF CodeRuns
    <3>2. QED
      BY <1>1, <1>3, <1>4, <3>1
  <2>3. QED
    BY <2>1, <2>2
<1>5. CASE code' = code /\ jit'.patch = NoPatch
  BY <1>1, <1>2, <1>5
<1>6. CASE StartOff
  <2>1. jit' = Silent /\ jit'.patch = NoPatch
    BY Zenon, <1>6, SilentFields DEF StartOff
  <2>2. CASE jit.parent = 0 /\ jit.exitno = 0
    <3>1. jit.site \in Sites /\ code' = [code EXCEPT ![jit.site] = Interpreted]
      BY Zenon, <1>6, <2>2 DEF StartOff, Compiler, Starting
    <3>2. Interpreted.op # "J" /\ Interpreted.fori = FALSE
      BY DEF Interpreted, Plain
    <3>3. SoundCode([code EXCEPT ![jit.site] = Interpreted])
      BY <1>1, <3>1, <3>2, SoundBut
    <3>4. QED
      BY <1>2, <2>1, <3>1, <3>3
  <2>3. CASE ~(jit.parent = 0 /\ jit.exitno = 0)
    BY <1>5, <1>6, <2>1, <2>3 DEF StartOff
  <2>4. QED
    BY <2>2, <2>3
<1>7. ASSUME NEW o \in {"RECORD", "END", "ERR"}, StartTrace(o)
      PROVE  CodeRuns'
  <2>1. jit.state = "START"
    BY <1>7 DEF StartTrace
  <2>2. jit.site \in Sites /\ (jit.parent # 0 => jit.parent \in Traces) /\ jit.patch = NoPatch
    BY Zenon, <2>1 DEF Compiler, Starting, Parents, Anchored, Kept, BeforeStart
  <2>3. Starts(o, Min(FreeNumbers))
    BY <1>7, <2>2, StartFields
  <2>4. CASE MovesRet(o)
    <3>1. code' = [code EXCEPT ![jit.site] = Plain]
          /\ jit'.patch = [site |-> jit.site, d |-> code[jit.site].d]
      BY Zenon, <2>3, <2>4 DEF Starts
    <3>2. Runs(jit.site, code[jit.site].d)
      BY <1>1, <2>2, <2>4 DEF MovesRet, SoundCode
    <3>3. SoundCode([code EXCEPT ![jit.site] = Plain])
      BY Zenon, <1>1, <2>2, SoundBut DEF Typings
    <3>4. code'[jit.site] = Plain
      BY <1>1, <2>2, <3>1
    <3>5. jit'.patch.site = jit.site /\ jit'.patch.d = code[jit.site].d
      BY <3>1
    <3>6. QED
      BY <1>3, <2>2, <3>1, <3>2, <3>3, <3>4, <3>5
  <2>5. CASE ~MovesRet(o)
    BY Zenon, <1>5, <2>2, <2>3, <2>5 DEF Starts
  <2>6. QED
    BY <2>4, <2>5
<1>8. ASSUME NEW o \in {"RECORD", "ERR", "ASM"}, End(o)
      PROVE  CodeRuns'
  <2>1. code' = Mended(TRUE) /\ jit'.patch = NoPatch
    BY Zenon, <1>8, EndFields DEF Ends
  <2>2. SoundCode(Mended(TRUE))
    BY MendedCode DEF MendedFacts
  <2>3. QED
    BY <1>2, <2>1, <2>2
<1>9. CASE Reserve \/ Overrun \/ AsmError \/ Reassemble
  BY <1>4, <1>9, AssembleFields DEF Assembles
<1>10. CASE Stop
  <2>1. jit'.patch = NoPatch
    BY <1>10, StopFields DEF Idles
  <2>2. CASE ~RootStop
    <3>1. code' = code
      BY <1>10, <2>2 DEF Stop
    <3>2. QED
      BY <1>5, <2>1, <3>1
  <2>3. CASE RootStop
    <3>1. PICK c, r, p : c = cur.no /\ r = cur.root /\ p = world.proto[cur.site]
      OBVIOUS
    <3>2. ChainsAdded(c, p) /\ Adds(c, p, r) /\ Roles(c, p, r)
      BY <1>10, <3>1, StopChains, StopAdds, StopRoles
    <3>3. PICK s \in Sites : s = cur.site /\ p = world.proto[s] /\ p \in Protos
      BY <2>3, <3>2 DEF Roles
    <3>4. c \in Chain(p)' /\ slot'[c].site = s
      BY <2>3, <3>2, <3>3 DEF ChainsAdded, Adds
    <3>5. Runs(s, c)'
      BY <3>3, <3>4 DEF Runs, Fixed
    <3> DEFINE new == Compiled(s, c)
    <3>6. new.op = "J" /\ new.d = c /\ (new.fori <=> Kind(s) = "FORL")
      BY DEF Compiled
    <3>7. code' = [code EXCEPT ![s] = new]
      BY <1>10, <2>3, <3>1, <3>3 DEF Stop
    <3> HIDE DEF new
    <3>8. \A t \in Sites : code'[t] = IF t = s THEN new ELSE code[t]
      BY <1>1, <3>7
    <3>9. SoundCode(code)'
      BY <1>1, <3>5, <3>6, <3>8 DEF SoundCode, Fixed, RunsStay
    <3>10. QED
      BY <2>1, <3>9 DEF CodeRuns
  <2>4. QED
    BY <2>2, <2>3
<1>11. ASSUME NEW b \in BOOLEAN, Abort(b)
       PROVE  CodeRuns'
  <2>1. SoundCode(AbortedCode(b)) /\ code' = AbortedCode(b)
    BY <1>11, AbortFact DEF AbortFacts, Abort, AbortedCode, Unflushed, Flushing
  <2>2. jit'.patch = NoPatch
    BY <1>11, AbortFields DEF Aborts, Idles
  <2>3. QED
    BY <1>2, <2>1, <2>2, SMTT(30)
<1>12. CASE Record
  <2>1. Records /\ MendedFacts(FALSE)
    BY <1>12, RecordFields, MendedCode
  <2>2. CASE code' = Mended(FALSE) /\ jit'.patch = Left(FALSE)
    <3>1. CASE Left(FALSE) = NoPatch
      BY <1>2, <2>1, <2>2, <3>1 DEF MendedFacts
    <3>2. CASE Left(FALSE) # NoPatch
      BY <1>4, <2>1, <2>2, <3>2 DEF MendedFacts
    <3>3. QED
      BY <3>1, <3>2
  <2>3. ASSUME NEW s \in Sites, RecordInto(s), jit'.patch = [site |-> s, d |-> Mended(FALSE)[s].d]
        PROVE  CodeRuns'
    <3>1. code' = [Mended(FALSE) EXCEPT ![s] = Plain] /\ Mended(FALSE)[s].op = "J"
      BY Zenon, <2>3 DEF RecordInto, Returns
    <3>2. SoundCode(Mended(FALSE)) /\ Mended(FALSE) \in [Sites -> Instructions]
      BY <2>1 DEF MendedFacts, TypedCode
    <3>3. Runs(s, Mended(FALSE)[s].d)
      BY <3>1, <3>2 DEF SoundCode
    <3>4. SoundCode([Mended(FALSE) EXCEPT ![s] = Plain])
      BY Zenon, <3>2, SoundBut DEF Typings
    <3>5. code'[s] = Plain
      BY <3>1, <3>2
    <3>6. jit'.patch.site = s /\ jit'.patch.d = Mended(FALSE)[s].d
      BY <2>3
    <3>7. QED
      BY <1>3, <3>1, <3>3, <3>4, <3>5, <3>6
  <2>4. QED
    BY <2>1, <2>2, <2>3 DEF Records, Unflushed
<1>13. ASSUME NEW p \in Protos, Reenable(p)
       PROVE  CodeRuns'
  <2>1. jit' = jit /\ jit.patch = NoPatch
        /\ code' = [s \in Sites |->
                      IF pt[p].iloop /\ world.proto[s] = p /\ code[s].op = "I" THEN Plain
                      ELSE code[s]]
    BY <1>13 DEF Reenable, MayFlush, FlushOnly, BeforeStart
  <2>2. PICK c : c = code'
    OBVIOUS
  <2>3. SoundCode(c)
    BY Zenon, <1>1, <2>1, <2>2 DEF SoundCode, Typings
  <2>4. QED
    BY <1>2, <2>1, <2>2, <2>3
<1>14. CASE Collect \/ UNCHANGED vars
  <2>1. code' = code /\ jit' = jit
    BY Zenon, <1>14 DEF Collect, GCStart, TraverseStack, Atomic, GCEnd, TraverseProto, TraverseTrace,
                 FreeTrace, GCOnly, vars
  <2>2. QED
    BY <1>4, <2>1
<1>15. CASE AsyncAbort \/ \E n \in Numbers : Call(n) \/ Unwind(n)
  <2>1. code' = code /\ (jit' = jit \/ jit' = [jit EXCEPT !.state = "ABORTED"])
    BY <1>15 DEF AsyncAbort, Call, Unwind, EventOnly
  <2>2. jit'.patch = jit.patch
    BY Zenon, <2>1 DEF JitStates
  <2>3. QED
    BY <1>4, <2>1, <2>2
<1>16. CASE \E s \in Sites : Hot(s) \/ \E n \in Numbers : HotExit(n, s) \/ Return(n, s)
  <2>1. code' = code /\ \E parent, exitno, s : jit' = Started(parent, exitno, s)
    BY Zenon, <1>16 DEF Hot, HotExit, Return, EventOnly
  <2>2. jit'.patch = NoPatch
    BY <2>1, StartedFields
  <2>3. QED
    BY <1>5, <2>1, <2>2
<1>17. QED
  BY <1>6, <1>7, <1>8, <1>9, <1>10, <1>11, <1>12, <1>13, <1>14, <1>15, <1>16
  DEF Next, Compile, Start, Assemble, Flush, Event, Unflushed, Flushing

\* Code stays sound, whatever happens.
LEMMA CodeRunsStep ==
  ASSUME Context, [Next]_vars, TypeOK'
  PROVE  CodeRuns'
<1> USE DEF Context
<1>1. CASE Unflushed
  BY <1>1, UnflushedRuns
<1>2. SoundCode(code) /\ TypedCode(code, pt) /\ (jit.state = "IDLE" => jit.patch = NoPatch)
  BY DEF CodeRuns, TypedCode, TypeOK, CodeTyped, BeforeStart
<1>3. CASE FlushAll
  BY <1>2, <1>3, FlushedCodeRuns DEF FlushAll, MayFlush, CodeRuns
<1>4. CASE StartFull
  <2>1. jit'.patch = NoPatch /\ FlushedAll(code, pt)
    BY Zenon, <1>4, SilentFields DEF StartFull
  <2>2. QED
    BY <1>2, <2>1, FlushedCodeRuns DEF CodeRuns
<1>5. ASSUME NEW b \in BOOLEAN, Abort(b), Flushes
      PROVE  CodeRuns'
  <2>1. FlushedAll(AbortedCode(b), AbortedProtos(b)) /\ AbortFacts(b)
    BY <1>5, AbortFact DEF Abort, AbortedCode, AbortedProtos
  <2>2. jit'.patch = NoPatch
    BY <1>5, AbortFields DEF Aborts, Idles
  <2>3. QED
    BY <2>1, <2>2, FlushedCodeRuns DEF AbortFacts, CodeRuns
<1>6. ASSUME NEW n \in Numbers, FlushTrace(n)
      PROVE  CodeRuns'
  BY <1>2, <1>6, FlushUnlinks, UnlinkRuns DEF FlushTrace, FlushOnly, MayFlush, CodeRuns
<1>7. ASSUME NEW s \in Sites, RecordUnroll(s)
      PROVE  CodeRuns'
  <2>1. TypedCode(Mended(FALSE), pt) /\ SoundCode(Mended(FALSE))
    BY MendedCode DEF MendedFacts
  <2>2. code' = Unpatched(Mended(FALSE), {Mended(FALSE)[s].d}) /\ jit'.patch = NoPatch
    <3>1. jit' = Recorded("ERR", "RECERR") /\ Left(FALSE) = NoPatch
      BY <1>7 DEF RecordUnroll
    <3>2. QED
      BY Zenon, <1>7, <3>1 DEF RecordUnroll, Recorded, JitStates
  <2>3. QED
    BY <1>7, <2>1, <2>2, FlushUnlinks, UnlinkRuns DEF CodeRuns
<1>8. ASSUME NEW p \in Protos, NEW off \in BOOLEAN, FlushProto(p, off)
      PROVE  CodeRuns'
  BY <1>2, <1>8, FlushProtoRuns DEF FlushProto, FlushOnly, MayFlush, CodeRuns
<1>9. QED
  BY <1>1, <1>3, <1>4, <1>5, <1>6, <1>7, <1>8 DEF Unflushed, Flushing

-----------------------------------------------------------------------------
\* Traces that the program may run are reached from the prototypes, and each of
\* them is a root trace or in the chain of one.
LEMMA ExecutableFact ==
  ASSUME WorldFacts, TraceFacts, ChainFacts, HeapFacts, Heap, CodeRuns, Waiting
  PROVE  Executable \subseteq Rooted /\ \A n \in Executable : Anchored(n, Rooted)
<1> DEFINE S == {code[s].d : s \in {t \in Sites : code[t].op = "J"}}
                  \cup ({jit.patch.d} \ {0})
                  \cup UNION {Links(n) \ {n} : n \in frames}
           next == [n \in Numbers |-> Onward(n)]
           T == {n \in Rooted : Anchored(n, Rooted)}
<1>1. Executable = Reach(S, next)
  BY DEF Executable
<1>2. /\ Rooted \subseteq Kept /\ Kept \subseteq Numbers /\ T \subseteq Rooted
      /\ \A n \in Rooted : Links(n) \subseteq Rooted /\ SideChain(n) \subseteq Rooted
  BY DEF HeapFacts, ChainFacts, Children
<1>3. ASSUME NEW n \in Rooted, slot[n].root = 0
      PROVE  n \in T
  BY <1>2, <1>3 DEF Anchored, RootOf
<1>4. ASSUME NEW s \in Sites, NEW n, Runs(s, n)
      PROVE  n \in T
  <2>1. world.proto[s] \in Protos
    BY DEF WorldFacts
  <2>2. n \in Rooted /\ slot[n].root = 0
    BY <1>4, <2>1 DEF Runs, HeapFacts, StartsIn
  <2>3. QED
    BY <1>3, <2>2
<1>5. ASSUME NEW n \in Rooted, NEW m \in Links(n), m # n
      PROVE  m \in T
  BY <1>2, <1>3, <1>5 DEF Heap, LinksToRoots
<1>6. ASSUME NEW n \in T
      PROVE  Onward(n) \subseteq T
  <2>1. Links(n) \subseteq T
    BY <1>2, <1>5
  <2>2. ASSUME NEW m \in SideExit(n)
        PROVE  m \in T
    <3>1. PICK r : r = RootOf(n) /\ r \in Rooted /\ slot[r].root = 0 /\ n \in {r} \cup SideChain(r)
      BY DEF Anchored
    <3>2. m \in SideChain(r) /\ slot[m].root = r /\ r # 0
      BY <1>2, <2>2, <3>1 DEF Heap, SidesInChain, WorldFacts
    <3>3. m \in Rooted /\ RootOf(m) = r
      BY <1>2, <3>1, <3>2 DEF RootOf
    <3>4. QED
      BY <3>1, <3>2, <3>3 DEF Anchored
  <2>3. QED
    BY <2>1, <2>2 DEF Onward
<1> HIDE DEF T
<1>7. S \subseteq T
  <2>1. ASSUME NEW s \in Sites, code[s].op = "J"
        PROVE  code[s].d \in T
    BY <1>4, <2>1 DEF CodeRuns, SoundCode
  <2>2. {jit.patch.d} \ {0} \subseteq T
    <3>1. CASE jit.patch = NoPatch
      BY <3>1 DEF NoPatch
    <3>2. CASE jit.patch # NoPatch
      BY <1>4, <3>2 DEF CodeRuns
    <3>3. QED
      BY <3>1, <3>2
  <2>3. ASSUME NEW n \in frames, NEW m \in Links(n) \ {n}
        PROVE  m \in T
    BY <1>5, <2>3 DEF Waiting
  <2>4. QED
    BY <2>1, <2>2, <2>3
<1>8. next \in [Numbers -> SUBSET Numbers] /\ \A n \in T : next[n] \subseteq T
  BY <1>2, <1>6 DEF Onward, TraceFacts, T
<1> HIDE DEF S, next
<1>9. T \subseteq Numbers
  BY <1>2 DEF T
<1>10. Reach(S, next) \subseteq T
  BY <1>7, <1>8, <1>9, ReachLeast
<1>11. QED
  BY <1>1, <1>10 DEF T

\* Unless code is flushed, what is reached from the prototypes still is.
LEMMA RootedKept ==
  ASSUME Context, [Next]_vars, TypeOK', Unflushed
  PROVE  Rooted \subseteq Rooted'
<1> USE DEF Context
<1>1. CASE ~HeapSteps
  BY <1>1, HeapUntouched, HeapKept DEF SameChains
<1>2. CASE Atomic
  <2>1. Refs' = Refs /\ Protos' = Protos
    BY <1>2, AtomicHeap DEF SamePointers
  <2>2. \A p : First(p)' = First(p)
    BY <1>2 DEF Atomic, GCOnly, First
  <2>3. QED
    BY <2>1, <2>2 DEF Rooted
<1>3. CASE Stop
  <2>1. PICK c, r, p : c = cur.no /\ r = cur.root /\ p = world.proto[cur.site]
    OBVIOUS
  <2>2. QED
    BY <1>3, <2>1, StopChains DEF ChainsAdded
<1>4. QED
  BY <1>1, <1>2, <1>3 DEF HeapSteps, Unflushed

\* Traces that wait for calls stay reached from the prototypes.
LEMMA WaitingStep ==
  ASSUME Context, [Next]_vars, TypeOK'
  PROVE  Waiting'
<1> USE DEF Context
<1>1. CASE Unflushed
  <2>1. frames' \subseteq frames \/ (\E n \in Numbers : Call(n)) \/ frames' = {}
    <3>1. CASE Compile
      BY Zenon, <3>1 DEF Compile, Start, StartOff, StartFull, StartTrace, End, Assemble, Reserve, Overrun,
                  AsmError, Stop, Reassemble, Abort, AsmOnly, FlushedAll
    <3>2. CASE Record
      BY Zenon, <3>2 DEF Record, RecordOn, RecordError, RecordStop, RecordDownrec, RecordInto,
                  RecordUnroll, RecordOnly
    <3>3. CASE Collect
      BY Zenon, <3>3 DEF Collect, GCStart, TraverseStack, Atomic, GCEnd, TraverseProto, TraverseTrace,
                  FreeTrace, GCOnly
    <3>4. CASE Flush
      BY <3>4 DEF Flush, FlushAll, FlushTrace, Reenable, FlushProto, FlushOnly, FlushedAll
    <3>5. CASE Event
      BY Zenon, <3>5 DEF Event, AsyncAbort, Hot, HotExit, Return, Unwind, EventOnly
    <3>6. QED
      BY <3>1, <3>2, <3>3, <3>4, <3>5 DEF Next, vars
  <2>2. ASSUME NEW n \in Numbers, Call(n)
        PROVE  frames' \subseteq Rooted
    BY <2>2, ExecutableFact DEF Call, Waiting
  <2>3. frames' \subseteq Rooted
    BY <2>1, <2>2 DEF Waiting
  <2>4. QED
    BY <1>1, <2>3, RootedKept DEF Waiting
<1>2. CASE Flushing
  BY <1>2 DEF Flushing, FlushAll, StartFull, Abort, FlushedAll, Waiting
<1>3. CASE \/ \E n \in Numbers : FlushTrace(n)
           \/ \E s \in Sites : RecordUnroll(s)
           \/ \E p \in Protos, off \in BOOLEAN : FlushProto(p, off)
  BY <1>3 DEF FlushTrace, FlushOnly, RecordUnroll, RecordOnly, FlushProto, Safe, Waiting
<1>4. QED
  BY <1>1, <1>2, <1>3 DEF Unflushed


-----------------------------------------------------------------------------
\* Transactions keep the areas that there are, D.
Areas(m, D) == {"prot", "cached", "room"} \subseteq DOMAIN m /\ DOMAIN m.prot = D
LEMMA ProtectedKeeps ==
  ASSUME NEW m, NEW D, Areas(m, D), NEW prot
  PROVE  Areas(Protected(m, prot), D)
BY DEF Areas, Protected

LEMMA PatchedKeeps ==
  ASSUME NEW m, NEW D, Areas(m, D), NEW i
  PROVE  Areas(Patched(m, i), D)
<1>1. \A k, prot : Areas(k, D) => Areas([k EXCEPT !.prot[i] = prot], D)
  BY DEF Areas
<1>2. \A k : Areas(k, D) => Areas(PatchBegun(k, i), D)
  BY <1>1, ProtectedKeeps DEF PatchBegun
<1>3. \A k : Areas(k, D) => Areas(PatchDone(k, i), D)
  BY <1>1, ProtectedKeeps DEF PatchDone
<1>4. QED
  BY <1>2, <1>3 DEF Patched

LEMMA CommittedKeeps ==
  ASSUME NEW m, NEW D, Areas(m, D), NEW size
  PROVE  Areas(Committed(m, size), D)
<1>1. Areas([m EXCEPT !.room = @ - size], D)
  BY DEF Areas
<1>2. QED
  BY <1>1, ProtectedKeeps DEF Committed

\* Areas are freed by lj_trace_flushall only.
LEMMA AreasStay ==
  ASSUME Context, [Next]_vars, ~Flushing
  PROVE  DOMAIN mc.prot \subseteq DOMAIN mc'.prot
<1> USE DEF Context
<1>1. /\ mc \in [prot : Seq({GEN, RUN}), cached : {GEN, RUN}, room : 0..AreaSize]
      /\ \A m, D : Areas(m, D) => DOMAIN m.prot = D
  BY DEF CodeInv, CodeTypeOK, Areas
<1>2. PICK D : D = DOMAIN mc.prot /\ Areas(mc, D)
  BY <1>1 DEF Areas
<1>3. Areas(Aborted(mc), D)
  BY <1>2, ProtectedKeeps DEF Aborted
<1>4. CASE mc' = mc
  BY <1>4
<1>5. CASE Stop
  <2>1. \E i, size : mc' = Committed(mc, size) \/ mc' = Committed(Patched(mc, i), size)
    BY <1>5, SMTT(30) DEF Stop
  <2>2. Areas(mc', D)
    BY <1>2, <2>1, PatchedKeeps, CommittedKeeps
  <2>3. QED
    BY <1>1, <1>2, <2>2
<1>6. CASE Reassemble \/ (\E b \in BOOLEAN : Abort(b))
  <2>1. mc' = Aborted(mc)
    BY <1>6 DEF Reassemble, Abort, Flushing
  <2>2. QED
    BY <1>1, <1>2, <1>3, <2>1
<1>7. \A m : m.prot \in Seq({GEN, RUN}) => DOMAIN m.prot \subseteq DOMAIN Allocated(m).prot
  <2>1. SUFFICES ASSUME NEW m, m.prot \in Seq({GEN, RUN})
                 PROVE  DOMAIN m.prot \subseteq DOMAIN Allocated(m).prot
    OBVIOUS
  <2>2. Allocated(m).prot = Append(m.prot, GEN)
    BY DEF Allocated
  <2>3. QED
    BY <2>1, <2>2 DEF GEN
<1>8. CASE Reserve
  <2>1. mc' = mc \/ mc' = Allocated(mc) \/ mc' = Protected(mc, GEN)
    BY <1>8 DEF Reserve, Reserved
  <2>2. Areas(Protected(mc, GEN), D)
    BY <1>2, ProtectedKeeps
  <2>3. QED
    BY <1>1, <1>2, <1>7, <2>1, <2>2
<1>9. CASE Overrun
  <2>1. mc' = Aborted(mc) \/ mc' = Allocated(Aborted(mc))
    BY <1>9 DEF Overrun, Limited
  <2>2. Aborted(mc).prot \in Seq({GEN, RUN})
    BY InvIsArea, AbortedArea DEF Area
  <2>3. DOMAIN Aborted(mc).prot = D
    BY <1>1, <1>3
  <2>4. QED
    BY <1>2, <1>7, <2>1, <2>2, <2>3
<1>10. CASE StartOff \/ AsmError \/ Record \/ (\E o \in {"RECORD", "END", "ERR"} : StartTrace(o))
            \/ (\E o \in {"RECORD", "ERR", "ASM"} : End(o)) \/ Collect \/ Event
            \/ (Flush /\ ~FlushAll)
  <2>1. mc' = mc
    <3>1. CASE StartOff \/ AsmError \/ Record
      BY Zenon, <3>1 DEF StartOff, AsmError, Record, RecordOn, RecordError, RecordStop, RecordDownrec,
                  RecordInto, RecordUnroll, RecordOnly
    <3>2. CASE (\E o \in {"RECORD", "END", "ERR"} : StartTrace(o))
               \/ (\E o \in {"RECORD", "ERR", "ASM"} : End(o))
      BY <3>2 DEF StartTrace, End
    <3>3. CASE Collect \/ (Flush /\ ~FlushAll)
      BY <3>3, CollectIsQuiet, FlushIsQuiet DEF Quiet
    <3>4. CASE Event
      BY Zenon, <3>4 DEF Event, AsyncAbort, Hot, HotExit, Return, Call, Unwind, EventOnly
    <3>5. QED
      BY <1>10, <3>1, <3>2, <3>3, <3>4
  <2>2. QED
    BY <1>4, <2>1
<1>11. QED
  BY <1>4, <1>5, <1>6, <1>8, <1>9, <1>10
  DEF Next, Compile, Start, Assemble, Flushing, vars

\* A step that saves no trace leaves the areas, roots and sites of the others.
SameOld == \A n \in Traces' : /\ n \in Traces /\ slot'[n].area = slot[n].area
                              /\ slot'[n].root = slot[n].root /\ slot'[n].site = slot[n].site
LEMMA OldTraces ==
  ASSUME Context, [Next]_vars, TypeOK', ~Stop
  PROVE  SameOld
<1> USE DEF Context
<1>1. Numbers' = Numbers
  BY DEF Fixed
<1>2. CASE slot' = slot
  <2>1. Traces' = Traces
    BY <1>1, <1>2 DEF Traces, IsTrace
  <2>2. QED
    BY <1>2, <2>1 DEF SameOld
<1>3. CASE Flushing
  <2>1. Traces' = {}
    BY <1>3, FlushedHeap DEF Flushing, FlushAll, StartFull, Abort
  <2>2. QED
    BY <2>1 DEF SameOld
<1>4. ASSUME NEW n \in Numbers, Unlinks(n)
      PROVE  SameOld
  <2>1. SameSides
    BY <1>4, UnlinkKeeps
  <2>2. QED
    BY <2>1 DEF SameSides, SameOld, TraceFacts
<1>5. CASE (\E n \in Numbers : FlushTrace(n)) \/ \E s \in Sites : RecordUnroll(s)
  BY <1>4, <1>5, FlushUnlinks
<1>6. ASSUME NEW n \in Numbers, FreeTrace(n)
      PROVE  SameOld
  <2>1. slot' = [slot EXCEPT ![n] = Nil]
    BY <1>6 DEF FreeTrace
  <2>2. \A m \in Numbers : slot'[m] = IF m = n THEN Nil ELSE slot[m]
    BY <2>1 DEF TypeOK, SlotsTyped
  <2>3. QED
    BY <1>1, <2>2 DEF SameOld, Traces, IsTrace
<1>7. ASSUME NEW o \in {"RECORD", "END", "ERR"}, StartTrace(o)
      PROVE  SameOld
  <2> DEFINE n == Min(FreeNumbers)
  <2>1. slot' = [slot EXCEPT ![n] = Cur]
    BY <1>7 DEF StartTrace
  <2> HIDE DEF n
  <2>2. \A m \in Numbers : slot'[m] = IF m = n THEN Cur ELSE slot[m]
    BY <2>1 DEF TypeOK, SlotsTyped
  <2>3. QED
    BY <1>1, <2>2 DEF SameOld, Traces, IsTrace
<1>8. ASSUME NEW b \in BOOLEAN, Abort(b), ~Flushes
      PROVE  SameOld
  <2>1. Drops
    BY <1>8, AbortDrops
  <2>2. Traces' \subseteq Traces
    BY <1>1, <2>1 DEF Drops, Traces, IsTrace
  <2>3. QED
    BY <2>1, <2>2 DEF Drops, SameTrace, SameOld
<1>9. CASE \/ StartOff \/ Reserve \/ Overrun \/ AsmError \/ Reassemble \/ Event
           \/ (\E o \in {"RECORD", "ERR", "ASM"} : End(o))
           \/ Record /\ ~\E s \in Sites : RecordUnroll(s)
           \/ Collect /\ ~\E n \in Numbers : FreeTrace(n)
           \/ \E p \in Protos : Reenable(p) \/ \E off \in BOOLEAN : FlushProto(p, off)
  <2>1. slot' = slot
    <3>1. CASE StartOff \/ Reserve \/ Overrun \/ AsmError \/ Reassemble
               \/ (\E o \in {"RECORD", "ERR", "ASM"} : End(o))
      BY <3>1 DEF StartOff, Reserve, Overrun, AsmError, Reassemble, End, Unsaved
    <3>2. CASE Event
      BY Zenon, <3>2 DEF Event, AsyncAbort, Hot, HotExit, Return, Call, Unwind, EventOnly
    <3>3. CASE Record /\ ~\E s \in Sites : RecordUnroll(s)
      BY Zenon, <3>3 DEF Record, RecordOn, RecordError, RecordStop, RecordDownrec, RecordInto
    <3>4. CASE Collect /\ ~\E n \in Numbers : FreeTrace(n)
      BY Zenon, <3>4 DEF Collect, GCStart, TraverseStack, Atomic, GCEnd, TraverseProto, TraverseTrace
    <3>5. CASE \E p \in Protos : Reenable(p) \/ \E off \in BOOLEAN : FlushProto(p, off)
      BY <3>5 DEF Reenable, FlushProto
    <3>6. QED
      BY <1>9, <3>1, <3>2, <3>3, <3>4, <3>5
  <2>2. QED
    BY <1>2, <2>1
<1>10. QED
  BY <1>2, <1>3, <1>5, <1>6, <1>7, <1>8, <1>9
  DEF Next, Compile, Start, Assemble, Collect, Flush, Flushing, vars

\* The areas of traces are there until all of them are freed.
LEMMA InAreasStep ==
  ASSUME Context, [Next]_vars, TypeOK'
  PROVE  InAreas'
<1> USE DEF Context
<1>1. CASE Flushing
  <2>1. Traces' = {}
    BY <1>1, FlushedHeap DEF Flushing, FlushAll, StartFull, Abort
  <2>2. QED
    BY <2>1 DEF InAreas
<1>2. CASE ~Flushing /\ ~Stop
  BY <1>2, AreasStay, OldTraces DEF SameOld, InAreas, Fixed
<1>3. CASE ~Flushing /\ Stop
  <2>1. PICK c, r, p : c = cur.no /\ r = cur.root /\ p = world.proto[cur.site]
    OBVIOUS
  <2>2. Traces' = Traces \cup {c} /\ Roles(c, p, r)
    BY <1>3, <2>1, StopAdds, StopRoles DEF Adds
  <2>3. /\ \A n \in Traces : Relinked(n)
        /\ slot'[c].site = cur.site /\ slot'[c].root = r /\ slot'[c].area = Len(mc.prot)
    BY <1>3, <2>1, StopSaves DEF Saved
  <2>4. DOMAIN mc.prot \subseteq DOMAIN mc'.prot
    BY <1>3, AreasStay
  <2>5. Len(mc.prot) \in DOMAIN mc.prot
    <3>1. mc.prot \in Seq({GEN, RUN}) /\ mc.prot # <<>>
      BY <1>3 DEF Stop, CodeInv, CodeTypeOK, OpenHasArea
    <3>2. QED
      BY <3>1
  <2>6. \A n \in Traces : slot'[n].area \in DOMAIN mc'.prot /\ (slot'[n].root = 0 => slot'[n].site \in Sites)
    BY <2>3, <2>4 DEF InAreas, Relinked
  <2>7. slot'[c].area \in DOMAIN mc'.prot /\ (slot'[c].root = 0 => slot'[c].site \in Sites)
    BY <2>2, <2>3, <2>4, <2>5 DEF Roles
  <2>8. QED
    BY <2>2, <2>6, <2>7 DEF InAreas, Fixed
<1>4. QED
  BY <1>1, <1>2, <1>3

-----------------------------------------------------------------------------
\* Traces that are kept are only changed when they are relinked.
LEMMA KeptSlots ==
  ASSUME Context, [Next]_vars, ~HeapSteps, ~\E b \in BOOLEAN : Abort(b)
  PROVE  \A n \in Kept : slot'[n] = slot[n]
<1> USE DEF Context
<1>1. ASSUME NEW n \in Numbers, FreeTrace(n)
      PROVE  \A m \in Kept : slot'[m] = slot[m]
  <2>1. slot' = [slot EXCEPT ![n] = Nil] /\ n \notin Kept
    BY <1>1 DEF FreeTrace, Kept
  <2>2. QED
    BY <2>1 DEF TypeOK, SlotsTyped, HeapFacts
<1>2. ASSUME NEW o \in {"RECORD", "END", "ERR"}, StartTrace(o)
      PROVE  \A m \in Kept : slot'[m] = slot[m]
  <2> DEFINE n == Min(FreeNumbers)
  <2>1. slot' = [slot EXCEPT ![n] = Cur] /\ slot[n] = Nil
    BY <1>2, FreeNumber DEF StartTrace
  <2> HIDE DEF n
  <2>2. \A m \in Kept : m # n
    BY <2>1 DEF HeapFacts, TraceFacts, IsTrace
  <2>3. QED
    BY <2>1, <2>2 DEF TypeOK, SlotsTyped, HeapFacts
<1>3. CASE \/ StartOff \/ Reserve \/ Overrun \/ AsmError \/ Reassemble \/ Event
           \/ (\E o \in {"RECORD", "ERR", "ASM"} : End(o))
           \/ Record \/ (Collect /\ ~\E n \in Numbers : FreeTrace(n))
           \/ \E p \in Protos : Reenable(p)
  <2>1. CASE StartOff \/ Reserve \/ Overrun \/ AsmError \/ Reassemble
             \/ (\E o \in {"RECORD", "ERR", "ASM"} : End(o)) \/ \E p \in Protos : Reenable(p)
    BY <2>1 DEF StartOff, Reserve, Overrun, AsmError, Reassemble, End, Unsaved, Reenable
  <2>2. CASE Event
    BY Zenon, <2>2 DEF Event, AsyncAbort, Hot, HotExit, Return, Call, Unwind, EventOnly
  <2>3. CASE Record
    BY Zenon, <2>3 DEF Record, RecordOn, RecordError, RecordStop, RecordDownrec, RecordInto, HeapSteps
  <2>4. CASE Collect /\ ~\E n \in Numbers : FreeTrace(n)
    BY Zenon, <2>4 DEF Collect, GCStart, TraverseStack, Atomic, GCEnd, TraverseProto, TraverseTrace
  <2>5. QED
    BY <1>3, <2>1, <2>2, <2>3, <2>4
<1>4. CASE UNCHANGED vars
  BY <1>4 DEF vars
<1>5. QED
  BY <1>1, <1>2, <1>3, <1>4
  DEF Next, Compile, Start, Assemble, Collect, Flush, HeapSteps, Flushing

\* The trace that the compiler extends, a, with its root trace r, or the one it
\* continues, e,
Extended(a, r, e) ==
  /\ a = jit.parent /\ r = RootOf(a) /\ e = jit.exitno
  /\ a = 0 \/ e = 0
  /\ a # 0 => (/\ a \in Kept /\ r \in Kept /\ slot[r].root = 0 /\ a \in {r} \cup SideChain(r)
               /\ (Early => a \in Rooted /\ r \in Rooted))
  /\ e # 0 => (e \in Kept /\ slot[e].link = 0 /\ (Early => e \in Rooted))
LEMMA ExtendedTrace ==
  ASSUME Context, jit.state # "IDLE", NEW a, a = jit.parent, NEW r, r = RootOf(a),
         NEW e, e = jit.exitno
  PROVE  Extended(a, r, e)
BY DEF Context, Compiler, Parents, Anchored, Extended

\* stays there when its links do not change.
Unmoved(a, r, e) ==
  /\ a # 0 => (/\ a \in Kept' /\ r \in Kept' /\ SideChain(r)' = SideChain(r)
               /\ slot'[a].root = slot[a].root /\ slot'[r].root = slot[r].root)
  /\ e # 0 => (e \in Kept' /\ slot'[e].link = slot[e].link)
Stays(a, r, e) ==
  /\ a # 0 => (Anchored(a, Kept)' /\ RootOf(a)' = r)
  /\ e # 0 => (e \in Kept' /\ slot'[e].link = 0)
  /\ a = 0 \/ e = 0
StaysRooted(a, e) == (a # 0 => Anchored(a, Rooted)') /\ (e # 0 => e \in Rooted')
LEMMA UnmovedStays ==
  ASSUME Context, [Next]_vars, TypeOK', NEW a, NEW r, NEW e, Extended(a, r, e), Unmoved(a, r, e)
  PROVE  Stays(a, r, e) /\ (Early /\ Unflushed => StaysRooted(a, e))
<1>1. a # 0 => RootOf(a)' = r
  BY DEF Extended, Unmoved, RootOf
<1>2. Early /\ Unflushed => Rooted \subseteq Rooted'
  BY RootedKept
<1>3. a # 0 => Anchored(a, Kept)'
  BY <1>1 DEF Extended, Unmoved, Anchored
<1>4. ASSUME Early, Unflushed
      PROVE  StaysRooted(a, e)
  <2>1. a # 0 => a \in Rooted' /\ r \in Rooted'
    BY <1>2, <1>4 DEF Extended
  <2>2. a # 0 => Anchored(a, Rooted)'
    BY <1>1, <2>1 DEF Extended, Unmoved, Anchored
  <2>3. QED
    BY <1>2, <1>4, <2>2 DEF Extended, StaysRooted
<1>5. QED
  BY <1>1, <1>3, <1>4 DEF Stays, Extended, Unmoved

\* It does in the steps that neither flush all code nor end the compilation.
Extending ==
  \/ ~HeapSteps /\ ~\E b \in BOOLEAN : Abort(b)
  \/ Atomic \/ \E s \in Sites : RecordUnroll(s)
LEMMA ParentsStay ==
  ASSUME Context, [Next]_vars, TypeOK', jit.state # "IDLE", Extending,
         NEW a, a = jit.parent, NEW r, r = RootOf(a), NEW e, e = jit.exitno
  PROVE  Stays(a, r, e) /\ (Early /\ Unflushed => StaysRooted(a, e))
<1>1. Extended(a, r, e)
  BY ExtendedTrace
<1>2. CASE ~HeapSteps /\ ~\E b \in BOOLEAN : Abort(b)
  <2>1. SameHeap /\ SameChains /\ \A n \in Kept : slot'[n] = slot[n]
    <3>1. SameHeap /\ \A n \in Kept : slot'[n] = slot[n]
      BY <1>2, HeapUntouched, KeptSlots
    <3>2. QED
      BY <3>1, HeapKept DEF Context
  <2>2. Unmoved(a, r, e)
    BY <1>1, <2>1 DEF SameHeap, SameChains, Extended, Unmoved
  <2>3. QED
    BY <1>1, <2>2, UnmovedStays
<1>3. CASE Atomic
  <2>1. slot' = slot /\ Rooted \subseteq Kept' /\ SamePointers
    BY <1>3, AtomicHeap DEF Atomic
  <2>2. Early
    BY <1>3 DEF Atomic, Interpreting, Early
  <2>3. Unmoved(a, r, e)
    BY <1>1, <2>1, <2>2 DEF SamePointers, Context, HeapFacts, Extended, Unmoved
  <2>4. QED
    BY <1>1, <2>3, UnmovedStays
<1>4. CASE \E s \in Sites : RecordUnroll(s)
  <2>1. PICK n \in Numbers : Unlinks(n)
    BY <1>4, FlushUnlinks
  <2>2. SameSides
    BY <2>1, UnlinkKeeps DEF Context
  <2>3. Unmoved(a, r, e)
    BY <1>1, <2>2 DEF SameSides, Context, HeapFacts, Extended, Unmoved
  <2>4. QED
    BY <1>1, <2>3, UnmovedStays
<1>5. QED
  BY <1>2, <1>3, <1>4 DEF Extending

\* Only the start of a trace, and its end, concern an idle compiler.
Going ==
  /\ jit.state # "IDLE" /\ jit'.state # "IDLE"
  /\ jit'.state = "START" => jit.state = "START"
LEMMA GoingExtends ==
  ASSUME Context, Going
  PROVE  /\ Extending
         /\ (~\E s \in Sites : RecordUnroll(s)) => Unflushed
<1> USE DEF Context
<1>1. ~StartFull
  <2>1. SUFFICES ASSUME StartFull PROVE FALSE
    OBVIOUS
  <2>2. ~jit.again
    BY Zenon, <2>1 DEF Compiler, Starting, StartFull
  <2>3. jit'.state = "IDLE"
    BY Zenon, <2>1, <2>2 DEF StartFull, Silent, Idle
  <2>4. QED
    BY <2>3 DEF Going
<1>2. ~Stop
  BY StopFields DEF Going, Idles
<1>3. ASSUME NEW b \in BOOLEAN
      PROVE  ~Abort(b)
  BY AbortFields DEF Going, Aborts, Idles
<1>4. ~FlushAll /\ (\A n \in Numbers : ~FlushTrace(n))
      /\ \A p \in Protos, off \in BOOLEAN : ~FlushProto(p, off)
  BY DEF Going, FlushAll, FlushTrace, FlushProto, MayFlush
<1>5. QED
  BY <1>1, <1>2, <1>3, <1>4 DEF Extending, HeapSteps, Flushing, Unflushed

\* What stays is what the next state's invariant is about.
LEMMA ParentsBy ==
  ASSUME NEW a, NEW r, NEW e, jit'.parent = a, jit'.exitno = e,
         Stays(a, r, e), Early' => StaysRooted(a, e)
  PROVE  Parents' /\ (a # 0 => RootOf(jit.parent)' = r)
<1>1. a # 0 => RootOf(jit.parent)' = r
  BY DEF Stays, RootOf
<1>2. a # 0 => Anchored(jit.parent, Kept)'
  BY DEF Stays, Anchored, RootOf, SideChain, NextSide, IsTrace
<1>3. Early' /\ a # 0 => Anchored(jit.parent, Rooted)'
  BY DEF StaysRooted, Anchored, RootOf, SideChain, NextSide, IsTrace
<1>4. /\ a = 0 \/ e = 0
      /\ e # 0 => (/\ jit'.exitno \in Kept' /\ slot'[jit'.exitno].link = 0
                   /\ Early' => jit'.exitno \in Rooted')
  BY DEF Stays, StaysRooted
<1>5. QED
  BY <1>1, <1>2, <1>3, <1>4 DEF Parents
LEMMA ParentsGoing ==
  ASSUME Context, [Next]_vars, TypeOK', Going, jit'.parent = jit.parent, jit'.exitno = jit.exitno,
         Early' => Early /\ ~\E s \in Sites : RecordUnroll(s),
         NEW a, a = jit.parent, NEW r, r = RootOf(a)
  PROVE  Parents' /\ (a # 0 => RootOf(jit.parent)' = r)
<1>1. PICK e : e = jit.exitno
  OBVIOUS
<1>2. Extending /\ ((~\E s \in Sites : RecordUnroll(s)) => Unflushed)
  BY GoingExtends
<1>3. Stays(a, r, e) /\ (Early /\ Unflushed => StaysRooted(a, e))
  BY <1>1, <1>2, ParentsStay DEF Going
<1>4. QED
  BY <1>1, <1>2, <1>3, ParentsBy

\* The compiler that becomes idle refers to nothing.
LEMMA CompilerIdle ==
  ASSUME jit'.state = "IDLE", cur' = NoTrace
  PROVE  Compiler'
BY DEF Compiler, Parents, Current, Starting, RootStarts, Restarting, Resting, Compiling

\* Steps that change nothing in the heap, for these lemmas.
LEMMA SameReached ==
  ASSUME Context, TypeOK', UNCHANGED <<world, pt, slot, gc>>
  PROVE  Kept' = Kept /\ Rooted' = Rooted /\ \A n \in Kept : SideChain(n)' = SideChain(n)
<1>1. SameHeap
  BY DEF SameHeap, Kept, Traces, IsTrace, Numbers, First, SameTrace
<1>2. QED
  BY <1>1, HeapKept DEF Context, SameHeap, SameChains

\* A trace starts from one that is executed or has waited for a call.
LEMMA CompilerHot ==
  ASSUME Context, [Next]_vars, TypeOK', NEW s \in Sites, NEW n \in Numbers,
         Hot(s) \/ HotExit(n, s) \/ Return(n, s)
  PROVE  Compiler'
<1> USE DEF Context
<1>1. cur' = NoTrace
  BY Zenon DEF Hot, HotExit, Return, EventOnly, Compiler, Resting
<1>2. /\ UNCHANGED <<world, code, pt, slot, gc>>
      /\ Kept' = Kept /\ Rooted' = Rooted /\ \A m \in Kept : SideChain(m)' = SideChain(m)
  BY Zenon, SameReached DEF Hot, HotExit, Return, EventOnly
<1>3. PICK a, e : jit' = Started(a, e, s) /\ (\/ a = 0 /\ e = 0 /\ Hot(s)
                                              \/ a = n /\ e = 0 /\ HotExit(n, s)
                                              \/ a = 0 /\ e = n /\ Return(n, s))
  BY Zenon DEF Hot, HotExit, Return
<1>4. /\ jit'.state = "START" /\ jit'.parent = a /\ jit'.exitno = e /\ jit'.site = s
      /\ jit'.again = FALSE
  BY <1>3 DEF Started, Idle
<1>5. PICK r : r = RootOf(a)
  OBVIOUS
<1>6. n # 0
  BY DEF WorldFacts
<1>7. Stays(a, r, e) /\ StaysRooted(a, e)
  <2>1. CASE a = 0 /\ e = 0
    BY <2>1 DEF Stays, StaysRooted
  <2>2. CASE a = n /\ e = 0 /\ HotExit(n, s)
    <3>1. Anchored(a, Rooted)
      BY <2>2, ExecutableFact DEF HotExit
    <3>2. RootOf(a)' = r
      BY <1>2, <1>5 DEF RootOf
    <3>3. a \in Kept /\ r \in Kept /\ a \in Rooted /\ r \in Rooted
      BY <1>5, <3>1 DEF Anchored, HeapFacts
    <3>4. Anchored(a, Kept)' /\ Anchored(a, Rooted)'
      BY <1>2, <1>5, <3>1, <3>2, <3>3 DEF Anchored
    <3>5. QED
      BY <2>2, <3>2, <3>4 DEF Stays, StaysRooted
  <2>3. CASE a = 0 /\ e = n /\ Return(n, s)
    BY <1>2, <2>3 DEF Return, Waiting, HeapFacts, Stays, StaysRooted
  <2>4. QED
    BY <1>3, <2>1, <2>2, <2>3
<1>8. Parents'
  BY <1>4, <1>7, ParentsBy
<1>9. a = 0 /\ e = 0 => Hot(s)
  BY <1>3, <1>6
<1>10. Starting'
  BY Zenon, <1>1, <1>2, <1>4, <1>9 DEF Starting, Hot, Fixed
<1>11. QED
  BY Zenon, <1>4, <1>8, <1>10 DEF Compiler, Current, RootStarts, Restarting, Resting, Compiling

\* The new trace is a side trace of the parent, or starts where no trace does.
LEMMA CurrentBy ==
  ASSUME Context, NEW r, jit.parent # 0 => RootOf(jit.parent)' = r,
         jit'.parent = jit.parent, cur'.no # 0,
         cur'.root = (IF jit.parent = 0 THEN 0 ELSE r), cur'.site = Nil <=> jit.parent # 0,
         jit'.state \in {"RECORD", "ABORTED"} => cur'.link = 0,
         cur'.link \in {0, cur'.no} \/ (cur'.link \in Kept' /\ slot'[cur'.link].root = 0)
  PROVE  Current'
<1>1. jit'.parent # 0 => RootOf(jit.parent)' = r
  OBVIOUS
<1> QED
  BY <1>1 DEF Current

LEMMA CompilerStart ==
  ASSUME Context, [Next]_vars, TypeOK', NEW o \in {"RECORD", "END", "ERR"}, StartTrace(o)
  PROVE  Compiler'
<1> USE DEF Context
<1>1. PICK a, r, e : a = jit.parent /\ r = RootOf(a) /\ e = jit.exitno
  OBVIOUS
<1>2. jit.state = "START" /\ jit.site \in Sites /\ jit.patch = NoPatch
  BY Zenon DEF StartTrace, Compiler, Starting, BeforeStart
<1>3. PICK n : Starts(o, n)
  <2>1. jit.parent # 0 => jit.parent \in Traces
    BY <1>2 DEF Compiler, Parents, Anchored, HeapFacts
  <2>2. QED
    BY <1>2, <2>1, StartFields
<1>4. Going /\ ~\E s \in Sites : RecordUnroll(s)
  BY Zenon, <1>2, <1>3 DEF Starts, Going, RecordUnroll
<1>5. Parents' /\ (a # 0 => RootOf(jit.parent)' = r)
  BY Zenon, <1>1, <1>2, <1>3, <1>4, ParentsGoing DEF Starts, Early
<1>6. Current'
  BY Zenon, <1>1, <1>2, <1>3, <1>5, CurrentBy DEF Starts, WorldFacts
<1>7. ASSUME jit.parent = 0, jit.exitno = 0
      PROVE  /\ cur'.site \in Sites' /\ code'[cur'.site].op # "J" /\ jit'.patch.site # cur'.site
             /\ (Kind(cur.site) # "CALL")'
  <2>1. cur'.site = jit.site /\ code' = code /\ jit'.patch = NoPatch
    BY Zenon, <1>2, <1>3, <1>7 DEF Starts, MovesRet
  <2>2. code[jit.site].op = "" /\ Kind(jit.site) # "CALL"
    BY Zenon, <1>2, <1>7 DEF Compiler, Starting
  <2>3. Kind(cur.site)' = Kind(jit.site)
    BY <2>1, <1>2 DEF Fixed, Kind
  <2>4. NoPatch.site = Nil
    BY DEF NoPatch
  <2>5. QED
    BY Zenon, <2>1, <2>2, <2>3, <2>4, <1>2 DEF Fixed, WorldFacts
<1>8. RootStarts'
  BY Zenon, <1>3, <1>7 DEF RootStarts, Starts
<1>9. QED
  BY Zenon, <1>3, <1>5, <1>6, <1>8 DEF Starts, Compiler, Starting, Restarting, Resting

\* When no trace starts, none was about to restart, and the compiler idles.
LEMMA CompilerNoStart ==
  ASSUME Context, StartOff \/ StartFull
  PROVE  Compiler'
<1> USE DEF Context
<1>1. ~jit.again /\ cur = NoTrace
  BY Zenon DEF Compiler, Starting, StartOff, StartFull
<1>2. jit' = Idle /\ cur' = NoTrace
  BY <1>1 DEF StartOff, StartFull, Silent
<1>3. QED
  BY Zenon, <1>2, CompilerIdle DEF Idle

\* A link to a root trace that is kept stays one.
LEMMA LinkStays ==
  ASSUME Context, [Next]_vars, ~HeapSteps, NEW m \in Kept, slot[m].root = 0
  PROVE  m \in Kept' /\ slot'[m].root = 0
BY HeapUntouched DEF SameHeap, SameTrace

\* The recorder,
LEMMA CompilerRecord ==
  ASSUME Context, [Next]_vars, TypeOK', Record
  PROVE  Compiler'
<1> USE DEF Context
<1>1. PICK a, r, e : a = jit.parent /\ r = RootOf(a) /\ e = jit.exitno
  OBVIOUS
<1>2. Records
  BY RecordFields
<1>3. jit.state = "RECORD" /\ jit'.state \in {"RECORD", "END", "ERR"}
  BY <1>2 DEF Records
<1>4. (\E s \in Sites : RecordUnroll(s)) => jit'.state = "ERR"
  BY Zenon DEF RecordUnroll, Recorded, JitStates
<1>5. Going /\ Extending
  BY <1>3, GoingExtends DEF Going
<1>6. SameStart /\ jit'.parent = jit.parent /\ jit'.exitno = jit.exitno
  BY <1>2 DEF Records, SameStart
<1>7. Parents' /\ (a # 0 => RootOf(jit.parent)' = r)
  BY <1>1, <1>3, <1>4, <1>5, <1>6, ParentsGoing DEF Early
<1>8. /\ cur.no # 0 /\ cur.root = (IF jit.parent = 0 THEN 0 ELSE r) /\ cur.link = 0
      /\ cur.site = Nil <=> jit.parent # 0
  BY <1>1, <1>3 DEF Compiler, Current, Compiling
<1>9. /\ jit'.state # "END" => cur'.link = 0
      /\ cur'.link \in {0, cur'.no} \/ (cur'.link \in Kept' /\ slot'[cur'.link].root = 0)
  <2>1. CASE jit'.state # "END"
    BY <2>1, <1>2, <1>8 DEF Records
  <2>2. CASE jit'.state = "END"
    <3>1. PICK stop \in Stops : cur'.link = stop.link
      BY <1>2, <2>2 DEF Records
    <3>2. CASE stop.link = 0 \/ stop.link = cur.no
      BY <2>2, <3>1, <3>2, <1>6 DEF SameStart
    <3>3. ASSUME NEW t \in Sites, Mended(FALSE)[t].op = "J", stop.link = Mended(FALSE)[t].d
          PROVE  cur'.link \in Kept' /\ slot'[cur'.link].root = 0
      <4>1. PICK m : m = Mended(FALSE)[t].d
        OBVIOUS
      <4>2. Runs(t, m)
        BY <3>3, <4>1, MendedCode DEF MendedFacts, SoundCode
      <4>3. m \in Kept /\ slot[m].root = 0
        BY <4>2 DEF Runs, HeapFacts, StartsIn, WorldFacts
      <4>4. ~HeapSteps
        BY <1>3, <1>4, <1>5, <2>2 DEF Extending, Atomic, GCOnly
      <4>5. QED
        BY <3>1, <3>3, <4>1, <4>3, <4>4, LinkStays
    <3>4. QED
      BY <2>2, <3>2, <3>3, StopFacts
  <2>3. QED
    BY <2>1, <2>2
<1>10. Current'
  BY <1>3, <1>6, <1>7, <1>8, <1>9, <1>1, CurrentBy DEF SameStart
<1>11. ASSUME jit.parent = 0, jit.exitno = 0
       PROVE  /\ cur'.site \in Sites' /\ code'[cur'.site].op # "J" /\ jit'.patch.site # cur'.site
              /\ (Kind(cur.site) # "CALL")'
  <2>1. PICK c : c = cur.site
    OBVIOUS
  <2>2. c \in Sites /\ code[c].op # "J" /\ jit.patch.site # c /\ Kind(c) # "CALL" /\ cur'.site = c
    BY <1>3, <1>6, <1>11, <2>1 DEF Compiler, RootStarts, Compiling, SameStart
  <2>3. MendedFacts(FALSE) /\ Mended(FALSE)[c].op # "J" /\ Left(FALSE).site # c
    <3>1. MendedFacts(FALSE) /\ NoPatch.site = Nil
      BY MendedCode DEF NoPatch
    <3>2. QED
      BY <2>2, <3>1 DEF MendedFacts, WorldFacts
  <2>4. code'[c].op # "J" /\ jit'.patch.site # c
    <3>1. CASE code' = Mended(FALSE) /\ jit'.patch = Left(FALSE)
      BY <2>3, <3>1
    <3>2. ASSUME NEW s \in Sites, RecordInto(s), jit'.patch = [site |-> s, d |-> Mended(FALSE)[s].d]
          PROVE  code'[c].op # "J" /\ jit'.patch.site # c
      <4>1. s # c
        BY Zenon, <2>3, <3>2 DEF RecordInto, Returns
      <4>2. code'[c] = Mended(FALSE)[c]
        BY Zenon, <3>2, <4>1, <2>2, <2>3 DEF RecordInto, MendedFacts, TypedCode
      <4>3. jit'.patch.site = s
        BY <3>2
      <4>4. QED
        BY <4>1, <4>2, <4>3, <2>3
    <3>3. ASSUME NEW s \in Sites, RecordUnroll(s), jit'.patch = Left(FALSE)
          PROVE  code'[c].op # "J" /\ jit'.patch.site # c
      <4>1. PlainWhere(Mended(FALSE), {Mended(FALSE)[s].d})
        BY <2>3, UnpatchedCode DEF MendedFacts
      <4>2. code'[c] \in {Plain, Mended(FALSE)[c]}
        BY <2>2, <3>3, <4>1 DEF RecordUnroll, PlainWhere
      <4>3. QED
        BY Zenon, <2>3, <3>3, <4>2 DEF Typings
    <3>4. QED
      BY <1>2, <3>1, <3>2, <3>3 DEF Records
  <2>5. Kind(cur.site)' = Kind(c)
    BY <2>2 DEF Fixed, Kind
  <2>6. QED
    BY <2>2, <2>4, <2>5 DEF Fixed
<1>12. RootStarts'
  BY <1>6, <1>11 DEF RootStarts
<1>13. ASSUME jit'.err = "DOWNREC"
       PROVE  /\ jit'.site \in Sites' /\ code'[jit'.site].op = "" /\ Kind(jit.site)' = "RET"
              /\ ~pt'[world'.proto[jit'.site]].nojit /\ jit'.patch = NoPatch
              /\ cur'.site # jit'.site
  <2>1. PICK s \in Sites : RecordDownrec(s) /\ jit'.site = s
    BY <1>2, <1>13 DEF Records
  <2>2. jit'.patch = NoPatch
    BY Zenon, <2>1 DEF RecordDownrec, Recorded, JitStates
  <2>3. /\ Kind(s) = "RET" /\ Mended(FALSE)[s].op = "" /\ cur.site # s
        /\ ~pt[world.proto[s]].nojit /\ code' = Mended(FALSE) /\ UNCHANGED <<pt, cur>>
    BY Zenon, <2>1 DEF RecordDownrec
  <2>4. Kind(jit.site)' = Kind(s)
    BY <2>1 DEF Fixed, Kind
  <2>5. QED
    BY Zenon, <2>1, <2>2, <2>3, <2>4 DEF Fixed
<1>14. Restarting'
  BY Zenon, <1>13 DEF Restarting
<1>15. QED
  BY Zenon, <1>3, <1>7, <1>10, <1>12, <1>14 DEF Compiler, Starting, Resting

\* the optimizer and the assembler go on with the trace they were given,
LEMMA CompilerGoesOn ==
  ASSUME Context, [Next]_vars, TypeOK', Compiling, Going, Compiling', SameStart,
         ~Atomic, ~\E s \in Sites : RecordUnroll(s), Early' => Early,
         jit'.state \in {"RECORD", "ABORTED"} => cur'.link = 0, cur'.link \in {0, cur.link},
         NEW force \in BOOLEAN, code' \in {code, Mended(force)},
         jit'.patch \in {jit.patch, NoPatch}, jit'.state = "ERR" => jit'.err # "DOWNREC"
  PROVE  Compiler'
<1> USE DEF Context
<1>1. PICK a, r, e : a = jit.parent /\ r = RootOf(a) /\ e = jit.exitno
  OBVIOUS
<1>2. jit'.parent = jit.parent /\ jit'.exitno = jit.exitno
  BY DEF SameStart
<1>3. Parents' /\ (a # 0 => RootOf(jit.parent)' = r)
  BY <1>1, <1>2, ParentsGoing
<1>4. /\ cur.no # 0 /\ cur.root = (IF jit.parent = 0 THEN 0 ELSE r)
      /\ cur.site = Nil <=> jit.parent # 0
      /\ cur.link \in {0, cur.no} \/ (cur.link \in Kept /\ slot[cur.link].root = 0)
  BY <1>1 DEF Compiler, Current
<1>5. cur'.link \in {0, cur'.no} \/ (cur'.link \in Kept' /\ slot'[cur'.link].root = 0)
  <2>1. ~HeapSteps
    BY GoingExtends DEF Extending
  <2>2. PICK m : m = cur.link
    OBVIOUS
  <2>3. m \in Kept /\ slot[m].root = 0 => m \in Kept' /\ slot'[m].root = 0
    BY <2>1, LinkStays
  <2>4. QED
    BY <1>4, <2>2, <2>3 DEF SameStart
<1>6. Current'
  BY <1>1, <1>2, <1>3, <1>4, <1>5, CurrentBy DEF SameStart
<1>7. ASSUME jit.parent = 0, jit.exitno = 0
      PROVE  /\ cur'.site \in Sites' /\ code'[cur'.site].op # "J" /\ jit'.patch.site # cur'.site
             /\ (Kind(cur.site) # "CALL")'
  <2>1. PICK c : c = cur.site
    OBVIOUS
  <2>2. c \in Sites /\ code[c].op # "J" /\ jit.patch.site # c /\ Kind(c) # "CALL" /\ cur'.site = c
    BY <1>7, <2>1 DEF Compiler, RootStarts, SameStart
  <2>3. MendedFacts(force) /\ NoPatch.site = Nil
    BY MendedCode DEF NoPatch
  <2>4. code'[c].op # "J"
    BY <2>2, <2>3 DEF MendedFacts
  <2>5. jit'.patch.site # c
    BY <2>2, <2>3 DEF WorldFacts
  <2>6. Kind(cur.site)' = Kind(c)
    BY <2>2 DEF Fixed, Kind
  <2>7. QED
    BY <2>2, <2>4, <2>5, <2>6 DEF Fixed
<1>8. RootStarts'
  BY <1>2, <1>7 DEF RootStarts
<1>9. jit'.state \notin {"START", "IDLE"}
  BY DEF Compiling
<1>10. Starting' /\ Resting' /\ Restarting'
  BY Zenon, <1>9 DEF Starting, Restarting, Resting
<1>11. QED
  BY <1>3, <1>6, <1>8, <1>10 DEF Compiler

LEMMA CompilerEnd ==
  ASSUME Context, [Next]_vars, TypeOK',
         \/ \E o \in {"RECORD", "ERR", "ASM"} : End(o)
         \/ Reserve \/ Overrun \/ AsmError \/ Reassemble
  PROVE  Compiler'
<1>1. ASSUME NEW o \in {"RECORD", "ERR", "ASM"}, End(o)
      PROVE  Compiler'
  <2>1. Ends(o)
    BY <1>1, EndFields
  <2>2. jit.state = "END" /\ jit'.state \in {"RECORD", "ERR", "ASM"} /\ SameStart
    BY Zenon, <2>1 DEF Ends
  <2>3. Compiling /\ Going /\ Compiling' /\ Early /\ ~Atomic
    BY <2>2 DEF Compiling, Going, Early, Atomic, Interpreting
  <2>4. ~\E s \in Sites : RecordUnroll(s)
    BY <2>2 DEF RecordUnroll
  <2>5. /\ jit'.state \in {"RECORD", "ABORTED"} => cur'.link = 0
        /\ cur'.link \in {0, cur.link} /\ code' = Mended(TRUE) /\ jit'.patch = NoPatch
        /\ jit'.err # "DOWNREC"
    BY Zenon, <2>1 DEF Ends
  <2>6. QED
    BY <2>2, <2>3, <2>4, <2>5, CompilerGoesOn
<1>2. CASE Reserve \/ Overrun \/ AsmError \/ Reassemble
  <2>1. Assembles
    BY <1>2, AssembleFields
  <2>2. jit.state \in {"ASM", "ERR"} /\ jit'.state \in {"ASM", "ERR"} /\ SameStart
    BY <2>1 DEF Assembles
  <2>3. Compiling /\ Going /\ Compiling' /\ ~Early' /\ ~Atomic
    BY <2>2 DEF Compiling, Going, Early, Atomic, Interpreting
  <2>4. ~\E s \in Sites : RecordUnroll(s)
    BY <2>2 DEF RecordUnroll
  <2>5. /\ jit'.state \notin {"RECORD", "ABORTED"} /\ cur'.link \in {0, cur.link} /\ code' = code
        /\ jit'.patch = jit.patch /\ (jit'.state = "ERR" => jit'.err # "DOWNREC")
    BY <2>1, <2>2 DEF Assembles
  <2>6. QED
    BY <2>2, <2>3, <2>4, <2>5, CompilerGoesOn
<1>3. QED
  BY <1>1, <1>2

\* and trace_abort gives it up, or starts at the return that it found.
LEMMA CompilerAbort ==
  ASSUME Context, [Next]_vars, TypeOK', NEW b \in BOOLEAN, Abort(b)
  PROVE  Compiler'
<1> USE DEF Context
<1>1. Aborts
  BY AbortFields
<1>2. CASE Idles
  BY <1>2, CompilerIdle DEF Idles
<1>3. CASE ~Idles
  <2>1. /\ jit.state = "ERR" /\ jit.err = "DOWNREC" /\ jit'.state = "START"
        /\ jit'.parent = 0 /\ jit'.exitno = 0 /\ jit'.again /\ jit'.site = jit.site
    BY <1>1, <1>3 DEF Aborts, Restarts
  <2>2. PICK s : s = jit.site
    OBVIOUS
  <2>3. /\ s \in Sites /\ code[s].op = "" /\ Kind(s) = "RET" /\ cur.site # s
        /\ ~pt[world.proto[s]].nojit /\ jit.patch = NoPatch
    BY Zenon, <2>1, <2>2 DEF Compiler, Restarting
  <2>4. ~Flushes
    BY <2>1 DEF Flushes
  <2>5. code' = AbortedCode(b) /\ pt' = AbortedProtos(b)
    BY <2>4 DEF Abort, AbortedCode, AbortedProtos
  <2>6. AbortFacts(b) /\ Drops
    BY <2>4, AbortFact, AbortDrops
  <2>7. code'[s].op = ""
    <3>1. Mended(TRUE) = code
      BY Zenon, <2>3 DEF Mended, Due
    <3>2. QED
      BY Zenon, <2>3, <2>5, <2>6, <3>1 DEF AbortFacts
  <2>8. ~pt'[world.proto[s]].nojit
    BY Zenon, <2>3, <2>5, <2>6 DEF AbortFacts, WorldFacts
  <2>9. FreeNumbers' # {}
    <3>1. cur.no \in Numbers /\ slot'[cur.no] = Nil /\ freetrace' <= cur.no
      <4>1. cur.no \in Nat /\ freetrace \in Nat
        BY <2>6 DEF Drops, WorldFacts, TypeOK, SlotsTyped
      <4>2. QED
        BY <2>6, <4>1 DEF Drops
    <3>2. cur.no \in Nat /\ freetrace' \in Nat
      BY <3>1 DEF WorldFacts, TypeOK, SlotsTyped, Fixed
    <3>3. QED
      BY <3>1, <3>2 DEF FreeNumbers, Fixed
  <2>10. cur'.root \in Kept' \cup {0}
    <3>1. cur' = [cur EXCEPT !.no = 0]
      BY <2>1 DEF Abort, Restarts
    <3>2. cur'.root = cur.root
      BY <3>1 DEF CurStates
    <3>3. cur.root \in Kept \cup {0}
      BY <2>1 DEF Compiler, Parents, Current, Anchored, Compiling
    <3>4. ~HeapSteps
      BY <2>1, <2>4 DEF HeapSteps, Flushing, FlushAll, StartFull, Stop, Atomic, FlushTrace,
         RecordUnroll, FlushProto, MayFlush, Interpreting
    <3>5. Kept' = Kept
      BY <3>4, HeapUntouched DEF SameHeap
    <3>6. QED
      BY <3>2, <3>3, <3>5
  <2>11. Kind(jit.site)' = "RET"
    BY Zenon, <2>1, <2>2, <2>3 DEF Fixed, Kind
  <2>12. Starting'
    BY Zenon, <2>1, <2>2, <2>3, <2>7, <2>8, <2>9, <2>10, <2>11 DEF Starting, Fixed
  <2>13. QED
    BY Zenon, <2>1, <2>12 DEF Compiler, Parents, Current, RootStarts, Restarting, Resting, Compiling
<1>4. QED
  BY <1>2, <1>3

\* The program and the collector run while a trace is recorded or before it is
\* aborted.
LEMMA CompilerQuiet ==
  ASSUME Context, [Next]_vars, TypeOK', UNCHANGED cur,
         \/ UNCHANGED jit /\ (Collect \/ Flush \/ (\E n \in Numbers : Call(n) \/ Unwind(n)))
         \/ AsyncAbort
  PROVE  Compiler'
<1> USE DEF Context
<1>1. CASE jit.state = "IDLE"
  <2>1. jit'.state = "IDLE" /\ cur' = NoTrace
    BY <1>1 DEF Compiler, Resting, AsyncAbort
  <2>2. QED
    BY <2>1, CompilerIdle
<1>2. CASE jit.state # "IDLE"
  <2>1. /\ UNCHANGED <<code, pt>> /\ jit.state \in {"RECORD", "ABORTED"}
        /\ jit'.state \in {"RECORD", "ABORTED"}
    <3>1. CASE UNCHANGED jit /\ Collect
      BY Zenon, <1>2, <3>1 DEF Collect, GCStart, TraverseStack, Atomic, GCEnd, TraverseProto,
         TraverseTrace, FreeTrace, GCOnly, Interpreting
    <3>2. CASE UNCHANGED jit /\ Flush
      BY <1>2, <3>2 DEF Flush, FlushAll, FlushTrace, Reenable, FlushProto, MayFlush
    <3>3. CASE UNCHANGED jit /\ \E n \in Numbers : Call(n) \/ Unwind(n)
      BY <1>2, <3>3 DEF Call, Unwind, EventOnly, Interpreting
    <3>4. CASE AsyncAbort
      BY Zenon, <3>4 DEF AsyncAbort, EventOnly, JitStates
    <3>5. QED
      BY <3>1, <3>2, <3>3, <3>4
  <2>2. /\ jit'.parent = jit.parent /\ jit'.exitno = jit.exitno /\ jit'.patch = jit.patch
    BY Zenon DEF AsyncAbort, JitStates
  <2>3. Going /\ Early /\ ~\E s \in Sites : RecordUnroll(s)
    BY Zenon, <2>1 DEF Going, Early, RecordUnroll, Recorded, JitStates
  <2>4. PICK a, r : a = jit.parent /\ r = RootOf(a)
    OBVIOUS
  <2>5. Parents' /\ (a # 0 => RootOf(jit.parent)' = r)
    BY <2>2, <2>3, <2>4, ParentsGoing
  <2>6. /\ cur.no # 0 /\ cur.root = (IF jit.parent = 0 THEN 0 ELSE r) /\ cur.link = 0
        /\ cur.site = Nil <=> jit.parent # 0
    BY <2>1, <2>4 DEF Compiler, Current, Compiling
  <2>7. Current'
    BY <2>2, <2>4, <2>5, <2>6, CurrentBy
  <2>8. Kind(cur.site)' = Kind(cur.site)
    BY DEF Fixed, Kind
  <2>9. RootStarts'
    BY <2>1, <2>2, <2>8 DEF RootStarts, Compiler, Compiling, Fixed
  <2>10. QED
    BY Zenon, <2>1, <2>5, <2>7, <2>9 DEF Compiler, Starting, Restarting, Resting
<1>3. QED
  BY <1>1, <1>2

\* When nothing happens the compiler stays as it is.
LEMMA CompilerStutter ==
  ASSUME Context, [Next]_vars, TypeOK', UNCHANGED vars
  PROVE  Compiler'
<1> USE DEF Context
<1>1. UNCHANGED <<world, code, pt, slot, freetrace, cur, jit, gc>>
  BY DEF vars
<1>2. CASE jit.state = "IDLE"
  BY <1>1, <1>2, CompilerIdle DEF Compiler, Resting
<1>3. CASE jit.state # "IDLE"
  <2>1. Going /\ ~\E s \in Sites : RecordUnroll(s)
    BY Zenon, <1>1, <1>3 DEF Going, RecordUnroll, Recorded, JitStates
  <2>2. PICK a, r : a = jit.parent /\ r = RootOf(a)
    OBVIOUS
  <2>3. Parents' /\ (a # 0 => RootOf(jit.parent)' = r)
    BY <1>1, <2>1, <2>2, ParentsGoing DEF Early
  <2>4. Kept' = Kept
    BY <1>1, SameReached
  <2>5. Current'
    BY <1>1, <2>2, <2>3, <2>4 DEF Compiler, Current, Compiling
  <2>6. Starting'
    BY Zenon, <1>1, <2>4 DEF Compiler, Starting, FreeNumbers, Sites, Kind, Numbers
  <2>7. RootStarts' /\ Restarting' /\ Resting'
    BY Zenon, <1>1 DEF Compiler, RootStarts, Restarting, Resting, Compiling, Sites, Kind
  <2>8. QED
    BY <2>3, <2>5, <2>6, <2>7 DEF Compiler
<1>4. QED
  BY <1>2, <1>3

LEMMA CompilerStep ==
  ASSUME Context, [Next]_vars, TypeOK'
  PROVE  Compiler'
<1>1. CASE Start
  BY <1>1, CompilerStart, CompilerNoStart DEF Start
<1>2. CASE \/ \E o \in {"RECORD", "ERR", "ASM"} : End(o)
           \/ Reserve \/ Overrun \/ AsmError \/ Reassemble
  BY <1>2, CompilerEnd
<1>3. CASE Stop
  BY <1>3, StopFields, CompilerIdle DEF Idles
<1>4. CASE \E b \in BOOLEAN : Abort(b)
  BY <1>4, CompilerAbort
<1>5. CASE Record
  BY <1>5, CompilerRecord
<1>6. CASE Collect \/ Flush
  BY <1>6, QuietSteps, CompilerQuiet DEF Flush
<1>7. CASE Event
  <2>1. CASE AsyncAbort
    BY <2>1, CompilerQuiet DEF AsyncAbort, EventOnly
  <2>2. ASSUME NEW n \in Numbers, Call(n) \/ Unwind(n)
        PROVE  Compiler'
    BY <2>2, QuietSteps, CompilerQuiet
  <2>3. ASSUME NEW s \in Sites, Hot(s)
        PROVE  Compiler'
    <3>1. 1 \in Numbers
      BY DEF Context, WorldFacts
    <3>2. QED
      BY <2>3, <3>1, CompilerHot
  <2>4. QED
    BY <1>7, <2>1, <2>2, <2>3, CompilerHot DEF Event
<1>8. CASE UNCHANGED vars
  BY <1>8, CompilerStutter
<1>9. QED
  BY <1>1, <1>2, <1>3, <1>4, <1>5, <1>6, <1>7, <1>8 DEF Next, Compile, Assemble

-----------------------------------------------------------------------------
\* What is marked, or will be, although its chain is not that of a prototype any
\* more.
CoveredFacts ==
  /\ gc.black \cup gc.gray \subseteq Covered /\ Covered \subseteq Numbers
  /\ \A m \in Covered : Passed[m] \subseteq Covered
  /\ \A m \in Numbers : Passed[m] = IF m \in gc.black \cup ChainedRoots THEN {} ELSE NextRoot(m)
LEMMA CoveredFact ==
  ASSUME TypeOK
  PROVE  CoveredFacts /\ Passed \in [Numbers -> SUBSET Numbers]
<1>1. TraceFacts
  BY TraceFact
<1>2. Passed \in [Numbers -> SUBSET Numbers]
  BY <1>1 DEF Passed, TraceFacts
<1>3. gc.black \cup gc.gray \in SUBSET Numbers
  BY DEF TypeOK, GCTyped
<1>4. /\ gc.black \cup gc.gray \subseteq Covered /\ Covered \subseteq Numbers
      /\ \A m \in Covered : Passed[m] \subseteq Covered
  BY <1>2, <1>3, ReachHas DEF Covered
<1>5. \A m \in Numbers : Passed[m] = IF m \in gc.black \cup ChainedRoots THEN {} ELSE NextRoot(m)
  BY DEF Passed
<1>6. QED
  BY <1>2, <1>4, <1>5 DEF CoveredFacts

\* The same of the next state.
LEMMA CoveredFactNext == ASSUME TypeOK' PROVE CoveredFacts'
BY CoveredFact, PTL

\* No step of the marking loses anything.
PassesOn ==
  /\ gc.black \cup gc.gray \subseteq Covered'
  /\ \A m \in Covered' : Passed[m] \subseteq Covered'
LEMMA CoveredGrows ==
  ASSUME Context, TypeOK', PassesOn
  PROVE  Covered \subseteq Covered'
<1>1. CoveredFacts' /\ Passed \in [Numbers -> SUBSET Numbers]
  BY CoveredFact, CoveredFactNext DEF Context
<1>2. Covered' \in SUBSET Numbers
  BY <1>1 DEF CoveredFacts, Context, Fixed
<1>3. PICK T : T = Covered'
  OBVIOUS
<1>4. T \in SUBSET Numbers /\ gc.black \cup gc.gray \subseteq T /\ \A m \in T : Passed[m] \subseteq T
  BY <1>2, <1>3 DEF PassesOn
<1>5. gc.black \cup gc.gray \in SUBSET Numbers
  BY DEF Context, TypeOK, GCTyped
<1>6. Reach(gc.black \cup gc.gray, Passed) \subseteq T
  BY <1>1, <1>4, <1>5, ReachLeast
<1>7. QED
  BY <1>3, <1>6 DEF Covered

\* The marking is of interest only while it goes on,
LEMMA MarkingOver ==
  ASSUME gc'.phase # "propagate"
  PROVE  Marking'
BY DEF Marking

\* when all traces are kept.
LEMMA MarkingAll ==
  ASSUME Context, gc.phase = "propagate"
  PROVE  Kept = Traces /\ gc.black \subseteq Kept /\ gc.gray \subseteq Kept
BY DEF Context, Collector, Phases, Kept

\* gc_marktrace, gc_traverse_proto and gc_traverse_trace.
Marks(S, n) ==
  /\ gc'.phase = "propagate" /\ gc'.dead = gc.dead
  /\ S \subseteq gc'.gray \cup gc'.black
  /\ gc.gray \cup gc.black \subseteq gc'.gray \cup gc'.black
  /\ gc'.gray \cup gc'.black \subseteq gc.gray \cup gc.black \cup S
  /\ gc'.black \subseteq gc.black \cup {n} /\ gc.black \subseteq gc'.black
LEMMA MarksMore ==
  ASSUME Context, [Next]_vars, TypeOK', UNCHANGED <<world, pt, slot>>, gc.phase = "propagate",
         NEW S, S \subseteq Kept, NEW n,
         Marks(S, n), gc'.black = gc.black \/ (n \in Kept /\ S = Children(n)),
         \A p \in Protos \ gc'.todo : p \notin gc.todo \/ First(p) \subseteq S
  PROVE  Collector'
<1> USE DEF Context
<1>1. CoveredFacts /\ CoveredFacts'
  BY CoveredFact, CoveredFactNext
<1>2. /\ Kept = Traces /\ Traces' = Traces /\ Numbers' = Numbers /\ Kept' = Kept
      /\ \A m \in Numbers : NextRoot(m)' = NextRoot(m) /\ Children(m)' = Children(m)
      /\ \A p \in Protos : First(p)' = First(p)
  BY MarkingAll DEF Marks, Kept, Traces, IsTrace, Numbers, NextRoot, Children, Links, NextSide, First
<1>3. ChainedRoots' = ChainedRoots
  <2>1. SameHeap
    BY <1>2 DEF SameHeap, SameTrace
  <2>2. SameChains
    BY <2>1, HeapKept
  <2>3. QED
    BY <2>2 DEF SameChains, ChainedRoots
<1>4. PassesOn
  <2>1. gc.black \cup gc.gray \subseteq Covered' /\ S \subseteq Covered'
    BY <1>1 DEF CoveredFacts, Marks
  <2>2. ASSUME NEW m \in Covered'
        PROVE  Passed[m] \subseteq Covered'
    <3>1. m \in Numbers /\ Passed'[m] \subseteq Covered'
      BY <1>1, <1>2 DEF CoveredFacts
    <3>2. CASE m \notin gc'.black \/ m \in gc.black
      <4>1. Passed[m] \subseteq Passed'[m]
        BY <1>1, <1>2, <1>3, <3>1, <3>2 DEF CoveredFacts, Marks
      <4>2. QED
        BY <3>1, <4>1
    <3>3. CASE m \in gc'.black /\ m \notin gc.black
      <4>1. m = n /\ S = Children(n)
        BY <3>3 DEF Marks
      <4>2. Passed[m] \subseteq S
        BY <1>1, <3>1, <4>1 DEF CoveredFacts, Children
      <4>3. QED
        BY <2>1, <4>2
    <3>4. QED
      BY <3>2, <3>3
  <2>3. QED
    BY <2>1, <2>2 DEF PassesOn
<1>5. Covered \subseteq Covered' /\ S \subseteq Covered'
  BY <1>1, <1>4, CoveredGrows DEF CoveredFacts, Marks
<1>6. ASSUME NEW m \in gc'.black
      PROVE  Children(m)' \subseteq Covered'
  <2>1. m \in Numbers
    BY <1>2 DEF GCTyped, TypeOK
  <2>2. CASE m \in gc.black
    <3>1. Children(m) \subseteq Covered
      BY <2>2 DEF Collector, Marking
    <3>2. QED
      BY <3>1, <2>1, <1>2, <1>5
  <2>3. CASE m \notin gc.black
    BY <2>1, <2>3, <1>2, <1>5 DEF Marks
  <2>4. QED
    BY <2>2, <2>3
<1>7. ASSUME NEW p \in Protos \ gc'.todo
      PROVE  First(p)' \subseteq Covered'
  <2>1. CASE p \in gc.todo
    BY <2>1, <1>2, <1>5
  <2>2. CASE p \notin gc.todo
    BY <2>2, <1>2, <1>5 DEF Collector, Marking
  <2>3. QED
    BY <2>1, <2>2
<1>8. Phases'
  <2>1. gc.dead = {} /\ gc.black \cup gc.gray \subseteq Traces
    BY DEF Collector, Phases
  <2>2. QED
    BY <2>1, <1>2 DEF Phases, Marks
<1>9. Marking'
  BY <1>6, <1>7 DEF Marking, Fixed
<1>10. QED
  BY <1>8, <1>9 DEF Collector

\* The collector's own steps mark more, or end the marking.
LEMMA CollectorCollect ==
  ASSUME Context, [Next]_vars, TypeOK', Collect
  PROVE  Collector'
<1> USE DEF Context
<1> DEFINE Collectors == [phase : {"pause", "propagate", "sweep"}, todo : SUBSET Protos,
                          gray : SUBSET Numbers, black : SUBSET Numbers, dead : SUBSET Numbers]
<1>1. gc \in Collectors
  BY DEF TypeOK, GCTyped
<1>2. CASE GCStart
  <2>1. /\ gc'.phase = "propagate" /\ gc'.todo = Protos
        /\ gc'.gray = {} /\ gc'.black = {} /\ gc'.dead = {}
    BY <1>2 DEF GCStart
  <2>2. QED
    BY <2>1 DEF Collector, Phases, Marking, Fixed
<1>3. ASSUME NEW p \in Protos, TraverseProto(p)
      PROVE  Collector'
  <2>1. PICK S : S = First(p)
    OBVIOUS
  <2>2. S \subseteq Kept
    BY <2>1 DEF Heap, FirstInProto
  <2>3. gc' = [[gc EXCEPT !.todo = @ \ {p}] EXCEPT !.gray = @ \cup (S \ gc.black)]
    BY <1>1, <1>3, <2>1 DEF TraverseProto, Marked
  <2>4. /\ gc'.phase = gc.phase /\ gc'.todo = gc.todo \ {p} /\ gc'.black = gc.black
        /\ gc'.dead = gc.dead /\ gc'.gray = gc.gray \cup (S \ gc.black)
    BY <1>1, <2>3
  <2>5. gc.phase = "propagate" /\ UNCHANGED <<world, pt, slot>>
    BY <1>3 DEF TraverseProto, GCOnly
  <2>6. Marks(S, 0)
    BY <2>4, <2>5 DEF Marks
  <2>7. QED
    BY <2>1, <2>2, <2>4, <2>5, <2>6, MarksMore
<1>4. ASSUME NEW n \in Numbers, TraverseTrace(n)
      PROVE  Collector'
  <2>1. PICK S : S = Children(n)
    OBVIOUS
  <2>2. gc.phase = "propagate" /\ UNCHANGED <<world, pt, slot>> /\ n \in gc.gray
    BY <1>4 DEF TraverseTrace, GCOnly
  <2>3. n \in Kept /\ S \subseteq Kept
    BY <2>1, <2>2, MarkingAll DEF Heap, Closed
  <2>4. gc' = [[gc EXCEPT !.gray = @ \ {n}, !.black = @ \cup {n}]
                 EXCEPT !.gray = @ \cup (S \ (gc.black \cup {n}))]
    BY <1>1, <1>4, <2>1 DEF TraverseTrace, Marked
  <2>5. /\ gc'.phase = gc.phase /\ gc'.todo = gc.todo /\ gc'.black = gc.black \cup {n}
        /\ gc'.dead = gc.dead /\ gc'.gray = (gc.gray \ {n}) \cup (S \ (gc.black \cup {n}))
    BY <1>1, <2>4
  <2>6. Marks(S, n)
    BY <2>2, <2>5 DEF Marks
  <2>7. QED
    BY <2>1, <2>2, <2>3, <2>5, <2>6, MarksMore
<1>5. CASE TraverseStack
  <2>1. PICK S : S = frames
    OBVIOUS
  <2>2. S \subseteq Kept
    BY <2>1 DEF Waiting, HeapFacts
  <2>3. gc' = [gc EXCEPT !.gray = @ \cup (S \ gc.black)]
    BY <1>5, <2>1 DEF TraverseStack, Marked
  <2>4. /\ gc'.phase = gc.phase /\ gc'.todo = gc.todo /\ gc'.black = gc.black
        /\ gc'.dead = gc.dead /\ gc'.gray = gc.gray \cup (S \ gc.black)
    BY <1>1, <2>3
  <2>5. gc.phase = "propagate" /\ UNCHANGED <<world, pt, slot>>
    BY <1>5 DEF TraverseStack, GCOnly
  <2>6. Marks(S, 0)
    BY <2>4, <2>5 DEF Marks
  <2>7. QED
    BY <2>1, <2>2, <2>4, <2>5, <2>6, MarksMore
<1>6. CASE Atomic
  <2>1. /\ gc'.phase = "sweep" /\ gc'.gray = {} /\ gc'.black = {} /\ gc'.dead \subseteq Traces
        /\ world' = world /\ slot' = slot
    BY <1>6 DEF Atomic, GCOnly
  <2>2. Traces' = Traces
    BY <2>1 DEF Traces, IsTrace, Numbers
  <2>3. QED
    BY <2>1, <2>2, MarkingOver DEF Collector, Phases
<1>7. ASSUME NEW n \in Numbers, FreeTrace(n)
      PROVE  Collector'
  <2>1. /\ n \in gc.dead /\ slot' = [slot EXCEPT ![n] = Nil] /\ world' = world
        /\ gc' = [gc EXCEPT !.dead = @ \ {n}]
    BY <1>7 DEF FreeTrace, GCOnly
  <2>2. gc'.phase = gc.phase /\ gc'.gray = gc.gray /\ gc'.black = gc.black
        /\ gc'.dead = gc.dead \ {n}
    BY <1>1, <2>1
  <2>3. gc.phase = "sweep" /\ gc.gray = {} /\ gc.black = {} /\ gc.dead \subseteq Traces
    BY <2>1 DEF Collector, Phases
  <2>4. Traces \ {n} \subseteq Traces'
    BY <2>1 DEF Traces, IsTrace, Numbers, TypeOK, SlotsTyped
  <2>5. QED
    BY <2>2, <2>3, <2>4, MarkingOver DEF Collector, Phases
<1>8. CASE GCEnd
  <2>1. /\ gc.phase = "sweep" /\ gc.dead = {} /\ gc' = [gc EXCEPT !.phase = "pause"]
    BY <1>8 DEF GCEnd
  <2>2. gc'.phase = "pause" /\ gc'.gray = gc.gray /\ gc'.black = gc.black /\ gc'.dead = gc.dead
    BY <1>1, <2>1
  <2>3. gc.gray = {} /\ gc.black = {}
    BY <2>1 DEF Collector, Phases
  <2>4. QED
    BY <2>1, <2>2, <2>3, MarkingOver DEF Collector, Phases
<1>9. QED
  BY <1>2, <1>3, <1>4, <1>5, <1>6, <1>7, <1>8 DEF Collect

\* A flush of everything leaves nothing marked.
LEMMA CollectorFlushing ==
  ASSUME Context, TypeOK', NEW c, NEW p, FlushedAll(c, p)
  PROVE  Collector'
<1> USE DEF Context
<1>1. gc' = [gc EXCEPT !.gray = {}, !.black = {}, !.dead = {}]
  BY DEF FlushedAll
<1>2. gc'.gray = {} /\ gc'.black = {} /\ gc'.dead = {}
  BY <1>1 DEF TypeOK, GCTyped
<1>3. \A q \in Protos : First(q)' = {}
  BY FlushedHeap
<1>4. QED
  BY <1>2, <1>3 DEF Collector, Phases, Marking, Fixed

\* When a trace is unlinked, or all those of a prototype, what followed it is
\* reached in another way.
LEMMA CollectorUnlink ==
  ASSUME Context, [Next]_vars, TypeOK', gc' = gc, NEW n \in Numbers, Unlinks(n)
  PROVE  Collector'
<1> USE DEF Context
<1>1. PICK p : p = world.proto[slot[n].site]
  OBVIOUS
<1>2. p \in Protos
  BY <1>1 DEF Unlinks, WorldFacts
<1>3. SameSides /\ Unlinked(n, p) /\ NewPointers(n, p)
  BY <1>1, UnlinkKeeps, UnlinkFields
<1>4. CoveredFacts /\ CoveredFacts'
  BY CoveredFact, CoveredFactNext
<1>5. Phases'
  BY <1>3 DEF Collector, Phases, SameSides
<1>6. CASE gc.phase # "propagate"
  BY <1>5, <1>6, MarkingOver DEF Collector
<1>7. CASE gc.phase = "propagate"
  <2>1. Kept = Traces
    BY <1>7, MarkingAll
  <2>2. NextRoot(n) # {n}
    <3>1. n \notin Reach(NextRoot(n), NextRoots)
      BY <2>1 DEF Heap, Acyclic, Unlinks
    <3>2. NextRoot(n) \subseteq Reach(NextRoot(n), NextRoots)
      BY ReachHas DEF ChainFacts, TraceFacts
    <3>3. QED
      BY <3>1, <3>2
  <2>3. ChainedRoots' = ChainedRoots \ {n}
    BY <1>2, <1>3 DEF ChainedRoots, Unlinked, Fixed
  <2>4. ASSUME NEW m \in Numbers
        PROVE  Passed[m] \subseteq Passed'[m]
    <3>1. CASE m \in gc.black \cup ChainedRoots
      BY <1>4, <3>1 DEF CoveredFacts
    <3>2. CASE m \notin gc.black \cup ChainedRoots
      <4>1. NextRoot(m)' = NextRoot(m)
        BY <1>2, <1>3, <3>2 DEF NewPointers, ChainedRoots
      <4>2. QED
        BY <1>3, <1>4, <2>3, <3>2, <4>1 DEF CoveredFacts, SameSides
    <3>3. QED
      BY <3>1, <3>2
  <2>5. PassesOn
    BY <1>3, <1>4, <2>4 DEF PassesOn, CoveredFacts, SameSides
  <2>6. Covered \subseteq Covered'
    BY <2>5, CoveredGrows
  <2>7. n \in Covered => NextRoot(n) \subseteq Covered'
    <3>1. CASE n \in gc.black
      <4>1. Children(n) \subseteq Covered
        BY <1>7, <3>1 DEF Collector, Marking
      <4>2. QED
        BY <2>6, <4>1 DEF Children
    <3>2. CASE n \notin gc.black
      <4>1. NextRoot(n)' = NextRoot(n)
        BY <2>2, <1>3 DEF NewPointers
      <4>2. Passed'[n] = NextRoot(n)
        BY <1>3, <1>4, <2>3, <3>2, <4>1 DEF CoveredFacts, SameSides
      <4>3. QED
        BY <1>4, <2>6, <4>2 DEF CoveredFacts
    <3>3. QED
      BY <3>1, <3>2
  <2>8. ASSUME NEW m \in gc.black
        PROVE  Children(m)' \subseteq Covered'
    <3>1. Children(m) \subseteq Covered /\ m \in Numbers
      BY <1>7 DEF Collector, Marking, TypeOK, GCTyped
    <3>2. Links(m)' = Links(m) /\ NextSide(m)' = NextSide(m)
      BY <1>3, <3>1 DEF SameSides
    <3>3. NextRoot(m)' = NextRoot(m) \/ (NextRoot(m) = {n} /\ NextRoot(m)' = NextRoot(n))
      BY <1>3, <3>1 DEF NewPointers
    <3>4. NextRoot(m)' \subseteq Covered'
      BY <2>6, <2>7, <3>1, <3>3 DEF Children
    <3>5. QED
      BY <2>6, <3>1, <3>2, <3>4 DEF Children
  <2>9. ASSUME NEW q \in Protos \ gc.todo
        PROVE  First(q)' \subseteq Covered'
    <3>1. First(q) \subseteq Covered
      BY <1>7 DEF Collector, Marking
    <3>2. QED
      BY <1>3, <2>6, <2>7, <3>1 DEF NewPointers
  <2>10. Marking'
    BY <2>8, <2>9 DEF Marking, Fixed
  <2>11. QED
    BY <1>5, <2>10 DEF Collector
<1>8. QED
  BY <1>6, <1>7

LEMMA CollectorFlushProto ==
  ASSUME Context, [Next]_vars, TypeOK', NEW p \in Protos, NEW off \in BOOLEAN, FlushProto(p, off)
  PROVE  Collector'
<1> USE DEF Context
<1>1. /\ SamePointers /\ Chain(p)' = {} /\ \A q \in Protos \ {p} : Chain(q)' = Chain(q)
  BY FlushProtoHeap
<1>2. CoveredFacts /\ CoveredFacts' /\ ChainFacts'
  BY CoveredFact, CoveredFactNext, TraceFact, ChainFact, PTL
<1>3. gc' = gc
  BY DEF FlushProto, FlushOnly
<1>4. Phases'
  BY <1>1, <1>3 DEF Collector, Phases, SamePointers
<1>5. CASE gc.phase = "propagate"
  <2>1. ChainedRoots' \subseteq ChainedRoots
    BY <1>1 DEF ChainedRoots, Fixed
  <2>2. \A m \in Numbers : Passed[m] \subseteq Passed'[m]
    BY <1>1, <1>2, <1>3, <2>1 DEF CoveredFacts, SamePointers
  <2>3. PassesOn
    BY <1>1, <1>2, <1>3, <2>2 DEF PassesOn, CoveredFacts, SamePointers
  <2>4. Covered \subseteq Covered'
    BY <2>3, CoveredGrows
  <2>5. \A m \in gc.black : Children(m)' \subseteq Covered'
    BY <1>1, <1>5, <2>4 DEF Collector, Marking, SamePointers, TypeOK, GCTyped
  <2>6. ASSUME NEW q \in Protos \ gc.todo
        PROVE  First(q)' \subseteq Covered'
    <3>1. CASE q = p
      <4>1. First(q)' \subseteq Chain(q)'
        BY <1>2 DEF ChainFacts, Fixed
      <4>2. QED
        BY <1>1, <3>1, <4>1
    <3>2. CASE q # p
      <4>1. First(q)' = First(q)
        BY <3>2 DEF FlushProto, First, TypeOK, CodeTyped
      <4>2. QED
        BY <1>5, <2>4, <4>1 DEF Collector, Marking
    <3>3. QED
      BY <3>1, <3>2
  <2>7. QED
    BY <1>3, <1>4, <2>5, <2>6 DEF Collector, Marking, Fixed
<1>6. QED
  BY <1>3, <1>4, <1>5, MarkingOver DEF Collector

\* The new trace is marked when it is saved: others may have been followed
\* before they lead to it.
LEMMA CollectorStop ==
  ASSUME Context, [Next]_vars, TypeOK', Stop
  PROVE  Collector'
<1> USE DEF Context
<1>1. PICK c, r, p : c = cur.no /\ r = cur.root /\ p = world.proto[cur.site]
  OBVIOUS
<1>2. Adds(c, p, r) /\ Roles(c, p, r) /\ ChainsAdded(c, p)
  BY <1>1, StopAdds, StopRoles, StopChains
<1>3. gc' = IF gc.phase = "propagate" THEN [gc EXCEPT !.gray = @ \cup ({c} \ gc.black)] ELSE gc
  BY <1>1 DEF Stop, Barrier, Marked
<1>4. CASE gc.phase # "propagate"
  <2>1. Phases'
    BY <1>2, <1>3, <1>4 DEF Collector, Phases, Adds
  <2>2. QED
    BY <1>3, <1>4, <2>1, MarkingOver DEF Collector
<1>5. CASE gc.phase = "propagate"
  <2>1. Kept = Traces /\ gc.black \subseteq Kept /\ gc.gray \subseteq Kept
    BY <1>5, MarkingAll
  <2>2. c \in Numbers /\ c \notin Kept /\ c \notin gc.black
    BY <1>2, <2>1 DEF Adds
  <2>3. /\ gc'.phase = gc.phase /\ gc'.todo = gc.todo /\ gc'.black = gc.black
        /\ gc'.dead = gc.dead /\ gc'.gray = gc.gray \cup {c}
    BY <1>3, <1>5, <2>2 DEF TypeOK, GCTyped
  <2>4. CoveredFacts /\ CoveredFacts'
    BY CoveredFact, CoveredFactNext
  <2>5. \A m \in ChainedRoots : m \in Kept
    BY DEF ChainedRoots, HeapFacts
  <2>6. ChainedRoots \subseteq ChainedRoots' /\ ChainedRoots' \subseteq ChainedRoots \cup {c}
    BY <1>2 DEF ChainedRoots, ChainsAdded, Fixed
  <2>7. ASSUME NEW m \in Numbers
        PROVE  Passed[m] \subseteq Passed'[m]
    <3>1. CASE m \notin Kept
      BY <2>1, <2>4, <3>1 DEF CoveredFacts, TraceFacts, Children
    <3>2. CASE m \in Kept
      <4>1. NextRoot(m)' = NextRoot(m) /\ m # c
        BY <1>2, <2>2, <3>2 DEF Adds
      <4>2. QED
        BY <2>3, <2>4, <2>6, <4>1 DEF CoveredFacts, Fixed
    <3>3. QED
      BY <3>1, <3>2
  <2>8. PassesOn
    <3>1. gc.black \cup gc.gray \subseteq Covered'
      BY <2>3, <2>4 DEF CoveredFacts
    <3>2. \A m \in Covered' : m \in Numbers /\ Passed'[m] \subseteq Covered'
      BY <2>4 DEF CoveredFacts, Fixed
    <3>3. QED
      BY <2>7, <3>1, <3>2 DEF PassesOn
  <2>9. Covered \subseteq Covered' /\ c \in Covered'
    BY <2>3, <2>4, <2>8, CoveredGrows DEF CoveredFacts
  <2>10. ASSUME NEW m \in gc.black
         PROVE  Children(m)' \subseteq Covered'
    <3>1. Children(m) \subseteq Covered /\ m \in Kept
      BY <1>5, <2>1 DEF Collector, Marking
    <3>2. /\ NextRoot(m)' \subseteq NextRoot(m) \cup {c} /\ NextSide(m)' \subseteq NextSide(m) \cup {c}
          /\ Links(m)' \subseteq Links(m) \cup {c}
      BY <1>2, <3>1 DEF Adds
    <3>3. QED
      BY <2>9, <3>1, <3>2 DEF Children
  <2>11. ASSUME NEW q \in Protos \ gc.todo
         PROVE  First(q)' \subseteq Covered'
    <3>1. First(q) \subseteq Covered
      BY <1>5 DEF Collector, Marking
    <3>2. First(q)' \subseteq First(q) \cup {c}
      BY <1>2 DEF Adds
    <3>3. QED
      BY <2>9, <3>1, <3>2
  <2>12. Phases'
    BY <1>2, <2>1, <2>3, <1>5 DEF Collector, Phases, Adds
  <2>13. Marking'
    BY <2>3, <2>10, <2>11 DEF Marking, Fixed
  <2>14. QED
    BY <2>12, <2>13 DEF Collector
<1>6. QED
  BY <1>4, <1>5

\* Traces go away only when they are freed or flushed.
LEMMA TracesStay ==
  ASSUME Context, [Next]_vars, TypeOK', ~HeapSteps, ~\E n \in Numbers : FreeTrace(n)
  PROVE  Traces \subseteq Traces'
<1> USE DEF Context
<1>1. ASSUME NEW o \in {"RECORD", "END", "ERR"}, StartTrace(o)
      PROVE  Traces \subseteq Traces'
  <2> DEFINE n == Min(FreeNumbers)
  <2>1. slot' = [slot EXCEPT ![n] = Cur] /\ slot[n] = Nil
    BY <1>1, FreeNumber DEF StartTrace
  <2> HIDE DEF n
  <2>2. QED
    BY <2>1 DEF TypeOK, SlotsTyped, Traces, IsTrace, Fixed
<1>2. ASSUME NEW b \in BOOLEAN, Abort(b)
      PROVE  Traces \subseteq Traces'
  <2>1. Drops
    BY <1>2, AbortDrops DEF HeapSteps, Flushing
  <2>2. QED
    BY <2>1 DEF Drops, WorldFacts, Traces, IsTrace, Fixed
<1>3. CASE UNCHANGED slot
  BY <1>3 DEF Traces, IsTrace, Fixed
<1>4. CASE \/ StartOff \/ Reserve \/ Overrun \/ AsmError \/ Reassemble \/ Event
           \/ (\E o \in {"RECORD", "ERR", "ASM"} : End(o))
           \/ Record \/ Collect \/ UNCHANGED vars
           \/ \E p \in Protos : Reenable(p)
  <2>1. CASE \/ StartOff \/ Reserve \/ Overrun \/ AsmError \/ Reassemble \/ UNCHANGED vars
             \/ (\E o \in {"RECORD", "ERR", "ASM"} : End(o)) \/ \E p \in Protos : Reenable(p)
    BY <2>1, <1>3 DEF StartOff, Reserve, Overrun, AsmError, Reassemble, End, Unsaved, Reenable, vars
  <2>2. CASE Event
    BY Zenon, <2>2, <1>3 DEF Event, AsyncAbort, Hot, HotExit, Return, Call, Unwind, EventOnly
  <2>3. CASE Record
    BY Zenon, <2>3, <1>3 DEF Record, RecordOn, RecordError, RecordStop, RecordDownrec, RecordInto, HeapSteps
  <2>4. CASE Collect
    BY Zenon, <2>4, <1>3 DEF Collect, GCStart, TraverseStack, Atomic, GCEnd, TraverseProto, TraverseTrace
  <2>5. QED
    BY <1>4, <2>1, <2>2, <2>3, <2>4
<1>5. QED
  BY <1>1, <1>2, <1>4
  DEF Next, Compile, Start, Assemble, Flush, HeapSteps, Flushing

\* The other steps change nothing of what is marked.
LEMMA CollectorSame ==
  ASSUME Context, [Next]_vars, TypeOK', ~HeapSteps, ~Collect
  PROVE  Collector'
<1> USE DEF Context
<1>1. gc' = gc
  BY GCUntouched DEF GCSteps, HeapSteps, Flushing
<1>2. SameHeap /\ SameChains
  BY HeapUntouched, HeapKept
<1>3. Traces \subseteq Traces'
  BY TracesStay DEF Collect
<1>4. Phases'
  BY <1>1, <1>3 DEF Collector, Phases
<1>5. CASE gc.phase = "propagate"
  <2>1. Kept = Traces /\ gc.black \subseteq Kept /\ Traces' = Kept' /\ Kept' = Kept
    BY <1>1, <1>2, <1>5, MarkingAll DEF SameHeap, Kept, Collector, Phases
  <2>2. TraceFacts' /\ CoveredFacts /\ CoveredFacts'
    BY CoveredFact, CoveredFactNext, TraceFact, PTL
  <2>3. ChainedRoots' = ChainedRoots
    BY <1>2 DEF SameChains, ChainedRoots
  <2>4. \A m \in Numbers : NextRoot(m)' = NextRoot(m)
    <3>1. ASSUME NEW m \in Kept
          PROVE  NextRoot(m)' = NextRoot(m)
      <4>1. IsTrace(m) /\ IsTrace(m)' /\ slot'[m].nextroot = slot[m].nextroot
        BY <1>2, <2>1, <2>2, <3>1 DEF SameHeap, SameTrace, TraceFacts, Fixed
      <4>2. QED
        BY <4>1 DEF NextRoot
    <3>2. ASSUME NEW m \in Numbers \ Kept
          PROVE  NextRoot(m)' = NextRoot(m)
      <4>1. ~IsTrace(m) /\ ~IsTrace(m)'
        BY <2>1, <2>2, <3>2 DEF TraceFacts, Fixed
      <4>2. QED
        BY <4>1 DEF NextRoot
    <3>3. QED
      BY <3>1, <3>2
  <2>5. PassesOn
    BY <1>1, <2>2, <2>3, <2>4 DEF PassesOn, CoveredFacts, Fixed
  <2>6. Covered \subseteq Covered'
    BY <2>5, CoveredGrows
  <2>7. ASSUME NEW m \in gc.black
        PROVE  Children(m)' \subseteq Covered'
    <3>1. Children(m) \subseteq Covered /\ m \in Covered /\ m \in Kept
      BY <1>5, <2>1, <2>2 DEF Collector, Marking, CoveredFacts
    <3>2. IsTrace(m) /\ IsTrace(m)' /\ SameTrace(m) /\ m \in Numbers
      BY <1>2, <2>1, <2>2, <3>1 DEF SameHeap, TraceFacts, Fixed
    <3>3. NextRoot(m)' = NextRoot(m) /\ NextSide(m)' = NextSide(m)
          /\ Links(m)' \subseteq Links(m) \cup {m}
      BY <3>2 DEF SameTrace, NextRoot, NextSide, Links
    <3>4. QED
      BY <2>6, <3>1, <3>3 DEF Children
  <2>8. \A q \in Protos \ gc.todo : First(q)' \subseteq Covered'
    BY <1>2, <1>5, <2>6 DEF SameHeap, Collector, Marking
  <2>9. QED
    BY <1>1, <1>4, <2>7, <2>8 DEF Collector, Marking, Fixed
<1>6. QED
  BY <1>1, <1>4, <1>5, MarkingOver DEF Collector

LEMMA CollectorStep ==
  ASSUME Context, [Next]_vars, TypeOK'
  PROVE  Collector'
<1> USE DEF Context
<1>1. CASE Collect
  BY <1>1, CollectorCollect
<1>2. CASE Stop
  BY <1>2, CollectorStop
<1>3. CASE Flushing
  <2>1. \E c, p : FlushedAll(c, p)
    BY <1>3 DEF Flushing, FlushAll, StartFull, Abort
  <2>2. QED
    BY <2>1, CollectorFlushing
<1>4. ASSUME NEW n \in Numbers, Unlinks(n), gc' = gc
      PROVE  Collector'
  BY <1>4, CollectorUnlink
<1>5. CASE \E n \in Numbers : FlushTrace(n)
  BY <1>4, <1>5, FlushUnlinks DEF FlushTrace, FlushOnly
<1>6. CASE \E s \in Sites : RecordUnroll(s)
  BY <1>4, <1>6, FlushUnlinks DEF RecordUnroll, RecordOnly
<1>7. CASE \E p \in Protos, off \in BOOLEAN : FlushProto(p, off)
  BY <1>7, CollectorFlushProto
<1>8. CASE ~HeapSteps /\ ~Collect
  BY <1>8, CollectorSame
<1>9. QED
  BY <1>1, <1>2, <1>3, <1>5, <1>6, <1>7, <1>8 DEF HeapSteps, Collect

-----------------------------------------------------------------------------
\* There are no traces at first.
LEMMA SafeInit == Init => SafeInv
<1> SUFFICES ASSUME Init PROVE SafeInv
  OBVIOUS
<1> USE DEF Init
<1>1. WorldFacts /\ Typings
  BY WorldFact, Typing
<1>2. Traces = {} /\ Kept = {}
  BY DEF Traces, IsTrace, Kept
<1>3. TypeOK
  <2>1. CodeTyped
    <3>1. pt \in [Protos -> ProtoStates]
      BY <1>1 DEF WorldFacts, ProtoStates
    <3>2. code \in [Sites -> Instructions] /\ \A s \in Sites : code[s].op # "I"
      BY Zenon, <1>1 DEF Typings
    <3>3. QED
      BY <3>1, <3>2 DEF CodeTyped
  <2>2. SlotsTyped
    <3>1. \A n \in Numbers : n >= 0 /\ n # 0
      BY <1>1 DEF WorldFacts
    <3>2. cur.no = 0
      BY DEF NoTrace
    <3>3. freetrace \in 0..(world.traces + 1)
      BY <1>1 DEF WorldFacts
    <3>4. slot \in [Numbers -> {Nil, Cur} \cup GCtrace(world)]
      OBVIOUS
    <3>5. \A n \in Numbers : (n < freetrace => slot[n] # Nil) /\ (slot[n] = Cur <=> cur.no = n)
      BY <1>1, <3>1, <3>2 DEF WorldFacts
    <3>6. QED
      BY <3>3, <3>4, <3>5 DEF SlotsTyped
  <2>3. CompilerTyped
    BY Zenon, <1>1 DEF Typings, CompilerTyped
  <2>4. GCTyped
    BY DEF GCTyped
  <2>5. mc.room \in 0..AreaSize /\ open \in BOOLEAN
    <3>1. mc = NoCode /\ open = FALSE
      BY DEF CodeInit
    <3>2. NoCode.room = 0
      BY DEF NoCode
    <3>3. mc.room = 0 /\ 0 \in 0..AreaSize
      BY <3>1, <3>2, AreaAssumption
    <3>4. QED
      BY <3>1, <3>3
  <2>6. QED
    BY <2>1, <2>2, <2>3, <2>4, <2>5 DEF TypeOK
<1>4. \A p \in Protos : First(p) = {}
  BY DEF First
<1>5. Heap
  BY <1>2, <1>4
  DEF Heap, Closed, LinksToRoots, RootsInProto, FirstInProto, Acyclic, SidesInChain
<1>6. CodeRuns
  <2>1. jit.patch = NoPatch
    BY Zenon DEF Idle
  <2>2. SoundCode(code)
    BY Zenon, <1>1 DEF SoundCode, Typings
  <2>3. QED
    BY <2>1, <2>2 DEF CodeRuns
<1>7. Waiting /\ InAreas
  BY <1>2 DEF Waiting, InAreas
<1>8. Compiler
  BY Zenon DEF Compiler, Parents, Current, Starting, RootStarts, Restarting, Resting, Compiling, Idle
<1>9. Collector
  BY DEF Collector, Phases, Marking
<1>10. QED
  BY <1>3, <1>5, <1>6, <1>7, <1>8, <1>9 DEF SafeInv

\* No step breaks the invariant.
LEMMA SafeStep == Safe /\ [Next]_vars => Safe'
<1> SUFFICES ASSUME Safe, [Next]_vars PROVE Safe'
  OBVIOUS
<1>1. Context
  BY ContextHolds
<1>2. TypeOK'
  BY <1>1, TypeOKStep
<1>3. Heap' /\ CodeRuns' /\ Waiting' /\ InAreas' /\ Compiler' /\ Collector'
  BY <1>1, <1>2, HeapStep, CodeRunsStep, WaitingStep, InAreasStep, CompilerStep, CollectorStep
<1>4. TraceInv'
  BY TraceInvStep DEF Safe
<1>5. ~world'.flushInCalls
  BY FixedStep DEF Fixed, Safe
<1>6. QED
  BY <1>2, <1>3, <1>4, <1>5 DEF Safe, SafeInv

\* Used traces are kept, and all kept traces have machine code.
LEMMA UsedAreKept == TypeOK /\ Heap /\ CodeRuns /\ Waiting /\ Compiler => Used \subseteq Kept
<1> SUFFICES ASSUME TypeOK, Heap, CodeRuns, Waiting, Compiler PROVE Used \subseteq Kept
  OBVIOUS
<1>1. WorldFacts /\ TraceFacts /\ ChainFacts /\ HeapFacts
  BY WorldFact, TraceFact, ChainFact, HeapFact DEF TypeOK
<1>2. Executable \subseteq Kept /\ frames \subseteq Kept
  BY <1>1, ExecutableFact DEF HeapFacts, Waiting
<1>3. Chained \subseteq Kept
  <2>1. \A p \in Protos : Chain(p) \subseteq Kept
    BY <1>1 DEF HeapFacts
  <2>2. \A n \in Traces \ gc.dead : SideChain(n) \subseteq Kept
    BY <1>1 DEF HeapFacts, Kept
  <2>3. QED
    BY <2>1, <2>2 DEF Chained
<1>4. jit.state # "IDLE" => {jit.parent, jit.exitno} \ {0} \subseteq Kept
  BY DEF Compiler, Parents, Anchored
<1>5. jit.state # "IDLE" => cur.root \in Kept \cup {0}
  <2>1. CASE jit.state = "START"
    <3>1. NoTrace.root = 0
      BY DEF NoTrace
    <3>2. \/ cur = NoTrace
          \/ cur.root \in Kept \cup {0}
      BY Zenon, <2>1 DEF Compiler, Starting
    <3>3. QED
      BY <3>1, <3>2
  <2>2. CASE Compiling
    BY <2>2 DEF Compiler, Current, Parents, Anchored, Compiling
  <2>3. jit.state \in {"IDLE", "START", "RECORD", "ABORTED", "END", "ASM", "ERR"}
    BY Zenon DEF TypeOK, CompilerTyped, JitStates
  <2>4. QED
    BY <2>1, <2>2, <2>3 DEF Compiling
<1>6. QED
  BY <1>2, <1>3, <1>4, <1>5 DEF Used

\* What the invariant implies.
LEMMA SafeMeans == SafeInv => TypeOK /\ PatchedIsCompiled /\ InUseIsKept
<1> SUFFICES ASSUME SafeInv PROVE TypeOK /\ PatchedIsCompiled /\ InUseIsKept
  OBVIOUS
<1>1. TypeOK /\ Heap /\ CodeRuns /\ Waiting /\ InAreas /\ Compiler
  BY DEF SafeInv
<1>2. WorldFacts /\ HeapFacts
  BY <1>1, WorldFact, HeapFact DEF TypeOK
<1>3. ASSUME NEW s \in Sites, NEW n, Runs(s, n)
      PROVE  Owns(n, s)
  <2>1. n \in Kept /\ StartsIn(world.proto[s], n)
    BY <1>2, <1>3 DEF Runs, HeapFacts, WorldFacts
  <2>2. QED
    BY <1>3, <2>1 DEF Runs, StartsIn, Owns
<1>4. PatchedIsCompiled
  BY <1>1, <1>3 DEF PatchedIsCompiled, CodeRuns, SoundCode
<1>5. InUseIsKept
  <2>1. Used \subseteq Kept
    BY <1>1, UsedAreKept
  <2>2. QED
    BY <1>1, <2>1 DEF InUseIsKept, Kept, Traces, InAreas
<1>6. QED
  BY <1>1, <1>4, <1>5

\* All of it holds of every program that flushes single traces (lj_trace_flush,
\* or rec_func_jit) only when no call of a stitched trace is waited for.
LEMMA SafeAlways == Spec /\ ~world.flushInCalls => []SafeInv
<1>1. Init /\ ~world.flushInCalls => Safe
  BY SafeInit, TraceInvInit DEF Safe
<1>2. Safe => SafeInv
  BY DEF Safe
<1>3. QED
  BY <1>1, <1>2, SafeStep, PTL DEF Spec

\* The traces, the bytecode, the prototypes, the compiler and the collector are
\* always in states that lj_trace.c knows: the numbers below J->freetrace are
\* taken, and one of them by the trace that is being recorded.
THEOREM StatesAreKnown == Spec /\ ~world.flushInCalls => []TypeOK
BY SafeAlways, SafeMeans, PTL

\* Bytecode that runs a trace runs one that was compiled there (trace_stop,
\* trace_unpatch, trace_pendpatch), through every flush, abort and blacklisting.
THEOREM PatchedStaysCompiled == Spec /\ ~world.flushInCalls => []PatchedIsCompiled
BY SafeAlways, SafeMeans, PTL

\* No trace that the program may run or return to, that is chained, or that the
\* compiler is about to change is ever collected (gc_traverse_trace,
\* lj_gc_barriertrace, atomic), and its machine code is there.
THEOREM InUseStaysKept == Spec /\ ~world.flushInCalls => []InUseIsKept
BY SafeAlways, SafeMeans, PTL
=============================================================================
