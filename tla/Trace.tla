-------------------------------- MODULE Trace --------------------------------
(***************************************************************************)
(* The control of the trace compiler (src/src/lj_trace.c with what it      *)
(* calls in lj_record.c, lj_asm.c, lj_mcode.c, lj_dispatch.c and lj_gc.c). *)
(*                                                                         *)
(* A trace starts at a hot instruction (a root trace), at the exit of      *)
(* another trace (a side trace) or behind a call that another trace could  *)
(* not follow (a stitched trace).  One step is one iteration of            *)
(* trace_state; the program, the hooks and the collector run between two   *)
(* recorded instructions.  The recorder is reduced to its outcomes, a      *)
(* trace to one exit, and its machine code to the area that holds it.      *)
(***************************************************************************)
EXTENDS MCode, FiniteSets, FiniteSetsExt

CONSTANTS
  Nil,     \* no trace, no instruction
  Cur,     \* the trace that is being recorded
  Worlds   \* the programs considered

\* The traces that a program may save.
LinkTypes == {"NONE", "LOOP", "ROOT", "RETURN", "STITCH", "INTERP"}
GCtrace(w) ==
  LET Number == 0..w.traces
  IN  [site : DOMAIN w.kind \cup {Nil}, root : Number, link : Number, linktype : LinkTypes,
       nextroot : Number, nextside : Number, side : Number, done : BOOLEAN, area : Nat]

\* A program has instructions at which traces may start or to which their
\* exits lead, of a kind and in a prototype each.
ASSUME WorldAssumption ==
  \A w \in Worlds :
    /\ w.kind \in [DOMAIN w.kind -> {"FORL", "LOOP", "FUNCF", "RET", "CALL"}]
    /\ DOMAIN w.proto = DOMAIN w.kind
    /\ w.traces \in Nat \ {0} /\ w.flushInCalls \in BOOLEAN
    /\ Nil \notin DOMAIN w.kind /\ Nil \notin GCtrace(w) /\ Cur \notin GCtrace(w)
ASSUME NilAssumption == Nil # Cur

VARIABLES
  world,      \* one of Worlds
  code,       \* the opcode and operand of every instruction, and its FORI
  pt,         \* the first trace and the flags of a prototype
  slot,       \* J->trace: Nil, Cur or a saved trace
  freetrace,  \* no number below it is free
  cur,        \* J->cur
  jit,        \* the rest of jit_State
  penalty,    \* instructions in the penalty cache
  frames,     \* traces that wait for a call to return (cont_stitch)
  gc          \* the collector, as far as traces are concerned

vars == <<world, code, pt, slot, freetrace, cur, jit, penalty, frames, gc, mc, open>>

Sites == DOMAIN world.kind
Kind(s) == world.kind[s]
Protos == {world.proto[s] : s \in Sites}
Numbers == 1..world.traces

Plain == [op |-> "", d |-> 0, fori |-> FALSE]       \* as the parser made it
Interpreted == [Plain EXCEPT !.op = "I"]            \* IFORL, ILOOP, IFUNCF
Compiled(s, n) == [op |-> "J", d |-> n, fori |-> Kind(s) = "FORL"]

NoPatch == [site |-> Nil, d |-> 0]
NoTrace == [no |-> 0, site |-> Nil, root |-> 0, link |-> 0, linktype |-> "NONE"]

\* What jit_State still holds when idle is not looked at again.
Idle == [state |-> "IDLE", parent |-> 0, exitno |-> 0, site |-> Nil, err |-> "",
         patch |-> NoPatch, skip |-> FALSE, again |-> FALSE]

IsTrace(n) == slot[n] \notin {Nil, Cur}
Traces == {n \in Numbers : IsTrace(n)}
Root(n) == IsTrace(n) /\ slot[n].root = 0

\* What is reached from S in steps of next: the least set that has S and all
\* that follows its members.
Reach(S, next) ==
  LET Closed == {T \in SUBSET DOMAIN next : S \subseteq T /\ \A m \in T : next[m] \subseteq T}
  IN  {n \in DOMAIN next : \A T \in Closed : n \in T}

\* Numbers that a saved trace holds.
Links(n) == IF IsTrace(n) THEN {slot[n].link} \ {0} ELSE {}
NextRoot(n) == IF IsTrace(n) THEN {slot[n].nextroot} \ {0} ELSE {}
NextSide(n) == IF IsTrace(n) THEN {slot[n].nextside} \ {0} ELSE {}
SideExit(n) == IF IsTrace(n) THEN {slot[n].side} \ {0} ELSE {}
First(p) == {pt[p].trace} \ {0}
Chain(p) == Reach(First(p), [n \in Numbers |-> NextRoot(n)])
SideChain(n) == Reach(NextSide(n), [m \in Numbers |-> NextSide(m)])

\* Traces that the program may run: from patched instructions, over links
\* and patched exits, and from calls that return to a stitched trace.
Onward(n) == Links(n) \cup SideExit(n)
Executable ==
  Reach({code[s].d : s \in {t \in Sites : code[t].op = "J"}}
          \cup ({jit.patch.d} \ {0})
          \cup UNION {Links(n) \ {n} : n \in frames},
        [n \in Numbers |-> Onward(n)])

-----------------------------------------------------------------------------
\* Collector and sweep.  trace_findfree, lj_trace_free

\* gc_marktrace.  A trace that is neither gray nor black is white.
Marked(g, S) == [g EXCEPT !.gray = @ \cup (S \ g.black)]

\* A bug: side traces are not marked.
ChildrenButSides(n) == Links(n) \cup NextRoot(n)

\* gc_traverse_trace
Children(n) == Links(n) \cup NextRoot(n) \cup NextSide(n)

\* lj_gc_barriertrace
Barrier(n) == IF gc.phase = "propagate" THEN Marked(gc, {n}) ELSE gc

GCOnly == UNCHANGED <<world, code, pt, cur, jit, penalty, frames, mc, open>>

\* Between two instructions only: the compiler runs in one go.
Interpreting == jit.state \in {"IDLE", "RECORD", "ABORTED"}

GCStart ==
  /\ Interpreting /\ gc.phase = "pause"
  /\ gc' = [phase |-> "propagate", todo |-> Protos, gray |-> {}, black |-> {}, dead |-> {}]
  /\ UNCHANGED <<slot, freetrace>> /\ GCOnly

\* gc_traverse_proto
TraverseProto(p) ==
  /\ Interpreting /\ gc.phase = "propagate" /\ p \in gc.todo
  /\ gc' = Marked([gc EXCEPT !.todo = @ \ {p}], First(p))
  /\ UNCHANGED <<slot, freetrace>> /\ GCOnly

TraverseTrace(n) ==
  /\ Interpreting /\ gc.phase = "propagate" /\ n \in gc.gray
  /\ gc' = Marked([gc EXCEPT !.gray = @ \ {n}, !.black = @ \cup {n}], Children(n))
  /\ UNCHANGED <<slot, freetrace>> /\ GCOnly

\* The stack is marked early, and in any case by the atomic step.
TraverseStack ==
  /\ Interpreting /\ gc.phase = "propagate"
  /\ ~(frames \subseteq gc.gray \cup gc.black)
  /\ gc' = Marked(gc, frames)
  /\ UNCHANGED <<slot, freetrace>> /\ GCOnly

\* What the rest of the marking reaches.  Black traces are not traversed again.
Unmarked(n) == IF n \in gc.black THEN {} ELSE Children(n)
Live ==
  gc.black \cup Reach(gc.gray \cup frames \cup UNION {First(p) : p \in gc.todo},
                     [n \in Numbers |-> Unmarked(n)])

\* atomic, with what is left of the marking.
Atomic ==
  /\ Interpreting /\ gc.phase = "propagate"
  /\ gc' = [phase |-> "sweep", todo |-> {}, gray |-> {}, black |-> {}, dead |-> Traces \ Live]
  /\ UNCHANGED <<slot, freetrace>> /\ GCOnly

\* A bug: the search for a free number does not start at the freed one.
FreeTraceUnsearched(n) ==
  /\ Interpreting /\ n \in gc.dead
  /\ gc' = [gc EXCEPT !.dead = @ \ {n}]
  /\ slot' = [slot EXCEPT ![n] = Nil]
  /\ UNCHANGED freetrace /\ GCOnly

\* lj_trace_free of a saved trace.
FreeTrace(n) ==
  /\ Interpreting /\ n \in gc.dead
  /\ gc' = [gc EXCEPT !.dead = @ \ {n}]
  /\ slot' = [slot EXCEPT ![n] = Nil]
  /\ freetrace' = Min({n, freetrace})
  /\ GCOnly

GCEnd ==
  /\ Interpreting /\ gc.phase = "sweep" /\ gc.dead = {}
  /\ gc' = [gc EXCEPT !.phase = "pause"]
  /\ UNCHANGED <<slot, freetrace>> /\ GCOnly

-----------------------------------------------------------------------------
\* Flushing.

\* A bug: the FORI of the loop stays patched.
UnpatchedButFori(c, S) ==
  [s \in Sites |->
     IF c[s].op = "J" /\ \E n \in S : slot[n].site = s
       THEN [Plain EXCEPT !.fori = c[s].fori] ELSE c[s]]

\* trace_unpatch of the traces S: whatever trace their instruction runs.
Unpatched(c, S) ==
  [s \in Sites |->
     IF c[s].op = "J" /\ \E n \in S : slot[n].site = s THEN Plain ELSE c[s]]

\* lj_trace_flushall, when the instructions and prototypes are c and p.  The
\* trace of a frame gets number and link 0, and its frame does nothing more.
FlushedAll(c, p) ==
  /\ code' = Unpatched(c, {n \in Traces : Root(n)})
  /\ pt' = [q \in Protos |-> [p[q] EXCEPT !.trace = 0]]
  /\ slot' = [n \in Numbers |-> Nil]
  /\ freetrace' = 0
  /\ penalty' = {} /\ frames' = {}
  /\ mc' = NoCode /\ open' = FALSE
  /\ gc' = [gc EXCEPT !.gray = {}, !.black = {}, !.dead = {}]

\* trace_flushroot: unlink trace n from the chain of its prototype.
UnlinkedProto(n) ==
  [pt EXCEPT ![world.proto[slot[n].site]].trace = IF @ = n THEN slot[n].nextroot ELSE @]
UnlinkedSlot(n) ==
  [m \in Numbers |->
     IF /\ m \in Chain(world.proto[slot[n].site]) /\ IsTrace(m)
        /\ pt[world.proto[slot[n].site]].trace # n /\ slot[m].nextroot = n
       THEN [slot[m] EXCEPT !.nextroot = slot[n].nextroot] ELSE slot[m]]

\* A function of the C library that flushes ends or aborts the recording.
MayFlush == jit.state = "IDLE"
FlushOnly == UNCHANGED <<world, freetrace, cur, jit, penalty, frames, gc, mc, open>>

FlushAll ==
  /\ MayFlush
  /\ FlushedAll(code, pt)
  /\ UNCHANGED <<world, cur, jit>>

\* lj_trace_flush
FlushTrace(n) ==
  /\ MayFlush /\ Root(n)
  /\ frames = {} \/ world.flushInCalls
  /\ code' = Unpatched(code, {n}) /\ pt' = UnlinkedProto(n) /\ slot' = UnlinkedSlot(n)
  /\ FlushOnly

\* setptmode: jit.flush and jit.off for a function, and jit.on.
FlushProto(p, off) ==
  /\ MayFlush
  /\ frames = {} \/ world.flushInCalls
  /\ code' = Unpatched(code, Chain(p))
  /\ pt' = [pt EXCEPT ![p].trace = 0, ![p].nojit = @ \/ off]
  /\ UNCHANGED slot /\ FlushOnly

\* lj_trace_reenableproto
Reenable(p) ==
  /\ MayFlush
  /\ pt[p].nojit \/ pt[p].iloop
  /\ pt' = [pt EXCEPT ![p].nojit = FALSE, ![p].iloop = FALSE]
  /\ code' = [s \in Sites |->
                IF pt[p].iloop /\ world.proto[s] = p /\ code[s].op = "I" THEN Plain ELSE code[s]]
  /\ UNCHANGED slot /\ FlushOnly

-----------------------------------------------------------------------------
\* Events that start a trace.
EventOnly == UNCHANGED <<world, code, pt, slot, freetrace, cur, penalty, gc, mc, open>>
Started(parent, exitno, s) ==
  [Idle EXCEPT !.state = "START", !.parent = parent, !.exitno = exitno, !.site = s]

\* lj_trace_hot
Hot(s) ==
  /\ jit.state = "IDLE"
  /\ code[s].op = "" /\ Kind(s) \in {"FORL", "LOOP", "FUNCF"}
  /\ jit' = Started(0, 0, s)
  /\ UNCHANGED frames /\ EventOnly

\* lj_trace_exit and trace_hotside: the exit of a trace leads to instruction
\* s, or to one that is not patched and in the same prototype.
HotExit(n, s) ==
  /\ jit.state = "IDLE"
  /\ n \in Executable /\ ~slot[n].done
  /\ jit' = Started(n, 0, s)
  /\ UNCHANGED frames /\ EventOnly

\* A trace that ends in a call runs.
Call(n) ==
  /\ jit.state = "IDLE"
  /\ n \in Executable \ frames /\ slot[n].linktype = "STITCH"
  /\ frames' = frames \cup {n}
  /\ UNCHANGED jit /\ EventOnly

\* The call returns, to cont_stitch.  Trace n may wait for other calls, too.
Return(n, s) ==
  /\ jit.state = "IDLE"
  /\ n \in frames /\ Kind(s) = "CALL"
  /\ frames' \in {frames, frames \ {n}}
  /\ slot[n].link = 0
  /\ jit' = Started(0, n, s)
  /\ EventOnly

\* It returns to a stitched trace, or none is wanted; or it fails.
Unwind(n) ==
  /\ Interpreting
  /\ n \in frames
  /\ frames' = frames \ {n}
  /\ UNCHANGED jit /\ EventOnly

\* lj_trace_abort, before hooks and finalizers.
AsyncAbort ==
  /\ jit.state = "RECORD"
  /\ jit' = [jit EXCEPT !.state = "ABORTED"]
  /\ UNCHANGED frames /\ EventOnly

-----------------------------------------------------------------------------
\* trace_start.  A start for down-recursion that fails is aborted again.
Silent == IF jit.again THEN [Idle EXCEPT !.state = "ERR", !.err = "RECERR"] ELSE Idle

\* The compiler is off for the prototype.
StartOff ==
  /\ jit.state = "START" /\ pt[world.proto[jit.site]].nojit
  /\ IF jit.parent = 0 /\ jit.exitno = 0
       THEN /\ code' = [code EXCEPT ![jit.site] = Interpreted]
            /\ pt' = [pt EXCEPT ![world.proto[jit.site]].iloop = TRUE]
       ELSE UNCHANGED <<code, pt>>
  /\ jit' = Silent
  /\ UNCHANGED <<world, slot, freetrace, cur, penalty, frames, gc, mc, open>>

\* trace_findfree
FreeNumbers == {n \in Numbers : n >= freetrace /\ slot[n] = Nil}
StartFull ==
  /\ jit.state = "START" /\ ~pt[world.proto[jit.site]].nojit /\ FreeNumbers = {}
  /\ FlushedAll(code, pt)
  /\ jit' = Silent
  /\ UNCHANGED <<world, cur>>

\* lj_record_setup succeeds, fails, or finds that no side trace is worth it.
\* A compiled return at which the parent's exit leads back is unpatched for
\* the first instruction.
StartTrace(outcome) ==
  LET n == Min(FreeNumbers)
      side == jit.parent # 0
      ret == side /\ Kind(jit.site) = "RET" /\ code[jit.site].op = "J" /\ outcome = "RECORD"
  IN  /\ jit.state = "START" /\ ~pt[world.proto[jit.site]].nojit /\ FreeNumbers # {}
      /\ outcome = "END" => side
      /\ slot' = [slot EXCEPT ![n] = Cur] /\ freetrace' = n + 1
      /\ cur' = [NoTrace EXCEPT
                   !.no = n, !.site = IF side THEN Nil ELSE jit.site,
                   !.root = IF ~side THEN 0
                            ELSE IF slot[jit.parent].root = 0 THEN jit.parent
                            ELSE slot[jit.parent].root,
                   !.linktype = IF outcome = "END" THEN "INTERP" ELSE "NONE"]
      /\ jit' = [jit EXCEPT !.state = outcome, !.site = Nil, !.again = FALSE,
                   !.err = IF outcome = "ERR" THEN "RECERR" ELSE "",
                   !.skip = ret,
                   !.patch = IF ret THEN [site |-> jit.site, d |-> code[jit.site].d] ELSE @]
      /\ code' = IF ret THEN [code EXCEPT ![jit.site] = Plain] ELSE code
      /\ UNCHANGED <<world, pt, penalty, frames, gc, mc, open>>

Start == StartOff \/ StartFull \/ \E o \in {"RECORD", "END", "ERR"} : StartTrace(o)

-----------------------------------------------------------------------------
\* A bug: the end of a recording does not force a patch that is put off.
DueUnforced(force) == jit.patch # NoPatch /\ ~jit.skip

\* trace_pendpatch
Due(force) == jit.patch # NoPatch /\ (force \/ ~jit.skip)
Mended(force) ==
  IF Due(force)
    THEN [code EXCEPT ![jit.patch.site] = Compiled(jit.patch.site, jit.patch.d)]
    ELSE code
Left(force) == IF Due(force) THEN NoPatch ELSE jit.patch

\* The next instruction is recorded, with one of these outcomes.
Recorded(state, err) ==
  [jit EXCEPT !.state = state, !.err = err, !.patch = Left(FALSE), !.skip = FALSE]
RecordOnly == UNCHANGED <<world, freetrace, penalty, frames, gc, mc, open>>

RecordOn ==
  /\ jit.state = "RECORD"
  /\ code' = Mended(FALSE) /\ jit' = Recorded("RECORD", "")
  /\ UNCHANGED <<pt, slot, cur>> /\ RecordOnly

RecordError ==
  /\ jit.state = "RECORD"
  /\ code' = Mended(FALSE) /\ jit' = Recorded("ERR", "RECERR")
  /\ UNCHANGED <<pt, slot, cur>> /\ RecordOnly

\* check_downrec_unroll, at a return behind another one.
RecordDownrec(s) ==
  /\ jit.state = "RECORD" /\ Left(FALSE) = NoPatch
  /\ Kind(s) = "RET" /\ Mended(FALSE)[s].op = ""
  /\ cur.site # s /\ ~pt[world.proto[s]].nojit
  /\ code' = Mended(FALSE)
  /\ jit' = [Recorded("ERR", "DOWNREC") EXCEPT !.site = s]
  /\ UNCHANGED <<pt, slot, cur>> /\ RecordOnly

\* rec_func_jit: a compiled function whose trace only returns is recorded as
\* if it were not compiled, or its trace is flushed if it calls itself.
Returns(s) ==
  /\ Kind(s) = "FUNCF" /\ Mended(FALSE)[s].op = "J"
  /\ slot[Mended(FALSE)[s].d].linktype = "RETURN"

RecordInto(s) ==
  /\ jit.state = "RECORD" /\ Left(FALSE) = NoPatch /\ Returns(s)
  /\ code' = [Mended(FALSE) EXCEPT ![s] = Plain]
  /\ jit' = [Recorded("RECORD", "") EXCEPT !.patch = [site |-> s, d |-> Mended(FALSE)[s].d]]
  /\ UNCHANGED <<pt, slot, cur>> /\ RecordOnly

RecordUnroll(s) ==
  /\ jit.state = "RECORD" /\ Left(FALSE) = NoPatch /\ Returns(s)
  /\ frames = {} \/ world.flushInCalls
  /\ LET n == Mended(FALSE)[s].d
     IN  /\ code' = Unpatched(Mended(FALSE), {n})
         /\ pt' = UnlinkedProto(n) /\ slot' = UnlinkedSlot(n)
  /\ jit' = Recorded("ERR", "RECERR")
  /\ UNCHANGED cur /\ RecordOnly

\* lj_record_stop, with a loop or recursion, in a compiled instruction, or
\* back in the interpreter.
RootTrace == jit.parent = 0 /\ jit.exitno = 0
Stops ==
  {[link |-> 0, linktype |-> l] : l \in {"RETURN", "STITCH"}}
    \cup {[link |-> cur.no, linktype |-> "LOOP"] : i \in {0} \cap {jit.exitno}}
    \cup {[link |-> Mended(FALSE)[s].d, linktype |-> "ROOT"] :
            s \in {t \in Sites :
                    /\ Mended(FALSE)[t].op = "J" /\ ~Returns(t)
                    /\ RootTrace => Kind(t) \in {"FORL", "FUNCF"}}}

RecordStop ==
  /\ jit.state = "RECORD"
  /\ \E stop \in Stops : cur' = [cur EXCEPT !.link = stop.link, !.linktype = stop.linktype]
  /\ code' = Mended(FALSE) /\ jit' = Recorded("END", "")
  /\ UNCHANGED <<pt, slot>> /\ RecordOnly

Record ==
  \/ RecordOn \/ RecordError \/ RecordStop
  \/ \E s \in Sites : RecordDownrec(s) \/ RecordInto(s) \/ RecordUnroll(s)

\* The optimizer.  If it cannot make a loop of a root trace, recording may
\* go on.
End(outcome) ==
  /\ jit.state = "END"
  /\ outcome = "RECORD" =>
       cur.link = cur.no /\ RootTrace /\ Kind(cur.site) # "RET"
  /\ code' = Mended(TRUE)
  /\ jit' = [jit EXCEPT !.state = outcome, !.patch = Left(TRUE),
                        !.err = IF outcome = "ERR" THEN "RECERR" ELSE ""]
  /\ cur' = IF outcome = "RECORD" THEN [cur EXCEPT !.link = 0, !.linktype = "NONE"] ELSE cur
  /\ UNCHANGED <<world, pt, slot, freetrace, penalty, frames, gc, mc, open>>

-----------------------------------------------------------------------------
\* lj_asm_trace reserves machine code; the first area may not be had.
Fail(err) == [jit EXCEPT !.state = "ERR", !.err = err]
AsmOnly == UNCHANGED <<world, penalty, frames>>
Unsaved == UNCHANGED <<code, pt, slot, freetrace, cur, gc>>

Reserve ==
  /\ jit.state = "ASM" /\ ~open
  /\ \/ /\ open' = TRUE /\ mc' = Reserved(mc)
        /\ UNCHANGED jit
     \/ /\ mc.prot = <<>>
        /\ jit' = Fail("MCODEAL")
        /\ UNCHANGED <<mc, open>>
  /\ Unsaved /\ AsmOnly

\* The code does not fit, or its assembly fails for another reason.
Overrun ==
  /\ jit.state = "ASM" /\ open
  /\ \E l \in Limited(mc) : mc' = l.mc /\ jit' = Fail(l.err)
  /\ UNCHANGED open /\ Unsaved /\ AsmOnly
AsmError ==
  /\ jit.state = "ASM" /\ open
  /\ jit' = Fail("RECERR")
  /\ UNCHANGED <<mc, open>> /\ Unsaved /\ AsmOnly

\* trace_stop: the bytecode at which a root trace starts runs it, the exit
\* of the parent goes to a side trace, the trace before a call links to a
\* stitched one.
RootStop == cur.site # Nil /\ jit.exitno = 0
SideStop == cur.site = Nil
Linked(new) ==
  [n \in Numbers |->
     IF n = cur.no THEN new
     ELSE IF SideStop /\ n = jit.parent
       THEN [slot[n] EXCEPT !.done = TRUE, !.side = cur.no,
                            !.nextside = IF n = cur.root THEN cur.no ELSE @]
     ELSE IF SideStop /\ n = cur.root THEN [slot[n] EXCEPT !.nextside = cur.no]
     ELSE IF ~SideStop /\ n = jit.exitno THEN [slot[n] EXCEPT !.link = cur.no]
     ELSE slot[n]]

Stop ==
  /\ jit.state = "ASM" /\ open
  /\ LET p == world.proto[cur.site]
     IN  /\ code' = IF RootStop THEN [code EXCEPT ![cur.site] = Compiled(cur.site, cur.no)]
                    ELSE code
         /\ pt' = IF RootStop THEN [pt EXCEPT ![p].trace = cur.no] ELSE pt
         /\ slot' = Linked([site |-> cur.site, root |-> cur.root, link |-> cur.link,
                            linktype |-> cur.linktype,
                            nextroot |-> IF RootStop THEN pt[p].trace ELSE 0,
                            nextside |-> IF SideStop THEN slot[cur.root].nextside ELSE 0,
                            side |-> 0, done |-> FALSE, area |-> Len(mc.prot)])
  /\ \E size \in 1..mc.room :
       mc' = Committed(IF SideStop THEN Patched(mc, slot[jit.parent].area) ELSE mc, size)
  /\ open' = FALSE
  /\ gc' = Barrier(cur.no)
  /\ cur' = NoTrace /\ jit' = [Idle EXCEPT !.patch = jit.patch]
  /\ UNCHANGED freetrace /\ AsmOnly

\* A bug: the new area stays writable.
ReassembleWritable ==
  /\ jit.state = "ERR" /\ jit.err = "MCODELM"
  /\ UNCHANGED mc /\ open' = FALSE
  /\ jit' = [jit EXCEPT !.state = "ASM", !.err = ""]
  /\ Unsaved /\ AsmOnly

\* trace_abort: assembly starts again in a new area,
Reassemble ==
  /\ jit.state = "ERR" /\ jit.err = "MCODELM"
  /\ mc' = Aborted(mc) /\ open' = FALSE
  /\ jit' = [jit EXCEPT !.state = "ASM", !.err = ""]
  /\ Unsaved /\ AsmOnly

\* or the trace is dropped.  Its start is penalized, or blacklisted after
\* some failures; the link of a stitched trace that failed is its own number.
Penalized == jit.parent = 0 /\ jit.exitno = 0 /\ cur.site # Nil /\ Kind(cur.site) # "RET"
Blacklisted(c) == [c EXCEPT ![cur.site] = [@ EXCEPT !.op = "I"]]
Dropped == cur.no # 0

\* What follows an abort: a root trace at a return, or a flush.
Restarts == jit.err = "DOWNREC"
Flushes == jit.state = "ERR" /\ jit.err = "MCODEAL"

Abort(blacklist) ==
  LET mended == Mended(TRUE)
      c == IF blacklist THEN Blacklisted(mended) ELSE mended
      p == IF blacklist THEN [pt EXCEPT ![world.proto[cur.site]].iloop = TRUE] ELSE pt
      stitched == [n \in Numbers |->
                     IF n = cur.no THEN Nil
                     ELSE IF jit.parent = 0 /\ n = jit.exitno THEN [slot[n] EXCEPT !.link = n]
                     ELSE slot[n]]
  IN  /\ jit.state \in {"ERR", "ABORTED"} /\ jit.err # "MCODELM"
      /\ blacklist => Penalized /\ cur.site \in penalty
      /\ IF Flushes
           THEN FlushedAll(c, p)
           ELSE /\ code' = c /\ pt' = p
                /\ slot' = stitched
                /\ freetrace' = IF Dropped THEN Min({cur.no, freetrace}) ELSE freetrace
                /\ penalty' = IF Penalized THEN penalty \cup {cur.site} ELSE penalty
                /\ mc' = Aborted(mc) /\ open' = FALSE
                /\ UNCHANGED <<frames, gc>>
      /\ IF Restarts /\ jit.state = "ERR"
           THEN /\ jit' = [Started(0, 0, jit.site) EXCEPT !.again = TRUE, !.patch = Left(TRUE)]
                /\ cur' = [cur EXCEPT !.no = 0]
           ELSE /\ jit' = [Idle EXCEPT !.patch = Left(TRUE)]
                /\ cur' = NoTrace
      /\ UNCHANGED world

-----------------------------------------------------------------------------
Init ==
  /\ world \in Worlds
  /\ code = [s \in Sites |-> Plain]
  /\ pt = [p \in Protos |-> [trace |-> 0, iloop |-> FALSE, nojit |-> FALSE]]
  /\ slot = [n \in Numbers |-> Nil] /\ freetrace = 0
  /\ cur = NoTrace /\ jit = Idle
  /\ penalty = {} /\ frames = {}
  /\ gc = [phase |-> "pause", todo |-> {}, gray |-> {}, black |-> {}, dead |-> {}]
  /\ CodeInit

Assemble == Reserve \/ Overrun \/ AsmError \/ Stop

\* What the compiler does before it returns to the program.
Compile ==
  \/ Start
  \/ \E o \in {"RECORD", "ERR", "ASM"} : End(o)
  \/ Assemble
  \/ Reassemble
  \/ \E b \in BOOLEAN : Abort(b)

Collect ==
  \/ GCStart \/ TraverseStack \/ Atomic \/ GCEnd
  \/ \E p \in Protos : TraverseProto(p)
  \/ \E n \in Numbers : TraverseTrace(n) \/ FreeTrace(n)

Flush ==
  \/ FlushAll
  \/ \E n \in Numbers : FlushTrace(n)
  \/ \E p \in Protos : Reenable(p) \/ \E off \in BOOLEAN : FlushProto(p, off)

Event ==
  \/ AsyncAbort
  \/ \E s \in Sites : Hot(s) \/ \E n \in Numbers : HotExit(n, s) \/ Return(n, s)
  \/ \E n \in Numbers : Call(n) \/ Unwind(n)

Next == Compile \/ Record \/ Collect \/ Flush \/ Event

\* A call of the compiler runs on until it returns.
Spec == Init /\ [][Next]_vars /\ WF_vars(Compile)

-----------------------------------------------------------------------------
\* Only loops and functions are ever blacklisted, in prototypes that
\* lj_trace_reenableproto can tell.
Instructions == [op : {"", "I", "J"}, d : 0..world.traces, fori : BOOLEAN]
ProtoStates == [trace : 0..world.traces, iloop : BOOLEAN, nojit : BOOLEAN]
CodeTyped ==
  /\ code \in [Sites -> Instructions] /\ pt \in [Protos -> ProtoStates]
  /\ \A s \in Sites :
       code[s].op = "I" => Kind(s) \in {"FORL", "LOOP", "FUNCF"} /\ pt[world.proto[s]].iloop

\* The numbers below J->freetrace are taken, one of them by the trace that
\* is being recorded.
SlotsTyped ==
  /\ slot \in [Numbers -> {Nil, Cur} \cup GCtrace(world)]
  /\ freetrace \in 0..(world.traces + 1)
  /\ \A n \in Numbers :
       (n < freetrace => slot[n] # Nil) /\ (slot[n] = Cur <=> cur.no = n)

PatchStates == [site : Sites \cup {Nil}, d : 0..world.traces]
CurStates ==
  [no : 0..world.traces, site : Sites \cup {Nil}, root : 0..world.traces,
   link : 0..world.traces, linktype : LinkTypes]
JitStates ==
  [state : {"IDLE", "START", "RECORD", "ABORTED", "END", "ASM", "ERR"},
   parent : 0..world.traces, exitno : 0..world.traces, site : Sites \cup {Nil},
   err : {"", "RECERR", "DOWNREC", "MCODEAL", "MCODELM", "MCODEOV"},
   patch : PatchStates, skip : BOOLEAN, again : BOOLEAN]
CompilerTyped == cur \in CurStates /\ jit \in JitStates
GCTyped ==
  gc \in [phase : {"pause", "propagate", "sweep"}, todo : SUBSET Protos,
          gray : SUBSET Numbers, black : SUBSET Numbers, dead : SUBSET Numbers]

\* The traces, the bytecode and the compiler are in a state that
\* lj_trace.c knows.
TypeOK ==
  /\ world \in Worlds
  /\ CodeTyped /\ SlotsTyped /\ CompilerTyped /\ GCTyped
  /\ penalty \subseteq Sites /\ frames \subseteq Numbers
  /\ mc.room \in 0..AreaSize /\ open \in BOOLEAN

\* Bytecode that runs a trace runs the one that was compiled there, a loop
\* and its FORI are patched together, and an instruction that is unpatched
\* while its own effects are recorded will be patched again.
Owns(n, s) == IsTrace(n) /\ slot[n].site = s
PatchedIsCompiled ==
  /\ \A s \in Sites :
       /\ code[s].op = "J" => Owns(code[s].d, s)
       /\ code[s].fori <=> code[s].op = "J" /\ Kind(s) = "FORL"
  /\ jit.patch # NoPatch =>
       Owns(jit.patch.d, jit.patch.site) /\ code[jit.patch.site] = Plain

\* Traces that the program may still run or return to, that are chained, or that
\* the compiler is about to change are there and will not be collected.
Chained ==
  (UNION {Chain(p) : p \in Protos}) \cup (UNION {SideChain(n) : n \in Traces \ gc.dead})
Used ==
  Executable \cup frames \cup Chained
    \cup (IF jit.state = "IDLE" THEN {} ELSE {jit.parent, jit.exitno, cur.root} \ {0})
InUseIsKept ==
  \A n \in Used : IsTrace(n) /\ n \notin gc.dead /\ slot[n].area \in DOMAIN mc.prot

\* Between two traces nothing of the last one is left: no number, no patch
\* that waits and no writable code.
IdleIsClean ==
  jit.state = "IDLE" => jit.patch = NoPatch /\ cur.no = 0 /\ ~open /\ NoneWritable

\* The compiler uses machine code in the transactions of MCode.
TransactsCode == CodeSpec

\* Once compilation leaves the recording of an instruction, it returns to
\* the program, whatever fails.
AsmEnds == (~Interpreting) ~> Interpreting
=============================================================================
