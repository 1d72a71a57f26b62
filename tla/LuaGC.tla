-------------------------------- MODULE LuaGC --------------------------------
(***************************************************************************)
(* The incremental garbage collector of the Lua runtime (src/src/lj_gc.c,  *)
(* with the upvalues of src/src/lj_func.c and the barriers of              *)
(* src/src/lj_gc.h), interleaved with the program whose memory it          *)
(* collects.                                                               *)
(*                                                                         *)
(* Memory is a set of cells, each of a fixed kind, free or holding an      *)
(* object.  An object's contents are the set of objects it refers to; a    *)
(* thread's are its stack slots.  The lists of gray objects and of objects *)
(* not yet swept are sets: any of their members may be taken next; the     *)
(* order in which userdata is finalized is kept.  After the marking nobody *)
(* looks at the lists of gray objects until gc_mark_start empties them, so *)
(* they are empty.                                                         *)
(*                                                                         *)
(* What the program does between two steps of the collector is any         *)
(* sequence of the operations below on objects it can reach.  The steps    *)
(* are those of lj_gc_step, which runs where an allocation meets the       *)
(* threshold; lj_gc_fullgc lets the program run in finalizers only.  All   *)
(* userdata have a finalizer; tables stand for environments and metatables *)
(* as well.                                                                *)
(***************************************************************************)
EXTENDS Integers, FiniteSets

CONSTANTS
  Tables, Weaks, Udata, Funcs, Upvals, Threads, Strs,   \* the cells, by kind
  Main,      \* mainthread(g)
  Depth,     \* how deep the stack of each thread is
  MaxRefs,   \* how many references an object holds
  Nil

Obj == Tables \cup Weaks \cup Udata \cup Funcs \cup Upvals \cup Threads \cup Strs

ASSUME ThreadAssumption == Main \in Threads /\ Nil \notin Obj
ASSUME DepthAssumption == Depth \in [Threads -> Nat]
ASSUME KindAssumption ==
  /\ Tables \cap (Weaks \cup Udata \cup Funcs \cup Upvals \cup Threads \cup Strs) = {}
  /\ Weaks \cap (Udata \cup Funcs \cup Upvals \cup Threads \cup Strs) = {}
  /\ Udata \cap (Funcs \cup Upvals \cup Threads \cup Strs) = {}
  /\ Funcs \cap (Upvals \cup Threads \cup Strs) = {}
  /\ Upvals \cap (Threads \cup Strs) = {}
  /\ Threads \cap Strs = {}

VARIABLES
  phase,      \* g->gc.state
  full,       \* how far lj_gc_fullgc is: "no", "sweeping", "cycle"
  white,      \* g->gc.currentwhite
  color,      \* the color bits of gch.marked, or "free"
  finalized,  \* LJ_GC_FINALIZED
  ahead,      \* pairs of userdata, the first nearer to the head of its list
  gray, grayagain, weak, mmudata,   \* the lists of global_State.gc
  sweep,      \* the objects the sweep has not reached yet
  ref,        \* what an object refers to
  stack,      \* the stack of each thread
  home        \* GCupval.v: the stack slot of an open upvalue, or Closed

lists == <<gray, grayagain, weak>>
heap == <<ref, stack, home>>
vars == <<phase, full, white, color, finalized, ahead, lists, mmudata, sweep, heap>>

Closed == <<>>
Other(w) == IF w = "white0" THEN "white1" ELSE "white0"

White(o) == color[o] \in {"white0", "white1"}
Black(o) == color[o] = "black"
Gray(o)  == color[o] = "gray"
Live(o)  == color[o] # "free"
Dead(o)  == color[o] = Other(white)

Marking == phase \in {"propagate", "atomic"}

Slots(t) == 0..Depth[t]
EmptyStack(t) == [s \in Slots(t) |-> Nil]
OnStack(t) == {stack[t][s] : s \in Slots(t)} \ {Nil}
Open(u) == home[u] # Closed
OpenOf(t) == {u \in Upvals : Open(u) /\ home[u][1] = t}

\* What an upvalue holds: its own value, or the stack slot it stands for.
Value(u) == IF Open(u) THEN {stack[home[u][1]][home[u][2]]} \ {Nil} ELSE ref[u]

\* What a traversal of an object marks.  The values of a weak table are not.
Strong(o) ==
  IF o \in Threads THEN OnStack(o)
  ELSE IF o \in Upvals THEN Value(o)
  ELSE IF o \in Weaks THEN {} ELSE ref[o]

\* A bug: the program gets hold of an upvalue itself.
VisibleUpvalues(o) == IF o \in Threads THEN OnStack(o) ELSE ref[o]

\* What the program can get at through an object it holds.
Visible(o) ==
  CASE o \in Threads -> OnStack(o)
    [] o \in Funcs   -> (ref[o] \ Upvals) \cup UNION {Value(u) : u \in ref[o] \cap Upvals}
    [] OTHER         -> ref[o]

\* The objects found from S along the pairs of E: the least set that
\* contains S and is closed under E.
Found(S, E) ==
  LET closed == {T \in SUBSET Obj : S \subseteq T /\ \A e \in E : e[1] \in T => e[2] \in T}
  IN  {o \in Obj : \A T \in closed : o \in T}

-----------------------------------------------------------------------------
(* Marking and the write barriers.                                         *)

\* The white objects that gc_mark reaches from S: userdata and upvalues are
\* marked together with what they refer to, all others wait on the gray list.
Marked(S) ==
  Found({o \in S : White(o)},
        UNION {{o} \X {v \in Strong(o) : White(v)} : o \in Udata \cup Upvals})

Traversed == Tables \cup Weaks \cup Funcs \cup Threads

\* Userdata and closed upvalues are never gray.
MarkColor(o) ==
  IF o \in Udata \/ (o \in Upvals /\ ~Open(o)) THEN "black" ELSE "gray"

\* Once traversed, weak tables and threads are still gray.
FinalColor(o) == IF o \in Tables \cup Funcs THEN "black" ELSE MarkColor(o)

\* A bug: the program may run after the last propagation step, too.
BarrierWhilePropagating(o, S) == phase = "propagate" /\ Black(o) /\ \E v \in S : White(v)

\* The test before every barrier: a white object is stored in a black one.
NeedsBarrier(o, S) == Black(o) /\ \E v \in S : White(v)

\* lj_gc_barrierf and lj_gc_barrieruv, with their test.
BarrierForward(o, S) ==
  IF ~NeedsBarrier(o, S) THEN UNCHANGED <<color, gray>>
  ELSE IF Marking
    THEN /\ color' = [x \in Obj |-> IF x \in Marked(S) THEN MarkColor(x) ELSE color[x]]
         /\ gray' = gray \cup (Marked(S) \cap Traversed)
    ELSE /\ color' = [color EXCEPT ![o] = white]
         /\ UNCHANGED gray

\* lj_gc_barrierback: a black table is made gray again, where a white object
\* is stored (lj_gc_barriert), or whatever is stored (lj_gc_anybarriert, and
\* the interpreter).
BarrierBack(o, S) ==
  \/ /\ Black(o)
     /\ color' = [color EXCEPT ![o] = "gray"]
     /\ grayagain' = IF Marking THEN grayagain \cup {o} ELSE {}
  \/ /\ ~NeedsBarrier(o, S)
     /\ UNCHANGED <<color, grayagain>>

\* A bug: a dead object that is found again is not revived.
FoundAsItIs(o) == IF color[o] = "free" THEN white ELSE color[o]

\* func_finduv and lj_str_new: a new object is white; a dead one that is
\* found again is revived.
FoundColor(o) == IF color[o] = "free" \/ Dead(o) THEN white ELSE color[o]

\* A bug: the upvalue turns black without its barrier.
ClosedWithoutBarrier(uvs, dead) ==
  /\ color' = [x \in Obj |-> IF x \in dead THEN "free"
                             ELSE IF x \in uvs /\ Gray(x) THEN IF Marking THEN "black" ELSE white
                             ELSE color[x]]
  /\ UNCHANGED gray

\* A bug: a gray upvalue closed while the sweep is under way stays gray.
ClosedInAnyPhase(uvs, dead) ==
  LET M == Marked(UNION {Value(u) : u \in {x \in uvs : Gray(x)}})
  IN  /\ color' = [x \in Obj |-> IF x \in dead THEN "free"
                                 ELSE IF x \in uvs /\ Gray(x) /\ Marking THEN "black"
                                 ELSE IF Marking /\ x \in M THEN MarkColor(x)
                                 ELSE color[x]]
      /\ gray' = IF Marking THEN gray \cup (M \cap Traversed) ELSE gray

\* lj_gc_closeuv, for each upvalue of uvs: a gray one turns black and passes
\* its mark on while marking is under way, and is white otherwise.
ClosedColors(uvs, dead) ==
  LET grays == {u \in uvs : Gray(u)}
      M == IF Marking THEN Marked(UNION {Value(u) : u \in grays}) ELSE {}
  IN  /\ color' = [x \in Obj |-> IF x \in dead THEN "free"
                                 ELSE IF x \in grays THEN IF Marking THEN "black" ELSE white
                                 ELSE IF x \in M THEN MarkColor(x)
                                 ELSE color[x]]
      /\ gray' = gray \cup (M \cap Traversed)

Init ==
  /\ phase = "pause"
  /\ full = "no"
  /\ white = "white0"
  /\ color = [o \in Obj |-> IF o = Main THEN white ELSE "free"]
  /\ finalized = {}
  /\ ahead = {}
  /\ gray = {} /\ grayagain = {} /\ weak = {}
  /\ mmudata = {}
  /\ sweep = {}
  /\ ref = [o \in Obj |-> {}]
  /\ stack = [t \in Threads |-> EmptyStack(t)]
  /\ home = [u \in Upvals |-> Closed]

-----------------------------------------------------------------------------
(* The collector: gc_onestep and lj_gc_fullgc.                             *)

\* gc_mark_start: everything else is reached through the main thread.
MarkStart ==
  /\ phase = "pause"
  /\ phase' = "propagate"
  /\ color' = [color EXCEPT ![Main] = IF White(Main) THEN "gray" ELSE @]
  /\ gray' = IF White(Main) THEN {Main} ELSE {}
  /\ grayagain' = {}
  /\ weak' = {}
  /\ UNCHANGED <<full, white, finalized, ahead, mmudata, sweep, heap>>

\* propagatemark: threads and weak tables stay gray.
Propagate ==
  /\ phase = "propagate"
  /\ \E o \in gray :
       LET M == Marked(Strong(o))
       IN  /\ color' = [x \in Obj |->
                          IF x \in M THEN MarkColor(x)
                          ELSE IF x = o /\ o \in Tables \cup Funcs THEN "black"
                          ELSE color[x]]
           /\ gray' = (gray \ {o}) \cup (M \cap Traversed)
           /\ grayagain' = IF o \in Threads THEN grayagain \cup {o} ELSE grayagain
           /\ weak' = IF o \in Weaks THEN weak \cup {o} ELSE weak
  /\ UNCHANGED <<phase, full, white, finalized, ahead, mmudata, sweep, heap>>

EndPropagate ==
  /\ phase = "propagate"
  /\ gray = {}
  /\ phase' = "atomic"
  /\ UNCHANGED <<full, white, color, finalized, ahead, lists, mmudata, sweep, heap>>

\* The white objects of W that propagation reaches from those of from.
Propagated(from, W) ==
  Found((UNION {Strong(o) : o \in from}) \cap W, UNION {{o} \X (Strong(o) \cap W) : o \in W})

\* A bug: the values of open upvalues are left to their threads.
NoRemark == {}

\* gc_mark_uv: open upvalues are remarked, for the thread may be dead.
OpenGray == {u \in Upvals : Open(u) /\ Gray(u)}

\* Bugs: a full collection runs no finalizers; LJ_GC_FINALIZED is not looked at.
SeparatedUnlessFull(W) == IF full = "cycle" THEN {} ELSE (Udata \cap W) \ (finalized \cup mmudata)
SeparatedAgain(W) == (Udata \cap W) \ mmudata

\* lj_gc_separateudata: userdata about to die that have a finalizer to run.
Separated(W) == (Udata \cap W) \ (finalized \cup mmudata)

\* A bug: only what is finalized is dropped.
MayClearFinalized(v, W, fin) == v \in fin

\* gc_mayclear: a weak table drops what dies and what is being finalized;
\* strings are values and are kept.
MayClear(v, W, fin) == v \in (W \ Strs) \cup fin

\* The GC list: open upvalues hang off their threads, and userdata to be
\* finalized have a list of their own.
Listed(mm) == {o \in Obj : Live(o) /\ ~(o \in Upvals /\ Open(o))} \ mm

\* atomic: the rest of the marking, userdata set apart, weak tables cleared,
\* and the current white flipped.
Atomic ==
  /\ phase = "atomic"
  /\ phase' = "sweepstring"
  /\ LET W0 == {o \in Obj : White(o)}
         P0 == Propagated(OpenGray \cup gray \cup grayagain \cup weak, W0)
         mm == mmudata \cup Separated(W0 \ P0)
         W1 == W0 \ (P0 \cup mm)
         P1 == Propagated(mm, W1)
         marked == P0 \cup P1
         W2 == W1 \ P1
         kept == weak \cup ((gray \cup marked) \cap Weaks)
         fin == finalized \cup mm
         strs == Strs \cap W2 \cap UNION {ref[o] : o \in kept}
     IN  /\ mmudata' = mm
         /\ finalized' = fin
         /\ ahead' = (ahead \ ((mm \ mmudata) \X mmudata)) \cup (mmudata \X (mm \ mmudata))
         /\ color' = [o \in Obj |->
              IF o \in mm \/ (o \in gray \cup grayagain /\ o \in Tables \cup Funcs) THEN "black"
              ELSE IF o \in marked THEN FinalColor(o)
              ELSE IF o \in strs THEN "gray" ELSE color[o]]
         /\ ref' = [o \in Obj |->
              IF o \in kept THEN {v \in ref[o] : ~MayClear(v, W2, fin)} ELSE ref[o]]
         /\ gray' = {} /\ grayagain' = {} /\ weak' = {}
         /\ white' = Other(white)
         /\ sweep' = Listed(mm)
  /\ UNCHANGED <<full, stack, home>>

\* A bug: all strings are kept, as fixed ones are.
SweepStringFixed ==
  /\ phase = "sweepstring"
  /\ \/ \E o \in sweep \cap Strs :
          color' = [color EXCEPT ![o] = white] /\ sweep' = sweep \ {o} /\ UNCHANGED phase
     \/ sweep \cap Strs = {} /\ phase' = "sweep" /\ UNCHANGED <<color, sweep>>
  /\ UNCHANGED <<full, white, finalized, ahead, lists, mmudata, heap>>

\* gc_sweep over the string table, and the change to the other objects.
SweepString ==
  /\ phase = "sweepstring"
  /\ \/ \E o \in sweep \cap Strs :
          /\ color' = [color EXCEPT ![o] = IF Dead(o) THEN "free" ELSE white]
          /\ sweep' = sweep \ {o}
          /\ UNCHANGED phase
     \/ /\ sweep \cap Strs = {}
        /\ phase' = "sweep"
        /\ UNCHANGED <<color, sweep>>
  /\ UNCHANGED <<full, white, finalized, ahead, lists, mmudata, heap>>

\* What follows when everything is swept.
EndSweep ==
  IF full = "sweeping" THEN phase' = "pause" /\ full' = "cycle"
  ELSE IF mmudata # {} THEN phase' = "finalize" /\ UNCHANGED full
  ELSE phase' = "pause" /\ full' = "no"

\* gc_sweep of one object, of a thread with its open upvalues; those that
\* outlive their thread are closed by lj_state_free.
Sweep ==
  /\ phase = "sweep"
  /\ \E o \in sweep :
       LET uvs  == IF o \in Threads THEN OpenOf(o) ELSE {}
           dead == {x \in {o} \cup uvs : Dead(x)}
           left == IF o \in dead THEN uvs \ dead ELSE {}
       IN  /\ color' = [x \in Obj |-> IF x \in dead THEN "free"
                                      ELSE IF x \in {o} \cup uvs THEN white ELSE color[x]]
           /\ ref' = [x \in Obj |-> IF x \in dead THEN {}
                                    ELSE IF x \in left THEN Value(x) ELSE ref[x]]
           /\ home' = [u \in Upvals |-> IF u \in dead \cup left THEN Closed ELSE home[u]]
           /\ stack' = [t \in Threads |-> IF t \in dead THEN EmptyStack(t) ELSE stack[t]]
           /\ finalized' = finalized \ dead
           /\ ahead' = {e \in ahead : e[1] \notin dead /\ e[2] \notin dead}
           /\ sweep' = sweep \ {o}
           /\ IF sweep' = {} THEN EndSweep ELSE UNCHANGED <<phase, full>>
  /\ UNCHANGED <<white, lists, mmudata>>

\* Userdata is linked to the head of its list.
AtHead(o) ==
  {e \in ahead : e[1] # o /\ e[2] # o} \cup ({o} \X {y \in Udata \ {o} : Live(y)})

\* gc_finalize: the userdata is a new white object again, and the argument
\* of its finalizer, which the operations that follow stand for.
Finalize ==
  /\ phase = "finalize"
  /\ \/ \E o \in mmudata :
          /\ \A x \in mmudata : <<x, o>> \notin ahead
          /\ mmudata' = mmudata \ {o}
          /\ ahead' = AtHead(o)
          /\ color' = [color EXCEPT ![o] = white]
          /\ stack' = [stack EXCEPT ![Main][0] = o]
          /\ UNCHANGED <<phase, full>>
     \/ /\ mmudata = {}
        /\ phase' = "pause"
        /\ full' = "no"
        /\ UNCHANGED <<mmudata, ahead, color, stack>>
  /\ UNCHANGED <<white, finalized, lists, sweep, ref, home>>

Collect == MarkStart \/ Propagate \/ EndPropagate \/ Atomic \/ SweepString \/ Sweep \/ Finalize

-----------------------------------------------------------------------------
(* The program.                                                            *)

\* A full collection lets the program run in finalizers only.
Running == full = "no" \/ phase = "finalize"

\* Coroutines run as long as the thread that resumed them holds them.
Active(t) == t = Main \/ t \in OnStack(Main)

\* lj_gc_fullgc: a collection under way is cut short by a sweep that
\* preserves everything, or swept to its end; then comes a whole cycle.
FullGC ==
  /\ Running
  /\ CASE phase \in {"pause", "propagate", "atomic"} ->
            /\ phase' = "sweepstring"
            /\ full' = "sweeping"
            /\ gray' = {} /\ grayagain' = {} /\ weak' = {}
            /\ sweep' = Listed(mmudata)
       [] phase \in {"sweepstring", "sweep"} ->
            /\ full' = "sweeping"
            /\ UNCHANGED <<phase, lists, sweep>>
       [] phase = "finalize" ->
            /\ phase' = "pause"
            /\ full' = "cycle"
            /\ UNCHANGED <<lists, sweep>>
  /\ UNCHANGED <<white, color, finalized, ahead, mmudata, heap>>

\* lj_mem_newgco: a new object is of the current white.
New(t, s, o) ==
  /\ o \in Tables \cup Weaks \cup Udata \cup Threads
  /\ color[o] = "free"
  /\ color' = [color EXCEPT ![o] = white]
  /\ ahead' = IF o \in Udata THEN AtHead(o) ELSE ahead
  /\ stack' = [stack EXCEPT ![t][s] = o]
  /\ UNCHANGED <<finalized, lists, ref, home>>

\* lj_str_new: a string that is there already is used again, and taken back
\* from death if need be.
Intern(t, s, o) ==
  /\ o \in Strs
  /\ color' = [color EXCEPT ![o] = FoundColor(o)]
  /\ stack' = [stack EXCEPT ![t][s] = o]
  /\ UNCHANGED <<finalized, ahead, lists, ref, home>>

\* A slot is loaded from any object held, or cleared; stacks have no barrier.
Load(t, s) ==
  /\ \E v \in (UNION {Visible(o) : o \in OnStack(t)}) \cup {Nil} :
       stack' = [stack EXCEPT ![t][s] = v]
  /\ UNCHANGED <<color, finalized, ahead, lists, ref, home>>

\* lua_xmove: a value passes to a coroutine.
Give(t, s) ==
  /\ \E c \in OnStack(t) \cap Threads, v \in OnStack(t) :
       /\ s \in Slots(c)
       /\ stack' = [stack EXCEPT ![c][s] = v]
  /\ UNCHANGED <<color, finalized, ahead, lists, ref, home>>

\* A store to a table, or a field set to nil.
StoreTable(t, o, v) ==
  /\ o \in OnStack(t) \cap (Tables \cup Weaks)
  /\ v \in OnStack(t)
  /\ Cardinality(ref[o] \cup {v}) <= MaxRefs
  /\ ref' = [ref EXCEPT ![o] = @ \cup {v}]
  /\ BarrierBack(o, {v})
  /\ UNCHANGED <<finalized, ahead, gray, weak, stack, home>>

ClearField(t, o, v) ==
  /\ o \in OnStack(t) \cap (Tables \cup Weaks)
  /\ v \in ref[o]
  /\ ref' = [ref EXCEPT ![o] = @ \ {v}]
  /\ BarrierBack(o, {})
  /\ UNCHANGED <<finalized, ahead, gray, weak, stack, home>>

\* lua_setfenv and lua_setmetatable, of a function or a userdata: the table
\* it refers to is replaced.
StoreObject(t, o, v) ==
  /\ o \in OnStack(t) \cap (Funcs \cup Udata)
  /\ v \in OnStack(t) \cap Tables
  /\ ref' = [ref EXCEPT ![o] = (@ \ Tables) \cup {v}]
  /\ BarrierForward(o, {v})
  /\ UNCHANGED <<finalized, ahead, grayagain, weak, stack, home>>

\* BC_USETV: an open upvalue is a stack slot and needs no barrier.
StoreUpvalue(t, u, v) ==
  /\ u \in (UNION {ref[f] : f \in OnStack(t) \cap Funcs}) \cap Upvals
  /\ v \in OnStack(t)
  /\ IF Open(u)
       THEN /\ stack' = [stack EXCEPT ![home[u][1]][home[u][2]] = v]
            /\ UNCHANGED <<ref, color, gray>>
       ELSE /\ ref' = [ref EXCEPT ![u] = {v}]
            /\ BarrierForward(u, {v})
            /\ UNCHANGED stack
  /\ UNCHANGED <<finalized, ahead, grayagain, weak, home>>

\* lua_upvaluejoin: a closure takes an upvalue over from another.
JoinUpvalue(t, f, g) ==
  /\ {f, g} \subseteq OnStack(t) \cap Funcs
  /\ ref' = [ref EXCEPT ![f] = (@ \ Upvals) \cup (ref[g] \cap Upvals)]
  /\ BarrierForward(f, ref[g] \cap Upvals)
  /\ UNCHANGED <<finalized, ahead, grayagain, weak, stack, home>>

\* lj_func_newL_gc: a closure over a slot of the stack, whose open upvalue
\* is found, or revived, or made; or over an upvalue of its parent.
NewClosure(t, s, f) ==
  /\ f \in Funcs
  /\ color[f] = "free"
  /\ \/ \E l \in Slots(t), u \in Upvals :
          /\ \/ home[u] = <<t, l>>
             \/ color[u] = "free" /\ \A x \in OpenOf(t) : home[x] # <<t, l>>
          /\ home' = [home EXCEPT ![u] = <<t, l>>]
          /\ color' = [color EXCEPT ![f] = white, ![u] = FoundColor(u)]
          /\ ref' = [ref EXCEPT ![f] = {u}]
     \/ \E p \in OnStack(t) \cap Funcs :
          /\ color' = [color EXCEPT ![f] = white]
          /\ ref' = [ref EXCEPT ![f] = ref[p]]
          /\ UNCHANGED home
  /\ stack' = [stack EXCEPT ![t][s] = f]
  /\ UNCHANGED <<finalized, ahead, lists>>

\* lj_func_closeuv: the open upvalues at level and above are freed if dead,
\* and closed otherwise.
CloseUpvalues(t, level) ==
  LET uvs  == {u \in OpenOf(t) : home[u][2] >= level}
      dead == {u \in uvs : Dead(u)}
  IN  /\ uvs # {}
      /\ ref' = [x \in Obj |-> IF x \in uvs \ dead THEN Value(x) ELSE ref[x]]
      /\ home' = [u \in Upvals |-> IF u \in uvs THEN Closed ELSE home[u]]
      /\ ClosedColors(uvs \ dead, dead)
      /\ UNCHANGED <<finalized, ahead, grayagain, weak, stack>>

Mutate ==
  /\ Running
  /\ \E t \in Threads :
       /\ Active(t)
       /\ \/ \E s \in Slots(t), o \in Obj : New(t, s, o) \/ Intern(t, s, o) \/ NewClosure(t, s, o)
          \/ \E s \in Slots(t) : Load(t, s) \/ CloseUpvalues(t, s)
          \/ \E s \in UNION {Slots(c) : c \in Threads} : Give(t, s)
          \/ \E o \in Obj, v \in Obj :
               \/ StoreTable(t, o, v) \/ ClearField(t, o, v)
               \/ StoreObject(t, o, v) \/ StoreUpvalue(t, o, v) \/ JoinUpvalue(t, o, v)
  /\ UNCHANGED <<phase, full, white, mmudata, sweep>>

Next == Collect \/ FullGC \/ Mutate

\* A program that goes on allocating passes the threshold again and again,
\* and each time lj_gc_step takes a step.
Spec == Init /\ [][Next]_vars /\ WF_vars(Collect)

-----------------------------------------------------------------------------
\* Type correctness of the collector's state.
TypeOK ==
  /\ phase \in {"pause", "propagate", "atomic", "sweepstring", "sweep", "finalize"}
  /\ full \in {"no", "sweeping", "cycle"}
  /\ white \in {"white0", "white1"}
  /\ color \in [Obj -> {"free", "gray", "black", "white0", "white1"}]
  /\ ahead \subseteq Udata \X Udata
  /\ finalized \subseteq Udata /\ mmudata \subseteq finalized
  /\ gray \cup sweep \subseteq Obj /\ grayagain \subseteq Tables \cup Threads /\ weak \subseteq Weaks
  /\ ref \in [Obj -> SUBSET Obj]
  /\ stack \in [Threads -> UNION {[Slots(t) -> (Obj \ Upvals) \cup {Nil}] : t \in Threads}]
  /\ \A u \in Upvals : Open(u) => home[u][1] \in Threads /\ home[u][2] \in Slots(home[u][1])

\* What the program can still get at, now or in a finalizer to come.
Refs(o) == IF o \in Weaks THEN ref[o] ELSE Strong(o)
Reachable == Found({Main} \cup mmudata, UNION {{o} \X Refs(o) : o \in Obj})
\* An object that is there, but left out by some set that has the roots and
\* whatever its members refer to: one that is not reachable.
Garbage(o) ==
  /\ Live(o)
  /\ \E T \in SUBSET (Obj \ {o}) : {Main} \cup mmudata \subseteq T /\ \A p \in T : Refs(p) \subseteq T

\* The collector frees nothing, and condemns nothing, that the program can
\* still reach: by a field, a stack, an upvalue of a thread that may be gone,
\* a weak table, or a finalizer.
ReachableIsKept == \A o \in Reachable : Live(o) /\ ~Dead(o)

\* Until the sweep begins, no black object refers to a white one, but for
\* userdata that a cycle before left waiting for its finalizer.
TriColor == Marking => \A o \in Obj \ mmudata : Black(o) => \A v \in Strong(o) : ~White(v)

\* A cycle leaves every object of the current white behind, those waiting for
\* their finalizer apart, so that the next one misses none.
SweptClean ==
  phase \in {"pause", "finalize"} =>
    \A o \in Obj \ mmudata : Live(o) => color[o] = white

\* Userdata is freed after its finalizer was due and was called, never before.
FinalizedFirst ==
  [][\A o \in Udata : Live(o) /\ color'[o] = "free" => o \in finalized \ mmudata]_vars

\* No finalizer is called twice for one object.
FinalizedOnce == [][mmudata' \ mmudata \subseteq Udata \ finalized]_vars

\* Garbage is found and freed, as long as the collector takes its steps.
GarbageIsFreed ==
  \A o \in Obj \ {Main} : Garbage(o) ~> ~Garbage(o)
=============================================================================
