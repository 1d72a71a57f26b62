---------------------------- MODULE LuaGC_proofs ----------------------------
(***************************************************************************)
(* What holds of the collector of LuaGC for every heap: any sets of cells, *)
(* any depth of the stacks, any number of references.  First the types and *)
(* the finalizers, then that it keeps what the program can reach.          *)
(***************************************************************************)
EXTENDS LuaGC, TLAPS

(***************************************************************************)
(* Types and finalizers.  The types are shown together with DueUserdata, for*)
(* the sweep keeps mmudata \subseteq finalized only because it frees nothing*)
(* that waits for its finalizer.                                           *)
(***************************************************************************)

Colors == {"free", "gray", "black", "white0", "white1"}
Sweeping == phase \in {"sweepstring", "sweep"}

CollectorTypes ==
  /\ phase \in {"pause", "propagate", "atomic", "sweepstring", "sweep", "finalize"}
  /\ full \in {"no", "sweeping", "cycle"}
  /\ white \in {"white0", "white1"}
  /\ color \in [Obj -> Colors]
  /\ \A o \in Weaks : color[o] # "black"

ListTypes ==
  /\ ahead \subseteq Udata \X Udata
  /\ finalized \subseteq Udata /\ mmudata \subseteq finalized
  /\ gray \subseteq Obj /\ sweep \subseteq Obj
  /\ grayagain \subseteq Tables \cup Threads /\ weak \subseteq Weaks

RefTypes ==
  /\ ref \in [Obj -> SUBSET Obj]
  /\ \A o \in Obj \ Funcs : ref[o] \subseteq Obj \ Upvals

StackTypes ==
  /\ stack = [t \in Threads |-> stack[t]]
  /\ \A t \in Threads : stack[t] \in [Slots(t) -> (Obj \ Upvals) \cup {Nil}]

HomeTypes ==
  /\ home = [u \in Upvals |-> home[u]]
  /\ \A u \in Upvals : Open(u) => home[u][1] \in Threads /\ home[u][2] \in Slots(home[u][1])

\* Dead userdata is there only while it is swept, and has been finalized.
DueUserdata ==
  \A o \in Udata : Dead(o) => Sweeping /\ o \in sweep /\ o \in finalized \ mmudata

IInv ==
  /\ CollectorTypes /\ ListTypes
  /\ RefTypes /\ StackTypes /\ HomeTypes
  /\ DueUserdata

\* No step but the sweep frees userdata, and none but the atomic one kills it.
KillsNoUserdata ==
  \A o \in Udata : color'[o] = Other(white) => color[o] = Other(white)
FreesNoUserdata ==
  \A o \in Udata : color'[o] = "free" => color[o] = "free"
BlackensNoWeak ==
  \A o \in Weaks : color'[o] # "black"

-----------------------------------------------------------------------------
LEMMA Kinds ==
  /\ Udata \subseteq Obj /\ Threads \subseteq Obj /\ Funcs \subseteq Obj
  /\ Upvals \subseteq Obj /\ Traversed \subseteq Obj /\ Strs \subseteq Obj
  /\ Udata \cap Upvals = {} /\ Udata \cap Strs = {} /\ Udata \cap Threads = {}
  /\ Udata \cap Funcs = {} /\ Upvals \cap Funcs = {} /\ Upvals \cap Tables = {}
  /\ Threads \cap Funcs = {} /\ Tables \cap Funcs = {} /\ Weaks \cap Funcs = {}
  /\ Upvals \cap Weaks = {} /\ Udata \cap Weaks = {} /\ Tables \cap Weaks = {}
  /\ Upvals \cap Threads = {} /\ Upvals \cap Strs = {}
  /\ Weaks \cap Threads = {} /\ Weaks \cap Strs = {}
  /\ Tables \cap Threads = {} /\ Tables \cap Udata = {} /\ Tables \cap Strs = {}
  /\ Threads \cap Strs = {} /\ Funcs \cap Strs = {}
  /\ Weaks \subseteq Obj /\ Tables \subseteq Obj
  /\ Nil \notin Obj /\ Main \in Threads
  BY KindAssumption, ThreadAssumption DEF Obj, Traversed

LEMMA Whites ==
  ASSUME NEW w \in {"white0", "white1"}
  PROVE  /\ Other(w) \in {"white0", "white1"}
         /\ Other(w) # w /\ Other(Other(w)) = w
         /\ Other(w) \notin {"free", "gray", "black"}
         /\ w \notin {"free", "gray", "black"}
         /\ w \in Colors /\ Other(w) \in Colors
  BY DEF Other, Colors

LEMMA MarkColors ==
  ASSUME NEW o \in Obj
  PROVE  /\ MarkColor(o) \in {"gray", "black"} /\ FinalColor(o) \in {"gray", "black"}
         /\ o \in Weaks => MarkColor(o) = "gray" /\ FinalColor(o) = "gray"
  BY Kinds DEF MarkColor, FinalColor

\* An operand of the program, and a value of an upvalue, is not an upvalue.
LEMMA OnStackTypes ==
  ASSUME StackTypes, NEW t \in Threads
  PROVE  OnStack(t) \subseteq Obj \ Upvals
  BY DEF StackTypes, OnStack

LEMMA ValueTypes ==
  ASSUME StackTypes, RefTypes, HomeTypes, NEW u \in Upvals
  PROVE  Value(u) \subseteq Obj \ Upvals
<1>1. CASE Open(u)
  <2>1. home[u][1] \in Threads /\ home[u][2] \in Slots(home[u][1])
    BY <1>1 DEF HomeTypes
  <2>2. stack[home[u][1]][home[u][2]] \in (Obj \ Upvals) \cup {Nil}
    BY <2>1 DEF StackTypes
  <2> QED
    BY <1>1, <2>2 DEF Value
<1>2. CASE ~Open(u)
  BY <1>2, Kinds DEF Value, RefTypes
<1> QED
  BY <1>1, <1>2

LEMMA VisibleTypes ==
  ASSUME StackTypes, RefTypes, HomeTypes, NEW o \in Obj
  PROVE  Visible(o) \subseteq Obj \ Upvals
<1>1. CASE o \in Threads
  BY <1>1, Kinds, OnStackTypes DEF Visible
<1>2. CASE o \in Funcs /\ o \notin Threads
  BY <1>2, Kinds, ValueTypes DEF Visible, RefTypes
<1>3. CASE o \notin Threads /\ o \notin Funcs
  BY <1>3 DEF Visible, RefTypes
<1> QED
  BY <1>1, <1>2, <1>3

\* One slot of one stack is written.
LEMMA StackStore ==
  ASSUME StackTypes, NEW t \in Threads, NEW s \in Slots(t),
         NEW v \in (Obj \ Upvals) \cup {Nil},
         stack' = [stack EXCEPT ![t][s] = v]
  PROVE  StackTypes'
<1>1. stack' = [x \in Threads |-> IF x = t THEN [stack[t] EXCEPT ![s] = v] ELSE stack[x]]
  BY DEF StackTypes
<1>2. [stack[t] EXCEPT ![s] = v] \in [Slots(t) -> (Obj \ Upvals) \cup {Nil}]
  BY DEF StackTypes
<1> HIDE DEF Slots
<1>3. \A x \in Threads : stack'[x] \in [Slots(x) -> (Obj \ Upvals) \cup {Nil}]
  BY <1>1, <1>2 DEF StackTypes
<1>4. stack' = [x \in Threads |-> stack'[x]]
  BY <1>1
<1> QED
  BY <1>3, <1>4 DEF StackTypes, Slots

-----------------------------------------------------------------------------
(* The barriers: colors stay colors, and no userdata dies or is freed.     *)

ColorStep == color' \in [Obj -> Colors] /\ KillsNoUserdata /\ FreesNoUserdata /\ BlackensNoWeak

LEMMA ForwardColors ==
  ASSUME CollectorTypes, gray \subseteq Obj, NEW o, NEW S, BarrierForward(o, S)
  PROVE  ColorStep /\ gray' \subseteq Obj
<1> USE DEF ColorStep, KillsNoUserdata, FreesNoUserdata, BlackensNoWeak
<1>1. CASE ~NeedsBarrier(o, S)
  BY <1>1, Whites DEF CollectorTypes, BarrierForward
<1>2. CASE NeedsBarrier(o, S) /\ Marking
  <2>1. color' = [x \in Obj |-> IF x \in Marked(S) THEN MarkColor(x) ELSE color[x]]
    BY <1>2 DEF BarrierForward
  <2>2. \A x \in Obj : color'[x] = MarkColor(x) \/ color'[x] = color[x]
    BY <2>1
  <2>3. gray' \subseteq Obj
    BY <1>2, Kinds DEF BarrierForward
  <2> QED
    BY <2>1, <2>2, <2>3, MarkColors, Kinds, Whites DEF CollectorTypes, Colors
<1>3. CASE NeedsBarrier(o, S) /\ ~Marking
  <2>1. color' = [color EXCEPT ![o] = white] /\ gray' = gray
    BY <1>3 DEF BarrierForward
  <2> QED
    BY <2>1, Kinds, Whites DEF CollectorTypes
<1> QED
  BY <1>1, <1>2, <1>3

LEMMA BackColors ==
  ASSUME CollectorTypes, ListTypes, NEW o \in Tables \cup Weaks, NEW S, BarrierBack(o, S)
  PROVE  ColorStep
<1> USE DEF ColorStep, KillsNoUserdata, FreesNoUserdata, BlackensNoWeak
<1>1. CASE color' = color
  BY <1>1 DEF CollectorTypes
<1>2. CASE color' = [color EXCEPT ![o] = "gray"]
  BY <1>2, Kinds, Whites DEF CollectorTypes, Colors
<1> QED
  BY <1>1, <1>2 DEF BarrierBack

LEMMA ClosedColorsColors ==
  ASSUME CollectorTypes, gray \subseteq Obj,
         NEW uvs \in SUBSET Upvals, NEW dead \in SUBSET Upvals, ClosedColors(uvs, dead)
  PROVE  ColorStep /\ gray' \subseteq Obj
<1> USE DEF ColorStep, KillsNoUserdata, FreesNoUserdata, BlackensNoWeak
<1>1. PICK M : 
        /\ color' = [x \in Obj |-> IF x \in dead THEN "free"
                                   ELSE IF x \in {u \in uvs : Gray(u)} THEN IF Marking THEN "black" ELSE white
                                   ELSE IF x \in M THEN MarkColor(x)
                                   ELSE color[x]]
        /\ gray' = gray \cup (M \cap Traversed)
  BY DEF ClosedColors
<1>2. \A x \in Obj : \/ x \in dead /\ color'[x] = "free"
                     \/ x \in Upvals /\ color'[x] \in {"black", white}
                     \/ color'[x] = MarkColor(x) \/ color'[x] = color[x]
  BY <1>1
<1>3. color' \in [Obj -> Colors]
  BY <1>1, <1>2, MarkColors, Whites DEF CollectorTypes, Colors
<1>4. KillsNoUserdata /\ FreesNoUserdata /\ BlackensNoWeak
  BY <1>2, MarkColors, Kinds, Whites DEF CollectorTypes
<1>5. gray' \subseteq Obj
  BY <1>1, Kinds
<1> QED
  BY <1>3, <1>4, <1>5

\* What keeps the userdata's fate: the lists stay, and nothing dies.
LEMMA FateKept ==
  ASSUME DueUserdata, KillsNoUserdata,
         UNCHANGED <<white, phase, sweep, finalized, mmudata>>
  PROVE  DueUserdata'
  BY DEF DueUserdata, KillsNoUserdata, Dead, Sweeping

-----------------------------------------------------------------------------
(* The collector's steps preserve the invariant.                           *)

LEMMA InitIInv == Init => IInv
<1> SUFFICES ASSUME Init PROVE IInv
  OBVIOUS
<1> USE Kinds DEF Init
<1>1. CollectorTypes
  BY DEF CollectorTypes, Colors
<1>2. ListTypes /\ RefTypes
  BY DEF ListTypes, RefTypes
<1>3. StackTypes
  BY DEF StackTypes, EmptyStack
<1>4. HomeTypes
  BY DEF HomeTypes, Open
<1>5. DueUserdata
  BY DEF DueUserdata, Dead, Other
<1> QED
  BY <1>1, <1>2, <1>3, <1>4, <1>5 DEF IInv

LEMMA HeapKept ==
  ASSUME RefTypes, StackTypes, HomeTypes, UNCHANGED heap
  PROVE  RefTypes' /\ StackTypes' /\ HomeTypes'
<1>1. RefTypes' /\ StackTypes'
  BY DEF heap, RefTypes, StackTypes
<1>2. HomeTypes'
  BY DEF heap, HomeTypes, Open
<1> QED
  BY <1>1, <1>2

LEMMA MarkStartStep ==
  ASSUME IInv, MarkStart
  PROVE  IInv' /\ ColorStep
<1> USE DEF IInv, MarkStart
<1>1. color' = [color EXCEPT ![Main] = IF White(Main) THEN "gray" ELSE @]
  OBVIOUS
<1>2. ColorStep
  BY <1>1, Kinds, Whites
     DEF ColorStep, KillsNoUserdata, FreesNoUserdata, BlackensNoWeak, CollectorTypes, Colors
<1>3. CollectorTypes'
  BY <1>2 DEF CollectorTypes, ColorStep, BlackensNoWeak
<1>4. ListTypes'
  BY Kinds DEF ListTypes
<1>5. DueUserdata'
  BY <1>2 DEF DueUserdata, ColorStep, KillsNoUserdata, Dead, Sweeping
<1> QED
  BY <1>2, <1>3, <1>4, <1>5, HeapKept

LEMMA PropagateStep ==
  ASSUME IInv, Propagate
  PROVE  IInv' /\ ColorStep
<1> USE DEF IInv, Propagate
<1>1. PICK o, M :
        /\ o \in gray
        /\ color' = [x \in Obj |-> IF x \in M THEN MarkColor(x)
                                   ELSE IF x = o /\ o \in Tables \cup Funcs THEN "black"
                                   ELSE color[x]]
        /\ gray' = (gray \ {o}) \cup (M \cap Traversed)
        /\ grayagain' = IF o \in Threads THEN grayagain \cup {o} ELSE grayagain
        /\ weak' = IF o \in Weaks THEN weak \cup {o} ELSE weak
  OBVIOUS
<1>2. \A x \in Obj : \/ color'[x] = MarkColor(x) \/ color'[x] = color[x]
                     \/ x \in Tables \cup Funcs /\ color'[x] = "black"
  BY <1>1
<1>3. color' \in [Obj -> Colors]
  BY <1>1, <1>2, MarkColors DEF CollectorTypes, Colors
<1>4. ColorStep
  BY <1>2, <1>3, Kinds, Whites, MarkColors
     DEF ColorStep, KillsNoUserdata, FreesNoUserdata, BlackensNoWeak, CollectorTypes
<1>5. CollectorTypes'
  BY <1>4 DEF CollectorTypes, ColorStep, BlackensNoWeak
<1>6. ListTypes'
  BY <1>1, Kinds DEF ListTypes
<1>7. DueUserdata'
  BY <1>4 DEF DueUserdata, ColorStep, KillsNoUserdata, Dead, Sweeping
<1> QED
  BY <1>4, <1>5, <1>6, <1>7, HeapKept

LEMMA EndPropagateStep ==
  ASSUME IInv, EndPropagate
  PROVE  IInv' /\ ColorStep
<1> USE DEF IInv, EndPropagate
<1>1. ColorStep
  BY DEF ColorStep, KillsNoUserdata, FreesNoUserdata, BlackensNoWeak, CollectorTypes
<1>2. CollectorTypes' /\ ListTypes'
  BY DEF CollectorTypes, ListTypes, lists
<1>3. DueUserdata'
  BY DEF DueUserdata, Dead, Sweeping
<1> QED
  BY <1>1, <1>2, <1>3, HeapKept

\* The atomic step is the one that kills: what dies of the userdata was
\* white, was not set apart, and so has been finalized in an earlier cycle.
LEMMA AtomicStep ==
  ASSUME IInv, Atomic
  PROVE  IInv' /\ FreesNoUserdata
<1> USE DEF IInv
<1> DEFINE W0 == {o \in Obj : White(o)}
           P0 == Propagated(OpenGray \cup gray \cup grayagain \cup weak, W0)
           mm == mmudata \cup Separated(W0 \ P0)
           W1 == W0 \ (P0 \cup mm)
           P1 == Propagated(mm, W1)
           W2 == W1 \ P1
           kept == weak \cup ((gray \cup (P0 \cup P1)) \cap Weaks)
           strs == Strs \cap W2 \cap UNION {ref[o] : o \in kept}
<1>1. /\ strs \subseteq Strs
      /\ mm = mmudata \cup ((Udata \cap (W0 \ P0)) \ (finalized \cup mmudata))
      /\ mmudata' = mm
      /\ finalized' = finalized \cup mm
      /\ ahead' = (ahead \ ((mm \ mmudata) \X mmudata)) \cup (mmudata \X (mm \ mmudata))
      /\ color' = [o \in Obj |->
           IF o \in mm \/ (o \in gray \cup grayagain /\ o \in Tables \cup Funcs) THEN "black"
           ELSE IF o \in P0 \cup P1 THEN FinalColor(o)
           ELSE IF o \in strs THEN "gray" ELSE color[o]]
      /\ ref' = [o \in Obj |->
           IF o \in kept THEN {v \in ref[o] : ~MayClear(v, W2, finalized \cup mm)} ELSE ref[o]]
      /\ sweep' = Listed(mm)
  BY DEF Separated, Atomic
<1>2. /\ phase = "atomic" /\ phase' = "sweepstring" /\ white' = Other(white)
      /\ gray' = {} /\ grayagain' = {} /\ weak' = {}
      /\ UNCHANGED <<full, stack, home>>
  BY DEF Atomic
<1> HIDE DEF W0, P0, mm, W1, P1, W2, kept, strs
<1>3. mm \subseteq Udata /\ mmudata \subseteq mm
  BY <1>1 DEF ListTypes
<1>4. \A o \in Obj : \/ o \in Udata \cup Tables \cup Funcs /\ color'[o] = "black"
                     \/ color'[o] = FinalColor(o) \/ color'[o] = "gray" \/ color'[o] = color[o]
  BY <1>1, <1>3
<1>5. CollectorTypes'
  <2>1. color' \in [Obj -> Colors]
    BY <1>1, <1>4, MarkColors DEF CollectorTypes, Colors
  <2>2. \A o \in Weaks : color'[o] # "black"
    BY <1>4, MarkColors, Kinds DEF CollectorTypes
  <2> QED
    BY <1>2, <2>1, <2>2, Whites DEF CollectorTypes
<1>6. ListTypes'
  BY <1>1, <1>2, <1>3 DEF ListTypes, Listed
<1>7. RefTypes'
  BY <1>1 DEF RefTypes
<1>8. StackTypes' /\ HomeTypes'
  BY <1>2 DEF StackTypes, HomeTypes, Open
<1>9. FreesNoUserdata
  BY <1>4, MarkColors, Kinds DEF FreesNoUserdata
<1>10. DueUserdata'
  <2> SUFFICES ASSUME NEW o \in Udata, Dead(o)'
               PROVE  o \in sweep' /\ o \in finalized' \ mmudata'
    BY <1>2 DEF DueUserdata, Sweeping
  <2>1. color'[o] = white
    BY <1>2, Whites DEF Dead, CollectorTypes
  <2>2. o \notin mm /\ o \notin P0 /\ color[o] = white
    BY <1>1, <2>1, Whites, MarkColors, Kinds DEF CollectorTypes
  <2>3. o \in W0
    BY <2>2, Kinds DEF W0, White, CollectorTypes
  <2>4. o \in finalized /\ o \notin mmudata
    BY <1>1, <2>2, <2>3
  <2>5. o \in sweep'
    BY <1>1, <2>1, <2>2, Kinds, Whites DEF Listed, Live, CollectorTypes
  <2> QED
    BY <1>1, <2>2, <2>4, <2>5
<1> QED
  BY <1>5, <1>6, <1>7, <1>8, <1>9, <1>10

LEMMA SweepStringStep ==
  ASSUME IInv, SweepString
  PROVE  IInv' /\ FreesNoUserdata
<1> USE DEF IInv
<1>1. /\ phase = "sweepstring" /\ phase' \in {"sweepstring", "sweep"}
      /\ UNCHANGED <<full, white, finalized, ahead, lists, mmudata, heap>>
      /\ \/ color' = color /\ sweep' = sweep
         \/ \E o \in sweep \cap Strs :
              /\ color' = [color EXCEPT ![o] = IF Dead(o) THEN "free" ELSE white]
              /\ sweep' = sweep \ {o}
  BY DEF SweepString
<1>2. /\ color' \in [Obj -> Colors] /\ sweep' \subseteq sweep
      /\ \A x \in Udata : color'[x] = color[x] /\ (x \in sweep => x \in sweep')
      /\ \A x \in Weaks : color'[x] = color[x]
  <2>1. CASE color' = color /\ sweep' = sweep
    BY <2>1 DEF CollectorTypes
  <2>2. ASSUME NEW o \in sweep \cap Strs,
               color' = [color EXCEPT ![o] = IF Dead(o) THEN "free" ELSE white],
               sweep' = sweep \ {o}
        PROVE  <1>2!:
    <3>1. o \in Obj /\ o \notin Udata /\ o \notin Weaks
      BY Kinds
    <3>2. color' \in [Obj -> Colors]
      BY <2>2, Whites DEF CollectorTypes, Colors
    <3>3. \A x \in Obj : x # o => color'[x] = color[x]
      BY <2>2 DEF CollectorTypes
    <3> QED
      BY <2>2, <3>1, <3>2, <3>3, Kinds
  <2> QED
    BY <1>1, <2>1, <2>2
<1>3. CollectorTypes'
  BY <1>1, <1>2 DEF CollectorTypes
<1>4. ListTypes'
  BY <1>1, <1>2 DEF ListTypes, lists
<1>5. FreesNoUserdata
  BY <1>2 DEF FreesNoUserdata
<1>6. DueUserdata'
  BY <1>1, <1>2 DEF DueUserdata, Dead, Sweeping
<1>7. RefTypes' /\ StackTypes' /\ HomeTypes'
  BY <1>1, HeapKept
<1> QED
  BY <1>3, <1>4, <1>5, <1>6, <1>7

\* The sweep frees only userdata whose finalizer was due and was called.
FreesFinalized ==
  \A o \in Udata : Live(o) /\ color'[o] = "free" => o \in finalized \ mmudata

LEMMA SweepStep ==
  ASSUME IInv, Sweep
  PROVE  IInv' /\ FreesFinalized
<1> USE DEF IInv
<1>1. /\ phase = "sweep"
      /\ UNCHANGED <<white, lists, mmudata>>
  BY DEF Sweep
<1>2. PICK o \in sweep :
       LET uvs  == IF o \in Threads THEN OpenOf(o) ELSE {}
           dead == {x \in {o} \cup uvs : Dead(x)}
           left == IF o \in dead THEN uvs \ dead ELSE {}
       IN  /\ color' = [x \in Obj |-> IF x \in dead THEN "free"
                                      ELSE IF x \in {o} \cup uvs THEN white ELSE color[x]]
           /\ ref' = [x \in Obj |-> IF x \in dead THEN {}
                                    ELSE IF x \in left THEN Value(x) ELSE ref[x]]
           /\ home' = [u \in Upvals |-> IF u \in dead \cup left THEN Closed ELSE home[u]]
           /\ stack' = [t \in Threads |-> IF t \in dead THEN EmptyStack(t) ELSE stack[t]]
           /\ finalized' = finalized \ dead
           /\ ahead' = {e \in ahead : e[1] \notin dead /\ e[2] \notin dead}
           /\ sweep' = sweep \ {o}
           /\ IF sweep' = {} THEN EndSweep ELSE UNCHANGED <<phase, full>>
  BY DEF Sweep
<1> DEFINE uvs  == IF o \in Threads THEN OpenOf(o) ELSE {}
           dead == {x \in {o} \cup uvs : Dead(x)}
           left == IF o \in dead THEN uvs \ dead ELSE {}
<1>3. /\ uvs \subseteq Upvals /\ left \subseteq Upvals /\ dead \subseteq {o} \cup uvs
      /\ \A x \in dead : Dead(x)
      /\ Dead(o) => o \in dead
  BY DEF OpenOf
<1> HIDE DEF uvs, dead, left
<1>4. /\ color' = [x \in Obj |-> IF x \in dead THEN "free"
                                 ELSE IF x \in {o} \cup uvs THEN white ELSE color[x]]
      /\ ref' = [x \in Obj |-> IF x \in dead THEN {}
                               ELSE IF x \in left THEN Value(x) ELSE ref[x]]
      /\ home' = [u \in Upvals |-> IF u \in dead \cup left THEN Closed ELSE home[u]]
      /\ stack' = [t \in Threads |-> IF t \in dead THEN EmptyStack(t) ELSE stack[t]]
      /\ finalized' = finalized \ dead
      /\ ahead' \subseteq ahead
      /\ sweep' = sweep \ {o}
      /\ IF sweep' = {} THEN EndSweep ELSE UNCHANGED <<phase, full>>
  BY <1>2 DEF uvs, dead, left
<1>5. dead \cap mmudata = {}
  BY <1>3 DEF DueUserdata, ListTypes
<1>6. CollectorTypes'
  <2>1. color' \in [Obj -> Colors]
    BY <1>4, Whites DEF CollectorTypes, Colors
  <2>2. \A x \in Weaks : color'[x] # "black"
    BY <1>4, Kinds, Whites DEF CollectorTypes
  <2>3. /\ phase' \in {"pause", "finalize", "sweep"}
        /\ full' \in {"no", "sweeping", "cycle"}
    BY <1>1, <1>4 DEF EndSweep, CollectorTypes
  <2> QED
    BY <1>1, <2>1, <2>2, <2>3 DEF CollectorTypes
<1>7. ListTypes'
  BY <1>1, <1>4, <1>5 DEF ListTypes, lists
<1>8. RefTypes'
  <2>1. \A x \in left : Value(x) \subseteq Obj \ Upvals
    BY <1>3, ValueTypes
  <2>2. ref' \in [Obj -> SUBSET Obj]
    BY <1>4, <2>1 DEF RefTypes
  <2>3. \A x \in Obj \ Funcs : ref'[x] \subseteq Obj \ Upvals
    BY <1>4, <2>1 DEF RefTypes
  <2> QED
    BY <2>2, <2>3 DEF RefTypes
<1>9. StackTypes'
  <2>1. \A t \in Threads : EmptyStack(t) \in [Slots(t) -> (Obj \ Upvals) \cup {Nil}]
    BY DEF EmptyStack
  <2>2. \A t \in Threads : stack'[t] \in [Slots(t) -> (Obj \ Upvals) \cup {Nil}]
    BY <1>4, <2>1 DEF StackTypes
  <2>3. stack' = [t \in Threads |-> stack'[t]]
    BY <1>4
  <2> QED
    BY <2>2, <2>3 DEF StackTypes, Slots
<1>10. HomeTypes'
  <2>1. \A u \in Upvals : home'[u] = Closed \/ home'[u] = home[u]
    BY <1>4
  <2>2. home' = [u \in Upvals |-> home'[u]]
    BY <1>4
  <2> QED
    BY <2>1, <2>2 DEF HomeTypes, Open, Slots
<1>11. FreesFinalized
  <2> SUFFICES ASSUME NEW x \in Udata, Live(x), color'[x] = "free"
               PROVE  x \in finalized \ mmudata
    BY DEF FreesFinalized
  <2>1. x \in dead
    BY <1>4, Kinds, Whites DEF Live, CollectorTypes
  <2> QED
    BY <1>3, <2>1 DEF DueUserdata
<1>12. DueUserdata'
  <2> SUFFICES ASSUME NEW x \in Udata, Dead(x)'
               PROVE  Sweeping' /\ x \in sweep' /\ x \in finalized' \ mmudata'
    BY DEF DueUserdata
  <2>1. color'[x] = Other(white) /\ x \in Obj
    BY <1>1, Kinds DEF Dead
  <2>2. x \notin dead /\ x # o /\ Dead(x)
    BY <1>3, <1>4, <2>1, Whites DEF CollectorTypes, Dead
  <2>3. x \in sweep' /\ x \in finalized' \ mmudata'
    BY <1>1, <1>4, <2>2 DEF DueUserdata
  <2> QED
    BY <1>1, <1>4, <2>3 DEF Sweeping
<1> QED
  BY <1>6, <1>7, <1>8, <1>9, <1>10, <1>11, <1>12

LEMMA AtHeadTypes ==
  ASSUME ahead \subseteq Udata \X Udata, NEW o \in Udata
  PROVE  AtHead(o) \subseteq Udata \X Udata
  BY DEF AtHead

LEMMA FinalizeStep ==
  ASSUME IInv, Finalize
  PROVE  IInv' /\ ColorStep
<1> USE DEF IInv
<1>1. phase = "finalize" /\ UNCHANGED <<white, finalized, lists, sweep, ref, home>>
  BY DEF Finalize
<1>2. \A x \in Udata : ~Dead(x)
  BY <1>1 DEF DueUserdata, Sweeping
<1>3. RefTypes' /\ HomeTypes'
  BY <1>1 DEF RefTypes, HomeTypes, Open
<1>4. ASSUME NEW o \in mmudata,
             mmudata' = mmudata \ {o}, ahead' = AtHead(o),
             color' = [color EXCEPT ![o] = white],
             stack' = [stack EXCEPT ![Main][0] = o],
             UNCHANGED <<phase, full>>
      PROVE  IInv' /\ ColorStep
  <2>1. o \in Udata /\ o \in Obj \ Upvals
    BY Kinds DEF ListTypes
  <2>2. ColorStep
    BY <1>4, <2>1, Kinds, Whites
       DEF ColorStep, KillsNoUserdata, FreesNoUserdata, BlackensNoWeak, CollectorTypes
  <2>3. CollectorTypes'
    BY <1>1, <1>4, <2>2 DEF CollectorTypes, ColorStep, BlackensNoWeak
  <2>4. ListTypes'
    BY <1>1, <1>4, <2>1, AtHeadTypes DEF ListTypes, lists
  <2>5. 0 \in Slots(Main)
    BY DepthAssumption, Kinds DEF Slots
  <2>6. StackTypes'
    BY <1>4, <2>1, <2>5, Kinds, StackStore
  <2>7. DueUserdata'
    BY <1>1, <1>2, <2>2 DEF DueUserdata, ColorStep, KillsNoUserdata, Dead
  <2> QED
    BY <1>3, <2>2, <2>3, <2>4, <2>6, <2>7
<1>5. ASSUME phase' = "pause", full' = "no", UNCHANGED <<mmudata, ahead, color, stack>>
      PROVE  IInv' /\ ColorStep
  <2>1. CollectorTypes' /\ ListTypes' /\ StackTypes'
    BY <1>1, <1>5 DEF CollectorTypes, ListTypes, StackTypes, lists
  <2>2. ColorStep
    BY <1>5 DEF ColorStep, KillsNoUserdata, FreesNoUserdata, BlackensNoWeak, CollectorTypes
  <2>3. DueUserdata'
    BY <1>1, <1>2, <1>5 DEF DueUserdata, Dead
  <2> QED
    BY <1>3, <2>1, <2>2, <2>3
<1> QED
  BY <1>4, <1>5 DEF Finalize

LEMMA FullGCStep ==
  ASSUME IInv, FullGC
  PROVE  IInv' /\ ColorStep
<1> USE DEF IInv
<1>1. UNCHANGED <<white, color, finalized, ahead, mmudata, heap>>
  BY DEF FullGC
<1>2. \/ /\ phase \in {"pause", "propagate", "atomic"}
         /\ phase' = "sweepstring" /\ full' = "sweeping"
         /\ gray' = {} /\ grayagain' = {} /\ weak' = {}
         /\ sweep' = Listed(mmudata)
      \/ /\ phase \in {"sweepstring", "sweep"} /\ full' = "sweeping"
         /\ UNCHANGED <<phase, lists, sweep>>
      \/ /\ phase = "finalize" /\ phase' = "pause" /\ full' = "cycle"
         /\ UNCHANGED <<lists, sweep>>
  BY DEF FullGC, CollectorTypes
<1>3. ColorStep
  BY <1>1 DEF ColorStep, KillsNoUserdata, FreesNoUserdata, BlackensNoWeak, CollectorTypes
<1>4. CollectorTypes'
  BY <1>1, <1>2 DEF CollectorTypes
<1>5. ListTypes'
  BY <1>1, <1>2 DEF ListTypes, lists, Listed
<1>6. DueUserdata'
  <2>1. phase \notin {"sweepstring", "sweep"} => \A x \in Udata : ~Dead(x)
    BY DEF DueUserdata, Sweeping
  <2> QED
    BY <1>1, <1>2, <2>1 DEF DueUserdata, Dead, Sweeping
<1> QED
  BY <1>1, <1>3, <1>4, <1>5, <1>6, HeapKept

-----------------------------------------------------------------------------
(* The program's operations preserve the invariant.                        *)

\* What every operation has to keep, next to the references, the stacks and
\* the homes of the upvalues.
OperationTypes == ColorStep /\ ListTypes' /\ RefTypes' /\ StackTypes' /\ HomeTypes'

LEMMA WhiteStep ==
  ASSUME CollectorTypes, NEW o \in Obj, color' = [color EXCEPT ![o] = white]
  PROVE  ColorStep
  BY Kinds, Whites
     DEF ColorStep, KillsNoUserdata, FreesNoUserdata, BlackensNoWeak, CollectorTypes

LEMMA SameColorStep ==
  ASSUME CollectorTypes, color' = color
  PROVE  ColorStep
  BY DEF ColorStep, KillsNoUserdata, FreesNoUserdata, BlackensNoWeak, CollectorTypes

LEMMA NewTypes ==
  ASSUME IInv, NEW t \in Threads, NEW s \in Slots(t), NEW o \in Obj,
         New(t, s, o), UNCHANGED <<mmudata, sweep>>
  PROVE  OperationTypes
<1> USE DEF IInv
<1>1. o \in Obj \ Upvals
  BY Kinds DEF New
<1>2. ColorStep
  BY WhiteStep DEF New
<1>3. ListTypes'
  BY AtHeadTypes DEF New, ListTypes, lists
<1>4. StackTypes'
  BY <1>1, StackStore DEF New
<1>5. RefTypes' /\ HomeTypes'
  BY DEF New, RefTypes, HomeTypes, Open
<1> QED
  BY <1>2, <1>3, <1>4, <1>5 DEF OperationTypes

LEMMA InternTypes ==
  ASSUME IInv, NEW t \in Threads, NEW s \in Slots(t), NEW o \in Obj,
         Intern(t, s, o), UNCHANGED <<mmudata, sweep>>
  PROVE  OperationTypes
<1> USE DEF IInv
<1>1. o \in Strs /\ o \in Obj \ Upvals
  BY Kinds DEF Intern
<1>2. ColorStep
  <2>1. color' = [color EXCEPT ![o] = white] \/ color' = color
    BY DEF Intern, FoundColor, CollectorTypes
  <2> QED
    BY <2>1, WhiteStep, SameColorStep
<1>3. ListTypes'
  BY DEF Intern, ListTypes, lists
<1>4. StackTypes'
  BY <1>1, StackStore DEF Intern
<1>5. RefTypes' /\ HomeTypes'
  BY DEF Intern, RefTypes, HomeTypes, Open
<1> QED
  BY <1>2, <1>3, <1>4, <1>5 DEF OperationTypes

LEMMA LoadTypes ==
  ASSUME IInv, NEW t \in Threads, NEW s \in Slots(t),
         Load(t, s), UNCHANGED <<mmudata, sweep>>
  PROVE  OperationTypes
<1> USE DEF IInv
<1>1. PICK v \in (UNION {Visible(o) : o \in OnStack(t)}) \cup {Nil} :
        stack' = [stack EXCEPT ![t][s] = v]
  BY DEF Load
<1>2. v \in (Obj \ Upvals) \cup {Nil}
  BY OnStackTypes, VisibleTypes
<1>3. ColorStep /\ ListTypes' /\ RefTypes' /\ HomeTypes'
  BY SameColorStep DEF Load, ListTypes, lists, RefTypes, HomeTypes, Open
<1> QED
  BY <1>1, <1>2, <1>3, StackStore DEF OperationTypes

LEMMA GiveTypes ==
  ASSUME IInv, NEW t \in Threads, NEW s, Give(t, s), UNCHANGED <<mmudata, sweep>>
  PROVE  OperationTypes
<1> USE DEF IInv
<1>1. PICK c \in OnStack(t) \cap Threads, v \in OnStack(t) :
        s \in Slots(c) /\ stack' = [stack EXCEPT ![c][s] = v]
  BY DEF Give
<1>2. v \in (Obj \ Upvals) \cup {Nil}
  BY OnStackTypes
<1>3. ColorStep /\ ListTypes' /\ RefTypes' /\ HomeTypes'
  BY SameColorStep DEF Give, ListTypes, lists, RefTypes, HomeTypes, Open
<1> QED
  BY <1>1, <1>2, <1>3, StackStore DEF OperationTypes

\* Only the references of one object change, and they keep their type.
LEMMA RefStore ==
  ASSUME RefTypes, StackTypes, HomeTypes, NEW o \in Obj,
         NEW R \in SUBSET Obj, o \notin Funcs => R \subseteq Obj \ Upvals,
         ref' = [ref EXCEPT ![o] = R], UNCHANGED <<stack, home>>
  PROVE  RefTypes' /\ StackTypes' /\ HomeTypes'
<1>1. RefTypes'
  BY DEF RefTypes
<1>2. StackTypes' /\ HomeTypes'
  BY DEF StackTypes, HomeTypes, Open
<1> QED
  BY <1>1, <1>2

LEMMA BackTypes ==
  ASSUME CollectorTypes, ListTypes, NEW o \in Tables \cup Weaks, NEW S, BarrierBack(o, S),
         UNCHANGED <<finalized, ahead, gray, weak, mmudata, sweep>>
  PROVE  ColorStep /\ ListTypes'
<1>1. o \in Weaks => ~Black(o)
  BY DEF CollectorTypes, Black
<1>2. grayagain' \subseteq Tables \cup Threads
  BY <1>1 DEF BarrierBack, ListTypes
<1> QED
  BY <1>2, BackColors DEF ListTypes

LEMMA StoreTableTypes ==
  ASSUME IInv, NEW t \in Threads, NEW o \in Obj, NEW v \in Obj,
         StoreTable(t, o, v), UNCHANGED <<mmudata, sweep>>
  PROVE  OperationTypes
<1> USE DEF IInv
<1>1. o \in Tables \cup Weaks /\ v \in Obj \ Upvals
  BY OnStackTypes DEF StoreTable
<1>2. ColorStep /\ ListTypes'
  BY <1>1, BackTypes DEF StoreTable
<1>3. /\ ref[o] \cup {v} \in SUBSET Obj
      /\ o \notin Funcs => ref[o] \cup {v} \subseteq Obj \ Upvals
      /\ ref' = [ref EXCEPT ![o] = ref[o] \cup {v}]
  BY <1>1 DEF StoreTable, RefTypes
<1>4. RefTypes' /\ StackTypes' /\ HomeTypes'
  BY <1>3, RefStore DEF StoreTable
<1> QED
  BY <1>2, <1>4 DEF OperationTypes

LEMMA ClearFieldTypes ==
  ASSUME IInv, NEW t \in Threads, NEW o \in Obj, NEW v \in Obj,
         ClearField(t, o, v), UNCHANGED <<mmudata, sweep>>
  PROVE  OperationTypes
<1> USE DEF IInv
<1>1. ColorStep /\ ListTypes'
  BY BackTypes DEF ClearField
<1>2. /\ ref[o] \ {v} \in SUBSET Obj
      /\ o \notin Funcs => ref[o] \ {v} \subseteq Obj \ Upvals
      /\ ref' = [ref EXCEPT ![o] = ref[o] \ {v}]
  BY DEF ClearField, RefTypes
<1>3. RefTypes' /\ StackTypes' /\ HomeTypes'
  BY <1>2, RefStore DEF ClearField
<1> QED
  BY <1>1, <1>3 DEF OperationTypes

LEMMA StoreObjectTypes ==
  ASSUME IInv, NEW t \in Threads, NEW o \in Obj, NEW v \in Obj,
         StoreObject(t, o, v), UNCHANGED <<mmudata, sweep>>
  PROVE  OperationTypes
<1> USE DEF IInv
<1>1. v \in Obj \ Upvals
  BY Kinds DEF StoreObject
<1>2. ColorStep /\ gray' \subseteq Obj
  BY ForwardColors DEF StoreObject, ListTypes
<1>3. ListTypes'
  BY <1>2 DEF StoreObject, ListTypes
<1>4. /\ (ref[o] \ Tables) \cup {v} \in SUBSET Obj
      /\ o \notin Funcs => (ref[o] \ Tables) \cup {v} \subseteq Obj \ Upvals
      /\ ref' = [ref EXCEPT ![o] = (ref[o] \ Tables) \cup {v}]
  BY <1>1 DEF StoreObject, RefTypes
<1>5. RefTypes' /\ StackTypes' /\ HomeTypes'
  BY <1>4, RefStore DEF StoreObject
<1> QED
  BY <1>2, <1>3, <1>5 DEF OperationTypes

LEMMA StoreUpvalueTypes ==
  ASSUME IInv, NEW t \in Threads, NEW u \in Obj, NEW v \in Obj,
         StoreUpvalue(t, u, v), UNCHANGED <<mmudata, sweep>>
  PROVE  OperationTypes
<1> USE DEF IInv
<1>1. u \in Upvals /\ v \in Obj \ Upvals
  BY OnStackTypes, Kinds DEF StoreUpvalue
<1>2. UNCHANGED <<finalized, ahead, grayagain, weak, home>>
  BY DEF StoreUpvalue
<1>3. CASE Open(u)
  <2>1. /\ stack' = [stack EXCEPT ![home[u][1]][home[u][2]] = v]
        /\ UNCHANGED <<ref, color, gray>>
    BY <1>3 DEF StoreUpvalue
  <2>2. home[u][1] \in Threads /\ home[u][2] \in Slots(home[u][1])
    BY <1>1, <1>3 DEF HomeTypes
  <2>3. StackTypes'
    BY <1>1, <2>1, <2>2, StackStore
  <2>4. ListTypes' /\ RefTypes' /\ HomeTypes'
    BY <1>2, <2>1 DEF ListTypes, RefTypes, HomeTypes, Open
  <2> QED
    BY <2>1, <2>3, <2>4, SameColorStep DEF OperationTypes
<1>4. CASE ~Open(u)
  <2>1. ref' = [ref EXCEPT ![u] = {v}] /\ BarrierForward(u, {v}) /\ UNCHANGED stack
    BY <1>4 DEF StoreUpvalue
  <2>2. ColorStep /\ gray' \subseteq Obj
    BY <2>1, ForwardColors DEF ListTypes
  <2>3. ListTypes'
    BY <1>2, <2>2 DEF ListTypes
  <2>4. RefTypes' /\ StackTypes' /\ HomeTypes'
    BY <1>1, <1>2, <2>1, RefStore, ZenonT(60)
  <2> QED
    BY <2>2, <2>3, <2>4 DEF OperationTypes
<1> QED
  BY <1>3, <1>4

LEMMA JoinUpvalueTypes ==
  ASSUME IInv, NEW t \in Threads, NEW f \in Obj, NEW g \in Obj,
         JoinUpvalue(t, f, g), UNCHANGED <<mmudata, sweep>>
  PROVE  OperationTypes
<1> USE DEF IInv
<1>1. ColorStep /\ gray' \subseteq Obj
  BY ForwardColors DEF JoinUpvalue, ListTypes
<1>2. ListTypes'
  BY <1>1 DEF JoinUpvalue, ListTypes
<1>3. /\ f \in Funcs
      /\ (ref[f] \ Upvals) \cup (ref[g] \cap Upvals) \in SUBSET Obj
      /\ ref' = [ref EXCEPT ![f] = (ref[f] \ Upvals) \cup (ref[g] \cap Upvals)]
  BY DEF JoinUpvalue, RefTypes
<1>4. RefTypes' /\ StackTypes' /\ HomeTypes'
  BY <1>3, RefStore DEF JoinUpvalue
<1> QED
  BY <1>1, <1>2, <1>4 DEF OperationTypes

LEMMA NewClosureTypes ==
  ASSUME IInv, NEW t \in Threads, NEW s \in Slots(t), NEW f \in Obj,
         NewClosure(t, s, f), UNCHANGED <<mmudata, sweep>>
  PROVE  OperationTypes
<1> USE DEF IInv
<1>1. /\ f \in Funcs /\ f \in Obj \ Upvals
      /\ stack' = [stack EXCEPT ![t][s] = f]
      /\ UNCHANGED <<finalized, ahead, lists>>
  BY Kinds DEF NewClosure
<1>2. ListTypes'
  BY <1>1 DEF ListTypes, lists
<1>3. StackTypes'
  BY <1>1, StackStore
<1>4. ASSUME NEW l \in Slots(t), NEW u \in Upvals,
             home' = [home EXCEPT ![u] = <<t, l>>],
             color' = [color EXCEPT ![f] = white, ![u] = FoundColor(u)],
             ref' = [ref EXCEPT ![f] = {u}]
      PROVE  ColorStep /\ RefTypes' /\ HomeTypes'
  <2>1. /\ u # f /\ u \in Obj
        /\ FoundColor(u) = white \/ FoundColor(u) = color[u]
    BY <1>1, Kinds DEF FoundColor
  <2>2. /\ \A x \in Obj : x \notin {f, u} => color'[x] = color[x]
        /\ color'[f] = white
        /\ color'[u] = white \/ color'[u] = color[u]
        /\ color' = [x \in Obj |-> color'[x]]
    BY <1>1, <1>4, <2>1 DEF CollectorTypes
  <2>3. ColorStep
    BY <1>1, <2>1, <2>2, Kinds, Whites
       DEF ColorStep, KillsNoUserdata, FreesNoUserdata, BlackensNoWeak, CollectorTypes
  <2>4. RefTypes'
    BY <1>1, <1>4, <2>1 DEF RefTypes
  <2>5. home' = [x \in Upvals |-> home'[x]] /\ home'[u] = <<t, l>>
        /\ \A x \in Upvals : x # u => home'[x] = home[x]
    BY <1>4 DEF HomeTypes
  <2>6. home'[u][1] = t /\ home'[u][2] = l
    BY <2>5
  <2>7. HomeTypes'
    BY <2>5, <2>6 DEF HomeTypes, Open, Slots
  <2> QED
    BY <2>3, <2>4, <2>7
<1>5. ASSUME NEW p \in OnStack(t) \cap Funcs,
             color' = [color EXCEPT ![f] = white],
             ref' = [ref EXCEPT ![f] = ref[p]],
             UNCHANGED home
      PROVE  ColorStep /\ RefTypes' /\ HomeTypes'
  <2>1. ColorStep
    BY <1>5, WhiteStep
  <2>2. RefTypes' /\ HomeTypes'
    BY <1>1, <1>5, Kinds DEF RefTypes, HomeTypes, Open
  <2> QED
    BY <2>1, <2>2
<1> QED
  BY <1>2, <1>3, <1>4, <1>5 DEF NewClosure, OperationTypes

LEMMA CloseUpvaluesTypes ==
  ASSUME IInv, NEW t \in Threads, NEW level,
         CloseUpvalues(t, level), UNCHANGED <<mmudata, sweep>>
  PROVE  OperationTypes
<1> USE DEF IInv
<1> DEFINE uvs  == {u \in OpenOf(t) : home[u][2] >= level}
           dead == {u \in uvs : Dead(u)}
<1>1. /\ ref' = [x \in Obj |-> IF x \in uvs \ dead THEN Value(x) ELSE ref[x]]
      /\ home' = [u \in Upvals |-> IF u \in uvs THEN Closed ELSE home[u]]
      /\ ClosedColors(uvs \ dead, dead)
      /\ UNCHANGED <<finalized, ahead, grayagain, weak, stack>>
  BY DEF CloseUpvalues
<1>2. uvs \subseteq Upvals /\ dead \subseteq Upvals
  BY DEF OpenOf
<1> HIDE DEF uvs, dead
<1>3. ColorStep /\ gray' \subseteq Obj
  BY <1>1, <1>2, ClosedColorsColors DEF ListTypes
<1>4. ListTypes'
  BY <1>1, <1>3 DEF ListTypes
<1>5. RefTypes'
  <2>1. \A x \in uvs : Value(x) \subseteq Obj \ Upvals
    BY <1>2, ValueTypes
  <2> QED
    BY <1>1, <2>1 DEF RefTypes
<1>6. StackTypes'
  BY <1>1 DEF StackTypes
<1>7. HomeTypes'
  <2>1. \A u \in Upvals : home'[u] = Closed \/ home'[u] = home[u]
    BY <1>1
  <2>2. home' = [u \in Upvals |-> home'[u]]
    BY <1>1
  <2> QED
    BY <2>1, <2>2 DEF HomeTypes, Open, Slots
<1> QED
  BY <1>3, <1>4, <1>5, <1>6, <1>7 DEF OperationTypes

LEMMA FinalizedKept ==
  ASSUME Mutate
  PROVE  finalized' = finalized
<1>1. ASSUME NEW t, NEW s, NEW o
      PROVE  New(t, s, o) \/ Intern(t, s, o) \/ NewClosure(t, s, o) => UNCHANGED finalized
  BY DEF New, Intern, NewClosure
<1>2. ASSUME NEW t, NEW s
      PROVE  Load(t, s) \/ CloseUpvalues(t, s) \/ Give(t, s) => UNCHANGED finalized
  BY DEF Load, CloseUpvalues, Give
<1>3. ASSUME NEW t, NEW o, NEW v
      PROVE  \/ StoreTable(t, o, v) \/ ClearField(t, o, v)
             \/ StoreObject(t, o, v) \/ StoreUpvalue(t, o, v) \/ JoinUpvalue(t, o, v)
             => UNCHANGED finalized
  BY DEF StoreTable, ClearField, StoreObject, StoreUpvalue, JoinUpvalue
<1> QED
  BY <1>1, <1>2, <1>3 DEF Mutate

LEMMA MutateStep ==
  ASSUME IInv, Mutate
  PROVE  IInv' /\ ColorStep
<1>1. UNCHANGED <<phase, full, white, mmudata, sweep>>
  BY DEF Mutate
<1>2. OperationTypes
  <2>1. PICK t \in Threads :
          \/ \E s \in Slots(t), o \in Obj : New(t, s, o) \/ Intern(t, s, o) \/ NewClosure(t, s, o)
          \/ \E s \in Slots(t) : Load(t, s) \/ CloseUpvalues(t, s)
          \/ \E s \in UNION {Slots(c) : c \in Threads} : Give(t, s)
          \/ \E o \in Obj, v \in Obj :
               \/ StoreTable(t, o, v) \/ ClearField(t, o, v)
               \/ StoreObject(t, o, v) \/ StoreUpvalue(t, o, v) \/ JoinUpvalue(t, o, v)
    BY DEF Mutate
  <2>2. CASE \E s \in Slots(t), o \in Obj : New(t, s, o) \/ Intern(t, s, o) \/ NewClosure(t, s, o)
    BY <1>1, <2>2, NewTypes, InternTypes, NewClosureTypes
  <2>3. CASE \E s \in Slots(t) : Load(t, s) \/ CloseUpvalues(t, s)
    BY <1>1, <2>3, LoadTypes, CloseUpvaluesTypes
  <2>4. CASE \E s \in UNION {Slots(c) : c \in Threads} : Give(t, s)
    BY <1>1, <2>4, GiveTypes
  <2>5. CASE \E o \in Obj, v \in Obj :
               \/ StoreTable(t, o, v) \/ ClearField(t, o, v)
               \/ StoreObject(t, o, v) \/ StoreUpvalue(t, o, v) \/ JoinUpvalue(t, o, v)
    BY <1>1, <2>5, StoreTableTypes, ClearFieldTypes, StoreObjectTypes, StoreUpvalueTypes,
       JoinUpvalueTypes
  <2> QED
    BY <2>1, <2>2, <2>3, <2>4, <2>5
<1>3. CollectorTypes'
  BY <1>1, <1>2 DEF IInv, OperationTypes, ColorStep, BlackensNoWeak, CollectorTypes
<1>4. DueUserdata'
  <2>1. finalized' = finalized
    BY FinalizedKept
  <2> QED
    BY <1>1, <1>2, <2>1, FateKept DEF IInv, OperationTypes, ColorStep
<1> QED
  BY <1>2, <1>3, <1>4 DEF IInv, OperationTypes

-----------------------------------------------------------------------------
LEMMA StutterIInv == IInv /\ UNCHANGED vars => IInv'
<1> SUFFICES ASSUME IInv, UNCHANGED vars PROVE IInv'
  OBVIOUS
<1> USE DEF IInv, vars, lists
<1>1. CollectorTypes' /\ ListTypes'
  BY DEF CollectorTypes, ListTypes
<1>2. RefTypes' /\ StackTypes' /\ HomeTypes'
  BY HeapKept
<1>3. DueUserdata'
  BY DEF DueUserdata, Dead, Sweeping
<1> QED
  BY <1>1, <1>2, <1>3

LEMMA NextIInv == IInv /\ [Next]_vars => IInv'
  BY MarkStartStep, PropagateStep, EndPropagateStep, AtomicStep, SweepStringStep, SweepStep,
     FinalizeStep, FullGCStep, MutateStep, StutterIInv DEF Next, Collect

\* The types and counts of the collector are invariant (gc_onestep and
\* everything that a program does between two of its steps).
THEOREM Inductive == Spec => []IInv
<1>1. Init => IInv
  BY InitIInv
<1>2. IInv /\ [Next]_vars => IInv'
  BY NextIInv
<1> QED
  BY <1>1, <1>2, PTL DEF Spec

\* The state of the collector keeps its types, and what waits for its
\* finalizer has been recorded as finalized: the sweep takes no such mark away
\* (gc_sweep, atomic and gc_finalize of lj_gc.c).
THEOREM TypeCorrect == Spec => []TypeOK
<1>1. IInv => TypeOK
  <2> SUFFICES ASSUME IInv PROVE TypeOK
    OBVIOUS
  <2>1. stack \in [Threads -> UNION {[Slots(t) -> (Obj \ Upvals) \cup {Nil}] : t \in Threads}]
    BY DEF IInv, StackTypes
  <2>2. gray \cup sweep \subseteq Obj
    BY DEF IInv, ListTypes
  <2> QED
    BY <2>1, <2>2 DEF IInv, TypeOK, CollectorTypes, ListTypes, RefTypes, HomeTypes, Colors
<1> QED
  BY <1>1, Inductive, PTL

\* Userdata is freed after its finalizer was due and was called, never before
\* (lj_gc_separateudata, gc_finalize and gc_sweep of lj_gc.c), whatever the
\* program and its finalizers do in between.
THEOREM FreedAfterFinalizer == Spec => FinalizedFirst
<1> DEFINE A == \A o \in Udata : Live(o) /\ color'[o] = "free" => o \in finalized \ mmudata
<1>1. IInv /\ [Next]_vars => A
  <2> SUFFICES ASSUME IInv, [Next]_vars PROVE A
    OBVIOUS
  <2>1. CASE Sweep
    BY <2>1, SweepStep DEF FreesFinalized
  <2>2. FreesNoUserdata => A
    BY DEF FreesNoUserdata, Live
  <2>3. CASE UNCHANGED vars
    BY <2>2, <2>3 DEF FreesNoUserdata, vars
  <2> QED
    BY <2>1, <2>2, <2>3, MarkStartStep, PropagateStep, EndPropagateStep, AtomicStep,
       SweepStringStep, FinalizeStep, FullGCStep, MutateStep
       DEF Next, Collect, ColorStep
<1>2. IInv /\ [Next]_vars => [A]_vars
  BY <1>1
<1> QED
  BY <1>2, Inductive, PTL DEF Spec, FinalizedFirst

\* No finalizer is called twice for one object: what is set apart for its
\* finalizer was not marked LJ_GC_FINALIZED before (lj_gc_separateudata).
THEOREM CalledOnce == Spec => FinalizedOnce
<1>1. [Next]_vars => [mmudata' \ mmudata \subseteq Udata \ finalized]_vars
  <2> SUFFICES ASSUME Next PROVE mmudata' \ mmudata \subseteq Udata \ finalized
    OBVIOUS
  <2>1. CASE Atomic
    BY <2>1 DEF Atomic, Separated
  <2>2. CASE Finalize
    BY <2>2 DEF Finalize
  <2>3. Next => Atomic \/ Finalize \/ UNCHANGED mmudata
    BY DEF Next, Collect, MarkStart, Propagate, EndPropagate, SweepString, Sweep, FullGC, Mutate
  <2> QED
    BY <2>1, <2>2, <2>3
<1> QED
  BY <1>1, PTL DEF Spec, FinalizedOnce

(***************************************************************************)
(* Reachable objects.  The invariant does not speak of reachability: an    *)
(* object that is neither free nor dead is safe, and safe objects refer to *)
(* safe objects only.  So what the program holds, and what it gets at through*)
(* it, is safe, and so is everything reachable.  That the atomic step leaves*)
(* this so is what the colors and the lists of gray objects are for.       *)
(***************************************************************************)

Safe(o) == Live(o) /\ ~Dead(o)

SafeClosed ==
  /\ Safe(Main)
  /\ \A o \in mmudata : Safe(o)
  /\ \A o \in Obj : Safe(o) => \A v \in Refs(o) : Safe(v)

\* Only the sweep finds dead objects.
NoneDead == ~Sweeping => \A o \in Obj : ~Dead(o)

\* A cell is empty when it is allocated, and a string always is.
FreeIsEmpty ==
  /\ \A o \in Obj : color[o] = "free" \/ o \in Strs => ref[o] = {}
  /\ \A t \in Threads : color[t] = "free" => OnStack(t) = {}

\* An open upvalue keeps no value of its own, is never black, and its thread
\* is there.
OpenUpvalues ==
  \A u \in Upvals : Open(u) =>
    /\ Live(u) /\ color[u] # "black" /\ ref[u] = {}
    /\ Live(home[u][1])

\* A thread is traversed again in the atomic step; userdata is traversed at once.
KindColors ==
  /\ \A t \in Threads : color[t] # "black"
  /\ \A o \in Udata : color[o] # "gray"

\* The sweep has yet to come to all that is not of the current white, and to
\* objects only.
SweepCovers ==
  ~Marking => \A o \in Obj \ mmudata : Live(o) /\ color[o] # white =>
    o \in sweep \/ (o \in Upvals /\ Open(o) /\ home[o][1] \in sweep)
SweepListed ==
  /\ ~Sweeping => sweep = {}
  /\ \A o \in sweep : Live(o) /\ ~(o \in Upvals /\ Open(o))

\* The gray objects are on a list, but for strings and open upvalues.
GraysListed ==
  Marking => \A o \in Obj : Gray(o) =>
    o \in gray \cup grayagain \cup weak \cup Strs \/ (o \in Upvals /\ Open(o))
ListedLive == Marking =>
  gray \subseteq Traversed /\ \A o \in gray \cup grayagain \cup weak : Live(o)
MainMarked == Marking => ~White(Main)

SInv ==
  /\ SafeClosed /\ NoneDead
  /\ FreeIsEmpty /\ OpenUpvalues /\ KindColors
  /\ SweepCovers /\ SweepListed
  /\ GraysListed /\ ListedLive /\ MainMarked /\ TriColor

RInv == IInv /\ SInv

-----------------------------------------------------------------------------
(* What Found, Marked and Propagated give.                                 *)

LEMMA FoundContains ==
  ASSUME NEW S \in SUBSET Obj, NEW E
  PROVE  S \subseteq Found(S, E)
  BY DEF Found

LEMMA FoundFollows ==
  ASSUME NEW S, NEW E, NEW a \in Found(S, E), NEW b \in Obj, <<a, b>> \in E
  PROVE  b \in Found(S, E)
<1> SUFFICES ASSUME NEW T \in SUBSET Obj, S \subseteq T, \A e \in E : e[1] \in T => e[2] \in T
             PROVE  b \in T
  BY DEF Found
<1>1. a \in T
  BY DEF Found
<1> QED
  BY <1>1

LEMMA FoundLeast ==
  ASSUME NEW S, NEW E, NEW T \in SUBSET Obj, S \subseteq T,
         \A e \in E : e[1] \in T => e[2] \in T
  PROVE  Found(S, E) \subseteq T
  BY DEF Found

\* The contents of an object, by its kind.
LEMMA Contents ==
  ASSUME NEW o \in Obj
  PROVE  /\ o \in Threads => Strong(o) = OnStack(o) /\ Refs(o) = OnStack(o)
         /\ o \in Upvals => Strong(o) = Value(o) /\ Refs(o) = Value(o)
         /\ o \in Weaks => Strong(o) = {} /\ Refs(o) = ref[o]
         /\ o \notin Threads \cup Upvals \cup Weaks => Strong(o) = ref[o] /\ Refs(o) = ref[o]
  BY Kinds DEF Strong, Refs

LEMMA ContentsNext ==
  ASSUME NEW o \in Obj
  PROVE  /\ o \in Threads => Strong(o)' = OnStack(o)' /\ Refs(o)' = OnStack(o)'
         /\ o \in Upvals => Strong(o)' = Value(o)' /\ Refs(o)' = Value(o)'
         /\ o \in Weaks => Strong(o)' = {} /\ Refs(o)' = ref'[o]
         /\ o \notin Threads \cup Upvals \cup Weaks => Strong(o)' = ref'[o] /\ Refs(o)' = ref'[o]
  BY Kinds DEF Strong, Refs

LEMMA ContentsKept ==
  ASSUME UNCHANGED heap, NEW o
  PROVE  Strong(o)' = Strong(o) /\ Refs(o)' = Refs(o) /\ Value(o)' = Value(o)
         /\ OnStack(o)' = OnStack(o) /\ (Open(o)' <=> Open(o))
  BY DEF heap, Strong, Refs, Value, OnStack, Open

LEMMA ContentsTypes ==
  ASSUME IInv, NEW o \in Obj
  PROVE  /\ Strong(o) \subseteq Obj /\ Refs(o) \subseteq Obj /\ Strong(o) \subseteq Refs(o)
         /\ o \notin Funcs => Refs(o) \cap Upvals = {}
<1> USE DEF IInv
<1>1. CASE o \in Threads
  BY <1>1, Contents, OnStackTypes
<1>2. CASE o \in Upvals
  BY <1>2, Contents, ValueTypes
<1>3. CASE o \in Weaks
  BY <1>3, Contents DEF RefTypes
<1>4. CASE o \notin Threads \cup Upvals \cup Weaks
  BY <1>4, Contents DEF RefTypes
<1> QED
  BY <1>1, <1>2, <1>3, <1>4

LEMMA MarkedFacts ==
  ASSUME IInv, NEW S \in SUBSET Obj
  PROVE  /\ \A x \in Marked(S) : x \in Obj /\ White(x)
         /\ \A x \in S : White(x) => x \in Marked(S)
         /\ \A x \in Marked(S) \cap (Udata \cup Upvals) : \A v \in Strong(x) :
              White(v) => v \in Marked(S)
         /\ Marked(S) \cap Upvals \subseteq S
<1> DEFINE E == UNION {{o} \X {v \in Strong(o) : White(v)} : o \in Udata \cup Upvals}
           W == {o \in S : White(o)}
<1>1. Marked(S) = Found(W, E)
  BY DEF Marked
<1>2. \A e \in E : /\ e[1] \in Udata \cup Upvals /\ e[2] \in Strong(e[1])
                   /\ White(e[2]) /\ e = <<e[1], e[2]>>
  OBVIOUS
<1>3. \A o \in Udata \cup Upvals : \A v \in Strong(o) : White(v) => <<o, v>> \in E
  OBVIOUS
<1> HIDE DEF E
<1>4. \A o \in Udata \cup Upvals : Strong(o) \subseteq Obj \ Upvals
  BY ContentsTypes, Kinds
<1>5. W \subseteq Marked(S)
  BY <1>1, FoundContains
<1>6. \A x \in Marked(S) : x \in Obj /\ White(x) /\ (x \in Upvals => x \in S)
  <2> DEFINE T == {x \in Obj : White(x) /\ (x \in Upvals => x \in S)}
  <2>1. W \subseteq T
    OBVIOUS
  <2>2. \A e \in E : e[2] \in T
    BY <1>2, <1>4
  <2>3. Found(W, E) \subseteq T
    BY <2>1, <2>2, FoundLeast
  <2> QED
    BY <1>1, <2>3
<1>7. ASSUME NEW x \in Marked(S) \cap (Udata \cup Upvals), NEW v \in Strong(x), White(v)
      PROVE  v \in Marked(S)
  <2>1. <<x, v>> \in E /\ v \in Obj
    BY <1>3, <1>4, <1>7
  <2> QED
    BY <1>1, <2>1, FoundFollows
<1> QED
  BY <1>5, <1>6, <1>7

LEMMA PropagatedFacts ==
  ASSUME NEW from, NEW W \in SUBSET Obj
  PROVE  /\ Propagated(from, W) \subseteq W
         /\ \A o \in from : Strong(o) \cap W \subseteq Propagated(from, W)
         /\ \A o \in Propagated(from, W) : Strong(o) \cap W \subseteq Propagated(from, W)
<1> DEFINE E == UNION {{o} \X (Strong(o) \cap W) : o \in W}
           S == (UNION {Strong(o) : o \in from}) \cap W
<1>1. Propagated(from, W) = Found(S, E)
  BY DEF Propagated
<1>2. \A e \in E : e[2] \in W
  OBVIOUS
<1>3. \A o \in W : \A v \in Strong(o) \cap W : <<o, v>> \in E
  OBVIOUS
<1>4. \A o \in from : Strong(o) \cap W \subseteq S
  OBVIOUS
<1>5. S \subseteq W
  OBVIOUS
<1> HIDE DEF E, S
<1>6. Propagated(from, W) \subseteq W
  BY <1>1, <1>2, <1>5, FoundLeast
<1>7. S \subseteq Propagated(from, W)
  BY <1>1, <1>5, FoundContains
<1>8. ASSUME NEW o \in Propagated(from, W), NEW v \in Strong(o) \cap W
      PROVE  v \in Propagated(from, W)
  <2>1. <<o, v>> \in E /\ v \in Obj
    BY <1>3, <1>6
  <2> QED
    BY <1>1, <2>1, FoundFollows
<1> QED
  BY <1>4, <1>6, <1>7, <1>8

-----------------------------------------------------------------------------
(* The steps of the marking.                                               *)

LEMMA InitSInv == Init => SInv
<1> SUFFICES ASSUME Init PROVE SInv
  OBVIOUS
<1>1. \A o \in Obj : Refs(o) = {}
  <2>1. \A t \in Threads : OnStack(t) = {}
    BY DEF Init, OnStack, EmptyStack
  <2>2. \A u \in Upvals : Value(u) = {}
    BY Kinds DEF Init, Value, Open
  <2>3. \A o \in Obj : ref[o] = {}
    BY DEF Init
  <2> QED
    BY <2>1, <2>2, <2>3, Contents
<1>2. Safe(Main)
  BY Kinds DEF Init, Safe, Live, Dead, Other
<1>3. SafeClosed
  BY <1>1, <1>2 DEF Init, SafeClosed
<1>4. NoneDead
  BY DEF Init, NoneDead, Dead, Other
<1>5. FreeIsEmpty
  BY DEF Init, FreeIsEmpty, OnStack, EmptyStack
<1>6. OpenUpvalues /\ KindColors
  BY Kinds DEF Init, OpenUpvalues, Open, KindColors
<1>7. SweepCovers /\ SweepListed
  BY DEF Init, SweepCovers, SweepListed, Sweeping, Live
<1>8. ~Marking
  BY DEF Init, Marking
<1> QED
  BY <1>3, <1>4, <1>5, <1>6, <1>7, <1>8 DEF SInv, GraysListed, ListedLive, MainMarked, TriColor

\* What stays as it is when only colors and lists change, and nothing is
\* freed, allocated or condemned.
LEMMA RecolorKeeps ==
  ASSUME IInv, SInv, UNCHANGED heap, UNCHANGED <<white, mmudata>>,
         \A o \in Obj : Live(o)' <=> Live(o),
         \A o \in Obj : Dead(o)' <=> Dead(o),
         \A u \in Upvals : Open(u) => color'[u] # "black"
  PROVE  SafeClosed' /\ FreeIsEmpty' /\ OpenUpvalues'
<1> USE DEF SInv
<1>1. \A o \in Obj : Safe(o)' <=> Safe(o)
  BY DEF Safe
<1>2. mmudata \subseteq Obj /\ Main \in Obj
  BY Kinds DEF IInv, ListTypes
<1>3. \A o \in Obj : Refs(o)' = Refs(o) /\ Refs(o) \subseteq Obj
  BY ContentsKept, ContentsTypes
<1>4. SafeClosed'
  BY <1>1, <1>2, <1>3 DEF SafeClosed
<1>5. FreeIsEmpty'
  <2>1. \A t \in Threads : OnStack(t)' = OnStack(t)
    BY ContentsKept
  <2> QED
    BY <2>1, Kinds DEF FreeIsEmpty, Live, heap
<1>6. OpenUpvalues'
  <2> SUFFICES ASSUME NEW u \in Upvals, Open(u)'
               PROVE  /\ Live(u)' /\ color'[u] # "black" /\ ref'[u] = {}
                      /\ Live(home[u][1])'
    BY DEF OpenUpvalues
  <2>1. Open(u) /\ home' = home /\ ref' = ref
    BY ContentsKept DEF heap
  <2>2. home[u][1] \in Obj
    BY <2>1, Kinds DEF IInv, HomeTypes
  <2> QED
    BY <2>1, <2>2, Kinds DEF OpenUpvalues
<1> QED
  BY <1>4, <1>5, <1>6

LEMMA MarkStartSInv ==
  ASSUME IInv, SInv, MarkStart
  PROVE  SInv'
<1> USE DEF IInv, SInv
<1>1. /\ phase = "pause" /\ phase' = "propagate"
      /\ color' = [color EXCEPT ![Main] = IF White(Main) THEN "gray" ELSE @]
      /\ gray' = (IF White(Main) THEN {Main} ELSE {}) /\ grayagain' = {} /\ weak' = {}
      /\ UNCHANGED <<full, white, finalized, ahead, mmudata, sweep, heap>>
  BY DEF MarkStart
<1>2. ~Marking /\ ~Sweeping /\ Marking' /\ ~Sweeping'
  BY <1>1 DEF Marking, Sweeping
<1>3. Main \in Obj /\ Main \notin mmudata /\ Main \notin Upvals /\ Main \notin Udata
  BY Kinds DEF ListTypes
<1>4. \A o \in Obj \ mmudata : Live(o) => color[o] = white
  BY <1>2 DEF SweepCovers, SweepListed
<1>5. White(Main)
  BY <1>3, <1>4 DEF SafeClosed, Safe, White, CollectorTypes
<1>6. color'[Main] = "gray" /\ \A o \in Obj : o # Main => color'[o] = color[o]
  BY <1>1, <1>3, <1>5 DEF CollectorTypes
<1>7. \A o \in Obj : ~Dead(o) /\ ~Dead(o)'
  BY <1>1, <1>2, <1>6, Whites DEF NoneDead, Dead, CollectorTypes
<1>8. \A o \in Obj : Live(o)' <=> Live(o)
  BY <1>5, <1>6 DEF Live, White
<1>9. SafeClosed' /\ FreeIsEmpty' /\ OpenUpvalues'
  BY <1>1, <1>3, <1>6, <1>7, <1>8, RecolorKeeps, Kinds DEF OpenUpvalues
<1>10. NoneDead'
  BY <1>7 DEF NoneDead
<1>11. KindColors'
  BY <1>3, <1>6, Kinds DEF KindColors
<1>12. SweepCovers' /\ SweepListed'
  BY <1>1, <1>2 DEF SweepCovers, SweepListed
<1>13. \A o \in Obj : o # Main /\ o \notin mmudata => color'[o] \notin {"gray", "black"}
  BY <1>4, <1>6, Whites DEF CollectorTypes, Live
<1>14. GraysListed'
  BY <1>1, <1>5, <1>6, <1>13 DEF GraysListed, Gray, KindColors, ListTypes
<1>15. ListedLive' /\ MainMarked'
  BY <1>1, <1>6, Kinds DEF ListedLive, MainMarked, Live, White, Traversed
<1>16. TriColor'
  BY <1>1, <1>6, <1>13 DEF TriColor, Black
<1> QED
  BY <1>9, <1>10, <1>11, <1>12, <1>14, <1>15, <1>16

LEMMA PropagateSInv ==
  ASSUME IInv, SInv, Propagate
  PROVE  SInv'
<1> USE DEF IInv, SInv
<1>1. /\ phase = "propagate"
      /\ UNCHANGED <<phase, full, white, finalized, ahead, mmudata, sweep, heap>>
  BY DEF Propagate
<1>2. PICK o : /\ o \in gray
               /\ LET M == Marked(Strong(o))
                  IN  /\ color' = [x \in Obj |->
                                     IF x \in M THEN MarkColor(x)
                                     ELSE IF x = o /\ o \in Tables \cup Funcs THEN "black"
                                     ELSE color[x]]
                      /\ gray' = (gray \ {o}) \cup (M \cap Traversed)
                      /\ grayagain' = IF o \in Threads THEN grayagain \cup {o} ELSE grayagain
                      /\ weak' = IF o \in Weaks THEN weak \cup {o} ELSE weak
  BY DEF Propagate
<1> DEFINE M == Marked(Strong(o))
<1>3. /\ color' = [x \in Obj |->
                     IF x \in M THEN MarkColor(x)
                     ELSE IF x = o /\ o \in Tables \cup Funcs THEN "black"
                     ELSE color[x]]
      /\ gray' = (gray \ {o}) \cup (M \cap Traversed)
      /\ grayagain' = IF o \in Threads THEN grayagain \cup {o} ELSE grayagain
      /\ weak' = IF o \in Weaks THEN weak \cup {o} ELSE weak
  BY <1>2
<1>4. Marking /\ Marking' /\ ~Sweeping /\ ~Sweeping'
  BY <1>1 DEF Marking, Sweeping
<1>5. o \in Obj /\ Live(o) /\ Strong(o) \subseteq Obj
  BY <1>2, <1>4, ContentsTypes DEF ListTypes, ListedLive
<1>6. /\ \A x \in M : x \in Obj /\ White(x)
      /\ \A x \in Strong(o) : White(x) => x \in M
      /\ \A x \in M \cap (Udata \cup Upvals) : \A v \in Strong(x) : White(v) => v \in M
  BY <1>5, MarkedFacts
<1> HIDE DEF M
<1>7. \A x \in Obj : /\ x \in M => color'[x] = MarkColor(x)
                     /\ x \notin M => \/ x = o /\ o \in Tables \cup Funcs /\ color'[x] = "black"
                                      \/ color'[x] = color[x]
  BY <1>3
<1>8. \A x \in Obj : Live(x)' <=> Live(x)
  BY <1>5, <1>6, <1>7, MarkColors DEF Live, White
<1>9. \A x \in Obj : ~Dead(x) /\ ~Dead(x)'
  BY <1>1, <1>4, <1>7, MarkColors, Whites DEF NoneDead, Dead, CollectorTypes
<1>10. \A u \in Upvals : Open(u) => color'[u] # "black"
  <2>1. \A u \in Upvals : Open(u) => MarkColor(u) = "gray"
    BY Kinds DEF MarkColor
  <2> QED
    BY <1>7, <2>1, Kinds DEF OpenUpvalues
<1>11. SafeClosed' /\ FreeIsEmpty' /\ OpenUpvalues'
  BY <1>1, <1>8, <1>9, <1>10, RecolorKeeps
<1>12. NoneDead'
  BY <1>9 DEF NoneDead
<1>13. KindColors'
  <2>1. /\ \A t \in Threads : MarkColor(t) = "gray"
        /\ \A u \in Udata : MarkColor(u) = "black"
    BY Kinds DEF MarkColor
  <2>2. \A t \in Threads : color'[t] # "black"
    BY <1>7, <2>1, Kinds DEF KindColors
  <2>3. \A u \in Udata : color'[u] # "gray"
    BY <1>7, <2>1, Kinds DEF KindColors
  <2> QED
    BY <2>2, <2>3 DEF KindColors
<1>14. SweepCovers' /\ SweepListed'
  BY <1>1, <1>4 DEF SweepCovers, SweepListed
<1>15. \A x \in Obj : White(x)' => White(x) /\ x \notin M
  BY <1>7, MarkColors DEF White
<1>16. GraysListed'
  <2> SUFFICES ASSUME NEW x \in Obj, Gray(x)'
               PROVE  \/ x \in gray' \cup grayagain' \cup weak' \cup Strs
                      \/ x \in Upvals /\ Open(x)'
    BY DEF GraysListed
  <2>1. Open(x)' <=> Open(x)
    BY <1>1, ContentsKept
  <2>2. CASE x \in M
    <3>1. MarkColor(x) = "gray"
      BY <1>7, <2>2 DEF Gray
    <3>2. x \in Traversed \cup Strs \/ (x \in Upvals /\ Open(x))
      BY <3>1 DEF MarkColor, Traversed, Obj
    <3> QED
      BY <1>3, <2>1, <2>2, <3>2
  <2>3. CASE x \notin M
    <3>1. color'[x] = color[x] /\ ~(x = o /\ o \in Tables \cup Funcs)
      BY <1>3, <2>3 DEF Gray
    <3>2. Gray(x)
      BY <3>1 DEF Gray
    <3>3. CASE x # o
      BY <1>3, <1>4, <2>1, <3>2, <3>3 DEF GraysListed
    <3>4. CASE x = o
      <4>1. x \in Threads \cup Weaks
        BY <1>2, <1>4, <3>1, <3>4 DEF ListedLive, Traversed
      <4> QED
        BY <1>3, <3>4, <4>1
    <3> QED
      BY <3>3, <3>4
  <2> QED
    BY <2>2, <2>3
<1>17. ListedLive'
  <2>1. gray' \subseteq Traversed
    BY <1>3, <1>4 DEF ListedLive
  <2>2. \A x \in gray \cup grayagain \cup weak : x \in Obj /\ Live(x)
    BY <1>4, Kinds DEF ListedLive, ListTypes
  <2>3. \A x \in M : x \in Obj /\ Live(x)
    BY <1>6 DEF Live, White
  <2>4. \A x \in gray' \cup grayagain' \cup weak' : x \in Obj /\ Live(x)
    BY <1>3, <1>5, <2>2, <2>3
  <2> QED
    BY <1>8, <2>1, <2>4 DEF ListedLive
<1>18. MainMarked'
  BY <1>4, <1>15, Kinds DEF MainMarked
<1>19. TriColor'
  <2> SUFFICES ASSUME NEW x \in Obj \ mmudata, Black(x)', NEW v \in Strong(x)', White(v)'
               PROVE  FALSE
    BY <1>1 DEF TriColor
  <2>1. v \in Strong(x) /\ v \in Obj
    BY <1>1, ContentsKept, ContentsTypes
  <2>2. White(v) /\ v \notin M
    BY <1>15, <2>1
  <2>3. CASE x \in M
    <3>1. x \in Udata \cup Upvals
      BY <1>7, <2>3 DEF Black, MarkColor
    <3> QED
      BY <1>6, <2>1, <2>2, <2>3, <3>1
  <2>4. CASE x \notin M /\ x = o
    BY <1>6, <2>1, <2>2, <2>4
  <2>5. CASE x \notin M /\ x # o
    BY <1>4, <1>7, <2>1, <2>2, <2>5 DEF TriColor, Black
  <2> QED
    BY <2>3, <2>4, <2>5
<1> QED
  BY <1>11, <1>12, <1>13, <1>14, <1>16, <1>17, <1>18, <1>19

LEMMA EndPropagateSInv ==
  ASSUME IInv, SInv, EndPropagate
  PROVE  SInv'
<1> USE DEF IInv, SInv
<1>1. /\ phase = "propagate" /\ phase' = "atomic"
      /\ UNCHANGED <<full, white, color, finalized, ahead, gray, grayagain, weak, mmudata, sweep, heap>>
  BY DEF EndPropagate, lists
<1>2. Marking /\ Marking' /\ ~Sweeping /\ ~Sweeping'
  BY <1>1 DEF Marking, Sweeping
<1>3. \A o : /\ (Live(o)' <=> Live(o)) /\ (Dead(o)' <=> Dead(o))
             /\ (Gray(o)' <=> Gray(o)) /\ (White(o)' <=> White(o)) /\ (Black(o)' <=> Black(o))
  BY <1>1 DEF Live, Dead, Gray, White, Black
<1>4. SafeClosed' /\ FreeIsEmpty' /\ OpenUpvalues'
  BY <1>1, <1>3, RecolorKeeps DEF OpenUpvalues
<1>5. NoneDead' /\ KindColors'
  BY <1>1, <1>2, <1>3 DEF NoneDead, KindColors
<1>6. SweepCovers' /\ SweepListed'
  BY <1>1, <1>2 DEF SweepCovers, SweepListed
<1>7. GraysListed'
  BY <1>1, <1>2, <1>3, ContentsKept DEF GraysListed
<1>8. ListedLive' /\ MainMarked'
  BY <1>1, <1>2, <1>3 DEF ListedLive, MainMarked
<1>9. TriColor'
  BY <1>1, <1>2, <1>3, ContentsKept DEF TriColor
<1> QED
  BY <1>4, <1>5, <1>6, <1>7, <1>8, <1>9

\* What is to be swept after the marking is all there is, but for the open
\* upvalues, which hang off a thread that is there, and the userdata set apart.
LEMMA ListedCovers ==
  ASSUME IInv, OpenUpvalues, NEW mm \in SUBSET Udata,
         NEW o \in Obj \ mm, Live(o)
  PROVE  o \in Listed(mm) \/ (o \in Upvals /\ Open(o) /\ home[o][1] \in Listed(mm))
<1>1. CASE o \in Upvals /\ Open(o)
  <2>1. home[o][1] \in Threads /\ Live(home[o][1])
    BY <1>1 DEF IInv, HomeTypes, OpenUpvalues
  <2>2. home[o][1] \in Obj /\ home[o][1] \notin Upvals /\ home[o][1] \notin mm
    BY <2>1, Kinds
  <2> QED
    BY <1>1, <2>1, <2>2 DEF Listed
<1>2. CASE ~(o \in Upvals /\ Open(o))
  BY <1>2 DEF Listed
<1> QED
  BY <1>1, <1>2

LEMMA FullGCSInv ==
  ASSUME IInv, SInv, FullGC
  PROVE  SInv'
<1> USE DEF IInv, SInv
<1>1. UNCHANGED <<white, color, finalized, ahead, mmudata, heap>>
  BY DEF FullGC
<1>2. \/ /\ phase \in {"pause", "propagate", "atomic"} /\ phase' = "sweepstring"
         /\ sweep' = Listed(mmudata)
      \/ /\ phase \in {"sweepstring", "sweep"} /\ phase' = phase /\ sweep' = sweep
      \/ /\ phase = "finalize" /\ phase' = "pause" /\ sweep' = sweep
  BY DEF FullGC, CollectorTypes
<1>3. ~Marking'
  BY <1>2 DEF Marking
<1>4. \A o : (Live(o)' <=> Live(o)) /\ (Dead(o)' <=> Dead(o)) /\ (Open(o)' <=> Open(o))
  BY <1>1 DEF Live, Dead, Open, heap
<1>5. SafeClosed' /\ FreeIsEmpty' /\ OpenUpvalues'
  BY <1>1, <1>4, RecolorKeeps DEF OpenUpvalues
<1>6. NoneDead' /\ KindColors'
  BY <1>1, <1>2, <1>4 DEF NoneDead, KindColors, Sweeping
<1>7. GraysListed' /\ ListedLive' /\ MainMarked' /\ TriColor'
  BY <1>3 DEF GraysListed, ListedLive, MainMarked, TriColor
<1>8. SweepCovers' /\ SweepListed'
  <2>1. CASE phase' = "sweepstring" /\ sweep' = Listed(mmudata)
    <3>1. mmudata \subseteq Udata
      BY DEF ListTypes
    <3>2. SweepCovers'
      BY <1>1, <1>4, <2>1, <3>1, ListedCovers DEF SweepCovers, heap
    <3>3. SweepListed'
      BY <1>4, <2>1 DEF SweepListed, Sweeping, Listed
    <3> QED
      BY <3>2, <3>3
  <2>2. CASE sweep' = sweep /\ phase \notin {"pause", "propagate", "atomic"}
    <3>1. ~Marking
      BY <2>2 DEF Marking
    <3>2. SweepCovers'
      BY <1>1, <1>4, <2>2, <3>1 DEF SweepCovers, heap
    <3>3. SweepListed'
      BY <1>2, <1>4, <2>2 DEF SweepListed, Sweeping
    <3> QED
      BY <3>2, <3>3
  <2> QED
    BY <1>2, <2>1, <2>2
<1> QED
  BY <1>5, <1>6, <1>7, <1>8

-----------------------------------------------------------------------------
(* Changes to the contents of objects.                                     *)

\* Safe objects stay so, and what they come to refer to is safe.
LEMMA SafeGrows ==
  ASSUME IInv, SafeClosed, mmudata' \subseteq mmudata,
         \A x \in Obj : Safe(x) => Safe(x)',
         \A x \in Obj : Safe(x)' =>
           \A v \in Refs(x)' : Safe(v)' \/ (Safe(x) /\ v \in Refs(x))
  PROVE  SafeClosed'
<1>1. mmudata \subseteq Obj /\ Main \in Obj
  BY Kinds DEF IInv, ListTypes
<1>2. \A x \in Obj : Refs(x) \subseteq Obj
  BY ContentsTypes
<1>3. ASSUME NEW x \in Obj, Safe(x)', NEW v \in Refs(x)'
      PROVE  Safe(v)'
  BY <1>2, <1>3 DEF SafeClosed
<1> QED
  BY <1>1, <1>3 DEF SafeClosed

LEMMA StackWrite ==
  ASSUME StackTypes, HomeTypes, NEW c \in Threads, NEW s \in Slots(c), NEW v,
         stack' = [stack EXCEPT ![c][s] = v]
  PROVE  /\ \A t \in Threads : OnStack(t)' \subseteq OnStack(t) \cup ({v} \ {Nil})
         /\ \A t \in Threads : t # c => OnStack(t)' = OnStack(t)
         /\ \A u \in Upvals : home'[u] = home[u] /\ ref'[u] = ref[u] =>
              Value(u)' \subseteq Value(u) \cup ({v} \ {Nil})
<1>1. \A t \in Threads : stack'[t] = IF t = c THEN [stack[c] EXCEPT ![s] = v] ELSE stack[t]
  BY DEF StackTypes
<1>2. \A t \in Threads : \A x \in Slots(t) : stack'[t][x] \in {stack[t][x], v}
  BY <1>1 DEF StackTypes
<1>3. \A t \in Threads : OnStack(t)' \subseteq OnStack(t) \cup ({v} \ {Nil})
  BY <1>2 DEF OnStack, Slots
<1>4. \A t \in Threads : t # c => OnStack(t)' = OnStack(t)
  BY <1>1 DEF OnStack, Slots
<1>5. ASSUME NEW u \in Upvals, home'[u] = home[u], ref'[u] = ref[u]
      PROVE  Value(u)' \subseteq Value(u) \cup ({v} \ {Nil})
  <2>1. Open(u)' <=> Open(u)
    BY <1>5 DEF Open
  <2>2. CASE Open(u)
    <3>1. stack'[home[u][1]][home[u][2]] \in {stack[home[u][1]][home[u][2]], v}
      BY <1>2, <2>2 DEF HomeTypes
    <3> QED
      BY <1>5, <2>1, <2>2, <3>1 DEF Value
  <2>3. CASE ~Open(u)
    BY <1>5, <2>1, <2>3 DEF Value
  <2> QED
    BY <2>2, <2>3
<1> QED
  BY <1>3, <1>4, <1>5

-----------------------------------------------------------------------------
(* The atomic step.                                                        *)

LEMMA AtomicSInv ==
  ASSUME IInv, SInv, Atomic
  PROVE  SInv'
<1> USE DEF IInv, SInv
<1> DEFINE W0 == {o \in Obj : White(o)}
           from == OpenGray \cup gray \cup grayagain \cup weak
           P0 == Propagated(from, W0)
           mm == mmudata \cup Separated(W0 \ P0)
           W1 == W0 \ (P0 \cup mm)
           P1 == Propagated(mm, W1)
           W2 == W1 \ P1
           kept == weak \cup ((gray \cup (P0 \cup P1)) \cap Weaks)
           fin == finalized \cup mm
           strs == Strs \cap W2 \cap UNION {ref[o] : o \in kept}
           dead == W2 \ strs
<1>1. /\ phase = "atomic" /\ phase' = "sweepstring" /\ white' = Other(white)
      /\ mmudata' = mm
      /\ color' = [o \in Obj |->
           IF o \in mm \/ (o \in gray \cup grayagain /\ o \in Tables \cup Funcs) THEN "black"
           ELSE IF o \in P0 \cup P1 THEN FinalColor(o)
           ELSE IF o \in strs THEN "gray" ELSE color[o]]
      /\ ref' = [o \in Obj |->
           IF o \in kept THEN {v \in ref[o] : ~MayClear(v, W2, fin)} ELSE ref[o]]
      /\ sweep' = Listed(mm)
      /\ UNCHANGED <<stack, home>>
  BY DEF Atomic
<1>2. Marking /\ ~Sweeping /\ ~Marking' /\ Sweeping'
  BY <1>1 DEF Marking, Sweeping
<1>w. W0 = {o \in Obj : White(o)} /\ W0 \in SUBSET Obj
  OBVIOUS
<1>p. P0 = Propagated(from, W0) /\ P1 = Propagated(mm, W1) /\ W1 \in SUBSET Obj
  OBVIOUS
<1>m. mm = mmudata \cup Separated(W0 \ P0)
  OBVIOUS
<1>3. /\ from = OpenGray \cup gray \cup grayagain \cup weak
      /\ W1 = W0 \ (P0 \cup mm) /\ W2 = W1 \ P1 /\ dead = W2 \ strs
      /\ kept = weak \cup ((gray \cup (P0 \cup P1)) \cap Weaks)
      /\ \A x : x \in strs <=> x \in Strs /\ x \in W2 /\ \E o \in kept : x \in ref[o]
  OBVIOUS
<1> HIDE DEF W0, from, P0, mm, W1, P1, W2, kept, fin, strs, dead
<1>4. /\ P0 \subseteq W0
      /\ \A o \in from \cup P0 : Strong(o) \cap W0 \subseteq P0
  BY <1>w, <1>p, PropagatedFacts
<1>5. mm = mmudata \cup ((Udata \cap (W0 \ P0)) \ (finalized \cup mmudata))
  BY <1>m DEF Separated
<1>6. /\ P1 \subseteq W1
      /\ \A o \in mm \cup P1 : Strong(o) \cap W1 \subseteq P1
  BY <1>p, PropagatedFacts
<1>7. mm \subseteq Udata /\ mmudata \subseteq mm /\ mm \subseteq mmudata \cup W0
  BY <1>5 DEF ListTypes
<1>8. \A o \in Obj : o \in W0 => o \in mm \cup P0 \cup P1 \cup strs \cup dead
  BY <1>3
<1>9. \A o \in Obj : Dead(o)' => o \in dead
  <2> SUFFICES ASSUME NEW o \in Obj, Dead(o)' PROVE o \in dead
    OBVIOUS
  <2>1. color'[o] = white
    BY <1>1, Whites DEF Dead, CollectorTypes
  <2>2. o \notin mm \cup P0 \cup P1 \cup strs /\ color[o] = white
    BY <1>1, <2>1, Whites, MarkColors DEF CollectorTypes
  <2>3. o \in W0
    BY <1>w, <2>2 DEF White, CollectorTypes
  <2> QED
    BY <1>8, <2>2, <2>3
<1>10. \A o \in Obj : Live(o)' <=> Live(o)
  <2>1. \A o \in mm \cup P0 \cup P1 \cup strs : Live(o)
    <3>1. \A o \in W0 : Live(o)
      BY <1>w DEF White, Live
    <3>2. \A o \in mmudata : Live(o)
      BY DEF SafeClosed, Safe
    <3> QED
      BY <1>3, <1>4, <1>6, <1>7, <3>1, <3>2
  <2>2. \A o \in gray \cup grayagain : Live(o)
    BY <1>2 DEF ListedLive
  <2>3. \A o \in Obj : \/ o \in mm \cup P0 \cup P1 \cup strs \cup gray \cup grayagain
                          /\ color'[o] \in {"gray", "black"}
                       \/ color'[o] = color[o]
    BY <1>1, MarkColors
  <2> QED
    BY <2>1, <2>2, <2>3 DEF Live
<1>11. \A o \in Obj : ~Dead(o)
  BY <1>2 DEF NoneDead
<1>12. \A o \in Obj : /\ Refs(o)' \subseteq Refs(o) /\ Refs(o) \subseteq Obj
                      /\ o \notin Weaks => Refs(o) = Strong(o)
                      /\ o \in Weaks => Refs(o) = ref[o] /\ Refs(o)' = ref'[o]
                      /\ ref'[o] \subseteq ref[o]
  <2>1. \A o \in Obj : ref'[o] \subseteq ref[o]
    BY <1>1
  <2>2. \A t \in Threads : OnStack(t)' = OnStack(t)
    BY <1>1 DEF OnStack
  <2>3. \A u \in Upvals : Value(u)' \subseteq Value(u)
    BY <1>1, <2>1, Kinds DEF Value, Open
  <2> QED
    BY <2>1, <2>2, <2>3, Contents, ContentsNext, ContentsTypes
<1>13. \A o \in Obj : White(o) /\ Safe(o)' => o \in mm \cup P0 \cup P1 \cup strs \cup gray \cup grayagain
  <2>1. \A o \in Obj : o \in dead /\ o \notin gray \cup grayagain => color'[o] = color[o]
    <3>1. \A o \in dead : o \notin mm \cup P0 \cup P1 \cup strs
      BY <1>3
    <3> QED
      BY <1>1, <3>1
  <2>2. \A o \in Obj : White(o) => color[o] = white
    BY <1>11, Whites DEF White, Dead, CollectorTypes, Other
  <2>3. \A o \in Obj : color'[o] = white => ~Safe(o)'
    BY <1>1, Whites DEF Safe, Dead, CollectorTypes
  <2> QED
    BY <1>w, <1>8, <2>1, <2>2, <2>3
<1>14. ASSUME NEW o \in Obj, Safe(o)', NEW v \in Refs(o)'
       PROVE  v \notin dead
  <2>1. v \in Refs(o) /\ v \in Obj
    BY <1>12
  <2>2. Live(o) /\ (White(o) \/ Gray(o) \/ Black(o))
    BY <1>10, <1>14 DEF Safe, Live, White, Gray, Black, CollectorTypes, Colors
  <2>3. CASE o \in Weaks
    <3>1. o \in kept
      <4>1. o \notin mm /\ o \notin Strs /\ o \notin grayagain /\ o \notin Upvals /\ ~Black(o)
        BY <1>7, <2>3, Kinds DEF ListTypes, CollectorTypes, Black
      <4>2. CASE White(o)
        BY <1>3, <1>13, <1>14, <2>3, <4>1, <4>2
      <4>3. CASE Gray(o)
        BY <1>2, <1>3, <2>3, <4>1, <4>3 DEF GraysListed
      <4> QED
        BY <2>2, <4>1, <4>2, <4>3
    <3>2. ~MayClear(v, W2, fin) /\ v \in ref[o]
      BY <1>1, <1>12, <1>14, <2>3, <3>1
    <3> QED
      BY <1>3, <3>1, <3>2 DEF MayClear
  <2>4. CASE o \in Strs
    BY <2>1, <2>4, Contents, Kinds DEF FreeIsEmpty
  <2>5. CASE o \notin Weaks \cup Strs
    <3>1. v \in Strong(o)
      BY <1>12, <2>1, <2>5
    <3>2. o \in from \cup P0 => v \notin dead
      BY <1>3, <1>4, <3>1
    <3>3. o \in mm \cup P1 => v \notin dead
      BY <1>3, <1>6, <3>1
    <3>4. CASE White(o)
      BY <1>3, <1>13, <1>14, <2>5, <3>2, <3>3, <3>4
    <3>5. CASE Gray(o)
      BY <1>2, <1>3, <2>5, <3>2, <3>5 DEF GraysListed, OpenGray
    <3>6. CASE Black(o) /\ o \notin mm
      BY <1>2, <1>3, <1>6, <1>w, <1>7, <3>1, <3>6 DEF TriColor
    <3> QED
      BY <2>2, <3>3, <3>4, <3>5, <3>6
  <2> QED
    BY <2>3, <2>4, <2>5
<1>15. SafeClosed'
  <2>1. \A o \in Obj : Live(o) /\ o \notin dead => Safe(o)'
    BY <1>9, <1>10 DEF Safe
  <2>2. Main \in Obj /\ Main \notin dead /\ Live(Main)
    BY <1>2, <1>3, <1>w, Kinds DEF MainMarked, SafeClosed, Safe
  <2>3. \A o \in mm : o \in Obj /\ Live(o) /\ o \notin dead
    <3>1. \A o \in mm : o \in Obj /\ color'[o] = "black"
      BY <1>1, <1>7, Kinds
    <3> QED
      BY <1>3, <1>10, <3>1 DEF Live
  <2>4. ASSUME NEW o \in Obj, Safe(o)', NEW v \in Refs(o)'
        PROVE  Safe(v)'
    <3>1. Safe(o)
      BY <1>10, <1>11, <2>4 DEF Safe
    <3>2. v \in Obj /\ Live(v)
      BY <1>12, <3>1 DEF SafeClosed, Safe
    <3> QED
      BY <1>14, <2>1, <2>4, <3>2
  <2> QED
    BY <1>1, <2>1, <2>2, <2>3, <2>4 DEF SafeClosed
<1>16. FreeIsEmpty'
  <2>1. \A t \in Threads : OnStack(t)' = OnStack(t)
    BY <1>1 DEF OnStack
  <2> QED
    BY <1>10, <1>12, <2>1, Kinds DEF FreeIsEmpty, Live
<1>17. OpenUpvalues'
  <2> SUFFICES ASSUME NEW u \in Upvals, Open(u)
               PROVE  /\ Live(u)' /\ color'[u] # "black" /\ ref'[u] = {}
                      /\ Live(home[u][1])'
    BY <1>1 DEF OpenUpvalues, Open
  <2>1. u \in Obj /\ u \notin mm /\ u \notin Tables \cup Funcs /\ u \notin strs
    BY <1>3, <1>7, Kinds
  <2>2. FinalColor(u) = "gray"
    BY <2>1, Kinds DEF FinalColor, MarkColor, Open
  <2>3. color'[u] # "black"
    BY <1>1, <2>1, <2>2 DEF OpenUpvalues
  <2>4. home[u][1] \in Obj
    BY Kinds DEF HomeTypes
  <2> QED
    BY <1>10, <1>12, <2>1, <2>3, <2>4 DEF OpenUpvalues
<1>18. KindColors'
  <2>1. \A t \in Threads : FinalColor(t) = "gray" /\ t \notin mm /\ t \notin strs
    BY <1>3, <1>7, Kinds DEF FinalColor, MarkColor
  <2>2. \A t \in Threads : color'[t] # "black"
    BY <1>1, <2>1, Kinds DEF KindColors
  <2>3. \A u \in Udata : FinalColor(u) = "black" /\ u \notin strs
    BY <1>3, Kinds DEF FinalColor, MarkColor
  <2>4. \A u \in Udata : color'[u] # "gray"
    BY <1>1, <2>3, Kinds DEF KindColors
  <2> QED
    BY <2>2, <2>4 DEF KindColors
<1>19. SweepCovers' /\ SweepListed'
  <2>1. SweepCovers'
    <3> SUFFICES ASSUME NEW o \in Obj \ mm, Live(o)
                 PROVE  o \in sweep' \/ (o \in Upvals /\ Open(o)' /\ home'[o][1] \in sweep')
      BY <1>1, <1>10 DEF SweepCovers
    <3> QED
      BY <1>1, <1>7, ListedCovers DEF Open
  <2>2. SweepListed'
    BY <1>1, <1>2, <1>10 DEF SweepListed, Listed, Open
  <2> QED
    BY <2>1, <2>2
<1>20. NoneDead' /\ GraysListed' /\ ListedLive' /\ MainMarked' /\ TriColor'
  BY <1>2 DEF NoneDead, GraysListed, ListedLive, MainMarked, TriColor
<1> QED
  BY <1>15, <1>16, <1>17, <1>18, <1>19, <1>20

-----------------------------------------------------------------------------
(* The sweep and the finalizers.                                           *)

\* The invariant holds of the marking when there is none.
LEMMA NotMarking ==
  ASSUME ~Marking'
  PROVE  GraysListed' /\ ListedLive' /\ MainMarked' /\ TriColor'
  BY DEF GraysListed, ListedLive, MainMarked, TriColor

LEMMA SweepStringSInv ==
  ASSUME IInv, SInv, SweepString
  PROVE  SInv'
<1> USE DEF IInv, SInv
<1>1. /\ phase = "sweepstring" /\ phase' \in {"sweepstring", "sweep"}
      /\ UNCHANGED <<full, white, finalized, ahead, lists, mmudata, heap>>
      /\ \/ color' = color /\ sweep' = sweep
         \/ \E o \in sweep \cap Strs :
              /\ color' = [color EXCEPT ![o] = IF Dead(o) THEN "free" ELSE white]
              /\ sweep' = sweep \ {o}
  BY DEF SweepString
<1>2. ~Marking /\ ~Marking' /\ Sweeping /\ Sweeping'
  BY <1>1 DEF Marking, Sweeping
<1>3. /\ sweep' \subseteq sweep /\ sweep \subseteq Obj
      /\ \A x \in sweep \ sweep' : x \in Strs
      /\ \A x \in Obj : \/ color'[x] = color[x] /\ (x \in sweep => x \in sweep')
                        \/ /\ x \in Strs /\ x \notin sweep' /\ Live(x)
                           /\ \/ Dead(x) /\ color'[x] = "free"
                              \/ ~Dead(x) /\ color'[x] = white
  <2>1. CASE color' = color /\ sweep' = sweep
    BY <2>1 DEF ListTypes
  <2>2. ASSUME NEW o \in sweep \cap Strs,
               color' = [color EXCEPT ![o] = IF Dead(o) THEN "free" ELSE white],
               sweep' = sweep \ {o}
        PROVE  <1>3!:
    <3>1. \A x \in Obj : x # o => color'[x] = color[x]
      BY <2>2 DEF CollectorTypes
    <3>2. Live(o) /\ o \in Obj /\ color'[o] = IF Dead(o) THEN "free" ELSE white
      BY <2>2, Kinds DEF SweepListed, CollectorTypes
    <3> QED
      BY <2>2, <3>1, <3>2 DEF ListTypes
  <2> QED
    BY <1>1, <2>1, <2>2
<1>4. \A x \in Obj : Safe(x)' <=> Safe(x)
  BY <1>1, <1>3, Whites DEF Safe, Live, Dead, CollectorTypes
<1>5. \A x : x \in Obj => Refs(x)' = Refs(x) /\ (Open(x)' <=> Open(x))
  BY <1>1, ContentsKept
<1>6. SafeClosed'
  BY <1>1, <1>4, <1>5, SafeGrows
<1>7. FreeIsEmpty'
  <2>1. \A t \in Threads : OnStack(t)' = OnStack(t) /\ color'[t] = color[t]
    BY <1>1, <1>3, ContentsKept, Kinds
  <2>2. ref' = ref
    BY <1>1 DEF heap
  <2>3. \A x \in Obj : color'[x] = "free" => x \in Strs \/ color[x] = "free"
    BY <1>3
  <2> QED
    BY <2>1, <2>2, <2>3 DEF FreeIsEmpty
<1>8. OpenUpvalues' /\ KindColors'
  <2>1. \A x \in Obj : x \notin Strs => color'[x] = color[x] /\ (Live(x)' <=> Live(x))
    BY <1>3 DEF Live
  <2>2. KindColors'
    BY <2>1, Kinds DEF KindColors
  <2>3. \A u \in Upvals : Open(u) => home[u][1] \in Obj /\ home[u][1] \notin Strs
    BY Kinds DEF HomeTypes
  <2>4. OpenUpvalues'
    BY <1>1, <1>5, <2>1, <2>3, Kinds DEF OpenUpvalues, heap
  <2> QED
    BY <2>2, <2>4
<1>9. SweepCovers'
  <2> SUFFICES ASSUME NEW o \in Obj \ mmudata, Live(o)', color'[o] # white
               PROVE  o \in sweep' \/ (o \in Upvals /\ Open(o)' /\ home'[o][1] \in sweep')
    BY <1>1 DEF SweepCovers
  <2>1. color'[o] = color[o] /\ (o \in sweep => o \in sweep') /\ Live(o)
    BY <1>3 DEF Live
  <2>2. o \in sweep \/ (o \in Upvals /\ Open(o) /\ home[o][1] \in sweep)
    BY <1>2, <2>1 DEF SweepCovers
  <2>3. o \in Upvals /\ Open(o) => home[o][1] \notin Strs
    BY Kinds DEF HomeTypes
  <2> QED
    BY <1>1, <1>3, <1>5, <2>1, <2>2, <2>3 DEF heap
<1>10. SweepListed'
  <2>1. \A x \in sweep' : x \in Obj /\ color'[x] = color[x]
    BY <1>3
  <2> QED
    BY <1>2, <1>3, <1>5, <2>1 DEF SweepListed, Live
<1>11. NoneDead'
  BY <1>2 DEF NoneDead
<1> QED
  BY <1>2, <1>6, <1>7, <1>8, <1>9, <1>10, <1>11, NotMarking

LEMMA FinalizeSInv ==
  ASSUME IInv, SInv, Finalize
  PROVE  SInv'
<1> USE DEF IInv, SInv
<1>1. /\ phase = "finalize" /\ phase' \in {"finalize", "pause"}
      /\ UNCHANGED <<white, sweep, ref, home>>
  BY DEF Finalize
<1>2. ~Marking /\ ~Marking' /\ ~Sweeping /\ ~Sweeping'
  BY <1>1 DEF Marking, Sweeping
<1>3. ASSUME NEW o \in mmudata, mmudata' = mmudata \ {o},
             color' = [color EXCEPT ![o] = white],
             stack' = [stack EXCEPT ![Main][0] = o]
      PROVE  SInv'
  <2>1. o \in Udata /\ o \in Obj /\ Safe(o)
    BY Kinds DEF ListTypes, SafeClosed
  <2>2. color'[o] = white /\ \A x \in Obj : x # o => color'[x] = color[x]
    BY <1>3, <2>1 DEF CollectorTypes
  <2>3. \A x \in Obj : (Live(x)' <=> Live(x)) /\ ~Dead(x) /\ ~Dead(x)'
    BY <1>1, <1>2, <2>1, <2>2, Whites DEF Safe, Live, Dead, NoneDead, CollectorTypes
  <2>4. Main \in Threads /\ 0 \in Slots(Main)
    BY DepthAssumption, Kinds DEF Slots
  <2>5. /\ \A t \in Threads : OnStack(t)' \subseteq OnStack(t) \cup {o}
        /\ \A t \in Threads : t # Main => OnStack(t)' = OnStack(t)
        /\ \A u \in Upvals : Value(u)' \subseteq Value(u) \cup {o}
    BY <1>1, <1>3, <2>4, StackWrite
  <2>6. SafeClosed'
    <3>1. \A x \in Obj : Refs(x)' \subseteq Refs(x) \cup {o}
      BY <1>1, <2>5, Contents, ContentsNext
    <3>2. \A x \in Obj : Safe(x)' <=> Safe(x)
      BY <2>3 DEF Safe
    <3> QED
      BY <1>3, <2>1, <3>1, <3>2, SafeGrows
  <2>7. FreeIsEmpty'
    <3>1. Main \in Obj /\ Live(Main)
      BY Kinds DEF SafeClosed, Safe
    <3> QED
      BY <1>1, <2>3, <2>5, <3>1, Kinds DEF FreeIsEmpty, Live
  <2>8. OpenUpvalues'
    <3>1. \A u \in Upvals : /\ (Open(u)' <=> Open(u)) /\ color'[u] = color[u] /\ u \in Obj
                            /\ Open(u) => home[u][1] \in Obj
      BY <1>1, <2>1, <2>2, Kinds DEF Open, HomeTypes
    <3> QED
      BY <1>1, <2>3, <3>1 DEF OpenUpvalues
  <2>9. KindColors'
    BY <2>1, <2>2, Kinds, Whites DEF KindColors, CollectorTypes
  <2>10. SweepCovers' /\ SweepListed'
    BY <1>1, <1>2, <1>3, <2>2, <2>3 DEF SweepCovers, SweepListed, Open
  <2>11. NoneDead'
    BY <2>3 DEF NoneDead
  <2> QED
    BY <1>2, <2>6, <2>7, <2>8, <2>9, <2>10, <2>11, NotMarking
<1>4. ASSUME UNCHANGED <<mmudata, color, stack>>
      PROVE  SInv'
  <2>1. \A x : /\ (Live(x)' <=> Live(x)) /\ (Dead(x)' <=> Dead(x)) /\ (Open(x)' <=> Open(x))
    BY <1>1, <1>4 DEF Live, Dead, Open
  <2>2. SafeClosed' /\ FreeIsEmpty' /\ OpenUpvalues'
    BY <1>1, <1>4, <2>1, RecolorKeeps DEF OpenUpvalues, heap
  <2>3. NoneDead' /\ KindColors'
    BY <1>2, <1>4, <2>1 DEF NoneDead, KindColors
  <2>4. SweepCovers' /\ SweepListed'
    BY <1>1, <1>2, <1>4, <2>1 DEF SweepCovers, SweepListed
  <2> QED
    BY <1>2, <2>2, <2>3, <2>4, NotMarking
<1> QED
  BY <1>3, <1>4 DEF Finalize

LEMMA SweepSInv ==
  ASSUME IInv, SInv, Sweep
  PROVE  SInv'
<1> USE DEF IInv, SInv
<1>1. phase = "sweep" /\ UNCHANGED <<white, lists, mmudata>>
  BY DEF Sweep
<1>2. PICK o \in sweep :
       LET uvs  == IF o \in Threads THEN OpenOf(o) ELSE {}
           dead == {x \in {o} \cup uvs : Dead(x)}
           left == IF o \in dead THEN uvs \ dead ELSE {}
       IN  /\ color' = [x \in Obj |-> IF x \in dead THEN "free"
                                      ELSE IF x \in {o} \cup uvs THEN white ELSE color[x]]
           /\ ref' = [x \in Obj |-> IF x \in dead THEN {}
                                    ELSE IF x \in left THEN Value(x) ELSE ref[x]]
           /\ home' = [u \in Upvals |-> IF u \in dead \cup left THEN Closed ELSE home[u]]
           /\ stack' = [t \in Threads |-> IF t \in dead THEN EmptyStack(t) ELSE stack[t]]
           /\ finalized' = finalized \ dead
           /\ ahead' = {e \in ahead : e[1] \notin dead /\ e[2] \notin dead}
           /\ sweep' = sweep \ {o}
           /\ IF sweep' = {} THEN EndSweep ELSE UNCHANGED <<phase, full>>
  BY DEF Sweep
<1> DEFINE uvs  == IF o \in Threads THEN OpenOf(o) ELSE {}
           dead == {x \in {o} \cup uvs : Dead(x)}
           left == IF o \in dead THEN uvs \ dead ELSE {}
<1>3. /\ color' = [x \in Obj |-> IF x \in dead THEN "free"
                                 ELSE IF x \in {o} \cup uvs THEN white ELSE color[x]]
      /\ ref' = [x \in Obj |-> IF x \in dead THEN {}
                               ELSE IF x \in left THEN Value(x) ELSE ref[x]]
      /\ home' = [u \in Upvals |-> IF u \in dead \cup left THEN Closed ELSE home[u]]
      /\ stack' = [t \in Threads |-> IF t \in dead THEN EmptyStack(t) ELSE stack[t]]
      /\ sweep' = sweep \ {o}
      /\ IF sweep' = {} THEN phase' \in {"pause", "finalize"} ELSE phase' = "sweep"
  BY <1>1, <1>2 DEF EndSweep
<1>4. /\ o \in Obj /\ uvs \subseteq Upvals /\ uvs \subseteq Obj
      /\ \A u \in Upvals : u \in uvs <=> o \in Threads /\ Open(u) /\ home[u][1] = o
      /\ \A x : x \in dead <=> x \in {o} \cup uvs /\ Dead(x)
      /\ left \subseteq uvs \ dead
      /\ o \in dead => left = uvs \ dead
      /\ o \notin dead => left = {}
  BY Kinds DEF OpenOf, ListTypes
<1> HIDE DEF uvs, dead, left
<1>5. /\ \A x \in {o} \cup uvs : Live(x)
      /\ ~(o \in Upvals /\ Open(o))
  BY <1>4 DEF SweepListed, OpenUpvalues
<1>6. \A x \in Obj : /\ x \in dead => color'[x] = "free" /\ ref'[x] = {}
                     /\ x \in ({o} \cup uvs) \ dead => color'[x] = white
                     /\ x \notin {o} \cup uvs => color'[x] = color[x]
                     /\ x \in left => ref'[x] = Value(x)
                     /\ x \notin dead \cup left => ref'[x] = ref[x]
  BY <1>3, <1>4
<1>7. \A t \in Threads : /\ t \in dead => t = o /\ stack'[t] = EmptyStack(t) /\ OnStack(t)' = {}
                         /\ t \notin dead => stack'[t] = stack[t] /\ OnStack(t)' = OnStack(t)
  <2>1. \A t \in Threads : t \in dead => t = o
    BY <1>4, Kinds
  <2>2. \A t \in Threads : stack'[t] = IF t \in dead THEN EmptyStack(t) ELSE stack[t]
    BY <1>3
  <2>3. \A t \in Threads : t \in dead => OnStack(t)' = {}
    BY <2>2 DEF OnStack, EmptyStack, Slots
  <2>4. \A t \in Threads : t \notin dead => OnStack(t)' = OnStack(t)
    BY <2>2 DEF OnStack, Slots
  <2> QED
    BY <2>1, <2>2, <2>3, <2>4
<1>8. \A u \in Upvals : /\ u \in dead \cup left => ~Open(u)'
                        /\ u \notin dead \cup left => home'[u] = home[u] /\ (Open(u)' <=> Open(u))
  BY <1>3 DEF Open
<1>9. \A x \in Obj : Safe(x)' <=> Safe(x)
  BY <1>1, <1>4, <1>5, <1>6, Whites DEF Safe, Live, Dead, CollectorTypes
<1>10. \A u \in Upvals : u \notin dead => Value(u)' = Value(u)
  <2> SUFFICES ASSUME NEW u \in Upvals, u \notin dead
               PROVE  Value(u)' = Value(u)
    OBVIOUS
  <2>1. u \in Obj
    BY Kinds
  <2>2. CASE u \in left
    BY <1>6, <1>8, <2>1, <2>2 DEF Value
  <2>3. CASE u \notin left /\ Open(u)
    <3>1. home[u][1] \in Threads /\ home[u][1] \notin dead
      BY <1>4, <1>7, <2>3 DEF HomeTypes
    <3> QED
      BY <1>7, <1>8, <2>3, <3>1 DEF Value
  <2>4. CASE u \notin left /\ ~Open(u)
    BY <1>6, <1>8, <2>1, <2>4 DEF Value
  <2> QED
    BY <2>2, <2>3, <2>4
<1>11. SafeClosed'
  <2>1. \A x \in Obj : Safe(x) => x \notin dead
    BY <1>4 DEF Safe
  <2>2. ASSUME NEW x \in Obj, Safe(x)
        PROVE  Refs(x)' = Refs(x)
    <3>1. x \notin dead
      BY <2>1, <2>2
    <3>2. CASE x \in Threads
      BY <1>7, <3>1, <3>2, Contents, ContentsNext
    <3>3. CASE x \in Upvals
      BY <1>10, <3>1, <3>3, Contents, ContentsNext
    <3>4. CASE x \notin Threads \cup Upvals
      BY <1>4, <1>6, <3>1, <3>4, Contents, ContentsNext
    <3> QED
      BY <3>2, <3>3, <3>4
  <2> QED
    BY <1>1, <1>9, <2>2, SafeGrows
<1>12. FreeIsEmpty'
  <2>1. \A x \in Obj : color'[x] = "free" => x \in dead \/ color[x] = "free"
    BY <1>4, <1>6, Whites DEF CollectorTypes
  <2>2. \A x \in Obj : color[x] = "free" \/ x \in Strs => x \notin left
    BY <1>4, <1>5, Kinds DEF Live
  <2>3. \A t \in Threads : color'[t] = "free" => OnStack(t)' = {}
    BY <1>7, <2>1, Kinds DEF FreeIsEmpty
  <2> QED
    BY <1>6, <2>1, <2>2, <2>3 DEF FreeIsEmpty
<1>13. OpenUpvalues'
  <2> SUFFICES ASSUME NEW u \in Upvals, Open(u)'
               PROVE  /\ Live(u)' /\ color'[u] # "black" /\ ref'[u] = {}
                      /\ Live(home[u][1])'
    BY DEF OpenUpvalues
  <2>1. /\ u \in Obj /\ u \notin dead \cup left /\ Open(u) /\ home'[u] = home[u]
        /\ home[u][1] \in Threads /\ home[u][1] \in Obj
    BY <1>8, Kinds DEF HomeTypes
  <2>2. /\ Live(u) /\ color[u] # "black" /\ ref[u] = {} /\ Live(home[u][1])
    BY <2>1 DEF OpenUpvalues
  <2>3. Live(u)' /\ color'[u] # "black" /\ ref'[u] = {}
    BY <1>6, <2>1, <2>2, Whites DEF Live, CollectorTypes
  <2>4. home[u][1] \notin dead
    BY <1>4, <1>7, <2>1
  <2>5. color'[home[u][1]] # "free"
    BY <1>6, <2>1, <2>2, <2>4, Whites DEF Live, CollectorTypes
  <2> QED
    BY <2>1, <2>3, <2>5 DEF Live
<1>14. KindColors'
  BY <1>6, Kinds, Whites DEF KindColors, CollectorTypes
<1>15. ~Marking /\ ~Marking' /\ Sweeping
  BY <1>1, <1>3 DEF Marking, Sweeping
<1>16. SweepCovers'
  <2> SUFFICES ASSUME NEW x \in Obj \ mmudata, Live(x)', color'[x] # white
               PROVE  x \in sweep' \/ (x \in Upvals /\ Open(x)' /\ home'[x][1] \in sweep')
    BY <1>1 DEF SweepCovers
  <2>1. x \notin {o} \cup uvs /\ Live(x) /\ color[x] = color'[x]
    BY <1>4, <1>6 DEF Live
  <2>2. x \in sweep \/ (x \in Upvals /\ Open(x) /\ home[x][1] \in sweep)
    BY <1>15, <2>1 DEF SweepCovers
  <2>3. CASE x \in sweep
    BY <1>3, <2>1, <2>3
  <2>4. CASE x \in Upvals /\ Open(x) /\ home[x][1] \in sweep
    <3>1. home[x][1] # o
      BY <1>4, <2>1, <2>4 DEF HomeTypes
    <3>2. x \notin dead \cup left
      BY <1>4, <2>1
    <3> QED
      BY <1>3, <1>8, <2>4, <3>1, <3>2
  <2> QED
    BY <2>2, <2>3, <2>4
<1>17. SweepListed'
  <2>1. ~Sweeping' => sweep' = {}
    BY <1>3 DEF Sweeping
  <2>2. ASSUME NEW x \in sweep'
        PROVE  Live(x)' /\ ~(x \in Upvals /\ Open(x)')
    <3>1. x \in Obj /\ Live(x) /\ ~(x \in Upvals /\ Open(x)) /\ x # o
      BY <1>3, <2>2 DEF SweepListed, ListTypes
    <3>2. x \notin uvs /\ x \notin dead \cup left
      BY <1>4, <3>1
    <3> QED
      BY <1>6, <1>8, <3>1, <3>2 DEF Live
  <2> QED
    BY <2>1, <2>2 DEF SweepListed
<1>18. NoneDead'
  <2> SUFFICES ASSUME ~Sweeping', NEW x \in Obj, Dead(x)' PROVE FALSE
    BY DEF NoneDead
  <2>1. x \notin mmudata /\ Live(x)' /\ color'[x] # white
    BY <1>1, <1>11, Whites DEF SafeClosed, Safe, Dead, Live, CollectorTypes
  <2> QED
    BY <1>1, <1>15, <1>16, <1>17, <2>1 DEF SweepCovers, SweepListed
<1> QED
  BY <1>11, <1>12, <1>13, <1>14, <1>15, <1>16, <1>17, <1>18, NotMarking

-----------------------------------------------------------------------------
(* The program holds, and gets at, safe objects only.                      *)

LEMMA HeldIsSafe ==
  ASSUME IInv, SInv, NEW t \in Threads, Active(t)
  PROVE  /\ Safe(t)
         /\ \A v \in OnStack(t) : v \in Obj \ Upvals /\ Safe(v)
<1>1. \A x \in Threads : Refs(x) = OnStack(x)
  BY Kinds, Contents
<1>2. Safe(Main) /\ Main \in Threads /\ Main \in Obj
  BY Kinds DEF SInv, SafeClosed
<1>3. Safe(t)
  BY <1>1, <1>2 DEF Active, SInv, SafeClosed
<1>4. \A v \in OnStack(t) : Safe(v)
  BY <1>1, <1>3, Kinds DEF SInv, SafeClosed
<1> QED
  BY <1>3, <1>4, OnStackTypes DEF IInv

LEMMA VisibleIsSafe ==
  ASSUME IInv, SInv, NEW o \in Obj \ Upvals, Safe(o), NEW v \in Visible(o)
  PROVE  v \in Obj /\ Safe(v)
<1>1. \A x \in Obj : Safe(x) => \A w \in Refs(x) : Safe(w) /\ w \in Obj
  BY ContentsTypes DEF SInv, SafeClosed
<1>2. CASE o \in Threads
  BY <1>1, <1>2, Contents, Kinds DEF Visible
<1>3. CASE o \in Funcs
  <2>1. Refs(o) = ref[o] /\ \A u \in Upvals : Refs(u) = Value(u)
    BY <1>3, Contents, Kinds
  <2>2. Visible(o) = (ref[o] \ Upvals) \cup UNION {Value(u) : u \in ref[o] \cap Upvals}
    BY <1>3, Kinds DEF Visible
  <2> QED
    BY <1>1, <2>1, <2>2
<1>4. CASE o \notin Threads \cup Funcs
  <2>1. Visible(o) = ref[o]
    BY <1>4 DEF Visible
  <2>2. Refs(o) = ref[o]
    BY <1>4, Contents
  <2> QED
    BY <1>1, <2>1, <2>2
<1> QED
  BY <1>2, <1>3, <1>4

-----------------------------------------------------------------------------
(* A slot of a stack is written, and cells are allocated or revived: N.    *)

LEMMA WriteSInv ==
  ASSUME IInv, SInv,
         UNCHANGED <<phase, white, mmudata, sweep, gray, grayagain, weak>>,
         NEW N \in SUBSET Obj,
         \A x \in N : (color[x] = "free" \/ Dead(x)) /\ color'[x] = white,
         \A x \in Obj \ N : color'[x] = color[x] /\ ref'[x] = ref[x],
         NEW c \in Threads, NEW s \in Slots(c), NEW v, Live(c),
         v = Nil \/ (v \in Obj /\ Safe(v)'),
         stack' = [stack EXCEPT ![c][s] = v],
         \A u \in Upvals \ N : home'[u] = home[u],
         \A u \in N \cap Upvals :
           /\ color[u] = "free" \/ Open(u)
           /\ Open(u)' /\ ref'[u] = {}
           /\ \E t \in Threads : \E l \in Slots(t) : Safe(t) /\ home'[u] = <<t, l>>,
         \A x \in N \cap Threads : color[x] = "free",
         \A x \in N \cap Strs : ref'[x] = {},
         \A x \in N \ (Upvals \cup Threads) : \A w \in ref'[x] : w \in Obj /\ Safe(w)'
  PROVE  SInv'
<1> USE DEF IInv, SInv
<1>1. \A x \in N : ~Safe(x)
  BY DEF Safe, Live
<1>2. \A x \in Obj : /\ Live(x) => Live(x)'
                     /\ Dead(x)' => Dead(x) /\ x \notin N
                     /\ Safe(x) => Safe(x)'
                     /\ Safe(x)' => x \in N \/ Safe(x)
  BY <1>1, Whites DEF Safe, Live, Dead, CollectorTypes
<1>3. /\ \A t \in Threads : OnStack(t)' \subseteq OnStack(t) \cup ({v} \ {Nil})
      /\ \A t \in Threads : t # c => OnStack(t)' = OnStack(t)
      /\ \A u \in Upvals \ N : Value(u)' \subseteq Value(u) \cup ({v} \ {Nil})
  BY StackWrite, Kinds
<1>4. \A w \in {v} \ {Nil} : w \in Obj /\ Safe(w)'
  OBVIOUS
<1>5. \A x \in Obj : Safe(x) => \A w \in Refs(x) : w \in Obj /\ Safe(w) /\ Safe(w)'
  BY <1>2, ContentsTypes DEF SafeClosed
<1>6. \A u \in Upvals \ N : Open(u)' <=> Open(u)
  BY DEF Open
<1>7. SafeClosed'
  <2>1. ASSUME NEW x \in Obj \ N, Safe(x)', NEW w \in Refs(x)'
        PROVE  Safe(w)'
    <3>1. Safe(x)
      BY <1>2, <2>1
    <3>2. Refs(x)' \subseteq Refs(x) \cup ({v} \ {Nil})
      <4>1. CASE x \in Threads
        BY <1>3, <4>1, Contents, ContentsNext
      <4>2. CASE x \in Upvals
        BY <1>3, <2>1, <4>2, Contents, ContentsNext
      <4>3. CASE x \notin Threads \cup Upvals
        BY <2>1, <4>3, Contents, ContentsNext
      <4> QED
        BY <4>1, <4>2, <4>3
    <3> QED
      BY <1>4, <1>5, <2>1, <3>1, <3>2
  <2>2. ASSUME NEW x \in N, NEW w \in Refs(x)'
        PROVE  Safe(w)'
    <3>1. CASE x \in Threads
      <4>1. OnStack(x) = {}
        BY <3>1 DEF FreeIsEmpty
      <4> QED
        BY <1>3, <1>4, <2>2, <3>1, <4>1, ContentsNext
    <3>2. CASE x \in Upvals
      <4>1. PICK t \in Threads : \E l \in Slots(t) : Safe(t) /\ home'[x] = <<t, l>>
        BY <3>2
      <4>2. Value(x)' \subseteq OnStack(t)'
        <5>1. PICK l \in Slots(t) : home'[x] = <<t, l>>
          BY <4>1
        <5>2. Value(x)' = {stack'[t][l]} \ {Nil}
          BY <3>2, <5>1 DEF Value
        <5> QED
          BY <5>2 DEF OnStack, Slots
      <4>3. \A y \in OnStack(t) : Safe(y)'
        BY <1>5, <4>1, Contents, Kinds
      <4> QED
        BY <1>3, <1>4, <2>2, <3>2, <4>1, <4>2, <4>3, ContentsNext
    <3>3. CASE x \notin Threads \cup Upvals
      BY <2>2, <3>3, ContentsNext
    <3> QED
      BY <3>1, <3>2, <3>3
  <2>3. mmudata \subseteq Obj /\ Main \in Obj
    BY Kinds DEF ListTypes
  <2> QED
    BY <1>2, <2>1, <2>2, <2>3 DEF SafeClosed
<1>8. NoneDead'
  BY <1>2 DEF NoneDead, Sweeping
<1>9. FreeIsEmpty'
  <2>1. \A x \in Obj : color'[x] = "free" => x \notin N /\ color[x] = "free"
    BY Whites DEF CollectorTypes
  <2>2. \A t \in Threads : color'[t] = "free" => OnStack(t)' = {}
    BY <1>3, <2>1, Kinds DEF FreeIsEmpty, Live
  <2> QED
    BY <2>1, <2>2 DEF FreeIsEmpty
<1>10. OpenUpvalues'
  <2>1. ASSUME NEW u \in Upvals \ N, Open(u)
        PROVE  /\ Live(u)' /\ color'[u] # "black" /\ ref'[u] = {}
               /\ Live(home[u][1])'
    <3>1. u \in Obj /\ home[u][1] \in Obj
      BY <2>1, Kinds DEF HomeTypes
    <3> QED
      BY <1>2, <2>1, <3>1 DEF OpenUpvalues
  <2>2. ASSUME NEW u \in N \cap Upvals
        PROVE  /\ Live(u)' /\ color'[u] # "black" /\ ref'[u] = {}
               /\ Live(home[u][1])'
    <3>1. PICK t \in Threads : \E l \in Slots(t) : Safe(t) /\ home'[u] = <<t, l>>
      BY <2>2
    <3>2. Live(t)'
      BY <1>2, <3>1, Kinds DEF Safe
    <3>3. home'[u][1] = t
      BY <3>1
    <3>4. Live(u)' /\ color'[u] # "black" /\ ref'[u] = {}
      BY <2>2, Whites DEF Live, CollectorTypes
    <3> QED
      BY <3>2, <3>3, <3>4 DEF Live
  <2> QED
    BY <1>6, <2>1, <2>2 DEF OpenUpvalues
<1>11. KindColors'
  BY Kinds, Whites DEF KindColors, CollectorTypes
<1>12. SweepCovers'
  <2> SUFFICES ASSUME ~Marking, NEW x \in Obj \ mmudata, Live(x)', color'[x] # white
               PROVE  x \in sweep \/ (x \in Upvals /\ Open(x)' /\ home'[x][1] \in sweep)
    BY DEF SweepCovers, Marking
  <2>1. x \notin N /\ Live(x) /\ color[x] # white
    BY DEF Live
  <2> QED
    BY <1>6, <2>1 DEF SweepCovers
<1>13. SweepListed'
  <2>1. ASSUME NEW x \in sweep
        PROVE  Live(x)' /\ ~(x \in Upvals /\ Open(x)')
    <3>1. x \in Obj /\ Live(x) /\ ~(x \in Upvals /\ Open(x))
      BY DEF SweepListed, ListTypes
    <3> QED
      BY <1>2, <1>6, <3>1 DEF Live
  <2> QED
    BY <2>1 DEF SweepListed, Sweeping
<1>14. GraysListed' /\ ListedLive' /\ MainMarked'
  <2>1. Marking' <=> Marking
    BY DEF Marking
  <2>2. \A x \in Obj : Gray(x)' => Gray(x) /\ x \notin N
    BY Whites DEF Gray, CollectorTypes
  <2>3. GraysListed'
    BY <1>6, <2>1, <2>2 DEF GraysListed
  <2>4. gray \cup grayagain \cup weak \subseteq Obj
    BY Kinds DEF ListTypes
  <2>5. ListedLive'
    BY <1>2, <2>1, <2>4 DEF ListedLive
  <2>6. Main \in Obj \ N
    BY <1>1, Kinds DEF SafeClosed
  <2> QED
    BY <2>1, <2>3, <2>5, <2>6 DEF MainMarked, White
<1>15. TriColor'
  <2> SUFFICES ASSUME Marking, NEW x \in Obj \ mmudata, Black(x)', NEW w \in Strong(x)', White(w)'
               PROVE  FALSE
    BY DEF TriColor, Marking
  <2>1. x \notin N /\ Black(x)
    BY Whites DEF Black, CollectorTypes
  <2>2. x \notin Threads /\ ~(x \in Upvals /\ Open(x))
    BY <2>1 DEF KindColors, OpenUpvalues, Black
  <2>3. x \in Upvals => Value(x)' = Value(x)
    BY <1>6, <2>1, <2>2 DEF Value
  <2>4. w \in Strong(x)
    BY <2>1, <2>2, <2>3, Contents, ContentsNext
  <2>5. Safe(x)
    BY <2>1, Whites DEF Safe, Live, Dead, Black, CollectorTypes
  <2>6. w \in Obj \ N
    BY <1>1, <1>5, <2>4, <2>5, ContentsTypes
  <2> QED
    BY <2>1, <2>4, <2>6 DEF TriColor, White
<1> QED
  BY <1>7, <1>8, <1>9, <1>10, <1>11, <1>12, <1>13, <1>14, <1>15

\* What every operation of the program leaves alone.
Kept == UNCHANGED <<phase, full, white, mmudata, sweep>>

LEMMA NewSInv ==
  ASSUME IInv, SInv, NEW t \in Threads, Active(t), NEW s \in Slots(t), NEW o \in Obj,
         New(t, s, o), Kept
  PROVE  SInv'
<1> USE DEF Kept
<1>1. /\ o \in Tables \cup Weaks \cup Udata \cup Threads
      /\ color[o] = "free" /\ color' = [color EXCEPT ![o] = white]
      /\ stack' = [stack EXCEPT ![t][s] = o]
      /\ UNCHANGED <<gray, grayagain, weak, ref, home>>
  BY DEF New, lists
<1>2. /\ color'[o] = white /\ \A x \in Obj \ {o} : color'[x] = color[x]
      /\ ref'[o] = {}
  BY <1>1 DEF IInv, CollectorTypes, SInv, FreeIsEmpty
<1>3. Safe(o)' /\ Live(t)
  BY <1>2, HeldIsSafe, Whites DEF Safe, Live, Dead, IInv, CollectorTypes
<1>4. {o} \cap Upvals = {} /\ {o} \in SUBSET Obj
  BY <1>1, Kinds
<1> QED
  BY <1>1, <1>2, <1>3, <1>4, WriteSInv

LEMMA InternSInv ==
  ASSUME IInv, SInv, NEW t \in Threads, Active(t), NEW s \in Slots(t), NEW o \in Obj,
         Intern(t, s, o), Kept
  PROVE  SInv'
<1> USE DEF Kept
<1>1. /\ o \in Strs
      /\ color' = [color EXCEPT ![o] = FoundColor(o)]
      /\ stack' = [stack EXCEPT ![t][s] = o]
      /\ UNCHANGED <<gray, grayagain, weak, ref, home>>
  BY DEF Intern, lists
<1>2. /\ color'[o] = FoundColor(o) /\ \A x \in Obj \ {o} : color'[x] = color[x]
      /\ ref'[o] = {}
  BY <1>1 DEF IInv, CollectorTypes, SInv, FreeIsEmpty
<1>3. Safe(o)' /\ Live(t)
  BY <1>2, HeldIsSafe, Whites DEF Safe, Live, Dead, FoundColor, IInv, CollectorTypes
<1>4. {o} \cap (Upvals \cup Threads) = {} /\ {o} \in SUBSET Obj /\ {} \in SUBSET Obj
  BY <1>1, Kinds
<1>5. CASE color[o] = "free" \/ Dead(o)
  <2>1. color'[o] = white
    BY <1>2, <1>5 DEF FoundColor
  <2> QED
    BY <1>1, <1>2, <1>3, <1>4, <1>5, <2>1, WriteSInv
<1>6. CASE ~(color[o] = "free" \/ Dead(o))
  <2>1. color' = color
    BY <1>1, <1>6 DEF FoundColor, IInv, CollectorTypes
  <2> QED
    BY <1>1, <1>3, <1>4, <2>1, WriteSInv
<1> QED
  BY <1>5, <1>6

LEMMA LoadSInv ==
  ASSUME IInv, SInv, NEW t \in Threads, Active(t), NEW s \in Slots(t), Load(t, s), Kept
  PROVE  SInv'
<1> USE DEF Kept
<1>1. PICK v \in (UNION {Visible(o) : o \in OnStack(t)}) \cup {Nil} :
        stack' = [stack EXCEPT ![t][s] = v]
  BY DEF Load
<1>2. UNCHANGED <<color, gray, grayagain, weak, ref, home>>
  BY DEF Load, lists
<1>3. v = Nil \/ (v \in Obj /\ Safe(v)')
  <2>1. v = Nil \/ \E o \in OnStack(t) : v \in Visible(o)
    OBVIOUS
  <2>2. v = Nil \/ (v \in Obj /\ Safe(v))
    BY <2>1, HeldIsSafe, VisibleIsSafe
  <2> QED
    BY <1>2, <2>2 DEF Safe, Live, Dead
<1>4. Live(t) /\ {} \in SUBSET Obj
  BY HeldIsSafe DEF Safe
<1> QED
  BY <1>1, <1>2, <1>3, <1>4, WriteSInv

LEMMA GiveSInv ==
  ASSUME IInv, SInv, NEW t \in Threads, Active(t), NEW s, Give(t, s), Kept
  PROVE  SInv'
<1> USE DEF Kept
<1>1. PICK c \in OnStack(t) \cap Threads, v \in OnStack(t) :
        s \in Slots(c) /\ stack' = [stack EXCEPT ![c][s] = v]
  BY DEF Give
<1>2. UNCHANGED <<color, gray, grayagain, weak, ref, home>>
  BY DEF Give, lists
<1>3. v \in Obj /\ Safe(v)' /\ Live(c) /\ {} \in SUBSET Obj
  BY <1>2, HeldIsSafe DEF Safe, Live, Dead
<1> QED
  BY <1>1, <1>2, <1>3, WriteSInv

LEMMA StoreOpenSInv ==
  ASSUME IInv, SInv, NEW t \in Threads, Active(t), NEW u \in Obj, NEW v \in Obj,
         StoreUpvalue(t, u, v), Open(u), Kept
  PROVE  SInv'
<1> USE DEF Kept
<1>1. /\ stack' = [stack EXCEPT ![home[u][1]][home[u][2]] = v]
      /\ UNCHANGED <<color, gray, grayagain, weak, ref, home>>
      /\ u \in Upvals /\ v \in OnStack(t)
  BY DEF StoreUpvalue
<1>2. /\ home[u][1] \in Threads /\ home[u][2] \in Slots(home[u][1])
      /\ Live(home[u][1])
  BY <1>1 DEF IInv, HomeTypes, SInv, OpenUpvalues
<1>3. Safe(v)' /\ {} \in SUBSET Obj
  BY <1>1, HeldIsSafe DEF Safe, Live, Dead
<1> QED
  BY <1>1, <1>2, <1>3, WriteSInv

LEMMA NewClosureSInv ==
  ASSUME IInv, SInv, NEW t \in Threads, Active(t), NEW s \in Slots(t), NEW f \in Obj,
         NewClosure(t, s, f), Kept
  PROVE  SInv'
<1> USE DEF Kept
<1>1. /\ f \in Funcs /\ color[f] = "free"
      /\ stack' = [stack EXCEPT ![t][s] = f]
      /\ UNCHANGED <<gray, grayagain, weak>>
  BY DEF NewClosure, lists
<1>2. f \notin Upvals \cup Threads \cup Strs
  BY <1>1, Kinds
<1>3. Safe(t) /\ Live(t) /\ {f} \in SUBSET Obj
  BY HeldIsSafe DEF Safe
<1>4. ASSUME NEW l \in Slots(t), NEW u \in Upvals,
             home[u] = <<t, l>> \/ color[u] = "free",
             home' = [home EXCEPT ![u] = <<t, l>>],
             color' = [color EXCEPT ![f] = white, ![u] = FoundColor(u)],
             ref' = [ref EXCEPT ![f] = {u}]
      PROVE  SInv'
  <2>1. u \in Obj /\ u # f /\ u \notin Threads \cup Strs
    BY <1>2, Kinds
  <2>2. /\ color'[f] = white /\ color'[u] = FoundColor(u)
        /\ \A x \in Obj \ {f, u} : color'[x] = color[x]
        /\ ref'[f] = {u} /\ \A x \in Obj \ {f} : ref'[x] = ref[x]
        /\ home'[u] = <<t, l>> /\ \A x \in Upvals \ {u} : home'[x] = home[x]
    BY <1>4, <2>1 DEF IInv, CollectorTypes, RefTypes, HomeTypes
  <2>3. color[u] = "free" \/ Open(u)
    BY <1>4 DEF Open, Closed
  <2>4. Open(u)'
    BY <2>2 DEF Open, Closed
  <2>5. ref'[u] = {}
    <3>1. ref[u] = {}
      BY <2>1, <2>3 DEF SInv, FreeIsEmpty, OpenUpvalues
    <3> QED
      BY <2>1, <2>2, <3>1
  <2>6. Safe(f)' /\ Safe(u)'
    BY <2>2, Whites DEF Safe, Live, Dead, FoundColor, IInv, CollectorTypes
  <2>7. CASE color[u] = "free" \/ Dead(u)
    <3> DEFINE N == {f, u}
    <3>1. N \in SUBSET Obj /\ color'[u] = white
      BY <2>1, <2>2, <2>7 DEF FoundColor
    <3>2. \A x \in N : (color[x] = "free" \/ Dead(x)) /\ color'[x] = white
      BY <1>1, <2>2, <2>7, <3>1
    <3>3. \A x \in Obj \ N : color'[x] = color[x] /\ ref'[x] = ref[x]
      BY <2>2
    <3>4. \A x \in N \cap Upvals :
            /\ color[x] = "free" \/ Open(x)
            /\ Open(x)' /\ ref'[x] = {}
            /\ \E y \in Threads : \E k \in Slots(y) : Safe(y) /\ home'[x] = <<y, k>>
      <4>1. \A x \in N \cap Upvals : x = u
        BY <1>2
      <4>2. \E y \in Threads : \E k \in Slots(y) : Safe(y) /\ home'[u] = <<y, k>>
        BY <1>3, <2>2
      <4> QED
        BY <2>3, <2>4, <2>5, <4>1, <4>2
    <3>5. /\ \A x \in N \cap Threads : color[x] = "free"
          /\ \A x \in N \cap Strs : ref'[x] = {}
      BY <1>2, <2>1
    <3>6. \A x \in N \ (Upvals \cup Threads) : \A w \in ref'[x] : w \in Obj /\ Safe(w)'
      <4>1. \A x \in N \ (Upvals \cup Threads) : x = f
        OBVIOUS
      <4> QED
        BY <2>1, <2>2, <2>6, <4>1
    <3>7. \A x \in Upvals \ N : home'[x] = home[x]
      BY <2>2
    <3> HIDE DEF N
    <3> QED
      BY <1>1, <1>3, <2>6, <3>1, <3>2, <3>3, <3>4, <3>5, <3>6, <3>7, WriteSInv
  <2>8. CASE ~(color[u] = "free" \/ Dead(u))
    <3>1. color'[u] = color[u] /\ home' = home
      BY <1>4, <2>2, <2>8 DEF FoundColor, IInv, HomeTypes
    <3>2. /\ {f} \cap Upvals = {} /\ {f} \cap Threads = {} /\ {f} \cap Strs = {}
      BY <1>2
    <3>3. \A x \in Obj \ {f} : color'[x] = color[x] /\ ref'[x] = ref[x]
      BY <2>2, <3>1
    <3>4. \A w \in ref'[f] : w \in Obj /\ Safe(w)'
      BY <2>1, <2>2, <2>6
    <3>5. color'[f] = white
      BY <2>2
    <3> QED
      BY <1>1, <1>3, <2>6, <3>1, <3>2, <3>3, <3>4, <3>5, WriteSInv
  <2> QED
    BY <2>7, <2>8
<1>5. ASSUME NEW p \in OnStack(t) \cap Funcs,
             color' = [color EXCEPT ![f] = white],
             ref' = [ref EXCEPT ![f] = ref[p]],
             UNCHANGED home
      PROVE  SInv'
  <2>1. p \in Obj /\ Safe(p) /\ Refs(p) = ref[p]
    BY HeldIsSafe, Contents, Kinds
  <2>2. /\ color'[f] = white /\ \A x \in Obj \ {f} : color'[x] = color[x] /\ ref'[x] = ref[x]
        /\ ref'[f] = ref[p]
    BY <1>5 DEF IInv, CollectorTypes, RefTypes
  <2>3. \A w \in ref'[f] : w \in Obj /\ Safe(w)
    BY <2>1, <2>2, ContentsTypes DEF SInv, SafeClosed
  <2>4. \A w \in ref'[f] : Safe(w)'
    BY <1>1, <2>2, <2>3 DEF Safe, Live, Dead
  <2>5. Safe(f)'
    BY <2>2, Whites DEF Safe, Live, Dead, IInv, CollectorTypes
  <2>6. /\ {f} \cap Upvals = {} /\ {f} \cap Threads = {} /\ {f} \cap Strs = {}
    BY <1>2
  <2> QED
    BY <1>1, <1>3, <1>5, <2>2, <2>3, <2>4, <2>5, <2>6, WriteSInv
<1> QED
  BY <1>4, <1>5 DEF NewClosure

-----------------------------------------------------------------------------
(* A reference is stored in one object, with a barrier.                    *)

\* Nothing is freed or condemned, and one object comes to refer to other
\* safe ones.
LEMMA StoreKeeps ==
  ASSUME IInv, SInv, UNCHANGED <<phase, white, mmudata, sweep, stack, home>>,
         NEW o \in Obj, Safe(o), o \notin Strs \cup Threads, ~(o \in Upvals /\ Open(o)),
         NEW S \in SUBSET Obj, \A v \in S : Safe(v),
         NEW R \in SUBSET (ref[o] \cup S), ref' = [ref EXCEPT ![o] = R],
         \A x \in Obj : Live(x)' <=> Live(x),
         \A x \in Obj : Dead(x)' <=> Dead(x),
         \A u \in Upvals : Open(u) => color'[u] # "black"
  PROVE  /\ SafeClosed' /\ NoneDead' /\ FreeIsEmpty' /\ OpenUpvalues' /\ SweepListed'
         /\ \A x \in Obj \ {o} : Strong(x)' = Strong(x)
         /\ Strong(o)' \subseteq Strong(o) \cup S
         /\ o \in Weaks => Strong(o)' = {}
<1> USE DEF IInv, SInv
<1>1. ref'[o] = R /\ \A x \in Obj \ {o} : ref'[x] = ref[x]
  BY DEF RefTypes
<1>2. \A x \in Upvals : Open(x)' <=> Open(x)
  BY DEF Open
<1>3. \A t \in Threads : OnStack(t)' = OnStack(t)
  BY DEF OnStack
<1>4. \A u \in Upvals \ {o} : Value(u)' = Value(u)
  BY <1>1, <1>2, Kinds DEF Value
<1>5. o \in Upvals => Value(o)' = R /\ Value(o) = ref[o]
  BY <1>1, <1>2 DEF Value
<1>6. \A x \in Obj \ {o} : Strong(x)' = Strong(x) /\ Refs(x)' = Refs(x)
  BY <1>1, <1>3, <1>4, Contents, ContentsNext
<1>7. /\ Refs(o)' = R /\ Refs(o) = ref[o]
      /\ o \in Weaks => Strong(o)' = {}
      /\ o \notin Weaks => Strong(o)' = R /\ Strong(o) = ref[o]
  BY <1>1, <1>5, Contents, ContentsNext
<1>8. \A x \in Obj : Safe(x)' <=> Safe(x)
  BY DEF Safe
<1>9. SafeClosed'
  <2>1. ASSUME NEW x \in Obj, Safe(x)', NEW v \in Refs(x)'
        PROVE  Safe(v)' \/ (Safe(x) /\ v \in Refs(x))
    <3>1. CASE x = o
      BY <1>7, <1>8, <2>1, <3>1
    <3>2. CASE x # o
      BY <1>6, <1>8, <2>1, <3>2
    <3> QED
      BY <3>1, <3>2
  <2> QED
    BY <1>8, <2>1, SafeGrows
<1>10. NoneDead'
  BY DEF NoneDead, Sweeping
<1>11. FreeIsEmpty'
  BY <1>1, <1>3, Kinds DEF FreeIsEmpty, Safe, Live
<1>12. OpenUpvalues'
  <2>1. \A u \in Upvals : Open(u) => u # o /\ u \in Obj /\ home[u][1] \in Obj
    BY Kinds DEF HomeTypes
  <2> QED
    BY <1>1, <1>2, <2>1 DEF OpenUpvalues
<1>13. SweepListed'
  <2>1. \A x \in sweep : x \in Obj
    BY DEF ListTypes
  <2> QED
    BY <1>2, <2>1 DEF SweepListed, Sweeping
<1> QED
  BY <1>6, <1>7, <1>9, <1>10, <1>11, <1>12, <1>13

LEMMA ForwardSInv ==
  ASSUME IInv, SInv, UNCHANGED <<phase, white, mmudata, sweep, grayagain, weak, stack, home>>,
         NEW o \in Obj, Safe(o), o \in Funcs \cup Udata \/ (o \in Upvals /\ ~Open(o)),
         NEW S \in SUBSET Obj, \A v \in S : Safe(v),
         NEW R \in SUBSET (ref[o] \cup S), ref' = [ref EXCEPT ![o] = R],
         BarrierForward(o, S)
  PROVE  SInv'
<1> USE DEF IInv, SInv
<1> DEFINE M == IF NeedsBarrier(o, S) /\ Marking THEN Marked(S) ELSE {}
<1>1. /\ \A x \in M : x \in Obj /\ White(x) /\ Marking
      /\ \A x \in M \cap (Udata \cup Upvals) : \A v \in Strong(x) : White(v) => v \in M
      /\ Marking /\ Black(o) => \A v \in S : White(v) => v \in M
      /\ M # {} => Black(o)
  BY MarkedFacts DEF NeedsBarrier
<1>2. /\ \A x \in M : color'[x] = MarkColor(x)
      /\ \A x \in Obj \ M : \/ color'[x] = color[x]
                            \/ x = o /\ ~Marking /\ Black(o) /\ color'[x] = white
      /\ gray' = gray \cup (M \cap Traversed)
  <2>1. CASE ~NeedsBarrier(o, S)
    BY <2>1 DEF BarrierForward
  <2>2. CASE NeedsBarrier(o, S) /\ Marking
    <3>1. \A x \in Marked(S) : x \in Obj
      BY MarkedFacts
    <3> QED
      BY <2>2, <3>1 DEF BarrierForward
  <2>3. CASE NeedsBarrier(o, S) /\ ~Marking
    <3>1. color' = [color EXCEPT ![o] = white] /\ gray' = gray /\ Black(o)
      BY <2>3 DEF BarrierForward, NeedsBarrier
    <3> QED
      BY <2>3, <3>1 DEF CollectorTypes
  <2> QED
    BY <2>1, <2>2, <2>3
<1> HIDE DEF M
<1>3. Marking => \A x \in Obj : ~Dead(x)
  BY DEF NoneDead, Marking, Sweeping
<1>4. \A x \in Obj : (Live(x)' <=> Live(x)) /\ (Dead(x)' <=> Dead(x))
  BY <1>1, <1>2, <1>3, MarkColors, Whites DEF Live, Dead, White, Black, CollectorTypes
<1>5. \A u \in Upvals : Open(u) => color'[u] # "black"
  <2>1. \A u \in Upvals : Open(u) => MarkColor(u) = "gray"
    BY Kinds DEF MarkColor
  <2> QED
    BY <1>2, <2>1, Kinds, Whites DEF OpenUpvalues, CollectorTypes
<1>6. /\ SafeClosed' /\ NoneDead' /\ FreeIsEmpty' /\ OpenUpvalues' /\ SweepListed'
      /\ \A x \in Obj \ {o} : Strong(x)' = Strong(x)
      /\ Strong(o)' \subseteq Strong(o) \cup S
  BY <1>4, <1>5, StoreKeeps, Kinds
<1>7. KindColors'
  <2>1. \A t \in Threads : MarkColor(t) = "gray"
    BY Kinds DEF MarkColor
  <2>2. \A u \in Udata : MarkColor(u) = "black"
    BY Kinds DEF MarkColor
  <2>3. \A t \in Threads : color'[t] # "black"
    BY <1>2, <2>1, Kinds, Whites DEF KindColors, CollectorTypes
  <2>4. \A u \in Udata : color'[u] # "gray"
    BY <1>2, <2>2, Kinds, Whites DEF KindColors, CollectorTypes
  <2> QED
    BY <2>3, <2>4 DEF KindColors
<1>8. SweepCovers'
  BY <1>1, <1>2, <1>4 DEF SweepCovers, Marking, Open
<1>9. Marking => \A x \in Obj : White(x)' => White(x) /\ x \notin M
  BY <1>2, MarkColors DEF White
<1>10. GraysListed'
  <2> SUFFICES ASSUME Marking, NEW x \in Obj, Gray(x)'
               PROVE  \/ x \in gray' \cup grayagain \cup weak \cup Strs
                      \/ x \in Upvals /\ Open(x)
    BY DEF GraysListed, Marking, Open
  <2>1. CASE x \in M
    <3>1. MarkColor(x) = "gray"
      BY <1>2, <2>1 DEF Gray
    <3>2. x \in Traversed \cup Strs \/ (x \in Upvals /\ Open(x))
      BY <3>1 DEF MarkColor, Traversed, Obj
    <3> QED
      BY <1>2, <2>1, <3>2
  <2>2. CASE x \notin M
    BY <1>2, <2>2 DEF GraysListed, Gray
  <2> QED
    BY <2>1, <2>2
<1>11. ListedLive'
  <2>1. \A x \in gray \cup grayagain \cup weak : x \in Obj
    BY Kinds DEF ListTypes
  <2>2. \A x \in M : x \in Obj /\ Live(x)
    BY <1>1 DEF White, Live
  <2> QED
    BY <1>2, <1>4, <2>1, <2>2 DEF ListedLive, Marking
<1>12. MainMarked'
  BY <1>9, Kinds DEF MainMarked, Marking
<1>13. TriColor'
  <2> SUFFICES ASSUME Marking, NEW x \in Obj \ mmudata, Black(x)', NEW w \in Strong(x)', White(w)'
               PROVE  FALSE
    BY DEF TriColor, Marking
  <2>1. S \subseteq Obj /\ \A y \in Obj : Strong(y) \subseteq Obj
    BY ContentsTypes
  <2>2. w \in Obj /\ (x # o => w \in Strong(x)) /\ (x = o => w \in Strong(x) \cup S)
    BY <1>6, <2>1
  <2>3. White(w) /\ w \notin M
    BY <1>9, <2>2
  <2>4. CASE x \in M
    <3>1. x \in Udata \cup Upvals /\ x # o
      BY <1>1, <1>2, <2>4 DEF Black, White, MarkColor
    <3> QED
      BY <1>1, <2>2, <2>3, <2>4, <3>1
  <2>5. CASE x \notin M
    <3>1. Black(x)
      BY <1>2, <2>5 DEF Black
    <3> QED
      BY <1>1, <2>2, <2>3, <3>1 DEF TriColor
  <2> QED
    BY <2>4, <2>5
<1> QED
  BY <1>6, <1>7, <1>8, <1>10, <1>11, <1>12, <1>13

LEMMA BackSInv ==
  ASSUME IInv, SInv, UNCHANGED <<phase, white, mmudata, sweep, gray, weak, stack, home>>,
         NEW o \in Tables \cup Weaks, Safe(o),
         NEW S \in SUBSET Obj, \A v \in S : Safe(v),
         NEW R \in SUBSET (ref[o] \cup S), ref' = [ref EXCEPT ![o] = R],
         BarrierBack(o, S)
  PROVE  SInv'
<1> USE DEF IInv, SInv
<1>1. /\ \A x \in Obj \ {o} : color'[x] = color[x]
      /\ \/ Black(o) /\ color'[o] = "gray" /\ (Marking => grayagain' = grayagain \cup {o})
         \/ ~NeedsBarrier(o, S) /\ color'[o] = color[o] /\ grayagain' = grayagain
  BY Kinds DEF BarrierBack, CollectorTypes
<1>2. o \in Obj /\ o \notin Upvals \cup Threads \cup Strs \cup Udata
  BY Kinds
<1>3. \A x \in Obj : (Live(x)' <=> Live(x)) /\ (Dead(x)' <=> Dead(x))
  BY <1>1, Whites DEF Live, Dead, Black, CollectorTypes
<1>4. \A u \in Upvals : Open(u) => color'[u] # "black"
  BY <1>1, <1>2, Kinds DEF OpenUpvalues
<1>5. /\ SafeClosed' /\ NoneDead' /\ FreeIsEmpty' /\ OpenUpvalues' /\ SweepListed'
      /\ \A x \in Obj \ {o} : Strong(x)' = Strong(x)
      /\ Strong(o)' \subseteq Strong(o) \cup S
  BY <1>2, <1>3, <1>4, StoreKeeps
<1>6. KindColors'
  BY <1>1, <1>2, Kinds DEF KindColors
<1>7. SweepCovers'
  BY <1>1, <1>3, Whites DEF SweepCovers, Marking, Open, Black, CollectorTypes
<1>8. GraysListed'
  BY <1>1 DEF GraysListed, Marking, Open, Gray
<1>9. ListedLive'
  <2>1. \A x \in gray \cup grayagain \cup weak : x \in Obj
    BY Kinds DEF ListTypes
  <2> QED
    BY <1>1, <1>2, <1>3, <2>1 DEF ListedLive, Marking, Safe
<1>10. \A x \in Obj : White(x)' => White(x)
  BY <1>1 DEF White
<1>11. MainMarked'
  BY <1>10, Kinds DEF MainMarked, Marking
<1>12. TriColor'
  <2> SUFFICES ASSUME Marking, NEW x \in Obj \ mmudata, Black(x)', NEW w \in Strong(x)', White(w)'
               PROVE  FALSE
    BY DEF TriColor, Marking
  <2>1. S \subseteq Obj /\ \A y \in Obj : Strong(y) \subseteq Obj
    BY ContentsTypes
  <2>2. w \in Obj /\ (x # o => w \in Strong(x)) /\ (x = o => w \in Strong(x) \cup S)
    BY <1>5, <2>1
  <2>3. White(w) /\ Black(x)
    BY <1>1, <1>10, <2>2 DEF Black
  <2>4. x = o => ~NeedsBarrier(o, S)
    BY <1>1 DEF Black
  <2> QED
    BY <2>2, <2>3, <2>4 DEF TriColor, NeedsBarrier
<1> QED
  BY <1>5, <1>6, <1>7, <1>8, <1>9, <1>11, <1>12

LEMMA StoreTableSInv ==
  ASSUME IInv, SInv, NEW t \in Threads, Active(t), NEW o \in Obj, NEW v \in Obj,
         StoreTable(t, o, v), Kept
  PROVE  SInv'
<1>1. o \in Tables \cup Weaks /\ Safe(o) /\ Safe(v)
  BY HeldIsSafe DEF StoreTable
<1>2. /\ ref[o] \cup {v} \in SUBSET (ref[o] \cup {v})
      /\ ref' = [ref EXCEPT ![o] = ref[o] \cup {v}]
      /\ BarrierBack(o, {v}) /\ UNCHANGED <<gray, weak, stack, home>>
  BY DEF StoreTable
<1> QED
  BY <1>1, <1>2, BackSInv DEF Kept

LEMMA ClearFieldSInv ==
  ASSUME IInv, SInv, NEW t \in Threads, Active(t), NEW o \in Obj, NEW v \in Obj,
         ClearField(t, o, v), Kept
  PROVE  SInv'
<1>1. o \in Tables \cup Weaks /\ Safe(o)
  BY HeldIsSafe DEF ClearField
<1>2. /\ ref[o] \ {v} \in SUBSET (ref[o] \cup {}) /\ {} \in SUBSET Obj
      /\ ref' = [ref EXCEPT ![o] = ref[o] \ {v}]
      /\ BarrierBack(o, {}) /\ UNCHANGED <<gray, weak, stack, home>>
  BY DEF ClearField
<1> QED
  BY <1>1, <1>2, BackSInv DEF Kept

LEMMA StoreObjectSInv ==
  ASSUME IInv, SInv, NEW t \in Threads, Active(t), NEW o \in Obj, NEW v \in Obj,
         StoreObject(t, o, v), Kept
  PROVE  SInv'
<1>1. o \in Funcs \cup Udata /\ Safe(o) /\ Safe(v)
  <2>1. v \in Tables /\ v \in OnStack(t) /\ o \in OnStack(t)
    BY DEF StoreObject
  <2> QED
    BY <2>1, HeldIsSafe DEF StoreObject
<1>2. /\ (ref[o] \ Tables) \cup {v} \in SUBSET (ref[o] \cup {v})
      /\ ref' = [ref EXCEPT ![o] = (ref[o] \ Tables) \cup {v}]
      /\ BarrierForward(o, {v}) /\ UNCHANGED <<grayagain, weak, stack, home>>
  BY DEF StoreObject
<1> QED
  BY <1>1, <1>2, ForwardSInv DEF Kept

LEMMA StoreUpvalueSInv ==
  ASSUME IInv, SInv, NEW t \in Threads, Active(t), NEW u \in Obj, NEW v \in Obj,
         StoreUpvalue(t, u, v), Kept
  PROVE  SInv'
<1>1. CASE Open(u)
  BY <1>1, StoreOpenSInv
<1>2. CASE ~Open(u)
  <2>1. PICK f \in OnStack(t) \cap Funcs : u \in ref[f] /\ u \in Upvals
    BY DEF StoreUpvalue
  <2>2. Safe(f) /\ Safe(v) /\ Refs(f) = ref[f]
    BY <2>1, HeldIsSafe, Contents, Kinds DEF StoreUpvalue
  <2>3. Safe(u)
    BY <2>1, <2>2, HeldIsSafe DEF SInv, SafeClosed
  <2>4. /\ {v} \in SUBSET (ref[u] \cup {v})
        /\ ref' = [ref EXCEPT ![u] = {v}] /\ BarrierForward(u, {v})
        /\ UNCHANGED <<grayagain, weak, stack, home>>
    BY <1>2 DEF StoreUpvalue
  <2> QED
    BY <1>2, <2>1, <2>2, <2>3, <2>4, ForwardSInv DEF Kept
<1> QED
  BY <1>1, <1>2

LEMMA JoinUpvalueSInv ==
  ASSUME IInv, SInv, NEW t \in Threads, Active(t), NEW f \in Obj, NEW g \in Obj,
         JoinUpvalue(t, f, g), Kept
  PROVE  SInv'
<1> DEFINE S == ref[g] \cap Upvals
           R == (ref[f] \ Upvals) \cup S
<1>1. f \in Funcs /\ Safe(f) /\ g \in Funcs /\ Safe(g) /\ Refs(g) = ref[g]
  BY HeldIsSafe, Contents, Kinds DEF JoinUpvalue
<1>2. S \in SUBSET Obj /\ \A v \in S : Safe(v)
  BY <1>1, Kinds DEF SInv, SafeClosed
<1>3. /\ R \in SUBSET (ref[f] \cup S)
      /\ ref' = [ref EXCEPT ![f] = R]
      /\ BarrierForward(f, S) /\ UNCHANGED <<grayagain, weak, stack, home>>
  BY DEF JoinUpvalue
<1> HIDE DEF S, R
<1> QED
  BY <1>1, <1>2, <1>3, ForwardSInv DEF Kept

-----------------------------------------------------------------------------
(* Upvalues are closed.                                                    *)

LEMMA CloseUpvaluesSInv ==
  ASSUME IInv, SInv, NEW t \in Threads, NEW level, CloseUpvalues(t, level), Kept
  PROVE  SInv'
<1> USE DEF IInv, SInv
<1> DEFINE uvs  == {u \in OpenOf(t) : home[u][2] >= level}
           dead == {u \in uvs : Dead(u)}
           grays == {u \in uvs \ dead : Gray(u)}
           M == IF Marking THEN Marked(UNION {Value(u) : u \in grays}) ELSE {}
<1>1. /\ ref' = [x \in Obj |-> IF x \in uvs \ dead THEN Value(x) ELSE ref[x]]
      /\ home' = [u \in Upvals |-> IF u \in uvs THEN Closed ELSE home[u]]
      /\ color' = [x \in Obj |-> IF x \in dead THEN "free"
                                 ELSE IF x \in grays THEN IF Marking THEN "black" ELSE white
                                 ELSE IF x \in M THEN MarkColor(x)
                                 ELSE color[x]]
      /\ gray' = gray \cup (M \cap Traversed)
      /\ UNCHANGED <<phase, white, mmudata, sweep, grayagain, weak, stack>>
  BY DEF CloseUpvalues, ClosedColors, Kept
<1>2. /\ uvs \subseteq Upvals /\ uvs \subseteq Obj /\ \A u \in uvs : Open(u)
      /\ \A x : x \in dead <=> x \in uvs /\ Dead(x)
      /\ \A x : x \in grays <=> x \in uvs /\ ~Dead(x) /\ Gray(x)
  BY Kinds DEF OpenOf
<1>3. /\ \A x \in M : x \in Obj /\ White(x) /\ Marking /\ x \notin Upvals
      /\ \A x \in M \cap Udata : \A v \in Strong(x) : White(v) => v \in M
      /\ Marking => \A u \in grays : \A v \in Value(u) : White(v) => v \in M
  <2> DEFINE S == UNION {Value(u) : u \in grays}
  <2>1. \A u \in grays : Value(u) \subseteq Obj \ Upvals
    BY <1>2, ValueTypes
  <2>2. S \subseteq Obj \ Upvals /\ \A u \in grays : \A v \in Value(u) : v \in S
    BY <2>1
  <2>3. M = IF Marking THEN Marked(S) ELSE {}
    OBVIOUS
  <2> HIDE DEF S, M, grays
  <2> QED
    BY <2>2, <2>3, MarkedFacts
<1> HIDE DEF uvs, dead, grays, M
<1>4. Marking => \A x \in Obj : ~Dead(x)
  BY DEF NoneDead, Marking, Sweeping
<1>5. \A u \in uvs : Live(u) /\ color[u] # "black" /\ ref[u] = {}
  BY <1>2 DEF OpenUpvalues
<1>6. \A x \in Obj : \/ x \in dead /\ color'[x] = "free"
                     \/ x \in grays /\ x \notin dead /\ color'[x] = IF Marking THEN "black" ELSE white
                     \/ x \in M /\ x \notin dead \cup uvs /\ color'[x] = MarkColor(x)
                     \/ x \notin dead \cup grays \cup M /\ color'[x] = color[x]
  BY <1>1, <1>2, <1>3
<1>7. \A x \in Obj : /\ Live(x)' <=> Live(x) /\ x \notin dead
                     /\ Dead(x)' <=> Dead(x) /\ x \notin dead
  <2>1. \A x \in M : Live(x) /\ ~Dead(x)
    BY <1>3, <1>4 DEF Live, White
  <2>2. \A x \in grays : Live(x) /\ ~Dead(x)
    BY <1>2, <1>5
  <2> QED
    BY <1>1, <1>6, <2>1, <2>2, MarkColors, Whites DEF Live, Dead, CollectorTypes
<1>8. \A x \in Obj : Safe(x)' <=> Safe(x)
  BY <1>2, <1>7 DEF Safe
<1>9. \A u \in Upvals : /\ u \in uvs => ~Open(u)'
                        /\ u \notin uvs => home'[u] = home[u] /\ (Open(u)' <=> Open(u))
  BY <1>1 DEF Open
<1>10. /\ \A x \in Obj : x \notin uvs => Strong(x)' = Strong(x) /\ Refs(x)' = Refs(x)
       /\ \A u \in uvs \ dead : Strong(u)' = Value(u) /\ Refs(u)' = Refs(u) /\ Strong(u) = Value(u)
       /\ \A x \in Threads : OnStack(x)' = OnStack(x)
  <2>1. \A x \in Threads : OnStack(x)' = OnStack(x)
    BY <1>1 DEF OnStack
  <2>2. \A x \in Obj : x \notin uvs => ref'[x] = ref[x]
    BY <1>1
  <2>3. \A u \in Upvals \ uvs : Value(u)' = Value(u)
    BY <1>1, <1>9, <2>2, Kinds DEF Value
  <2>4. \A u \in uvs \ dead : Value(u)' = Value(u)
    BY <1>1, <1>2, <1>9 DEF Value
  <2>5. \A x \in Obj : x \notin uvs => Strong(x)' = Strong(x) /\ Refs(x)' = Refs(x)
    BY <2>1, <2>2, <2>3, Contents, ContentsNext
  <2>6. \A u \in uvs \ dead : Strong(u)' = Value(u) /\ Refs(u)' = Refs(u) /\ Strong(u) = Value(u)
    BY <1>2, <2>4, Contents, ContentsNext
  <2> QED
    BY <2>1, <2>5, <2>6
<1>11. SafeClosed'
  <2>1. \A x \in Obj : Safe(x) => x \notin dead
    BY <1>2 DEF Safe
  <2>2. \A x \in Obj : Safe(x) => Refs(x)' = Refs(x)
    BY <1>10, <2>1
  <2> QED
    BY <1>1, <1>8, <2>2, SafeGrows
<1>12. FreeIsEmpty'
  <2>1. \A x \in Obj : color'[x] = "free" => x \in dead \/ color[x] = "free"
    BY <1>7 DEF Live
  <2>2. \A x \in Obj : x \in Strs \/ color[x] = "free" => x \notin uvs
    BY <1>2, <1>5, Kinds DEF Live
  <2>3. \A x \in Obj : color'[x] = "free" \/ x \in Strs => ref'[x] = {}
    BY <1>1, <1>5, <1>2, <2>1, <2>2 DEF FreeIsEmpty
  <2>4. \A x \in Threads : color'[x] = "free" => OnStack(x)' = {}
    BY <1>2, <1>10, <2>1, Kinds DEF FreeIsEmpty
  <2> QED
    BY <2>3, <2>4 DEF FreeIsEmpty
<1>13. OpenUpvalues'
  <2> SUFFICES ASSUME NEW u \in Upvals, Open(u)'
               PROVE  /\ Live(u)' /\ color'[u] # "black" /\ ref'[u] = {}
                      /\ Live(home[u][1])'
    BY DEF OpenUpvalues
  <2>1. u \in Obj /\ u \notin uvs /\ Open(u) /\ home'[u] = home[u] /\ u \notin dead \cup grays \cup M
    BY <1>2, <1>3, <1>9, Kinds
  <2>2. home[u][1] \in Obj /\ home[u][1] \notin dead
    BY <1>2, <2>1, Kinds DEF HomeTypes
  <2>3. Live(home[u][1])'
    <3>1. Live(home[u][1])
      BY <2>1 DEF OpenUpvalues
    <3>2. color'[home[u][1]] # "free"
      BY <1>7, <2>2, <3>1 DEF Live
    <3> QED
      BY <2>1, <3>2 DEF Live
  <2> QED
    BY <1>1, <1>6, <1>7, <2>1, <2>3 DEF OpenUpvalues
<1>14. KindColors'
  <2>1. \A x \in Threads \cup Udata : x \in Obj /\ x \notin dead \cup grays
    BY <1>2, Kinds
  <2>2. /\ \A x \in Threads : MarkColor(x) = "gray"
        /\ \A x \in Udata : MarkColor(x) = "black"
    BY Kinds DEF MarkColor
  <2> QED
    BY <1>6, <2>1, <2>2 DEF KindColors
<1>15. NoneDead'
  BY <1>1, <1>7 DEF NoneDead, Sweeping
<1>16. SweepCovers'
  <2> SUFFICES ASSUME ~Marking, NEW x \in Obj \ mmudata, Live(x)', color'[x] # white
               PROVE  x \in sweep \/ (x \in Upvals /\ Open(x)' /\ home'[x][1] \in sweep)
    BY <1>1 DEF SweepCovers, Marking
  <2>1. x \notin dead \cup grays /\ color'[x] = color[x] /\ Live(x)
    BY <1>3, <1>6, <1>7
  <2>2. x \notin uvs
    BY <1>2, <1>5, <2>1 DEF Dead, Gray, Live, Other, CollectorTypes, Colors
  <2> QED
    BY <1>9, <2>1, <2>2 DEF SweepCovers
<1>17. SweepListed'
  <2>1. ASSUME NEW x \in sweep
        PROVE  Live(x)' /\ ~(x \in Upvals /\ Open(x)')
    <3>1. x \in Obj /\ Live(x) /\ ~(x \in Upvals /\ Open(x))
      BY DEF SweepListed, ListTypes
    <3>2. x \notin uvs
      BY <1>2, <3>1
    <3> QED
      BY <1>2, <1>7, <1>9, <3>1, <3>2
  <2> QED
    BY <1>1, <2>1 DEF SweepListed, Sweeping
<1>18. Marking => \A x \in Obj : White(x)' => White(x) /\ x \notin M
  <2>1. \A x \in M : color'[x] \in {"gray", "black"}
    BY <1>2, <1>3, <1>6, MarkColors
  <2>2. Marking => \A x \in Obj : White(x)' => color'[x] = color[x]
    BY <1>6, <2>1 DEF White
  <2> QED
    BY <2>1, <2>2 DEF White
<1>19. GraysListed'
  <2> SUFFICES ASSUME Marking, NEW x \in Obj, Gray(x)'
               PROVE  \/ x \in gray' \cup grayagain \cup weak \cup Strs
                      \/ x \in Upvals /\ Open(x)'
    BY <1>1 DEF GraysListed, Marking
  <2>1. CASE x \in M
    <3>1. MarkColor(x) = "gray" /\ x \notin Upvals
      BY <1>2, <1>3, <1>6, <2>1 DEF Gray
    <3>2. x \in Traversed \cup Strs
      BY <3>1 DEF MarkColor, Traversed, Obj
    <3> QED
      BY <1>1, <2>1, <3>2
  <2>2. CASE x \notin M
    <3>1. Gray(x) /\ x \notin grays
      BY <1>6, <2>2 DEF Gray
    <3>2. x \notin uvs
      BY <1>2, <1>4, <3>1
    <3> QED
      BY <1>1, <1>9, <3>1, <3>2 DEF GraysListed
  <2> QED
    BY <2>1, <2>2
<1>20. ListedLive'
  <2>1. \A x \in gray \cup grayagain \cup weak : x \in Obj
    BY Kinds DEF ListTypes
  <2>2. \A x \in M : x \in Obj /\ Live(x)
    BY <1>3 DEF White, Live
  <2>3. Marking => dead = {}
    BY <1>2, <1>4
  <2> QED
    BY <1>1, <1>7, <2>1, <2>2, <2>3 DEF ListedLive, Marking
<1>21. MainMarked'
  BY <1>1, <1>18, Kinds DEF MainMarked, Marking
<1>22. TriColor'
  <2> SUFFICES ASSUME Marking, NEW x \in Obj \ mmudata, Black(x)', NEW w \in Strong(x)', White(w)'
               PROVE  FALSE
    BY <1>1 DEF TriColor, Marking
  <2>1. x \notin dead /\ Strong(x)' = Strong(x) /\ Strong(x) \subseteq Obj
    BY <1>2, <1>4, <1>10, ContentsTypes
  <2>2. w \in Strong(x) /\ White(w) /\ w \notin M
    BY <1>18, <2>1
  <2>3. CASE x \in grays
    BY <1>2, <1>3, <1>10, <2>1, <2>2, <2>3
  <2>4. CASE x \in M
    <3>1. x \in Udata
      BY <1>2, <1>3, <1>6, <2>4 DEF Black, MarkColor
    <3> QED
      BY <1>3, <2>2, <2>4, <3>1
  <2>5. CASE x \notin grays \cup M
    BY <1>6, <2>1, <2>2, <2>5 DEF TriColor, Black
  <2> QED
    BY <2>3, <2>4, <2>5
<1> QED
  BY <1>11, <1>12, <1>13, <1>14, <1>15, <1>16, <1>17, <1>19, <1>20, <1>21, <1>22

-----------------------------------------------------------------------------
LEMMA MutateSInv ==
  ASSUME IInv, SInv, Mutate
  PROVE  SInv'
<1>1. Kept
  BY DEF Mutate, Kept
<1>2. PICK t \in Threads :
        /\ Active(t)
        /\ \/ \E s \in Slots(t), o \in Obj : New(t, s, o) \/ Intern(t, s, o) \/ NewClosure(t, s, o)
           \/ \E s \in Slots(t) : Load(t, s) \/ CloseUpvalues(t, s)
           \/ \E s \in UNION {Slots(c) : c \in Threads} : Give(t, s)
           \/ \E o \in Obj, v \in Obj :
                \/ StoreTable(t, o, v) \/ ClearField(t, o, v)
                \/ StoreObject(t, o, v) \/ StoreUpvalue(t, o, v) \/ JoinUpvalue(t, o, v)
  BY DEF Mutate
<1>3. CASE \E s \in Slots(t), o \in Obj : New(t, s, o) \/ Intern(t, s, o) \/ NewClosure(t, s, o)
  BY <1>1, <1>2, <1>3, NewSInv, InternSInv, NewClosureSInv
<1>4. CASE \E s \in Slots(t) : Load(t, s) \/ CloseUpvalues(t, s)
  BY <1>1, <1>2, <1>4, LoadSInv, CloseUpvaluesSInv
<1>5. CASE \E s \in UNION {Slots(c) : c \in Threads} : Give(t, s)
  BY <1>1, <1>2, <1>5, GiveSInv
<1>6. CASE \E o \in Obj, v \in Obj :
             \/ StoreTable(t, o, v) \/ ClearField(t, o, v)
             \/ StoreObject(t, o, v) \/ StoreUpvalue(t, o, v) \/ JoinUpvalue(t, o, v)
  BY <1>1, <1>2, <1>6, StoreTableSInv, ClearFieldSInv, StoreObjectSInv, StoreUpvalueSInv,
     JoinUpvalueSInv
<1> QED
  BY <1>2, <1>3, <1>4, <1>5, <1>6

LEMMA StutterSInv ==
  ASSUME IInv, SInv, UNCHANGED vars
  PROVE  SInv'
<1> USE DEF SInv, vars, lists
<1>1. \A o \in Obj : /\ Safe(o)' = Safe(o) /\ Dead(o)' = Dead(o) /\ Live(o)' = Live(o)
                    /\ White(o)' = White(o) /\ Black(o)' = Black(o) /\ Gray(o)' = Gray(o)
  BY DEF Safe, Dead, Live, White, Black, Gray
<1>2. /\ \A o \in Obj : Strong(o)' = Strong(o) /\ Refs(o)' = Refs(o)
      /\ \A u \in Upvals : Open(u)' <=> Open(u)
      /\ \A t \in Threads : OnStack(t)' = OnStack(t)
  BY ContentsKept
<1>3. Main \in Obj /\ mmudata \subseteq Obj
  BY Kinds DEF IInv, ListTypes
<1>4. SafeClosed'
  <2>1. \A x \in Obj : Safe(x)' => \A v \in Refs(x)' : Safe(x) /\ v \in Refs(x)
    BY <1>1, <1>2
  <2> QED
    BY <1>1, <2>1, SafeGrows
<1>5. NoneDead' /\ SweepListed'
  BY <1>1 DEF NoneDead, SweepListed, Sweeping, heap, Live, Open
<1>6. FreeIsEmpty' /\ KindColors' /\ OpenUpvalues'
  BY <1>2 DEF FreeIsEmpty, KindColors, OpenUpvalues, heap, Live, Open
<1>7. GraysListed' /\ ListedLive' /\ MainMarked'
  BY <1>1, <1>2, <1>3 DEF GraysListed, ListedLive, MainMarked, Marking, Live
<1>8. TriColor'
  BY <1>1, <1>2, ContentsTypes DEF TriColor, Marking
<1>9. SweepCovers'
  BY DEF SweepCovers, Marking, heap, Live, Open
<1> QED
  BY <1>4, <1>5, <1>6, <1>7, <1>8, <1>9

LEMMA NextSInv == IInv /\ SInv /\ [Next]_vars => SInv'
  BY MarkStartSInv, PropagateSInv, EndPropagateSInv, AtomicSInv, SweepStringSInv, SweepSInv,
     FinalizeSInv, FullGCSInv, MutateSInv, StutterSInv DEF Next, Collect

\* What keeps objects that a program can reach from being freed is invariant:
\* no step of gc_onestep, barrier or allocation breaks it.
THEOREM SafetyInductive == Spec => []RInv
<1>1. Init => RInv
  BY InitIInv, InitSInv DEF RInv
<1>2. RInv /\ [Next]_vars => RInv'
  BY NextIInv, NextSInv DEF RInv
<1> QED
  BY <1>1, <1>2, PTL DEF Spec

\* The collector frees nothing, and condemns nothing, that the program can
\* still reach (atomic, gc_sweep and lj_gc_fullgc of lj_gc.c), however the
\* program's stores, its closures and its finalizers fall between the steps.
THEOREM NothingReachableDies == Spec => []ReachableIsKept
<1>1. RInv => ReachableIsKept
  <2> SUFFICES ASSUME RInv PROVE ReachableIsKept
    OBVIOUS
  <2> DEFINE T == {o \in Obj : Safe(o)}
             E == UNION {{o} \X Refs(o) : o \in Obj}
  <2>1. {Main} \cup mmudata \subseteq T
    BY Kinds DEF RInv, SInv, SafeClosed, IInv, ListTypes
  <2>2. \A o \in T : Refs(o) \subseteq T
    BY ContentsTypes DEF RInv, SInv, SafeClosed
  <2>3. \A e \in E : e[2] \in Refs(e[1])
    OBVIOUS
  <2>4. \A e \in E : e[1] \in T => e[2] \in T
    BY <2>2, <2>3
  <2>5. Reachable = Found({Main} \cup mmudata, E)
    BY DEF Reachable
  <2> HIDE DEF E
  <2>6. Reachable \subseteq T
    BY <2>1, <2>4, <2>5, FoundLeast
  <2> QED
    BY <2>6 DEF ReachableIsKept, Safe
<1> QED
  BY <1>1, SafetyInductive, PTL

\* Until the sweep begins no black object refers to a white one: the barriers
\* of lj_gc.h, lj_gc_closeuv and propagatemark keep the colors in order.
THEOREM ColorsKept == Spec => []TriColor
<1>1. RInv => TriColor
  BY DEF RInv, SInv
<1> QED
  BY <1>1, SafetyInductive, PTL

\* A cycle leaves every object of the current white behind: neither gc_sweep
\* nor a full collection that cuts a cycle short misses one.
THEOREM NoneMissed == Spec => []SweptClean
<1>1. RInv => SweptClean
  <2>1. phase \in {"pause", "finalize"} => ~Marking /\ ~Sweeping
    BY DEF Marking, Sweeping
  <2>2. RInv /\ ~Sweeping => sweep = {}
    BY DEF RInv, SInv, SweepListed
  <2> QED
    BY <2>1, <2>2 DEF RInv, SInv, SweepCovers, SweptClean
<1> QED
  BY <1>1, SafetyInductive, PTL
=============================================================================
