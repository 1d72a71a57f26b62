------------------------------- MODULE BcWrite -------------------------------
(***************************************************************************)
(* The writer of plain dumps (src/src/lj_bcwrite.c), always stripped, into *)
(* a buffer that never refuses (writer_buf of src/ByteCodeDec.cpp), and    *)
(* the reader that a decompiler would use on its output: lj_bcread of the  *)
(* unmodified LuaJIT, which is still in src/src/lj_bcread.c.               *)
(***************************************************************************)
EXTENDS BcFormat

CONSTANT StockMagic     \* ESC, 'L', 'J' and the version

PROTO_CHILD == 1
PROTO_FFI == 4
PROTO_KEPT == 8         \* the flags below this one are written
STRIP == 2
FFI == 4

Bit(flags, f) == (flags \div f) % 2 = 1

VARIABLES
  root,      \* ctx->pt
  frames,    \* the calls of bcwrite_proto under way, the innermost last
  sb,        \* what was passed to the writer function
  writing    \* "header", "protos" or "done"

writeVars == <<root, frames, sb, writing>>

\* A call of bcwrite_proto, and which constants it has not looked at.
Frame(t) == [pt |-> t, left |-> IF Bit(t.flags, PROTO_CHILD) THEN Len(t.kgc) ELSE 0]

WriteHeader ==
  /\ writing = "header"
  /\ sb' = sb \o StockMagic
              \o <<STRIP + (IF Bit(root.flags, PROTO_FFI) THEN FFI ELSE 0)>>
  /\ frames' = <<Frame(root)>>
  /\ writing' = "protos"
  /\ UNCHANGED root

\* Children are written first, the last one before the others.
VisitConstant ==
  /\ writing = "protos" /\ frames # <<>> /\ Last(frames).left > 0
  /\ LET f == Last(frames)
         k == f.pt.kgc[f.left]
         rest == Append(Front(frames), [f EXCEPT !.left = @ - 1])
     IN  frames' = IF k[1] = "child" THEN Append(rest, Frame(k[2])) ELSE rest
  /\ UNCHANGED <<root, sb, writing>>

\* The tables of a prototype, and the orders in which nodes may hold their keys.
Tables(t) == {k \in Range(t.kgc) : k[1] = "tab"}
NodeOrders(t) ==
  {keys \in [Tables(t) -> UNION {Orders(k) : k \in Tables(t)}] :
     \A k \in Tables(t) : keys[k] \in Orders(k)}

KgcBytes(k, keys) ==
  CASE k[1] = "str" -> UlebBytes(KGC_STR + Len(k[2])) \o k[2]
    [] k[1] = "child" -> UlebBytes(KGC_CHILD)
    [] k[1] = "tab" -> UlebBytes(KGC_TAB) \o KTabBytes(k, keys[k])

\* A prototype after its length.
ProtoBody(t, keys) ==
  <<t.flags % PROTO_KEPT, t.numparams, t.framesize, Len(t.uv)>>
    \o UlebBytes(Len(t.kgc)) \o UlebBytes(Len(t.knum)) \o UlebBytes(Len(t.code))
    \o FlattenSeq(t.code) \o FlattenSeq(t.uv)
    \o FlattenSeq([i \in DOMAIN t.kgc |-> KgcBytes(t.kgc[i], keys)])
    \o FlattenSeq([i \in DOMAIN t.knum |-> KNumBytes(t.knum[i])])

\* A bug: room for one digit of the length only.
ShortLength(body) == <<Len(body)>> \o body

\* The length, a word, is known last and put in front.
WithLength(body) == UlebBytes(Len(body) % Word) \o body

WriteProto ==
  /\ writing = "protos" /\ frames # <<>> /\ Last(frames).left = 0
  /\ \E keys \in NodeOrders(Last(frames).pt) :
       sb' = sb \o WithLength(ProtoBody(Last(frames).pt, keys))
  /\ frames' = Front(frames)
  /\ UNCHANGED <<root, writing>>

WriteFooter ==
  /\ writing = "protos" /\ frames = <<>>
  /\ sb' = Append(sb, 0)
  /\ writing' = "done"
  /\ UNCHANGED <<root, frames>>

WriteNext == WriteHeader \/ VisitConstant \/ WriteProto \/ WriteFooter

-----------------------------------------------------------------------------
\* bcread_kgc: one constant, with the stack of prototypes.
StockConstant(s, r) ==
  LET tp == Uleb(s, r.to)
      str == Block(s, tp.to, tp.v - KGC_STR)
      with(to, k, rest) == [ok |-> r.ok, v |-> Append(r.v, k), to |-> to, stack |-> rest]
      table(tab) == with(tab.to, tab.v, r.stack)
  IN  CASE tp.v >= KGC_STR -> with(str.to, <<"str", str.v>>, r.stack)
        [] tp.v = KGC_TAB -> table(KTab(s, tp.to))
        [] tp.v = KGC_CHILD /\ r.stack # <<>> ->
             with(tp.to, <<"child", Last(r.stack)>>, Front(r.stack))
        [] OTHER -> [r EXCEPT !.ok = FALSE]

StockConstants(s, i, stack, n) ==
  LET read[k \in 0..n] ==
        IF k = 0 THEN [ok |-> TRUE, v |-> <<>>, to |-> i, stack |-> stack]
        ELSE StockConstant(s, read[k - 1])
  IN  read[n]

\* lj_bcread_proto of a stripped dump, after the length.
StockProto(s, i, stack) ==
  LET size == List([j \in Nat |-> Uleb(s, j)], i + 4, 3)
      code == List([j \in Nat |-> Block(s, j, 4)], size.to, size.v[3])
      uv == List([j \in Nat |-> Block(s, j, 2)], code.to, At(s, i + 3))
      proto(kgc) ==
        LET knum == List([j \in Nat |-> KNum(s, j)], kgc.to, size.v[2])
        IN  [ok |-> kgc.ok, to |-> knum.to, stack |-> kgc.stack,
             v |-> [flags |-> At(s, i), numparams |-> At(s, i + 1), framesize |-> At(s, i + 2),
                    uv |-> uv.v, code |-> code.v, knum |-> knum.v, kgc |-> kgc.v]]
  IN  proto(StockConstants(s, uv.to, stack, size.v[1]))

Unreadable == [ok |-> FALSE]

\* One round of the loop of lj_bcread: one prototype is left at the end, and
\* it is returned.
StockRound(s, to, stack) ==
  LET len == Uleb(s, to)
      pushed(r) == IF r.ok /\ r.to = len.to + len.v
                     THEN [to |-> r.to, stack |-> Append(r.stack, r.v)]
                     ELSE Unreadable
  IN  CASE len.to > Len(s) \/ len.to + len.v > Len(s) -> Unreadable
        [] len.v = 0 /\ len.to = Len(s) ->
             IF Len(stack) = 1 THEN [ok |-> TRUE, v |-> stack[1]] ELSE Unreadable
        [] OTHER -> pushed(StockProto(s, len.to, stack))

\* The rounds from offset i on; none but the last takes less than a byte.
StockRounds(s, i) ==
  LET round[k \in 0..Len(s)] ==
        IF k = 0 THEN [to |-> i, stack |-> <<>>]
        ELSE LET r == round[k - 1]
             IN  IF "ok" \in DOMAIN r THEN r ELSE StockRound(s, r.to, r.stack)
  IN  round

\* lj_bcread of a stripped dump.
StockRead(s) ==
  IF SubSeq(s, 1, 4) = StockMagic /\ At(s, 4) \in {STRIP, STRIP + FFI}
    THEN StockRounds(s, 5)[Len(s)]
    ELSE Unreadable
=============================================================================
