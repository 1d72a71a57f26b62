---------------------------- MODULE BcTool_proofs ----------------------------
(***************************************************************************)
(* What the tool bcdec writes, unmodified LuaJIT reads back: the writer's  *)
(* invariant, and with that of the reader (BcDec_proofs) the theorem that  *)
(* every output holds what an input of its name stands for.  With these    *)
(* two, the types of module BcDec.                                         *)
(***************************************************************************)
EXTENDS BcDec_proofs

-----------------------------------------------------------------------------
(* What unmodified LuaJIT reads from the bytes that lj_bcwrite makes.      *)

\* Items of w bytes each.
BlockItems(s, w) == [j \in Nat |-> Block(s, j, w)]

LEMMA BlocksRead ==
  ASSUME NEW ss \in Seq(Seq(Byte)), NEW w \in Nat, \A k \in 1..Len(ss) : Len(ss[k]) = w
  PROVE  /\ FlattenSeq(ss) \in Seq(Byte)
         /\ \A s : \A i \in Nat :
              Len(s) \in Nat /\ Here(s, i, FlattenSeq(ss)) =>
                /\ List(BlockItems(s, w), i, Len(ss)).v = ss
                /\ List(BlockItems(s, w), i, Len(ss)).to = i + Len(FlattenSeq(ss))
<1>1. FlattenSeq(ss) \in Seq(Byte)
  <2>1. 0 \in Nat
    OBVIOUS
  <2> QED
    BY <2>1, Flattened
<1>2. ASSUME NEW s, NEW i \in Nat, Len(s) \in Nat, Here(s, i, FlattenSeq(ss))
      PROVE  /\ List(BlockItems(s, w), i, Len(ss)).v = ss
             /\ List(BlockItems(s, w), i, Len(ss)).to = i + Len(FlattenSeq(ss))
  <2>1. ASSUME NEW k \in 1..Len(ss), NEW j \in Nat, Here(s, j, ss[k])
        PROVE  BlockItems(s, w)[j].v = ss[k] /\ BlockItems(s, w)[j].to = j + Len(ss[k])
    <3> DEFINE x == ss[k]
    <3>1. x \in Seq(Byte) /\ Len(x) = w /\ Here(s, j, x) /\ Len(s) \in Nat
      BY <1>2, <2>1
    <3> HIDE DEF x
    <3>4. x \in Seq(Byte) /\ Here(s, j, x) /\ Len(s) \in Nat
      BY <3>1
    <3>2. Block(s, j, Len(x)).v = x /\ Block(s, j, Len(x)).to = j + Len(x)
      BY <3>4, HereBlock
    <3>3. BlockItems(s, w)[j] = Block(s, j, Len(x))
      BY <3>1 DEF BlockItems
    <3> QED
      BY <3>2, <3>3 DEF x
  <2>2. Reads(BlockItems(s, w), s, ss, ss)
    BY <2>1 DEF Reads
  <2>3. /\ List(BlockItems(s, w), i, Len(ss)).v = [k \in 1..Len(ss) |-> ss[k]]
        /\ List(BlockItems(s, w), i, Len(ss)).to = i + Len(FlattenSeq(ss))
    BY <1>2, <2>2, ListRead
  <2>4. ss = [k \in 1..Len(ss) |-> ss[k]]
    BY SeqSelf
  <2> QED
    BY <2>3, <2>4
<1> QED
  BY <1>1, <1>2

\* Three numbers after other bytes.
UlebItems(s) == [j \in Nat |-> Uleb(s, j)]
ThreeSizes(h, a, b, e) == ((h \o UlebBytes(a)) \o UlebBytes(b)) \o UlebBytes(e)

ThreeFound(s, i, h, a, b, e) ==
  /\ Here(s, i, h)
  /\ List(UlebItems(s), i + Len(h), 3).v = [k \in 1..3 |-> <<a, b, e>>[k]]
  /\ List(UlebItems(s), i + Len(h), 3).to = i + Len(ThreeSizes(h, a, b, e))

LEMMA ThreeRead ==
  ASSUME NEW h \in Seq(Byte), NEW a \in 0..(Word - 1), NEW b \in 0..(Word - 1),
         NEW e \in 0..(Word - 1)
  PROVE  /\ ThreeSizes(h, a, b, e) \in Seq(Byte)
         /\ \A s : \A i \in Nat :
              Len(s) \in Nat /\ Here(s, i, ThreeSizes(h, a, b, e)) => ThreeFound(s, i, h, a, b, e)
<1> DEFINE y1 == h \o UlebBytes(a)
           y2 == y1 \o UlebBytes(b)
           y3 == y2 \o UlebBytes(e)
<1>1. UlebBytes(a) \in Seq(Byte) /\ UlebBytes(b) \in Seq(Byte) /\ UlebBytes(e) \in Seq(Byte)
  BY WordBytesType
<1>2. y1 \in Seq(Byte)
  BY <1>1, ConcatType
<1>3. y2 \in Seq(Byte)
  <2> HIDE DEF y1
  <2> QED
    BY <1>1, <1>2, ConcatType
<1>4. y3 \in Seq(Byte)
  <2> HIDE DEF y2
  <2> QED
    BY <1>1, <1>3, ConcatType
<1>5. ASSUME NEW s, NEW i \in Nat, Len(s) \in Nat, Here(s, i, y3)
      PROVE  /\ Here(s, i, h)
             /\ List(UlebItems(s), i + Len(h), 3).v = [k \in 1..3 |-> <<a, b, e>>[k]]
             /\ List(UlebItems(s), i + Len(h), 3).to = i + Len(y3)
  <2>1. /\ Here(s, i, y2) /\ i + Len(y2) \in Nat
        /\ Uleb(s, i + Len(y2)).v = e /\ Uleb(s, i + Len(y2)).to = i + Len(y3)
    <3> HIDE DEF y2
    <3> QED
      BY <1>3, <1>5, UlebNext
  <2>2. /\ Here(s, i, y1) /\ i + Len(y1) \in Nat
        /\ Uleb(s, i + Len(y1)).v = b /\ Uleb(s, i + Len(y1)).to = i + Len(y2)
    <3> HIDE DEF y1
    <3> QED
      BY <1>2, <1>5, <2>1, UlebNext
  <2>3. /\ Here(s, i, h) /\ i + Len(h) \in Nat
        /\ Uleb(s, i + Len(h)).v = a /\ Uleb(s, i + Len(h)).to = i + Len(y1)
    BY <1>5, <2>2, UlebNext
  <2> DEFINE q == i + Len(h)
             q1 == i + Len(y1)
             q2 == i + Len(y2)
             q3 == i + Len(y3)
             pos == [k \in 0..3 |-> IF k = 0 THEN q ELSE IF k = 1 THEN q1
                                    ELSE IF k = 2 THEN q2 ELSE q3]
             val == <<a, b, e>>
  <2>4. /\ q \in Nat /\ q1 \in Nat /\ q2 \in Nat
        /\ UlebItems(s)[q] = Uleb(s, q) /\ UlebItems(s)[q1] = Uleb(s, q1)
        /\ UlebItems(s)[q2] = Uleb(s, q2)
    BY <2>1, <2>2, <2>3 DEF UlebItems
  <2>5. /\ UlebItems(s)[q].v = a /\ UlebItems(s)[q].to = q1
        /\ UlebItems(s)[q1].v = b /\ UlebItems(s)[q1].to = q2
        /\ UlebItems(s)[q2].v = e /\ UlebItems(s)[q2].to = q3
    <3> HIDE DEF y1, y2, y3
    <3> QED
      BY <2>1, <2>2, <2>3, <2>4
  <2>6. pos[0] = q /\ pos[1] = q1 /\ pos[2] = q2 /\ pos[3] = q3
    <3> HIDE DEF q, q1, q2, q3
    <3> QED
      OBVIOUS
  <2> HIDE DEF q, q1, q2, q3, pos
  <2>7. Chain(UlebItems(s), pos, val, 3)
    <3>1. ASSUME NEW k \in 1..3
          PROVE  UlebItems(s)[pos[k - 1]].to = pos[k] /\ UlebItems(s)[pos[k - 1]].v = val[k]
      <4>1. k = 1 \/ k = 2 \/ k = 3
        OBVIOUS
      <4> QED
        BY <2>5, <2>6, <4>1
    <3> QED
      BY <3>1 DEF Chain
  <2> HIDE DEF val
  <2> DEFINE m == 3
             item == UlebItems(s)
  <2>8. q \in Nat /\ m \in Nat /\ pos[0] = q /\ Chain(item, pos, val, m)
    BY <2>4, <2>6, <2>7
  <2> HIDE DEF m, item
  <2>9. List(item, q, m).v = [k \in 1..m |-> val[k]] /\ List(item, q, m).to = pos[m]
    BY <2>8, ListIs
  <2> QED
    BY <2>3, <2>6, <2>9 DEF q, q3, val, m, item
<1>6. ASSUME NEW s, NEW i \in Nat, Len(s) \in Nat, Here(s, i, y3)
      PROVE  ThreeFound(s, i, h, a, b, e)
  BY <1>5, <1>6, Zenon DEF ThreeFound, ThreeSizes
<1>7. y3 = ThreeSizes(h, a, b, e)
  BY DEF ThreeSizes
<1> HIDE DEF y3
<1> QED
  BY <1>4, <1>6, <1>7, Zenon

\* The first k members of a sequence.
Prefix(x, k) == [l \in 1..k |-> x[l]]

LEMMA PrefixGrows ==
  ASSUME NEW x, NEW k \in Nat
  PROVE  Append(Prefix(x, k), x[k + 1]) = Prefix(x, k + 1)
<1> DEFINE s == Prefix(x, k)
           a == Append(s, x[k + 1])
<1>1. s = [l \in 1..k |-> s[l]] /\ \A l \in 1..k : s[l] = x[l]
  BY DEF Prefix
<1> HIDE DEF s
<1>2. a = [l \in 1..(k + 1) |-> a[l]] /\ a[k + 1] = x[k + 1] /\ \A l \in 1..k : a[l] = s[l]
  BY <1>1, PushIs
<1> HIDE DEF a
<1>3. \A l \in 1..(k + 1) : a[l] = x[l]
  <2> TAKE l \in 1..(k + 1)
  <2>1. l \in 1..k \/ l = k + 1
    OBVIOUS
  <2> QED
    BY <1>1, <1>2, <2>1
<1>4. a = Prefix(x, k + 1)
  BY <1>2, <1>3 DEF Prefix
<1> QED
  BY <1>4 DEF a, s

LEMMA PrefixShrinks ==
  ASSUME NEW x, NEW k \in Nat, k # 0
  PROVE  /\ Prefix(x, k) # <<>> /\ Len(Prefix(x, k)) = k
         /\ Last(Prefix(x, k)) = x[k] /\ Front(Prefix(x, k)) = Prefix(x, k - 1)
<1> DEFINE s == Prefix(x, k)
<1>1. s = [l \in 1..k |-> s[l]] /\ \A l \in 1..k : s[l] = x[l]
  BY DEF Prefix
<1> HIDE DEF s
<1>2. Len(s) = k /\ Last(s) = s[k] /\ Front(s) = [l \in 1..(k - 1) |-> s[l]]
  BY <1>1, PopIs
<1>3. s # <<>>
  BY <1>2
<1>4. s[k] = x[k]
  BY <1>1
<1>5. [l \in 1..(k - 1) |-> s[l]] = Prefix(x, k - 1)
  BY <1>1 DEF Prefix
<1> QED
  BY <1>2, <1>3, <1>4, <1>5 DEF s

\* bcread_kgc: one constant.
LEMMA StockConstantIs ==
  ASSUME NEW s, NEW i, NEW k, NEW to, StockFound(s, i, k, to), NEW v, NEW st,
         k[1] = "child" => st # <<>> /\ k = <<"child", Last(st)>>
  PROVE  StockConstant(s, [ok |-> TRUE, v |-> v, to |-> i, stack |-> st])
           = [ok |-> TRUE, v |-> Append(v, k), to |-> to,
              stack |-> IF k[1] = "child" THEN Front(st) ELSE st]
<1> DEFINE r == [ok |-> TRUE, v |-> v, to |-> i, stack |-> st]
           tp == Uleb(s, i)
           str == Block(s, tp.to, tp.v - KGC_STR)
           tab == KTab(s, tp.to)
           is(x, b, rest) == [ok |-> TRUE, v |-> Append(v, b), to |-> x, stack |-> rest]
<1>1. StockConstant(s, r) =
        CASE tp.v >= KGC_STR -> is(str.to, <<"str", str.v>>, st)
          [] tp.v = KGC_TAB -> is(tab.to, tab.v, st)
          [] tp.v = KGC_CHILD /\ st # <<>> -> is(tp.to, <<"child", Last(st)>>, Front(st))
          [] OTHER -> [r EXCEPT !.ok = FALSE]
  BY DEF StockConstant
<1>2. /\ ~(KGC_TAB >= KGC_STR) /\ ~(KGC_CHILD >= KGC_STR) /\ KGC_TAB # KGC_CHILD
  BY DEF KGC_TAB, KGC_STR, KGC_CHILD
<1> HIDE DEF r
<1>3. CASE IsString(k) /\ tp.v >= KGC_STR /\ <<"str", str.v>> = k /\ str.to = to
  <2>1. k[1] # "child"
    BY <1>3 DEF IsString
  <2>2. tp.v # KGC_TAB /\ tp.v # KGC_CHILD
    BY <1>2, <1>3
  <2> HIDE DEF tp, str, tab, is
  <2>3. StockConstant(s, r) = is(str.to, <<"str", str.v>>, st)
    BY <1>1, <1>3, <2>2
  <2> QED
    BY <1>3, <2>1, <2>3 DEF is, r
<1>4. CASE IsTable(k) /\ tp.v = KGC_TAB /\ tab.v = k /\ tab.to = to
  <2>1. k[1] # "child"
    BY <1>4 DEF IsTable
  <2>2. ~(tp.v >= KGC_STR) /\ tp.v # KGC_CHILD
    BY <1>2, <1>4
  <2> HIDE DEF tp, str, tab, is
  <2>3. StockConstant(s, r) = is(tab.to, tab.v, st)
    BY <1>1, <1>4, <2>2
  <2> QED
    BY <1>4, <2>1, <2>3 DEF is, r
<1>5. CASE k[1] = "child" /\ tp.v = KGC_CHILD /\ tp.to = to
  <2>1. st # <<>> /\ k = <<"child", Last(st)>>
    BY <1>5
  <2>2. ~(tp.v >= KGC_STR) /\ tp.v # KGC_TAB
    BY <1>2, <1>5
  <2> HIDE DEF tp, str, tab, is
  <2>3. StockConstant(s, r) = is(tp.to, <<"child", Last(st)>>, Front(st))
    BY <1>1, <1>5, <2>1, <2>2
  <2> QED
    BY <1>5, <2>1, <2>3 DEF is, r
<1> QED
  BY <1>3, <1>4, <1>5 DEF StockFound

KgcParts(t, keys) == [k \in 1..Len(t.kgc) |-> KgcBytes(t.kgc[k], keys)]

LEMMA PartsType ==
  ASSUME NEW t, IsProto(t), NEW keys \in NodeOrders(t)
  PROVE  /\ KgcParts(t, keys) \in Seq(Seq(Byte)) /\ Len(KgcParts(t, keys)) = Len(t.kgc)
         /\ Len(t.kgc) \in Nat
         /\ FlattenSeq(KgcParts(t, keys)) \in Seq(Byte)
         /\ \A k \in 1..Len(t.kgc) :
              /\ IsConstant(t.kgc[k]) /\ KgcParts(t, keys)[k] = KgcBytes(t.kgc[k], keys)
              /\ KgcBytes(t.kgc[k], keys) \in Seq(Byte)
              /\ \A s : \A i \in Nat :
                   Len(s) \in Nat /\ Here(s, i, KgcBytes(t.kgc[k], keys)) =>
                     StockFound(s, i, t.kgc[k], i + Len(KgcBytes(t.kgc[k], keys)))
<1> DEFINE m == Len(t.kgc)
           val == t.kgc
           ss == KgcParts(t, keys)
<1>1. m \in Nat /\ DOMAIN val = 1..m /\ \A k \in 1..m : IsConstant(val[k])
  BY DEF IsProto, IsConstant
<1>2. ASSUME NEW k \in 1..m
      PROVE  IsTable(val[k]) => keys[val[k]] \in Orders(val[k])
  <2>1. ASSUME IsTable(val[k]) PROVE val[k] \in Tables(t)
    <3>1. val[k][1] = "tab"
      BY <2>1 DEF IsTable
    <3>2. val[k] \in Range(t.kgc)
      BY <1>1 DEF Range
    <3> QED
      BY <3>1, <3>2 DEF Tables
  <2> QED
    BY <2>1 DEF NodeOrders
<1> HIDE DEF m, val
<1>3. ASSUME NEW k \in 1..m
      PROVE  /\ KgcBytes(val[k], keys) \in Seq(Byte)
             /\ \A s : \A i \in Nat :
                  Len(s) \in Nat /\ Here(s, i, KgcBytes(val[k], keys)) =>
                    StockFound(s, i, val[k], i + Len(KgcBytes(val[k], keys)))
  <2> DEFINE c0 == val[k]
  <2>1. IsConstant(c0) /\ (IsTable(c0) => keys[c0] \in Orders(c0))
    BY <1>1, <1>2
  <2> HIDE DEF c0
  <2>2. /\ KgcBytes(c0, keys) \in Seq(Byte)
        /\ \A s : \A i \in Nat :
             Len(s) \in Nat /\ Here(s, i, KgcBytes(c0, keys)) =>
               StockFound(s, i, c0, i + Len(KgcBytes(c0, keys)))
    BY <2>1, KgcRead
  <2> QED
    BY <2>2 DEF c0
<1>4. ss = [k \in 1..m |-> KgcBytes(val[k], keys)]
  BY DEF KgcParts, m, val
<1>5. ss \in [1..m -> Seq(Byte)]
  BY <1>3, <1>4
<1> HIDE DEF ss
<1>6. ss \in Seq(Seq(Byte)) /\ Len(ss) = m
  BY <1>1, <1>5, SeqIs
<1>7. FlattenSeq(ss) \in Seq(Byte)
  <2>1. 0 \in Nat
    OBVIOUS
  <2> QED
    BY <1>6, <2>1, Flattened
<1>8. \A k \in 1..m : ss[k] = KgcBytes(val[k], keys)
  BY <1>4
<1> QED
  BY <1>1, <1>3, <1>6, <1>7, <1>8 DEF ss, m, val

\* What is read before constant k + 1: the first k, whose prototypes were taken
\* from the end of the stack.
ReadFirst(t, pos, st, k) ==
  [ok |-> TRUE, v |-> Prefix(t.kgc, k), to |-> pos[k],
   stack |-> Prefix(st, Len(st) - Children(t, k))]

\* The children of t are at the end of st.
OnTop(t, st) ==
  /\ Len(st) \in Nat /\ Children(t, Len(t.kgc)) <= Len(st)
  /\ \A j \in 1..Len(t.kgc) :
       t.kgc[j][1] = "child" => t.kgc[j] = <<"child", st[Len(st) + 1 - Children(t, j)]>>

LEMMA StockConstantsIs ==
  ASSUME NEW s, NEW i, NEW t, Len(t.kgc) \in Nat, NEW pos, pos[0] = i,
         NEW st, st = Prefix(st, Len(st)), OnTop(t, st),
         \A k \in 1..Len(t.kgc) : StockFound(s, pos[k - 1], t.kgc[k], pos[k])
  PROVE  StockConstants(s, i, st, Len(t.kgc)) = ReadFirst(t, pos, st, Len(t.kgc))
<1> DEFINE n0 == Len(t.kgc)
           start == [ok |-> TRUE, v |-> <<>>, to |-> i, stack |-> st]
           Step(g, k) == IF k = 0 THEN start ELSE StockConstant(s, g[k - 1])
           read == CHOOSE read : read = [k \in 0..n0 |-> Step(read, k)]
           W(k) == ReadFirst(t, pos, st, k)
           g == [k \in 0..n0 |-> W(k)]
<1>1. /\ Children(t, 0) = 0
      /\ \A j \in 0..n0 : Children(t, j) \in Nat /\ Children(t, j) <= Children(t, n0)
      /\ \A j \in 1..n0 :
           Children(t, j) = Children(t, j - 1) + (IF t.kgc[j][1] = "child" THEN 1 ELSE 0)
  BY ChildrenCount
<1>2. W(0) = start
  <2>1. Len(st) - Children(t, 0) = Len(st)
    BY <1>1 DEF OnTop
  <2>2. Prefix(t.kgc, 0) = <<>>
    BY DEF Prefix
  <2> QED
    BY <2>1, <2>2 DEF ReadFirst
<1>3. ASSUME NEW k \in 1..n0
      PROVE  StockConstant(s, W(k - 1)) = W(k)
  <2> DEFINE x == t.kgc[k]
             q == Len(st) - Children(t, k - 1)
             v == Prefix(t.kgc, k - 1)
  <2>6. Len(st) \in Nat /\ Children(t, n0) <= Len(st)
    BY DEF OnTop
  <2>7. k - 1 \in Nat /\ k - 1 \in 0..n0 /\ (k - 1) + 1 = k /\ k \in 0..n0 /\ n0 \in 0..n0
    OBVIOUS
  <2>1. /\ k - 1 \in Nat /\ k - 1 \in 0..n0 /\ (k - 1) + 1 = k
        /\ Children(t, k - 1) \in Nat /\ Children(t, k - 1) <= Len(st) /\ Len(st) \in Nat
        /\ Children(t, k) <= Len(st) /\ Children(t, k) \in Nat
    <3> HIDE DEF n0
    <3>1. /\ Children(t, k - 1) \in Nat /\ Children(t, k - 1) <= Children(t, n0)
          /\ Children(t, k) \in Nat /\ Children(t, k) <= Children(t, n0)
          /\ Children(t, n0) \in Nat
      BY <1>1, <2>7
    <3> QED
      BY <2>6, <2>7, <3>1
  <2>2. q \in Nat
    BY <2>1
  <2>3. Append(v, x) = Prefix(t.kgc, k)
    BY <2>1, PrefixGrows
  <2>4. CASE x[1] = "child"
    <3>1. /\ q # 0 /\ Len(st) - Children(t, k) = q - 1
          /\ Len(st) + 1 - Children(t, k) = q
      <4>1. Children(t, k) = Children(t, k - 1) + 1
        BY <1>1, <2>4
      <4> DEFINE a == Children(t, k - 1)
                 b == Children(t, k)
                 l == Len(st)
      <4>2. a \in Nat /\ b \in Nat /\ l \in Nat /\ b = a + 1 /\ b <= l
        BY <2>1, <4>1
      <4> HIDE DEF a, b, l
      <4>3. l - a # 0 /\ l - b = (l - a) - 1 /\ (l + 1) - b = l - a
        BY <4>2
      <4> QED
        BY <4>2, <4>3 DEF a, b, l
    <3>2. x = <<"child", st[q]>>
      BY <2>4, <3>1 DEF OnTop
    <3> HIDE DEF q, x
    <3>3. /\ Prefix(st, q) # <<>>
          /\ Last(Prefix(st, q)) = st[q] /\ Front(Prefix(st, q)) = Prefix(st, q - 1)
      BY <2>2, <3>1, PrefixShrinks
    <3>4. StockFound(s, pos[k - 1], x, pos[k])
      BY DEF x
    <3>5. StockConstant(s, [ok |-> TRUE, v |-> v, to |-> pos[k - 1], stack |-> Prefix(st, q)])
            = [ok |-> TRUE, v |-> Append(v, x), to |-> pos[k], stack |-> Front(Prefix(st, q))]
      <4> DEFINE w == Prefix(st, q)
      <4>1. x[1] = "child" => w # <<>> /\ x = <<"child", Last(w)>>
        BY <3>2, <3>3
      <4> HIDE DEF w, v
      <4>2. StockConstant(s, [ok |-> TRUE, v |-> v, to |-> pos[k - 1], stack |-> w])
              = [ok |-> TRUE, v |-> Append(v, x), to |-> pos[k],
                 stack |-> IF x[1] = "child" THEN Front(w) ELSE w]
        BY <3>4, <4>1, StockConstantIs
      <4> QED
        BY <2>4, <4>2 DEF w
    <3> QED
      BY <2>3, <3>1, <3>3, <3>5 DEF ReadFirst, q
  <2>5. CASE x[1] # "child"
    <3>1. Children(t, k) = Children(t, k - 1)
      BY <1>1, <2>1, <2>5
    <3> HIDE DEF q, x
    <3>2. StockFound(s, pos[k - 1], x, pos[k])
      BY DEF x
    <3>3. StockConstant(s, [ok |-> TRUE, v |-> v, to |-> pos[k - 1], stack |-> Prefix(st, q)])
            = [ok |-> TRUE, v |-> Append(v, x), to |-> pos[k], stack |-> Prefix(st, q)]
      <4> DEFINE w == Prefix(st, q)
      <4> HIDE DEF w, v
      <4>2. StockConstant(s, [ok |-> TRUE, v |-> v, to |-> pos[k - 1], stack |-> w])
              = [ok |-> TRUE, v |-> Append(v, x), to |-> pos[k],
                 stack |-> IF x[1] = "child" THEN Front(w) ELSE w]
        BY <2>5, <3>2, StockConstantIs
      <4> QED
        BY <2>5, <4>2 DEF w
    <3> QED
      BY <2>3, <3>1, <3>3 DEF ReadFirst, q
  <2> QED
    BY <2>4, <2>5
<1> HIDE DEF W, start, n0
<1>4. n0 \in Nat
  BY DEF n0
<1>5. g = [k \in 0..n0 |-> Step(g, k)]
  <2>1. ASSUME NEW k \in 0..n0 PROVE W(k) = Step(g, k)
    <3>1. CASE k = 0
      BY <1>2, <3>1
    <3>2. CASE k # 0
      <4>1. k \in 1..n0 /\ k - 1 \in 0..n0
        BY <1>4, <3>2
      <4> QED
        BY <1>3, <3>2, <4>1
    <3> QED
      BY <3>1, <3>2
  <2> HIDE DEF Step
  <2> QED
    BY <2>1
<1>6. read = [k \in 0..n0 |-> Step(read, k)]
  <2> HIDE DEF Step, g
  <2> QED
    BY <1>5
<1>7. StockConstants(s, i, st, n0) = read[n0]
  BY DEF StockConstants, start
<1> HIDE DEF read
<1> DEFINE T == {k \in Nat : k <= n0 => read[k] = W(k)}
<1>8. 0 \in T
  BY <1>2, <1>4, <1>6
<1>9. ASSUME NEW k \in Nat, k \in T PROVE k + 1 \in T
  <2>1. SUFFICES ASSUME k + 1 <= n0 PROVE read[k + 1] = W(k + 1)
    OBVIOUS
  <2>2. k + 1 \in 1..n0 /\ k + 1 \in 0..n0 /\ (k + 1) - 1 = k /\ k + 1 # 0 /\ read[k] = W(k)
    BY <1>4, <1>9, <2>1
  <2>3. read[k + 1] = StockConstant(s, read[k])
    BY <1>6, <2>2
  <2> QED
    BY <1>3, <2>2, <2>3
<1> HIDE DEF T
<1>10. Nat \subseteq T
  BY <1>8, <1>9, Induction
<1>11. read[n0] = W(n0)
  BY <1>4, <1>10 DEF T
<1> QED
  BY <1>7, <1>11 DEF n0, W

LEMMA JoinNext ==
  ASSUME NEW s, Len(s) \in Nat, NEW i \in Nat, NEW x \in Seq(Byte), NEW y \in Seq(Byte),
         Here(s, i, x \o y)
  PROVE  /\ Here(s, i, x) /\ Here(s, i + Len(x), y) /\ i + Len(x) \in Nat
         /\ (i + Len(x)) + Len(y) = i + Len(x \o y)
<1>1. Here(s, i, x) /\ Here(s, i + Len(x), y)
  BY HereJoined
<1>2. Len(x \o y) = Len(x) + Len(y) /\ Len(x) \in Nat /\ Len(y) \in Nat
  BY ConcatType
<1> QED
  BY <1>1, <1>2

\* The code and the upvalues of a prototype as they are written.
LEMMA PlainItems ==
  ASSUME NEW t, IsProto(t)
  PROVE  /\ t.code \in Seq(Seq(Byte)) /\ Len(t.code) \in Nat
         /\ \A k \in 1..Len(t.code) : Len(t.code[k]) = 4
         /\ t.uv \in Seq(Seq(Byte)) /\ Len(t.uv) \in Nat
         /\ \A k \in 1..Len(t.uv) : Len(t.uv[k]) = 2
<1>1. \A x \in (0..(Modulus - 1)) \X Byte \X Byte \X Byte : x \in Seq(Byte) /\ Len(x) = 4
  <2> TAKE x \in (0..(Modulus - 1)) \X Byte \X Byte \X Byte
  <2>1. 0..(Modulus - 1) \subseteq Byte
    BY CipherAssumption, HalfFacts DEF Byte
  <2>2. /\ x = <<x[1], x[2], x[3], x[4]>>
        /\ x[1] \in Byte /\ x[2] \in Byte /\ x[3] \in Byte /\ x[4] \in Byte
    BY <2>1
  <2>3. <<x[1], x[2], x[3], x[4]>> \in Seq(Byte) /\ Len(<<x[1], x[2], x[3], x[4]>>) = 4
    BY <2>2
  <2> QED
    BY <2>2, <2>3
<1>2. \A x \in Byte \X Byte : x \in Seq(Byte) /\ Len(x) = 2
  <2> TAKE x \in Byte \X Byte
  <2>1. x = <<x[1], x[2]>> /\ x[1] \in Byte /\ x[2] \in Byte
    OBVIOUS
  <2>2. <<x[1], x[2]>> \in Seq(Byte) /\ Len(<<x[1], x[2]>>) = 2
    BY <2>1
  <2> QED
    BY <2>1, <2>2
<1>3. ASSUME NEW S, NEW m, NEW x \in Seq(S), \A a \in S : a \in Seq(Byte) /\ Len(a) = m
      PROVE  /\ x \in Seq(Seq(Byte)) /\ Len(x) \in Nat
             /\ \A k \in 1..Len(x) : Len(x[k]) = m
  <2>1. Len(x) \in Nat /\ \A k \in 1..Len(x) : x[k] \in S
    OBVIOUS
  <2>2. x = [k \in 1..Len(x) |-> x[k]]
    BY SeqSelf
  <2>3. x \in [1..Len(x) -> Seq(Byte)]
    BY <1>3, <2>1, <2>2
  <2>4. x \in Seq(Seq(Byte))
    BY <2>1, <2>3, SeqIs
  <2> QED
    BY <1>3, <2>1, <2>4
<1>4. t.code \in Seq((0..(Modulus - 1)) \X Byte \X Byte \X Byte) /\ t.uv \in Seq(Byte \X Byte)
  BY DEF IsProto
<1> HIDE DEF IsProto
<1>5. /\ t.code \in Seq(Seq(Byte)) /\ Len(t.code) \in Nat
      /\ \A k \in 1..Len(t.code) : Len(t.code[k]) = 4
  BY <1>1, <1>3, <1>4
<1>6. /\ t.uv \in Seq(Seq(Byte)) /\ Len(t.uv) \in Nat
      /\ \A k \in 1..Len(t.uv) : Len(t.uv[k]) = 2
  BY <1>2, <1>3, <1>4
<1> QED
  BY <1>5, <1>6

\* The constants of a prototype that is read from i on.
LEMMA ConstantsBack ==
  ASSUME NEW t, IsProto(t), NEW keys \in NodeOrders(t), NEW s, Len(s) \in Nat, NEW i \in Nat,
         Here(s, i, FlattenSeq(KgcParts(t, keys))),
         NEW st, st = Prefix(st, Len(st)), OnTop(t, st)
  PROVE  StockConstants(s, i, st, Len(t.kgc))
           = [ok |-> TRUE, v |-> Prefix(t.kgc, Len(t.kgc)),
              to |-> i + Len(FlattenSeq(KgcParts(t, keys))),
              stack |-> Prefix(st, Len(st) - Children(t, Len(t.kgc)))]
<1> DEFINE ss == KgcParts(t, keys)
           m == Len(t.kgc)
           pos == Places(i, ss)
<1>1. /\ ss \in Seq(Seq(Byte)) /\ Len(ss) = m /\ m \in Nat
      /\ \A k \in 1..m :
           /\ ss[k] = KgcBytes(t.kgc[k], keys) /\ ss[k] \in Seq(Byte)
           /\ \A q \in Nat :
                Len(s) \in Nat /\ Here(s, q, ss[k]) => StockFound(s, q, t.kgc[k], q + Len(ss[k]))
  BY PartsType
<1> HIDE DEF ss
<1>2. /\ pos \in [0..m -> Nat] /\ pos[0] = i
      /\ \A k \in 1..m : pos[k] = pos[k - 1] + Len(ss[k])
  <2>1. Len(ss) \in Nat /\ \A k \in 1..Len(ss) : Len(ss[k]) \in Nat
    BY <1>1
  <2> QED
    BY <1>1, <2>1, PlacesFit
<1>3. pos[m] = i + Len(FlattenSeq(ss)) /\ \A k \in 1..m : Here(s, pos[k - 1], ss[k])
  <2>1. Here(s, i, FlattenSeq(ss)) /\ ss \in Seq(Seq(Byte))
    BY <1>1 DEF ss
  <2> QED
    BY <1>1, <2>1, Flattened
<1> HIDE DEF pos, m
<1>4. ASSUME NEW k \in 1..m
      PROVE  StockFound(s, pos[k - 1], t.kgc[k], pos[k])
  <2>1. k - 1 \in 0..m
    BY <1>1, <1>4
  <2>2. pos[k - 1] \in Nat /\ Here(s, pos[k - 1], ss[k]) /\ pos[k] = pos[k - 1] + Len(ss[k])
    BY <1>2, <1>3, <2>1
  <2> QED
    BY <1>1, <2>2
<1>5. StockConstants(s, i, st, m) = ReadFirst(t, pos, st, m)
  BY <1>1, <1>2, <1>4, StockConstantsIs, SMTT(30) DEF m
<1> QED
  BY <1>3, <1>5 DEF ReadFirst, m, ss

\* The parts of a prototype, one after the other.
ProtoHead(t) == <<t.flags % PROTO_KEPT, t.numparams, t.framesize, Len(t.uv)>>
WithSizes(t) == ThreeSizes(ProtoHead(t), Len(t.kgc), Len(t.knum), Len(t.code))
WithCode(t) == WithSizes(t) \o FlattenSeq(t.code)
WithUvs(t) == WithCode(t) \o FlattenSeq(t.uv)
WithConstants(t, keys) == WithUvs(t) \o FlattenSeq(KgcParts(t, keys))

LEMMA SizesAreWords ==
  ASSUME NEW t, IsProto(t)
  PROVE  /\ Len(t.kgc) \in 0..(Word - 1) /\ Len(t.knum) \in 0..(Word - 1)
         /\ Len(t.code) \in 0..(Word - 1)
<1>1. Len(t.code) \in Nat /\ Len(t.knum) \in Nat /\ Len(t.kgc) \in Nat /\ t.framesize \in Nat
  BY SMTT(20), HalfFacts DEF IsProto, Byte
<1>2. /\ Len(t.code) + t.framesize < Word /\ Len(t.knum) + t.framesize < Word
      /\ Len(t.kgc) + t.framesize < Word
  BY DEF IsProto
<1> QED
  BY SMTT(20), <1>1, <1>2, WordType

LEMMA BodyParts ==
  ASSUME NEW t, IsProto(t), NEW keys \in NodeOrders(t)
  PROVE  /\ ProtoBody(t, keys) = WithConstants(t, keys) \o MangledNumbers(t)
         /\ ProtoHead(t) \in Seq(Byte) /\ Len(ProtoHead(t)) = 4
         /\ WithSizes(t) \in Seq(Byte) /\ Len(WithSizes(t)) >= 4
         /\ WithCode(t) \in Seq(Byte) /\ WithUvs(t) \in Seq(Byte)
         /\ WithConstants(t, keys) \in Seq(Byte)
         /\ ProtoBody(t, keys) \in Seq(Byte) /\ Len(ProtoBody(t, keys)) >= 4
         /\ FlattenSeq(t.code) \in Seq(Byte) /\ FlattenSeq(t.uv) \in Seq(Byte)
         /\ FlattenSeq(KgcParts(t, keys)) \in Seq(Byte) /\ MangledNumbers(t) \in Seq(Byte)
<1>1. ProtoBody(t, keys) = WithConstants(t, keys) \o MangledNumbers(t)
  <2>1. DOMAIN t.kgc = 1..Len(t.kgc)
    BY DEF IsProto
  <2> QED
    BY <2>1 DEF ProtoBody, WithConstants, WithUvs, WithCode, WithSizes, ThreeSizes, ProtoHead,
                KgcParts, MangledNumbers
<1>2. ProtoHead(t) \in Seq(Byte) /\ Len(ProtoHead(t)) = 4
  <2>1. t.flags % PROTO_KEPT \in Byte
    <3>1. t.flags \in Nat
      BY HalfFacts DEF IsProto, Byte
    <3>2. t.flags % PROTO_KEPT \in 0..7
      BY <3>1 DEF PROTO_KEPT
    <3>3. 0..7 \subseteq Byte
      BY HalfFacts DEF Byte
    <3> QED
      BY <3>2, <3>3
  <2>2. t.numparams \in Byte /\ t.framesize \in Byte /\ Len(t.uv) \in Byte
    BY DEF IsProto
  <2> QED
    BY <2>1, <2>2 DEF ProtoHead
<1>3. /\ Len(t.kgc) \in 0..(Word - 1) /\ Len(t.knum) \in 0..(Word - 1)
      /\ Len(t.code) \in 0..(Word - 1)
  BY SizesAreWords
<1>4. WithSizes(t) \in Seq(Byte)
  BY <1>2, <1>3, ThreeRead DEF WithSizes
<1>5. Len(WithSizes(t)) >= 4
  <2> DEFINE h == ProtoHead(t)
             a == UlebBytes(Len(t.kgc))
             b == UlebBytes(Len(t.knum))
             e == UlebBytes(Len(t.code))
  <2>1. a \in Seq(Byte) /\ b \in Seq(Byte) /\ e \in Seq(Byte)
    BY <1>3, WordBytesType
  <2>2. WithSizes(t) = ((h \o a) \o b) \o e
    BY DEF WithSizes, ThreeSizes
  <2>3. h \in Seq(Byte) /\ Len(h) = 4
    BY <1>2
  <2> HIDE DEF h, a, b, e
  <2>4. h \o a \in Seq(Byte) /\ Len(h \o a) >= 4
    <3>1. h \o a \in Seq(Byte) /\ Len(h \o a) = Len(h) + Len(a) /\ Len(a) \in Nat
      BY <2>1, <2>3, ConcatType
    <3> QED
      BY <2>3, <3>1
  <2>5. (h \o a) \o b \in Seq(Byte) /\ Len((h \o a) \o b) >= 4
    <3> DEFINE x == h \o a
    <3>1. x \in Seq(Byte) /\ Len(x) >= 4
      BY <2>4
    <3> HIDE DEF x
    <3>2. /\ x \o b \in Seq(Byte) /\ Len(x \o b) = Len(x) + Len(b)
          /\ Len(b) \in Nat /\ Len(x) \in Nat
      BY <2>1, <3>1, ConcatType
    <3>3. Len(x \o b) >= 4
      BY <3>1, <3>2
    <3> QED
      BY <3>2, <3>3 DEF x
  <2>6. Len(((h \o a) \o b) \o e) >= 4
    <3> DEFINE x == (h \o a) \o b
    <3>1. x \in Seq(Byte) /\ Len(x) >= 4
      BY <2>5
    <3> HIDE DEF x
    <3>2. Len(x \o e) = Len(x) + Len(e) /\ Len(e) \in Nat /\ Len(x) \in Nat
      BY <2>1, <3>1, ConcatType
    <3>3. Len(x \o e) >= 4
      BY <3>1, <3>2
    <3> QED
      BY <3>3 DEF x
  <2> QED
    BY <2>2, <2>6
<1>6. FlattenSeq(t.code) \in Seq(Byte) /\ FlattenSeq(t.uv) \in Seq(Byte)
  <2>1. 0 \in Nat /\ t.code \in Seq(Seq(Byte)) /\ t.uv \in Seq(Seq(Byte))
    BY PlainItems
  <2> QED
    BY <2>1, Flattened
<1>7. FlattenSeq(KgcParts(t, keys)) \in Seq(Byte)
  BY PartsType
<1>8. MangledNumbers(t) \in Seq(Byte)
  BY NumbersRead
<1>9. WithCode(t) \in Seq(Byte) /\ Len(WithCode(t)) >= 4
  <2>1. /\ WithSizes(t) \o FlattenSeq(t.code) \in Seq(Byte)
        /\ Len(WithSizes(t) \o FlattenSeq(t.code)) = Len(WithSizes(t)) + Len(FlattenSeq(t.code))
        /\ Len(WithSizes(t)) \in Nat /\ Len(FlattenSeq(t.code)) \in Nat
    BY <1>4, <1>6, ConcatType
  <2> QED
    BY <1>5, <2>1 DEF WithCode
<1>10. WithUvs(t) \in Seq(Byte) /\ Len(WithUvs(t)) >= 4
  <2>1. /\ WithCode(t) \o FlattenSeq(t.uv) \in Seq(Byte)
        /\ Len(WithCode(t) \o FlattenSeq(t.uv)) = Len(WithCode(t)) + Len(FlattenSeq(t.uv))
        /\ Len(WithCode(t)) \in Nat /\ Len(FlattenSeq(t.uv)) \in Nat
    BY <1>6, <1>9, ConcatType
  <2> QED
    BY <1>9, <2>1 DEF WithUvs
<1>11. WithConstants(t, keys) \in Seq(Byte) /\ Len(WithConstants(t, keys)) >= 4
  <2> DEFINE x == WithUvs(t)
             y == FlattenSeq(KgcParts(t, keys))
  <2>1. x \in Seq(Byte) /\ y \in Seq(Byte) /\ Len(x) >= 4
    BY <1>7, <1>10
  <2> HIDE DEF x, y
  <2>2. x \o y \in Seq(Byte) /\ Len(x \o y) = Len(x) + Len(y) /\ Len(x) \in Nat /\ Len(y) \in Nat
    BY <2>1, ConcatType
  <2>3. Len(x \o y) >= 4
    BY <2>1, <2>2
  <2> QED
    BY <2>2, <2>3 DEF WithConstants, x, y
<1>12. ProtoBody(t, keys) \in Seq(Byte) /\ Len(ProtoBody(t, keys)) >= 4
  <2> DEFINE x == WithConstants(t, keys)
             y == MangledNumbers(t)
  <2>1. x \in Seq(Byte) /\ y \in Seq(Byte) /\ Len(x) >= 4
    BY <1>8, <1>11
  <2> HIDE DEF x, y
  <2>2. x \o y \in Seq(Byte) /\ Len(x \o y) = Len(x) + Len(y) /\ Len(x) \in Nat /\ Len(y) \in Nat
    BY <2>1, ConcatType
  <2>3. Len(x \o y) >= 4
    BY <2>1, <2>2
  <2> QED
    BY <1>1, <2>2, <2>3 DEF x, y
<1> QED
  BY <1>1, <1>2, <1>4, <1>5, <1>6, <1>7, <1>8, <1>9, <1>10, <1>11, <1>12

\* lj_bcread_proto reads what bcwrite_proto wrote.
LEMMA StockProtoRead ==
  ASSUME NEW t, IsProto(t), t.flags < PROTO_KEPT, NEW keys \in NodeOrders(t),
         NEW s, Len(s) \in Nat, NEW i \in Nat, Here(s, i, ProtoBody(t, keys)),
         NEW st, st = Prefix(st, Len(st)), OnTop(t, st)
  PROVE  StockProto(s, i, st)
           = [ok |-> TRUE, to |-> i + Len(ProtoBody(t, keys)),
              stack |-> Prefix(st, Len(st) - Children(t, Len(t.kgc))), v |-> t]
<1> DEFINE body == ProtoBody(t, keys)
           q0 == i + 4
           q1 == i + Len(WithSizes(t))
           q2 == i + Len(WithCode(t))
           q3 == i + Len(WithUvs(t))
           q4 == i + Len(WithConstants(t, keys))
<1>1. /\ Here(s, i, WithConstants(t, keys)) /\ Here(s, q4, MangledNumbers(t)) /\ q4 \in Nat
      /\ q4 + Len(MangledNumbers(t)) = i + Len(body)
  <2> DEFINE x == WithConstants(t, keys)
             y == MangledNumbers(t)
  <2>1. x \in Seq(Byte) /\ y \in Seq(Byte) /\ body = x \o y
    BY BodyParts
  <2> HIDE DEF x, y
  <2>2. Here(s, i, x \o y)
    BY <2>1
  <2>3. /\ Here(s, i, x) /\ Here(s, i + Len(x), y) /\ i + Len(x) \in Nat
        /\ (i + Len(x)) + Len(y) = i + Len(x \o y)
    BY <2>1, <2>2, JoinNext
  <2> QED
    BY <2>1, <2>3 DEF x, y
<1>2. /\ Here(s, i, WithUvs(t)) /\ Here(s, q3, FlattenSeq(KgcParts(t, keys))) /\ q3 \in Nat
      /\ q3 + Len(FlattenSeq(KgcParts(t, keys))) = q4
  <2> DEFINE x == WithUvs(t)
             y == FlattenSeq(KgcParts(t, keys))
  <2>1. x \in Seq(Byte) /\ y \in Seq(Byte)
    BY BodyParts
  <2>2. Here(s, i, x \o y)
    BY <1>1 DEF WithConstants
  <2> HIDE DEF x, y
  <2>3. /\ Here(s, i, x) /\ Here(s, i + Len(x), y) /\ i + Len(x) \in Nat
        /\ (i + Len(x)) + Len(y) = i + Len(x \o y)
    BY <2>1, <2>2, JoinNext
  <2> QED
    BY <2>3 DEF x, y, WithConstants
<1>3. /\ Here(s, i, WithCode(t)) /\ Here(s, q2, FlattenSeq(t.uv)) /\ q2 \in Nat
      /\ q2 + Len(FlattenSeq(t.uv)) = q3
  <2> DEFINE x == WithCode(t)
             y == FlattenSeq(t.uv)
  <2>1. x \in Seq(Byte) /\ y \in Seq(Byte)
    BY BodyParts
  <2>2. Here(s, i, x \o y)
    BY <1>2 DEF WithUvs
  <2> HIDE DEF x, y
  <2>3. /\ Here(s, i, x) /\ Here(s, i + Len(x), y) /\ i + Len(x) \in Nat
        /\ (i + Len(x)) + Len(y) = i + Len(x \o y)
    BY <2>1, <2>2, JoinNext
  <2> QED
    BY <2>3 DEF x, y, WithUvs
<1>4. /\ Here(s, i, WithSizes(t)) /\ Here(s, q1, FlattenSeq(t.code)) /\ q1 \in Nat
      /\ q1 + Len(FlattenSeq(t.code)) = q2
  <2> DEFINE x == WithSizes(t)
             y == FlattenSeq(t.code)
  <2>1. x \in Seq(Byte) /\ y \in Seq(Byte)
    BY BodyParts
  <2>2. Here(s, i, x \o y)
    BY <1>3 DEF WithCode
  <2> HIDE DEF x, y
  <2>3. /\ Here(s, i, x) /\ Here(s, i + Len(x), y) /\ i + Len(x) \in Nat
        /\ (i + Len(x)) + Len(y) = i + Len(x \o y)
    BY <2>1, <2>2, JoinNext
  <2> QED
    BY <2>3 DEF x, y, WithCode
<1>5. /\ List(UlebItems(s), q0, 3).to = q1
      /\ List(UlebItems(s), q0, 3).v[1] = Len(t.kgc)
      /\ List(UlebItems(s), q0, 3).v[2] = Len(t.knum)
      /\ List(UlebItems(s), q0, 3).v[3] = Len(t.code)
      /\ Here(s, i, ProtoHead(t))
  <2> DEFINE h == ProtoHead(t)
             a == Len(t.kgc)
             b == Len(t.knum)
             e == Len(t.code)
  <2>1. h \in Seq(Byte) /\ Len(h) = 4
    BY BodyParts
  <2>2. a \in 0..(Word - 1) /\ b \in 0..(Word - 1) /\ e \in 0..(Word - 1)
    BY SizesAreWords
  <2>3. Here(s, i, ThreeSizes(h, a, b, e)) /\ WithSizes(t) = ThreeSizes(h, a, b, e)
    BY <1>4 DEF WithSizes
  <2> HIDE DEF h, a, b, e
  <2>7. ThreeFound(s, i, h, a, b, e)
    BY <2>1, <2>2, <2>3, ThreeRead
  <2>4. /\ Here(s, i, h)
        /\ List(UlebItems(s), i + Len(h), 3).v = [k \in 1..3 |-> <<a, b, e>>[k]]
        /\ List(UlebItems(s), i + Len(h), 3).to = i + Len(ThreeSizes(h, a, b, e))
    BY <2>7 DEF ThreeFound
  <2>5. [k \in 1..3 |-> <<a, b, e>>[k]][1] = a /\ [k \in 1..3 |-> <<a, b, e>>[k]][2] = b
        /\ [k \in 1..3 |-> <<a, b, e>>[k]][3] = e
    OBVIOUS
  <2>6. i + Len(h) = q0
    BY <2>1
  <2> QED
    BY <2>3, <2>4, <2>5, <2>6 DEF h, a, b, e
<1>6. /\ At(s, i) = t.flags /\ At(s, i + 1) = t.numparams /\ At(s, i + 2) = t.framesize
      /\ At(s, i + 3) = Len(t.uv)
  <2>1. Here(s, i, ProtoHead(t)) /\ Len(ProtoHead(t)) = 4
    BY <1>5, BodyParts
  <2>2. \A k \in 1..4 : At(s, i + (k - 1)) = ProtoHead(t)[k]
    <3> DEFINE x == ProtoHead(t)
    <3>1. Here(s, i, x) /\ Len(x) = 4
      BY <2>1
    <3> HIDE DEF x
    <3>2. TAKE k \in 1..4
    <3>3. Len(x) \in Nat /\ k \in 1..Len(x)
      BY <3>1, <3>2
    <3>4. At(s, i + (k - 1)) = x[k]
      BY <3>1, <3>3, HereAt, ZenonT(30)
    <3> QED
      BY <3>4 DEF x
  <2>3. /\ ProtoHead(t)[1] = t.flags /\ ProtoHead(t)[2] = t.numparams
        /\ ProtoHead(t)[3] = t.framesize /\ ProtoHead(t)[4] = Len(t.uv)
    <3>1. t.flags \in Nat
      BY HalfFacts DEF IsProto, Byte
    <3>2. t.flags % PROTO_KEPT = t.flags
      BY <3>1 DEF PROTO_KEPT
    <3> QED
      BY <3>2 DEF ProtoHead
  <2>4. /\ At(s, i + (1 - 1)) = ProtoHead(t)[1] /\ At(s, i + (2 - 1)) = ProtoHead(t)[2]
        /\ At(s, i + (3 - 1)) = ProtoHead(t)[3] /\ At(s, i + (4 - 1)) = ProtoHead(t)[4]
    BY <2>2
  <2>5. i + (1 - 1) = i /\ i + (2 - 1) = i + 1 /\ i + (3 - 1) = i + 2 /\ i + (4 - 1) = i + 3
    OBVIOUS
  <2> QED
    BY <2>3, <2>4, <2>5
<1> HIDE DEF body, q0, q1, q2, q3, q4
<1>7. /\ List(BlockItems(s, 4), q1, Len(t.code)).v = t.code
      /\ List(BlockItems(s, 4), q1, Len(t.code)).to = q2
  <2> DEFINE w == 4
             ss == t.code
  <2>1. ss \in Seq(Seq(Byte)) /\ w \in Nat /\ \A k \in 1..Len(ss) : Len(ss[k]) = w
    BY PlainItems
  <2>2. q1 \in Nat /\ Here(s, q1, FlattenSeq(ss))
    BY <1>4
  <2> HIDE DEF w, ss
  <2>3. /\ List(BlockItems(s, w), q1, Len(ss)).v = ss
        /\ List(BlockItems(s, w), q1, Len(ss)).to = q1 + Len(FlattenSeq(ss))
    BY <2>1, <2>2, BlocksRead
  <2> QED
    BY <1>4, <2>3 DEF w, ss
<1>8. /\ List(BlockItems(s, 2), q2, Len(t.uv)).v = t.uv
      /\ List(BlockItems(s, 2), q2, Len(t.uv)).to = q3
  <2> DEFINE w == 2
             ss == t.uv
  <2>1. ss \in Seq(Seq(Byte)) /\ w \in Nat /\ \A k \in 1..Len(ss) : Len(ss[k]) = w
    BY PlainItems
  <2>2. q2 \in Nat /\ Here(s, q2, FlattenSeq(ss))
    BY <1>3
  <2> HIDE DEF w, ss
  <2>3. /\ List(BlockItems(s, w), q2, Len(ss)).v = ss
        /\ List(BlockItems(s, w), q2, Len(ss)).to = q2 + Len(FlattenSeq(ss))
    BY <2>1, <2>2, BlocksRead
  <2> QED
    BY <1>3, <2>3 DEF w, ss
<1> DEFINE rest == Prefix(st, Len(st) - Children(t, Len(t.kgc)))
           kgc == [ok |-> TRUE, v |-> t.kgc, to |-> q4, stack |-> rest]
<1>9. StockConstants(s, q3, st, Len(t.kgc)) = kgc
  <2>1. StockConstants(s, q3, st, Len(t.kgc))
          = [ok |-> TRUE, v |-> Prefix(t.kgc, Len(t.kgc)),
             to |-> q3 + Len(FlattenSeq(KgcParts(t, keys))), stack |-> rest]
    BY <1>2, ConstantsBack
  <2>2. Prefix(t.kgc, Len(t.kgc)) = t.kgc
    <3>1. t.kgc \in Seq(Range(t.kgc))
      BY DEF IsProto
    <3> QED
      BY <3>1, SeqSelf DEF Prefix
  <2> QED
    BY <1>2, <2>1, <2>2
<1> HIDE DEF rest
<1>10. /\ List(KNumItems(s), q4, Len(t.knum)).v = t.knum
       /\ List(KNumItems(s), q4, Len(t.knum)).to = q4 + Len(MangledNumbers(t))
  BY <1>1, NumbersRead
<1> DEFINE size == List(UlebItems(s), q0, 3)
           code == List(BlockItems(s, 4), size.to, size.v[3])
           uv == List(BlockItems(s, 2), code.to, At(s, i + 3))
           ks == StockConstants(s, uv.to, st, size.v[1])
           kn == List(KNumItems(s), ks.to, size.v[2])
<1>11. StockProto(s, i, st) =
         [ok |-> ks.ok, to |-> kn.to, stack |-> ks.stack,
          v |-> [flags |-> At(s, i), numparams |-> At(s, i + 1), framesize |-> At(s, i + 2),
                 uv |-> uv.v, code |-> code.v, knum |-> kn.v, kgc |-> ks.v]]
  BY DEF StockProto, UlebItems, BlockItems, KNumItems, q0
<1>12. code.v = t.code /\ code.to = q2
  BY <1>5, <1>7
<1>13. uv.v = t.uv /\ uv.to = q3
  <2> HIDE DEF code
  <2> QED
    BY <1>6, <1>8, <1>12
<1>14. ks = kgc
  <2> HIDE DEF uv
  <2> QED
    BY <1>5, <1>9, <1>13
<1>15. kn.v = t.knum /\ kn.to = i + Len(body)
  <2>1. ks.to = q4
    BY <1>14
  <2> HIDE DEF ks
  <2> QED
    BY <1>1, <1>5, <1>10, <2>1
<1>16. ks.ok = TRUE /\ ks.v = t.kgc /\ ks.stack = rest
  BY <1>14
<1> HIDE DEF size, code, uv, ks, kn, kgc
<1>17. StockProto(s, i, st) = [ok |-> TRUE, to |-> i + Len(body), stack |-> rest, v |-> Proto(t)]
  BY <1>6, <1>11, <1>12, <1>13, <1>15, <1>16 DEF Proto
<1>18. Proto(t) = t
  BY DEF IsProto
<1> QED
  BY <1>17, <1>18 DEF body, rest

\* One round reads one prototype that bcwrite_proto wrote, with its length.
LEMMA RoundRead ==
  ASSUME NEW t, IsProto(t), t.flags < PROTO_KEPT, NEW keys \in NodeOrders(t),
         Len(ProtoBody(t, keys)) < Word,
         NEW s, Len(s) \in Nat, NEW i \in Nat, Here(s, i, WithLength(ProtoBody(t, keys))),
         NEW st, st = Prefix(st, Len(st)), OnTop(t, st)
  PROVE  /\ WithLength(ProtoBody(t, keys)) \in Seq(Byte)
         /\ Len(WithLength(ProtoBody(t, keys))) \in Nat \ {0}
         /\ StockRound(s, i, st)
           = [to |-> i + Len(WithLength(ProtoBody(t, keys))),
              stack |-> Append(Prefix(st, Len(st) - Children(t, Len(t.kgc))), t)]
<1> DEFINE body == ProtoBody(t, keys)
           l == Len(body)
           y == UlebBytes(l)
           len == Uleb(s, i)
           r == StockProto(s, len.to, st)
           rest == Prefix(st, Len(st) - Children(t, Len(t.kgc)))
<1>1. body \in Seq(Byte) /\ l \in Nat /\ l >= 4 /\ l < Word
  BY BodyParts
<1>2. l \in 0..(Word - 1) /\ l % Word = l /\ l \in Nat /\ l # 0
  <2> HIDE DEF l
  <2> QED
    BY <1>1, WordType
<1>3. WithLength(body) = y \o body
  BY <1>2 DEF WithLength
<1> HIDE DEF l
<1>4. y \in Seq(Byte) /\ Len(y) \in Nat /\ Len(y) >= 1
  BY <1>2, WordBytesType
<1> HIDE DEF y
<1>5. /\ y \o body \in Seq(Byte) /\ Len(y \o body) = Len(y) + Len(body) /\ Len(body) \in Nat
      /\ Len(y \o body) \in Nat
  <2> HIDE DEF body
  <2>1. /\ y \o body \in Seq(Byte) /\ Len(y \o body) = Len(y) + Len(body) /\ Len(body) \in Nat
    BY <1>1, <1>4, ConcatType
  <2> QED
    BY <1>4, <2>1
<1>6. /\ Here(s, i, y) /\ Here(s, i + Len(y), body) /\ i + Len(y) \in Nat
      /\ (i + Len(y)) + Len(body) = i + Len(y \o body)
  <2>1. Here(s, i, y \o body)
    BY <1>3
  <2> HIDE DEF body
  <2> QED
    BY <1>1, <1>4, <2>1, JoinNext
<1>7. len.v = l /\ len.to = i + Len(y)
  <2>1. l \in Nat /\ l < Word /\ Here(s, i, UlebBytes(l))
    BY <1>1, <1>2, <1>6 DEF y
  <2>2. Uleb(s, i).v = l /\ Uleb(s, i).to = i + Len(UlebBytes(l))
    BY <2>1, UlebRead
  <2> QED
    BY <2>2 DEF y
<1>8. r = [ok |-> TRUE, to |-> len.to + l, stack |-> rest, v |-> t]
  <2>1. Here(s, i + Len(y), ProtoBody(t, keys)) /\ i + Len(y) \in Nat
    BY <1>6
  <2>2. StockProto(s, i + Len(y), st)
          = [ok |-> TRUE, to |-> (i + Len(y)) + Len(ProtoBody(t, keys)), stack |-> rest, v |-> t]
    BY <2>1, StockProtoRead, ZenonT(30)
  <2> HIDE DEF len, rest
  <2> QED
    BY <1>7, <2>2 DEF l
<1>9. len.to + l <= Len(s)
  <2>1. Len(body) = l
    BY DEF l
  <2> HIDE DEF body, len
  <2>2. (i + Len(y)) + Len(body) <= Len(s)
    BY <1>6 DEF Here
  <2> QED
    BY <1>7, <2>1, <2>2
<1>10. StockRound(s, i, st) =
        CASE len.to > Len(s) \/ len.to + len.v > Len(s) -> Unreadable
          [] len.v = 0 /\ len.to = Len(s) ->
               IF Len(st) = 1 THEN [ok |-> TRUE, v |-> st[1]] ELSE Unreadable
          [] OTHER ->
               IF r.ok /\ r.to = len.to + len.v
                 THEN [to |-> r.to, stack |-> Append(r.stack, r.v)]
                 ELSE Unreadable
  BY DEF StockRound
<1>11. len.to \in Nat
  BY <1>6, <1>7
<1>12. r.ok /\ r.to = len.to + len.v /\ r.stack = rest /\ r.v = t
  <2> HIDE DEF len, rest, r
  <2> QED
    BY <1>7, <1>8
<1>13. StockRound(s, i, st) = [to |-> len.to + len.v, stack |-> Append(rest, t)]
  <2>1. ~(len.to > Len(s) \/ len.to + len.v > Len(s)) /\ len.v # 0
    <3> HIDE DEF len
    <3> QED
      BY <1>2, <1>7, <1>9, <1>11
  <2> HIDE DEF len, r, rest
  <2> QED
    BY <1>10, <1>12, <2>1
<1>14. len.to + len.v = i + Len(y \o body)
  <2>1. Len(body) = l
    BY DEF l
  <2> HIDE DEF len, body
  <2> QED
    BY <1>6, <1>7, <2>1
<1>15. Len(y \o body) \in Nat \ {0}
  <2> HIDE DEF body
  <2> QED
    BY <1>4, <1>5
<1> HIDE DEF len, rest, body
<1>16. StockRound(s, i, st) = [to |-> i + Len(y \o body), stack |-> Append(rest, t)]
  BY <1>13, <1>14
<1> QED
  BY <1>3, <1>5, <1>15, <1>16 DEF body, rest

\* The rounds of lj_bcread, one after the other.
RoundAfter(s, r) == IF "ok" \in DOMAIN r THEN r ELSE StockRound(s, r.to, r.stack)
RoundFrom(s, i, g, k) ==
  IF k = 0 THEN [to |-> i, stack |-> <<>>] ELSE RoundAfter(s, g[k - 1])
IsRounds(s, i, m, g) == g = [k \in 0..m |-> RoundFrom(s, i, g, k)]

LEMMA RoundsExist ==
  ASSUME NEW s, NEW i
  PROVE  \A m \in Nat : \E g : IsRounds(s, i, m, g)
<1> DEFINE T == {m \in Nat : \E g : IsRounds(s, i, m, g)}
<1>1. 0 \in T
  <2> DEFINE g == [k \in 0..0 |-> [to |-> i, stack |-> <<>>]]
  <2>1. g = [k \in 0..0 |-> RoundFrom(s, i, g, k)]
    BY DEF RoundFrom
  <2> HIDE DEF g
  <2> QED
    BY <2>1 DEF IsRounds
<1>2. ASSUME NEW m \in Nat, m \in T PROVE m + 1 \in T
  <2>1. PICK g : IsRounds(s, i, m, g)
    BY <1>2
  <2> DEFINE h == [k \in 0..(m + 1) |-> IF k = m + 1 THEN RoundAfter(s, g[m]) ELSE g[k]]
  <2>2. \A k \in 0..m : h[k] = g[k]
    OBVIOUS
  <2>3. ASSUME NEW k \in 0..(m + 1) PROVE h[k] = RoundFrom(s, i, h, k)
    <3>1. CASE k = m + 1
      <4>1. k # 0 /\ k - 1 = m /\ m \in 0..m
        BY <3>1
      <4>2. h[k] = RoundAfter(s, g[m])
        BY <3>1
      <4>3. h[m] = g[m]
        BY <2>2, <4>1
      <4> HIDE DEF h
      <4> QED
        BY <4>1, <4>2, <4>3 DEF RoundFrom
    <3>2. CASE k # m + 1
      <4>1. k \in 0..m /\ (k # 0 => k - 1 \in 0..m)
        BY <3>2
      <4>2. h[k] = g[k] /\ (k # 0 => h[k - 1] = g[k - 1])
        BY <2>2, <4>1
      <4>3. g[k] = RoundFrom(s, i, g, k)
        BY <2>1, <4>1 DEF IsRounds
      <4> HIDE DEF h
      <4> QED
        BY <4>2, <4>3 DEF RoundFrom
    <3> QED
      BY <3>1, <3>2
  <2>4. h = [k \in 0..(m + 1) |-> h[k]]
    OBVIOUS
  <2> HIDE DEF h
  <2>5. h = [k \in 0..(m + 1) |-> RoundFrom(s, i, h, k)]
    BY <2>3, <2>4
  <2> QED
    BY <2>5 DEF IsRounds
<1> HIDE DEF T
<1>3. Nat \subseteq T
  BY <1>1, <1>2, Induction
<1> QED
  BY <1>3 DEF T

LEMMA RoundsAre ==
  ASSUME NEW s, Len(s) \in Nat, NEW i
  PROVE  /\ StockRounds(s, i)[0] = [to |-> i, stack |-> <<>>]
         /\ \A k \in 1..Len(s) : StockRounds(s, i)[k] = RoundAfter(s, StockRounds(s, i)[k - 1])
<1> DEFINE round == CHOOSE round : IsRounds(s, i, Len(s), round)
<1>1. StockRounds(s, i) = round
  BY DEF StockRounds, IsRounds, RoundFrom, RoundAfter
<1>2. IsRounds(s, i, Len(s), round)
  <2>1. \E g : IsRounds(s, i, Len(s), g)
    BY RoundsExist
  <2> QED
    BY <2>1
<1> HIDE DEF round
<1>3. \A k \in 0..Len(s) : round[k] = RoundFrom(s, i, round, k)
  BY <1>2 DEF IsRounds
<1>4. 0 \in 0..Len(s) /\ \A k \in 1..Len(s) : k \in 0..Len(s) /\ k # 0
  OBVIOUS
<1> QED
  BY <1>1, <1>3, <1>4 DEF RoundFrom

\* The last round finds the zero byte.
LEMMA RoundEnd ==
  ASSUME NEW s, Len(s) \in Nat, NEW i \in Nat, Len(s) = i + 1, At(s, i) = 0, NEW x
  PROVE  StockRound(s, i, <<x>>) = [ok |-> TRUE, v |-> x]
<1>1. Here(s, i, <<0>>)
  <2>1. s[i + 1] = 0
    <3>1. i < Len(s)
      OBVIOUS
    <3> QED
      BY <3>1 DEF At
  <2>2. Len(<<0>>) = 1 /\ <<0>>[1] = 0
    OBVIOUS
  <2>3. \A k \in 1..1 : k = 1
    OBVIOUS
  <2> QED
    BY <2>1, <2>2, <2>3 DEF Here
<1>2. UlebBytes(0) = <<0>>
  <2>1. 0 \in Nat /\ 0 < 2 * Word
    BY WordType
  <2> QED
    BY <2>1, UlebBytesType
<1>3. Uleb(s, i).v = 0 /\ Uleb(s, i).to = i + 1
  <2>1. 0 \in Nat /\ 0 < Word /\ Here(s, i, UlebBytes(0))
    BY <1>1, <1>2, WordType
  <2>2. Uleb(s, i).v = 0 /\ Uleb(s, i).to = i + Len(UlebBytes(0))
    BY <2>1, UlebRead
  <2>3. Len(UlebBytes(0)) = 1
    BY <1>2
  <2> QED
    BY <2>2, <2>3
<1> DEFINE len == Uleb(s, i)
           r == StockProto(s, len.to, <<x>>)
<1>4. StockRound(s, i, <<x>>) =
        CASE len.to > Len(s) \/ len.to + len.v > Len(s) -> Unreadable
          [] len.v = 0 /\ len.to = Len(s) ->
               IF Len(<<x>>) = 1 THEN [ok |-> TRUE, v |-> <<x>>[1]] ELSE Unreadable
          [] OTHER ->
               IF r.ok /\ r.to = len.to + len.v
                 THEN [to |-> r.to, stack |-> Append(r.stack, r.v)]
                 ELSE Unreadable
  BY DEF StockRound
<1>5. len.v = 0 /\ len.to = Len(s) /\ ~(len.to > Len(s) \/ len.to + len.v > Len(s))
  <2>1. len.v = 0 /\ len.to = i + 1
    BY <1>3
  <2> HIDE DEF len
  <2> QED
    BY <2>1
<1>6. Len(<<x>>) = 1 /\ <<x>>[1] = x
  OBVIOUS
<1> HIDE DEF len, r
<1> QED
  BY <1>4, <1>5, <1>6

\* Once read, a dump stays read.
LEMMA RoundsStay ==
  ASSUME NEW s, Len(s) \in Nat, NEW i, NEW k \in 0..Len(s), NEW x,
         StockRounds(s, i)[k] = [ok |-> TRUE, v |-> x]
  PROVE  StockRounds(s, i)[Len(s)] = [ok |-> TRUE, v |-> x]
<1> DEFINE g == StockRounds(s, i)
           e == [ok |-> TRUE, v |-> x]
           m == Len(s)
           T == {j \in Nat : k + j <= m => g[k + j] = e}
<1>1. "ok" \in DOMAIN e
  OBVIOUS
<1> HIDE DEF e
<1>2. \A j \in 1..m : g[j] = RoundAfter(s, g[j - 1])
  BY RoundsAre
<1>3. g[k] = e /\ m \in Nat
  BY DEF e
<1> HIDE DEF g, m
<1>4. k \in Nat /\ k <= m
  BY DEF m
<1>5. 0 \in T
  BY <1>3, <1>4
<1>6. ASSUME NEW j \in Nat, j \in T PROVE j + 1 \in T
  <2>1. SUFFICES ASSUME k + (j + 1) <= m PROVE g[k + (j + 1)] = e
    OBVIOUS
  <2>2. k + (j + 1) \in 1..m /\ (k + (j + 1)) - 1 = k + j /\ k + j <= m
    BY <1>3, <1>4, <2>1
  <2>3. g[k + j] = e
    BY <1>6, <2>2
  <2>4. g[k + (j + 1)] = RoundAfter(s, g[k + j])
    BY <1>2, <2>2
  <2> QED
    BY <1>1, <2>3, <2>4 DEF RoundAfter
<1> HIDE DEF T
<1>7. Nat \subseteq T
  BY <1>5, <1>6, Induction
<1>8. m - k \in Nat /\ k + (m - k) = m
  BY <1>3, <1>4
<1>9. m - k \in T
  BY <1>7, <1>8
<1>10. k + (m - k) <= m
  BY <1>8, <1>3
<1>11. g[k + (m - k)] = e
  BY <1>9, <1>10 DEF T
<1>12. g[m] = e
  BY <1>11, <1>8
<1> QED
  BY <1>12 DEF g, m, e

-----------------------------------------------------------------------------
(* The writer, and what reads back what it wrote.                          *)

\* A prototype of which lj_bcwrite loses nothing: it has no flags but those that
\* are written, one of these tells whether it has children, and its length is a
\* word.
Writable(t) ==
  /\ t.flags < PROTO_KEPT
  /\ (\E j \in 1..Len(t.kgc) : t.kgc[j][1] = "child") => Bit(t.flags, PROTO_CHILD)
  /\ \A keys \in NodeOrders(t) : Len(ProtoBody(t, keys)) < Word

\* Such prototypes, with all of their children.
Family(P) ==
  \A t \in P :
    /\ IsProto(t) /\ Writable(t)
    /\ \A j \in 1..Len(t.kgc) :
         t.kgc[j][1] = "child" => \E u \in P : t.kgc[j] = <<"child", u>>

\* The last children of t, those of the constants after low, lie between b and
\* e on the stack of the reader, the last one first.
Place(t, b, j) == b + Children(t, Len(t.kgc)) + 1 - Children(t, j)
Laid(t, low, st, b, e) ==
  /\ e = b + (Children(t, Len(t.kgc)) - Children(t, low))
  /\ \A j \in 1..Len(t.kgc) :
       j > low /\ t.kgc[j][1] = "child" =>
         Place(t, b, j) \in (b + 1)..e /\ t.kgc[j] = <<"child", st[Place(t, b, j)]>>

LEMMA ChildIs ==
  ASSUME NEW t, IsProto(t)
  PROVE  /\ Len(t.kgc) \in Nat
         /\ \A j \in 0..Len(t.kgc) : Children(t, j) \in Nat
         /\ \A j \in 1..Len(t.kgc) :
              /\ t.kgc[j][1] = "child" => Children(t, j) = Children(t, j - 1) + 1
              /\ t.kgc[j][1] # "child" => Children(t, j) = Children(t, j - 1)
<1>1. Len(t.kgc) \in Nat
  BY DEF IsProto
<1> QED
  BY <1>1, ChildrenCount

\* When bcwrite_proto begins with t, none of its children was written.
LEMMA LaidNone ==
  ASSUME NEW t, IsProto(t), Writable(t), NEW st, NEW b \in Nat
  PROVE  /\ Frame(t).left \in 0..Len(t.kgc)
         /\ Laid(t, Frame(t).left, st, b, b)
<1> DEFINE l == Len(t.kgc)
<1>1. l \in Nat /\ \A j \in 0..l : Children(t, j) \in Nat
  BY ChildIs
<1>2. CASE Bit(t.flags, PROTO_CHILD)
  <2>1. Frame(t).left = l
    BY <1>2 DEF Frame
  <2>2. b = b + (Children(t, l) - Children(t, l)) /\ \A j \in 1..l : ~(j > l)
    <3>1. Children(t, l) \in Nat
      BY <1>1
    <3> HIDE DEF l
    <3> QED
      BY <1>1, <3>1
  <2> QED
    BY <1>1, <2>1, <2>2 DEF Laid
<1>3. CASE ~Bit(t.flags, PROTO_CHILD)
  <2>1. Frame(t).left = 0 /\ \A j \in 1..l : t.kgc[j][1] # "child"
    BY <1>3 DEF Frame, Writable
  <2>2. {i \in 1..l : t.kgc[i][1] = "child"} = {} /\ {i \in 1..0 : t.kgc[i][1] = "child"} = {}
    BY <2>1
  <2>3. Children(t, l) = 0 /\ Children(t, 0) = 0
    BY <2>2, FS_EmptySet DEF Children
  <2>4. b = b + (Children(t, l) - Children(t, 0))
    BY <2>3
  <2> QED
    BY <1>1, <2>1, <2>4 DEF Laid
<1> QED
  BY <1>2, <1>3

\* A constant that is no child.
LEMMA LaidSkip ==
  ASSUME NEW t, IsProto(t), NEW st, NEW b \in Nat, NEW e \in Nat, NEW k \in 1..Len(t.kgc),
         Laid(t, k, st, b, e), t.kgc[k][1] # "child"
  PROVE  Laid(t, k - 1, st, b, e)
<1>1. Children(t, k) = Children(t, k - 1)
  BY ChildIs
<1>2. ASSUME NEW j \in 1..Len(t.kgc), j > k - 1, t.kgc[j][1] = "child" PROVE j > k
  <2>1. j # k
    BY <1>2
  <2> QED
    BY <1>2, <2>1, ChildIs
<1> QED
  BY <1>1, <1>2 DEF Laid

\* The stack above the children may be anything.
LEMMA LaidStays ==
  ASSUME NEW t, NEW st, NEW b \in Nat, NEW e \in Nat, NEW low, Laid(t, low, st, b, e),
         NEW st2, \A l \in 1..e : st2[l] = st[l]
  PROVE  Laid(t, low, st2, b, e)
<1>1. ASSUME NEW j, Place(t, b, j) \in (b + 1)..e
      PROVE  st2[Place(t, b, j)] = st[Place(t, b, j)]
  <2> DEFINE q == Place(t, b, j)
  <2>1. q \in (b + 1)..e
    BY <1>1
  <2> HIDE DEF q
  <2>2. q \in 1..e
    BY <2>1
  <2>3. st2[q] = st[q]
    BY <2>2
  <2> QED
    BY <2>3 DEF q
<1> QED
  BY <1>1 DEF Laid

\* Another child was written.
LEMMA LaidMore ==
  ASSUME NEW t, IsProto(t), NEW st, NEW b \in Nat, NEW e \in Nat, NEW k \in 1..Len(t.kgc),
         Laid(t, k, st, b, e),
         NEW st2, \A l \in 1..e : st2[l] = st[l], t.kgc[k] = <<"child", st2[e + 1]>>
  PROVE  Laid(t, k - 1, st2, b, e + 1)
<1> DEFINE l == Len(t.kgc)
           x == Children(t, l)
           y == Children(t, k)
           z == Children(t, k - 1)
<1>1. t.kgc[k][1] = "child"
  <2> DEFINE v == st2[e + 1]
  <2>1. t.kgc[k] = <<"child", v>>
    OBVIOUS
  <2> HIDE DEF v
  <2> QED
    BY <2>1
<1>2. x \in Nat /\ y \in Nat /\ z \in Nat /\ y = z + 1
  <2>1. l \in Nat /\ k \in 0..l /\ k - 1 \in 0..l /\ l \in 0..l
    BY ChildIs
  <2> QED
    BY <1>1, <2>1, ChildIs
<1>3. e = b + (x - y)
  BY DEF Laid
<1>4. Place(t, b, k) = b + x + 1 - y
  BY DEF Place
<1> HIDE DEF x, y, z
<1>5. e + 1 = b + (x - z) /\ Place(t, b, k) = e + 1 /\ e + 1 \in (b + 1)..(e + 1)
  <2>1. e + 1 = b + (x - z) /\ Place(t, b, k) = e + 1
    BY <1>2, <1>3, <1>4
  <2>2. e >= b
    BY <1>2, <1>3, ChildrenCount, ChildIs DEF x, y
  <2> QED
    BY <2>1, <2>2
<1>6. Laid(t, k, st2, b, e)
  BY LaidStays
<1>7. ASSUME NEW j \in 1..l, j > k - 1, t.kgc[j][1] = "child"
      PROVE  Place(t, b, j) \in (b + 1)..(e + 1) /\ t.kgc[j] = <<"child", st2[Place(t, b, j)]>>
  <2>1. CASE j = k
    BY <1>5, <2>1
  <2>2. CASE j # k
    <3>1. j > k
      <4>1. l \in Nat
        BY ChildIs
      <4> QED
        BY <1>7, <2>2, <4>1
    <3>2. Place(t, b, j) \in (b + 1)..e /\ t.kgc[j] = <<"child", st2[Place(t, b, j)]>>
      BY <1>6, <1>7, <3>1 DEF Laid
    <3>3. Place(t, b, j) \in (b + 1)..(e + 1)
      BY <3>2
    <3> QED
      BY <3>2, <3>3
  <2> QED
    BY <2>1, <2>2
<1> QED
  BY <1>5, <1>7 DEF Laid, x, z

\* All of them were.
LEMMA LaidAll ==
  ASSUME NEW t, IsProto(t), NEW st, Len(st) \in Nat, NEW b \in Nat, Laid(t, 0, st, b, Len(st))
  PROVE  OnTop(t, st) /\ Len(st) - Children(t, Len(t.kgc)) = b
<1> DEFINE x == Children(t, Len(t.kgc))
<1>1. x \in Nat /\ Children(t, 0) = 0 /\ \A j \in 1..Len(t.kgc) : Children(t, j) \in Nat
  <2>1. Len(t.kgc) \in Nat /\ Len(t.kgc) \in 0..Len(t.kgc)
    BY ChildIs
  <2> QED
    BY <2>1, ChildIs, ChildrenCount
<1>2. Len(st) = b + (x - Children(t, 0))
  BY DEF Laid
<1> HIDE DEF x
<1>3. Len(st) - x = b /\ x <= Len(st) /\ b + x + 1 = Len(st) + 1
  BY <1>1, <1>2
<1>4. ASSUME NEW j \in 1..Len(t.kgc), t.kgc[j][1] = "child"
      PROVE  t.kgc[j] = <<"child", st[Len(st) + 1 - Children(t, j)]>>
  <2>1. j > 0 /\ Len(t.kgc) \in Nat
    BY ChildIs
  <2>2. t.kgc[j] = <<"child", st[Place(t, b, j)]>>
    BY <1>4, <2>1 DEF Laid
  <2>3. Place(t, b, j) = Len(st) + 1 - Children(t, j)
    <3>1. b + x + 1 = Len(st) + 1
      BY <1>3
    <3>2. Place(t, b, j) = b + x + 1 - Children(t, j)
      BY DEF Place, x
    <3>3. x \in Nat /\ Children(t, j) \in Nat
      BY <1>1
    <3> QED
      BY <3>1, <3>2, <3>3
  <2> QED
    BY <2>2, <2>3
<1> QED
  BY <1>3, <1>4 DEF OnTop, x

\* The frame i looks at the constants up to this one: in all frames but the last,
\* the child after those that are left is under way.
LowOf(F, i) == IF i = Len(F) THEN F[i].left ELSE F[i].left + 1

\* The calls of bcwrite_proto under way, and where the children that they wrote
\* are on the stack of the reader: those of frame i from base[i] to base[i + 1].
FrameFits(P, f) ==
  f = [pt |-> f.pt, left |-> f.left] /\ f.pt \in P /\ f.left \in 0..Len(f.pt.kgc)
ChildUnderWay(f, g) ==
  f.left + 1 <= Len(f.pt.kgc) /\ f.pt.kgc[f.left + 1] = <<"child", g.pt>>
Rising(m, base, top) ==
  /\ \A i \in 1..(m + 1) : base[i] \in Nat
  /\ \A i, j \in 1..(m + 1) : i <= j => base[i] <= base[j]
  /\ base[1] = 0 /\ base[m + 1] = top
Layout(P, F, st, base) ==
  /\ Len(F) \in Nat /\ F = [i \in 1..Len(F) |-> F[i]] /\ Len(st) \in Nat
  /\ \A i \in 1..Len(F) :
       FrameFits(P, F[i]) /\ Laid(F[i].pt, LowOf(F, i), st, base[i], base[i + 1])
  /\ \A i \in 1..(Len(F) - 1) : ChildUnderWay(F[i], F[i + 1])
  /\ Rising(Len(F), base, Len(st))

\* lj_bcwrite begins with the prototype of the function.
LEMMA LayoutStarts ==
  ASSUME NEW P, Family(P), NEW t \in P
  PROVE  Layout(P, <<Frame(t)>>, <<>>, [i \in 1..2 |-> 0])
<1> DEFINE F == <<Frame(t)>>
           base == [i \in 1..2 |-> 0]
<1>1. IsProto(t) /\ Writable(t)
  BY DEF Family
<1>2. Frame(t).left \in 0..Len(t.kgc) /\ Laid(t, Frame(t).left, <<>>, 0, 0)
  BY <1>1, LaidNone
<1>3. Frame(t) = [pt |-> Frame(t).pt, left |-> Frame(t).left] /\ Frame(t).pt = t
  BY DEF Frame
<1>4. Len(F) = 1 /\ F = [i \in 1..1 |-> F[i]] /\ F[1] = Frame(t) /\ Len(<<>>) = 0
  OBVIOUS
<1>5. \A i \in 1..2 : base[i] = 0
  OBVIOUS
<1> HIDE DEF F, base
<1>6. LowOf(F, 1) = Frame(t).left
  BY <1>4 DEF LowOf
<1>7. ASSUME NEW i \in 1..1
      PROVE  FrameFits(P, F[i]) /\ Laid(F[i].pt, LowOf(F, i), <<>>, base[i], base[i + 1])
  <2>1. i = 1 /\ base[i] = 0 /\ base[i + 1] = 0
    BY <1>5
  <2> QED
    BY <1>2, <1>3, <1>4, <1>6, <2>1 DEF FrameFits
<1>8. Rising(1, base, 0)
  BY <1>5 DEF Rising
<1>9. Layout(P, F, <<>>, base)
  <2>1. \A i \in 1..(1 - 1) : ChildUnderWay(F[i], F[i + 1])
    OBVIOUS
  <2>2. Len(F) = 1 /\ Len(<<>>) = 0 /\ Len(F) \in Nat /\ F = [i \in 1..Len(F) |-> F[i]]
    BY <1>4
  <2> QED
    BY <1>7, <1>8, <2>1, <2>2 DEF Layout
<1> QED
  BY <1>9 DEF F, base

\* The last frame of a layout.
LEMMA LastFrame ==
  ASSUME NEW P, Family(P), NEW F, NEW st, NEW base, Layout(P, F, st, base), F # <<>>
  PROVE  /\ Len(F) \in Nat \ {0} /\ Last(F) = F[Len(F)]
         /\ Len(Front(F)) = Len(F) - 1 /\ Front(F) = [i \in 1..(Len(F) - 1) |-> Front(F)[i]]
         /\ \A i \in 1..(Len(F) - 1) : Front(F)[i] = F[i]
         /\ IsProto(Last(F).pt) /\ Writable(Last(F).pt) /\ Last(F).pt \in P
         /\ Last(F).left \in 0..Len(Last(F).pt.kgc)
         /\ base[Len(F)] \in Nat
         /\ Laid(Last(F).pt, Last(F).left, st, base[Len(F)], Len(st))
<1> DEFINE m == Len(F)
<1>1. m \in Nat /\ F = [i \in 1..m |-> F[i]]
  BY DEF Layout
<1>2. m # 0
  <2>1. m = 0 => F = <<>>
    BY <1>1
  <2> QED
    BY <2>1
<1>3. m \in Nat /\ m # 0 /\ F = [i \in 1..m |-> F[i]]
  BY <1>1, <1>2
<1>4. Last(F) = F[m] /\ Front(F) = [i \in 1..(m - 1) |-> F[i]]
  BY <1>3, PopIs
<1>5. /\ F[m].pt \in P /\ F[m].left \in 0..Len(F[m].pt.kgc)
      /\ Laid(F[m].pt, LowOf(F, m), st, base[m], base[m + 1])
      /\ base[m] \in Nat /\ base[m + 1] = Len(st)
  <2>1. m \in 1..m /\ m \in 1..(m + 1)
    BY <1>3
  <2>2. FrameFits(P, F[m]) /\ Laid(F[m].pt, LowOf(F, m), st, base[m], base[m + 1])
    BY <2>1 DEF Layout
  <2>3. base[m] \in Nat /\ base[m + 1] = Len(st)
    BY <2>1 DEF Layout, Rising
  <2> QED
    BY <2>2, <2>3 DEF FrameFits
<1>6. LowOf(F, m) = F[m].left
  BY DEF LowOf
<1>7. IsProto(F[m].pt) /\ Writable(F[m].pt)
  BY <1>5 DEF Family
<1>8. Len(Front(F)) = m - 1 /\ \A i \in 1..(m - 1) : Front(F)[i] = F[i]
  <2>1. m - 1 \in Nat
    BY <1>3
  <2> QED
    BY <1>4, <2>1
<1>9. Front(F) = [i \in 1..(m - 1) |-> Front(F)[i]]
  BY <1>4
<1> QED
  BY <1>3, <1>4, <1>5, <1>6, <1>7, <1>8, <1>9

\* A constant less is left in the last frame.
Visited(F) == Append(Front(F), [Last(F) EXCEPT !.left = @ - 1])

LEMMA VisitedIs ==
  ASSUME NEW P, Family(P), NEW F, NEW st, NEW base, Layout(P, F, st, base), F # <<>>
  PROVE  /\ Len(Visited(F)) = Len(F) /\ Visited(F) = [i \in 1..Len(F) |-> Visited(F)[i]]
         /\ \A i \in 1..(Len(F) - 1) : Visited(F)[i] = F[i]
         /\ Visited(F)[Len(F)] = [pt |-> Last(F).pt, left |-> Last(F).left - 1]
<1> DEFINE m == Len(F)
           y == [Last(F) EXCEPT !.left = @ - 1]
           G == Append(Front(F), y)
<1>1. /\ m \in Nat \ {0} /\ Last(F) = F[m] /\ Front(F) = [i \in 1..(m - 1) |-> Front(F)[i]]
      /\ \A i \in 1..(m - 1) : Front(F)[i] = F[i]
  BY LastFrame
<1>2. FrameFits(P, F[m])
  <2>1. m \in 1..m
    BY <1>1
  <2> QED
    BY <2>1 DEF Layout
<1>3. y = [pt |-> Last(F).pt, left |-> Last(F).left - 1]
  BY <1>1, <1>2 DEF FrameFits
<1> HIDE DEF y
<1>4. /\ Len(G) = (m - 1) + 1 /\ G = [i \in 1..((m - 1) + 1) |-> G[i]]
      /\ G[(m - 1) + 1] = y /\ \A i \in 1..(m - 1) : G[i] = Front(F)[i]
  <2>1. m - 1 \in Nat
    BY <1>1
  <2> HIDE DEF m
  <2> QED
    BY <1>1, <2>1, PushIs
<1>5. (m - 1) + 1 = m
  BY <1>1
<1>6. Visited(F) = G
  BY DEF Visited, y
<1> HIDE DEF G, m
<1>7. Len(G) = m /\ G = [i \in 1..m |-> G[i]] /\ G[m] = y
  BY <1>4, <1>5
<1> QED
  BY <1>1, <1>3, <1>4, <1>6, <1>7 DEF m

\* A constant that is no child is passed over.
LEMMA SkipLayout ==
  ASSUME NEW P, Family(P), NEW F, NEW st, NEW base, Layout(P, F, st, base), F # <<>>,
         Last(F).left > 0, Last(F).pt.kgc[Last(F).left][1] # "child"
  PROVE  Layout(P, Visited(F), st, base) /\ Visited(F)[1].pt = F[1].pt
<1> DEFINE m == Len(F)
           G == Visited(F)
           t == Last(F).pt
           k == Last(F).left
<1>1. /\ Len(G) = m /\ G = [i \in 1..m |-> G[i]] /\ \A i \in 1..(m - 1) : G[i] = F[i]
      /\ G[m] = [pt |-> t, left |-> k - 1]
  BY VisitedIs
<1>2. /\ m \in Nat \ {0} /\ Last(F) = F[m] /\ IsProto(t) /\ t \in P /\ k \in 0..Len(t.kgc)
      /\ base[m] \in Nat /\ Laid(t, k, st, base[m], Len(st)) /\ Len(st) \in Nat
  BY LastFrame DEF Layout
<1>3. base[m + 1] = Len(st) /\ Rising(m, base, Len(st))
  BY DEF Layout, Rising
<1>4. k \in 1..Len(t.kgc) /\ k - 1 \in 0..Len(t.kgc)
  <2>1. Len(t.kgc) \in Nat /\ k > 0
    BY <1>2, ChildIs
  <2> HIDE DEF t, k
  <2> QED
    BY <1>2, <2>1
<1>5. Laid(t, k - 1, st, base[m], base[m + 1])
  BY <1>2, <1>3, <1>4, LaidSkip
<1> HIDE DEF t, k, G
<1>6. ASSUME NEW i \in 1..m
      PROVE  FrameFits(P, G[i]) /\ Laid(G[i].pt, LowOf(G, i), st, base[i], base[i + 1])
  <2>1. CASE i = m
    <3>1. LowOf(G, m) = k - 1
      BY <1>1 DEF LowOf
    <3> QED
      BY <1>1, <1>2, <1>4, <1>5, <2>1, <3>1 DEF FrameFits
  <2>2. CASE i # m
    <3>1. i \in 1..(m - 1)
      BY <1>2, <2>2
    <3>2. G[i] = F[i] /\ LowOf(G, i) = LowOf(F, i)
      BY <1>1, <2>2, <3>1 DEF LowOf
    <3>3. FrameFits(P, F[i]) /\ Laid(F[i].pt, LowOf(F, i), st, base[i], base[i + 1])
      BY DEF Layout
    <3> QED
      BY <3>2, <3>3
  <2> QED
    BY <2>1, <2>2
<1>7. ASSUME NEW i \in 1..(m - 1) PROVE ChildUnderWay(G[i], G[i + 1])
  <2>1. ChildUnderWay(F[i], F[i + 1]) /\ G[i] = F[i]
    BY <1>1 DEF Layout
  <2>2. G[i + 1].pt = F[i + 1].pt
    <3>1. i + 1 = m \/ i + 1 \in 1..(m - 1)
      BY <1>2
    <3>2. G[m].pt = F[m].pt
      BY <1>1, <1>2 DEF t
    <3> QED
      BY <1>1, <3>1, <3>2
  <2> QED
    BY <2>1, <2>2 DEF ChildUnderWay
<1>8. Layout(P, G, st, base)
  <2>1. Len(G) \in Nat /\ G = [i \in 1..Len(G) |-> G[i]]
    BY <1>1, <1>2
  <2> HIDE DEF m
  <2> QED
    BY <1>1, <1>2, <1>3, <1>6, <1>7, <2>1 DEF Layout
<1>9. G[1].pt = F[1].pt
  <2> HIDE DEF m
  <2>1. 1 = m \/ 1 \in 1..(m - 1)
    BY <1>2
  <2>2. G[m].pt = F[m].pt
    BY <1>1, <1>2 DEF t
  <2> QED
    BY <1>1, <2>1, <2>2
<1> QED
  BY <1>8, <1>9 DEF G

\* A child is begun.
LEMMA ChildLayout ==
  ASSUME NEW P, Family(P), NEW F, NEW st, NEW base, Layout(P, F, st, base), F # <<>>,
         Last(F).left > 0, NEW u \in P, Last(F).pt.kgc[Last(F).left] = <<"child", u>>,
         NEW G, G = Append(Visited(F), Frame(u))
  PROVE  /\ G # <<>> /\ G[1].pt = F[1].pt
         /\ \E rest : Layout(P, G, st, rest)
<1> DEFINE m == Len(F)
           V == Visited(F)
           t == Last(F).pt
           k == Last(F).left
           rest == [i \in 1..(m + 2) |-> IF i = m + 2 THEN Len(st) ELSE base[i]]
<1>1. /\ Len(V) = m /\ V = [i \in 1..m |-> V[i]] /\ \A i \in 1..(m - 1) : V[i] = F[i]
      /\ V[m] = [pt |-> t, left |-> k - 1]
  BY VisitedIs
<1>2. /\ m \in Nat \ {0} /\ Last(F) = F[m] /\ IsProto(t) /\ t \in P /\ k \in 0..Len(t.kgc)
      /\ base[m] \in Nat /\ Laid(t, k, st, base[m], Len(st)) /\ Len(st) \in Nat
  BY LastFrame DEF Layout
<1>3. /\ \A i \in 1..(m + 1) : base[i] \in Nat
      /\ \A i, j \in 1..(m + 1) : i <= j => base[i] <= base[j]
      /\ base[1] = 0 /\ base[m + 1] = Len(st)
  BY DEF Layout, Rising
<1>4. k \in 1..Len(t.kgc) /\ k - 1 \in 0..Len(t.kgc) /\ (k - 1) + 1 = k
  <2>1. Len(t.kgc) \in Nat /\ k > 0
    BY <1>2, ChildIs
  <2> HIDE DEF t, k
  <2> QED
    BY <1>2, <2>1
<1>5. /\ Len(G) = m + 1 /\ G = [i \in 1..(m + 1) |-> G[i]]
      /\ G[m + 1] = Frame(u) /\ \A i \in 1..m : G[i] = V[i]
  <2>1. G = Append(V, Frame(u)) /\ m \in Nat
    BY <1>2
  <2> HIDE DEF V, m
  <2> QED
    BY <1>1, <2>1, PushIs
<1>6. IsProto(u) /\ Writable(u)
  BY DEF Family
<1>7. Frame(u).left \in 0..Len(u.kgc) /\ Laid(u, Frame(u).left, st, Len(st), Len(st))
  BY <1>2, <1>6, LaidNone
<1>8. Frame(u) = [pt |-> Frame(u).pt, left |-> Frame(u).left] /\ Frame(u).pt = u
  BY DEF Frame
<1>9. t.kgc[k] = <<"child", u>>
  OBVIOUS
<1>10. /\ \A i \in 1..(m + 1) : rest[i] = base[i]
       /\ rest[m + 2] = Len(st)
  BY <1>2
<1> HIDE DEF t, k, V, rest
<1>11. Rising(m + 1, rest, Len(st))
  <2>1. \A i \in 1..(m + 2) : rest[i] \in Nat
    <3> TAKE i \in 1..(m + 2)
    <3>1. i = m + 2 \/ i \in 1..(m + 1)
      BY <1>2
    <3> QED
      BY <1>2, <1>3, <1>10, <3>1
  <2>2. ASSUME NEW i \in 1..(m + 2), NEW j \in 1..(m + 2), i <= j PROVE rest[i] <= rest[j]
    <3> HIDE DEF m
    <3>1. \A x \in 1..(m + 1) : base[x] <= Len(st)
      <4>1. m + 1 \in 1..(m + 1) /\ \A x \in 1..(m + 1) : x <= m + 1
        BY <1>2
      <4> QED
        BY <1>3, <4>1
    <3>2. CASE i = m + 2
      <4>1. j = m + 2
        BY <1>2, <2>2, <3>2
      <4>2. rest[i] = Len(st) /\ rest[j] = Len(st)
        BY <1>10, <3>2, <4>1
      <4> QED
        BY <1>2, <4>2
    <3>3. CASE i # m + 2 /\ j = m + 2
      <4>1. i \in 1..(m + 1)
        BY <1>2, <3>3
      <4> QED
        BY <1>10, <3>1, <3>3, <4>1
    <3>4. CASE j # m + 2
      <4>1. i \in 1..(m + 1) /\ j \in 1..(m + 1)
        BY <1>2, <2>2, <3>4
      <4>2. base[i] <= base[j]
        BY <1>3, <2>2, <4>1
      <4> QED
        BY <1>10, <4>1, <4>2
    <3> QED
      BY <3>2, <3>3, <3>4
  <2>3. rest[1] = 0 /\ (m + 1) + 1 = m + 2
    <3>1. 1 \in 1..(m + 1) /\ (m + 1) + 1 = m + 2
      BY <1>2
    <3> QED
      BY <1>3, <1>10, <3>1
  <2> HIDE DEF m
  <2> QED
    BY <1>10, <2>1, <2>2, <2>3 DEF Rising
<1>12. ASSUME NEW i \in 1..(m + 1)
       PROVE  FrameFits(P, G[i]) /\ Laid(G[i].pt, LowOf(G, i), st, rest[i], rest[i + 1])
  <2>1. CASE i = m + 1
    <3>1. LowOf(G, m + 1) = Frame(u).left
      BY <1>5 DEF LowOf
    <3>2. rest[m + 1] = Len(st) /\ rest[(m + 1) + 1] = Len(st)
      <4>1. m + 1 \in 1..(m + 1) /\ (m + 1) + 1 = m + 2
        BY <1>2
      <4> QED
        BY <1>3, <1>10, <4>1
    <3> HIDE DEF m
    <3> QED
      BY <1>5, <1>7, <1>8, <2>1, <3>1, <3>2 DEF FrameFits
  <2>2. CASE i = m
    <3>1. m # m + 1 /\ m \in 1..m /\ m \in 1..(m + 1) /\ m + 1 \in 1..(m + 1)
      BY <1>2
    <3>2. G[m] = [pt |-> t, left |-> k - 1] /\ rest[m] = base[m] /\ rest[m + 1] = Len(st)
      BY <1>1, <1>3, <1>5, <1>10, <3>1
    <3>3. LowOf(G, m) = k
      <4>1. G[m].left = k - 1
        BY <3>2
      <4>2. m # Len(G)
        BY <1>5, <3>1
      <4> QED
        BY <1>4, <4>1, <4>2 DEF LowOf
    <3> HIDE DEF m
    <3> QED
      BY <1>2, <1>4, <2>2, <3>2, <3>3 DEF FrameFits
  <2>3. CASE i # m /\ i # m + 1
    <3>1. i \in 1..(m - 1) /\ i \in 1..m /\ i \in 1..(m + 1) /\ i + 1 \in 1..(m + 1)
      BY <1>2, <2>3
    <3>2. G[i] = F[i] /\ rest[i] = base[i] /\ rest[i + 1] = base[i + 1]
      BY <1>1, <1>5, <1>10, <3>1
    <3>3. LowOf(G, i) = LowOf(F, i)
      BY <1>5, <2>3, <3>2 DEF LowOf
    <3>4. FrameFits(P, F[i]) /\ Laid(F[i].pt, LowOf(F, i), st, base[i], base[i + 1])
      BY <3>1 DEF Layout
    <3> QED
      BY <3>2, <3>3, <3>4
  <2> QED
    BY <2>1, <2>2, <2>3
<1>13. ASSUME NEW i \in 1..m PROVE ChildUnderWay(G[i], G[i + 1])
  <2>1. CASE i = m
    <3>1. m \in 1..m
      BY <1>2
    <3>2. G[m] = [pt |-> t, left |-> k - 1] /\ G[m + 1].pt = u
      BY <1>1, <1>5, <1>8, <3>1
    <3>3. k - 1 + 1 <= Len(t.kgc) /\ k - 1 + 1 = k
      BY <1>2, <1>4, ChildIs
    <3> HIDE DEF m
    <3> QED
      BY <1>9, <2>1, <3>2, <3>3 DEF ChildUnderWay
  <2>2. CASE i # m
    <3>1. i \in 1..(m - 1) /\ i \in 1..m /\ i + 1 \in 1..m
      BY <1>2, <2>2
    <3>2. ChildUnderWay(F[i], F[i + 1]) /\ G[i] = F[i] /\ G[i + 1] = V[i + 1]
      BY <1>1, <1>5, <3>1 DEF Layout
    <3>3. V[i + 1].pt = F[i + 1].pt
      <4>1. i + 1 = m \/ i + 1 \in 1..(m - 1)
        BY <1>2, <3>1
      <4>2. V[m].pt = F[m].pt
        BY <1>1, <1>2 DEF t
      <4> QED
        BY <1>1, <4>1, <4>2
    <3> QED
      BY <3>2, <3>3 DEF ChildUnderWay
  <2> QED
    BY <2>1, <2>2
<1>14. Layout(P, G, st, rest)
  <2> HIDE DEF m
  <2>1. Len(G) \in Nat /\ Len(G) - 1 = m
    <3>1. Len(G) = m + 1
      BY <1>5
    <3> QED
      BY <1>2, <3>1
  <2>2. G = [i \in 1..Len(G) |-> G[i]]
    BY <1>5
  <2> QED
    BY <1>2, <1>5, <1>11, <1>12, <1>13, <2>1, <2>2 DEF Layout
<1>15. G[1].pt = F[1].pt /\ G # <<>>
  <2> HIDE DEF m
  <2>1. (1 = m \/ 1 \in 1..(m - 1)) /\ 1 \in 1..m
    BY <1>2
  <2>2. V[m].pt = F[m].pt
    BY <1>1, <1>2 DEF t
  <2>3. Len(G) # 0
    BY <1>2, <1>5
  <2> QED
    BY <1>1, <1>5, <2>1, <2>2, <2>3
<1> QED
  BY <1>14, <1>15

\* What the reader makes of a prototype: its children are taken, and it is left.
Adopted(st, t) == Append(Prefix(st, Len(st) - Children(t, Len(t.kgc))), t)

LEMMA AdoptedIs ==
  ASSUME NEW st, NEW t, NEW b \in Nat, Len(st) - Children(t, Len(t.kgc)) = b
  PROVE  /\ Len(Adopted(st, t)) = b + 1 /\ Adopted(st, t)[b + 1] = t
         /\ \A l \in 1..b : Adopted(st, t)[l] = st[l]
         /\ Adopted(st, t) = Prefix(Adopted(st, t), b + 1)
<1> DEFINE s == Prefix(st, b)
<1>1. s = [l \in 1..b |-> s[l]] /\ \A l \in 1..b : s[l] = st[l]
  BY DEF Prefix
<1>2. Adopted(st, t) = Append(s, t)
  BY DEF Adopted
<1> HIDE DEF s
<1>3. /\ Len(Append(s, t)) = b + 1 /\ Append(s, t) = [l \in 1..(b + 1) |-> Append(s, t)[l]]
      /\ Append(s, t)[b + 1] = t /\ \A l \in 1..b : Append(s, t)[l] = s[l]
  BY <1>1, PushIs
<1> QED
  BY <1>1, <1>2, <1>3 DEF Prefix

\* A prototype whose children were written is written.
LEMMA LastOnTop ==
  ASSUME NEW P, Family(P), NEW F, NEW st, NEW base, Layout(P, F, st, base), F # <<>>,
         Last(F).left = 0
  PROVE  /\ OnTop(Last(F).pt, st)
         /\ Len(st) - Children(Last(F).pt, Len(Last(F).pt.kgc)) = base[Len(F)]
         /\ base[Len(F)] \in Nat
<1>1. /\ IsProto(Last(F).pt) /\ base[Len(F)] \in Nat
      /\ Laid(Last(F).pt, 0, st, base[Len(F)], Len(st)) /\ Len(st) \in Nat
  BY LastFrame DEF Layout
<1> QED
  BY <1>1, LaidAll

\* The outermost call is the last to end.
LEMMA OnlyFrame ==
  ASSUME NEW P, Family(P), NEW F, NEW st, NEW base, Layout(P, F, st, base), F # <<>>,
         Last(F).left = 0, Front(F) = <<>>
  PROVE  Adopted(st, Last(F).pt) = <<F[1].pt>>
<1> DEFINE x == Adopted(st, Last(F).pt)
           v == F[1].pt
<1>1. Len(F) = 1 /\ Last(F) = F[Len(F)]
  <2>1. Len(F) \in Nat \ {0} /\ Len(Front(F)) = Len(F) - 1 /\ Last(F) = F[Len(F)]
    BY LastFrame
  <2>2. Len(Front(F)) = 0
    OBVIOUS
  <2> QED
    BY <2>1, <2>2
<1>2. base[Len(F)] = 0
  <2>1. base[1] = 0
    BY DEF Layout, Rising
  <2> QED
    BY <1>1, <2>1
<1>3. Len(st) - Children(Last(F).pt, Len(Last(F).pt.kgc)) = 0
  <2>1. Len(st) - Children(Last(F).pt, Len(Last(F).pt.kgc)) = base[Len(F)]
    BY LastOnTop
  <2> QED
    BY <1>2, <2>1
<1>4. x[1] = v /\ x = Prefix(x, 1)
  <2> DEFINE b == 0
             u == Last(F).pt
  <2>1. b \in Nat /\ Len(st) - Children(u, Len(u.kgc)) = b /\ b + 1 = 1
    BY <1>3
  <2>2. u = v
    BY <1>1
  <2> HIDE DEF b, u, v
  <2>3. Adopted(st, u)[b + 1] = u /\ Adopted(st, u) = Prefix(Adopted(st, u), b + 1)
    BY <2>1, AdoptedIs
  <2> QED
    BY <2>1, <2>2, <2>3 DEF u
<1> HIDE DEF x, v
<1>5. x = [l \in 1..1 |-> x[l]] /\ x[1] = v
  BY <1>4 DEF Prefix
<1>6. x = <<v>>
  BY <1>5
<1> QED
  BY <1>6 DEF x, v

LEMMA FrontLayout ==
  ASSUME NEW P, Family(P), NEW F, NEW st, NEW base, Layout(P, F, st, base), F # <<>>,
         Last(F).left = 0, Front(F) # <<>>
  PROVE  /\ Front(F)[1].pt = F[1].pt
         /\ \E rest : Layout(P, Front(F), Adopted(st, Last(F).pt), rest)
<1> DEFINE m == Len(F)
           t == Last(F).pt
           G == Front(F)
           b == base[m]
           st2 == Adopted(st, t)
           rest == [i \in 1..m |-> IF i = m THEN b + 1 ELSE base[i]]
<1>1. /\ m \in Nat \ {0} /\ Last(F) = F[m] /\ Len(G) = m - 1
      /\ G = [i \in 1..(m - 1) |-> G[i]] /\ \A i \in 1..(m - 1) : G[i] = F[i]
  BY LastFrame
<1>2. m # 1
  <2>1. Len(G) = 0 => G = <<>>
    <3>1. Len(G) = 0 => m - 1 = 0
      BY <1>1
    <3>2. m - 1 = 0 => G = [i \in 1..0 |-> G[i]]
      BY <1>1
    <3> HIDE DEF G, m
    <3>3. G = [i \in 1..0 |-> G[i]] => G = <<>>
      OBVIOUS
    <3> QED
      BY <3>1, <3>2, <3>3
  <2> HIDE DEF G, m
  <2>2. G # <<>>
    BY DEF G
  <2> QED
    BY <1>1, <2>1, <2>2
<1>3. b \in Nat /\ Len(st) - Children(t, Len(t.kgc)) = b
  BY LastOnTop
<1>4. Len(st2) = b + 1 /\ st2[b + 1] = t /\ \A l \in 1..b : st2[l] = st[l]
  BY <1>3, AdoptedIs
<1>5. /\ \A i \in 1..(m + 1) : base[i] \in Nat
      /\ \A i, j \in 1..(m + 1) : i <= j => base[i] <= base[j]
      /\ base[1] = 0
  BY DEF Layout, Rising
<1>6. ASSUME NEW i \in 1..(m - 1)
      PROVE  /\ FrameFits(P, F[i]) /\ ChildUnderWay(F[i], F[i + 1]) /\ IsProto(F[i].pt)
             /\ Laid(F[i].pt, F[i].left + 1, st, base[i], base[i + 1])
  <2> HIDE DEF m
  <2>1. i \in 1..m /\ i # m
    BY <1>1
  <2>2. FrameFits(P, F[i]) /\ Laid(F[i].pt, LowOf(F, i), st, base[i], base[i + 1])
    BY <2>1 DEF Layout, m
  <2>3. LowOf(F, i) = F[i].left + 1
    BY <2>1 DEF LowOf, m
  <2>4. ChildUnderWay(F[i], F[i + 1])
    BY DEF Layout, m
  <2>5. IsProto(F[i].pt)
    BY <2>2 DEF FrameFits, Family
  <2> QED
    BY <2>2, <2>3, <2>4, <2>5
<1>7. /\ \A i \in 1..(m - 1) : rest[i] = base[i]
      /\ rest[m] = b + 1
  BY <1>1
<1>8. F[m].pt = t
  BY <1>1
<1>9. b = base[m]
  OBVIOUS
<1> HIDE DEF rest, st2, b, t, G
<1>10. Rising(m - 1, rest, b + 1)
  <2> HIDE DEF m
  <2>1. \A x \in 1..(m - 1) : base[x] \in Nat /\ base[x] <= b
    <3>1. m \in 1..(m + 1) /\ \A x \in 1..(m - 1) : x \in 1..(m + 1) /\ x <= m
      BY <1>1
    <3> QED
      BY <1>5, <1>9, <3>1
  <2>2. (m - 1) + 1 = m /\ 1 \in 1..(m - 1)
    BY <1>1, <1>2
  <2>3. \A i \in 1..m : rest[i] \in Nat
    <3> TAKE i \in 1..m
    <3>1. i = m \/ i \in 1..(m - 1)
      BY <1>1
    <3> QED
      BY <1>3, <1>7, <2>1, <3>1
  <2>4. ASSUME NEW i \in 1..m, NEW j \in 1..m, i <= j PROVE rest[i] <= rest[j]
    <3>1. CASE j = m
      <4>1. i = m \/ i \in 1..(m - 1)
        BY <1>1
      <4>2. rest[i] <= b + 1
        BY <1>3, <1>7, <2>1, <4>1
      <4> QED
        BY <1>7, <3>1, <4>2
    <3>2. CASE j # m
      <4>1. i \in 1..(m - 1) /\ j \in 1..(m - 1) /\ i \in 1..(m + 1) /\ j \in 1..(m + 1)
        BY <1>1, <2>4, <3>2
      <4>2. base[i] <= base[j]
        BY <1>5, <2>4, <4>1
      <4> QED
        BY <1>7, <4>1, <4>2
    <3> QED
      BY <3>1, <3>2
  <2>5. rest[1] = 0
    BY <1>5, <1>7, <2>2
  <2> QED
    BY <1>7, <2>2, <2>3, <2>4, <2>5 DEF Rising
<1>11. ASSUME NEW i \in 1..(m - 1)
       PROVE  FrameFits(P, G[i]) /\ Laid(G[i].pt, LowOf(G, i), st2, rest[i], rest[i + 1])
  <2> HIDE DEF m
  <2>1. G[i] = F[i] /\ rest[i] = base[i] /\ base[i] \in Nat /\ base[i + 1] \in Nat
    <3>1. i \in 1..(m + 1) /\ i + 1 \in 1..(m + 1)
      BY <1>1
    <3> QED
      BY <1>1, <1>5, <1>7, <3>1
  <2>2. CASE i = m - 1
    <3>1. i + 1 = m
      BY <1>1, <2>2
    <3>2. ChildUnderWay(F[i], F[m]) /\ Laid(F[i].pt, F[i].left + 1, st, base[i], b)
      BY <1>6, <1>9, <3>1
    <3>3. /\ F[i].left + 1 \in 1..Len(F[i].pt.kgc) /\ (F[i].left + 1) - 1 = F[i].left
          /\ F[i].pt.kgc[F[i].left + 1] = <<"child", st2[b + 1]>>
      <4>1. F[i].left \in 0..Len(F[i].pt.kgc) /\ Len(F[i].pt.kgc) \in Nat
        BY <1>6, ChildIs DEF FrameFits
      <4>2. /\ F[i].left + 1 <= Len(F[i].pt.kgc)
            /\ F[i].pt.kgc[F[i].left + 1] = <<"child", F[m].pt>>
        BY <3>2 DEF ChildUnderWay
      <4>3. F[m].pt = st2[b + 1]
        BY <1>4, <1>8
      <4> QED
        BY <4>1, <4>2, <4>3
    <3>4. Laid(F[i].pt, (F[i].left + 1) - 1, st2, base[i], b + 1)
      BY <1>3, <1>4, <1>6, <2>1, <3>2, <3>3, LaidMore, ZenonT(30)
    <3>5. LowOf(G, i) = F[i].left
      <4>1. i = Len(G)
        BY <1>1, <2>2
      <4> QED
        BY <2>1, <4>1 DEF LowOf
    <3>6. rest[i + 1] = b + 1
      BY <1>7, <3>1
    <3> QED
      BY <1>6, <2>1, <3>3, <3>4, <3>5, <3>6
  <2>3. CASE i # m - 1
    <3>1. i + 1 \in 1..(m - 1) /\ i + 1 \in 1..(m + 1) /\ m \in 1..(m + 1) /\ i + 1 <= m
      BY <1>1, <2>3
    <3>2. rest[i + 1] = base[i + 1]
      BY <1>7, <3>1
    <3>3. base[i + 1] <= b
      BY <1>5, <1>9, <3>1
    <3>4. \A l \in 1..base[i + 1] : st2[l] = st[l]
      <4>1. \A l \in 1..base[i + 1] : l \in 1..b
        BY <1>3, <2>1, <3>3
      <4> QED
        BY <1>4, <4>1
    <3>5. Laid(F[i].pt, F[i].left + 1, st2, base[i], base[i + 1])
      BY <1>6, <2>1, <3>4, LaidStays
    <3>6. LowOf(G, i) = F[i].left + 1
      <4>1. i # Len(G)
        BY <1>1, <2>3
      <4> QED
        BY <2>1, <4>1 DEF LowOf
    <3> QED
      BY <1>6, <2>1, <3>2, <3>5, <3>6
  <2> QED
    BY <2>2, <2>3
<1>12. ASSUME NEW i \in 1..(Len(G) - 1) PROVE ChildUnderWay(G[i], G[i + 1])
  <2> HIDE DEF m
  <2>1. i \in 1..(m - 1) /\ i + 1 \in 1..(m - 1)
    BY <1>1
  <2> QED
    BY <1>1, <1>6, <2>1
<1>13. Layout(P, G, st2, rest)
  <2> HIDE DEF m
  <2>1. Len(G) \in Nat /\ Len(G) = m - 1 /\ G = [i \in 1..Len(G) |-> G[i]]
    BY <1>1
  <2>2. Len(st2) \in Nat /\ Len(st2) = b + 1
    BY <1>3, <1>4
  <2> QED
    BY <1>10, <1>11, <1>12, <2>1, <2>2 DEF Layout
<1>14. G[1].pt = F[1].pt
  <2> HIDE DEF m
  <2>1. 1 \in 1..(m - 1)
    BY <1>1, <1>2
  <2> QED
    BY <1>1, <2>1
<1> QED
  BY <1>13, <1>14 DEF G, st2, t

-----------------------------------------------------------------------------
(* A dump under way: what any file says that begins with it.               *)

\* The rounds that begin after the header follow one another.
LEMMA NextRound ==
  ASSUME NEW s, Len(s) \in Nat, NEW j \in 1..Len(s)
  PROVE  StockRounds(s, 5)[j] = RoundAfter(s, StockRounds(s, 5)[j - 1])
<1> DEFINE i == 5
<1>1. \A k \in 1..Len(s) : StockRounds(s, i)[k] = RoundAfter(s, StockRounds(s, i)[k - 1])
  <2> HIDE DEF i
  <2> QED
    BY RoundsAre
<1>2. StockRounds(s, i)[j] = RoundAfter(s, StockRounds(s, i)[j - 1])
  <2> HIDE DEF i
  <2> QED
    BY <1>1
<1> QED
  BY <1>2

Reaches(x, st, k) ==
  \A s : Len(s) \in Nat /\ Here(s, 0, x) => StockRounds(s, 5)[k] = [to |-> Len(x), stack |-> st]
HasHeader(x) ==
  /\ x \in Seq(Byte) /\ Len(x) >= 5
  /\ \A k \in 1..4 : x[k] = StockMagic[k]
  /\ x[5] \in {STRIP, STRIP + FFI}
Led(x, st) ==
  /\ HasHeader(x)
  /\ Len(st) \in Nat /\ st = Prefix(st, Len(st))
  /\ \E k \in Nat : k < Len(x) /\ Reaches(x, st, k)

\* A plain dump, or what else begins with ESC and is not a mangled dump.
Foreign(f) == Len(f) \in Nat \ {0} /\ f[1] = Esc /\ Block(f, 1, 3).v # Tail(Magic)

\* The flags of a plain dump.
LEMMA LedHeader ==
  ASSUME NEW b \in {STRIP, STRIP + FFI}
  PROVE  Led(<<>> \o StockMagic \o <<b>>, <<>>)
<1> DEFINE x == <<>> \o StockMagic \o <<b>>
<1>1. StockMagic \in Seq(Byte) /\ Len(StockMagic) = 4
  BY StockAssumption
<1>2. b \in Byte
  BY HalfFacts DEF Byte, STRIP, FFI
<1>3. x = Append(StockMagic, b)
  BY <1>1, <1>2
<1> HIDE DEF x
<1>4. x \in Seq(Byte) /\ Len(x) = 5 /\ x[5] = b /\ \A k \in 1..4 : x[k] = StockMagic[k]
  <2>1. x \in Seq(Byte) /\ Len(x) = Len(StockMagic) + 1 /\ x[Len(StockMagic) + 1] = b
    BY <1>1, <1>2, <1>3, AppendProperties, ZenonT(60)
  <2>2. \A k \in 1..Len(StockMagic) : x[k] = StockMagic[k]
    BY <1>1, <1>2, <1>3, AppendProperties
  <2>3. Len(StockMagic) + 1 = 5
    BY <1>1
  <2>4. Len(x) = 5 /\ x[5] = b
    BY <2>1, <2>3
  <2>5. \A k \in 1..4 : x[k] = StockMagic[k]
    BY <1>1, <2>2
  <2> QED
    BY <2>1, <2>4, <2>5
<1>5. HasHeader(x)
  BY <1>4 DEF HasHeader
<1>6. Reaches(x, <<>>, 0)
  <2>1. \A s : Len(s) \in Nat => StockRounds(s, 5)[0] = [to |-> 5, stack |-> <<>>]
    BY RoundsAre
  <2> QED
    BY <1>4, <2>1 DEF Reaches
<1>7. Len(<<>>) = 0 /\ <<>> = Prefix(<<>>, 0)
  BY DEF Prefix
<1>8. 0 < Len(x)
  BY <1>4
<1> QED
  BY <1>5, <1>6, <1>7, <1>8 DEF Led, x

\* Another prototype.
LEMMA LedGrows ==
  ASSUME NEW x, NEW st, Led(x, st),
         NEW t, IsProto(t), Writable(t), NEW keys \in NodeOrders(t), OnTop(t, st),
         NEW b \in Nat, Len(st) - Children(t, Len(t.kgc)) = b
  PROVE  Led(x \o WithLength(ProtoBody(t, keys)), Adopted(st, t))
<1> DEFINE w == WithLength(ProtoBody(t, keys))
           y == x \o w
           st2 == Adopted(st, t)
<1>1. t.flags < PROTO_KEPT /\ Len(ProtoBody(t, keys)) < Word
  BY DEF Writable
<1>2. PICK k \in Nat : k < Len(x) /\ Reaches(x, st, k)
  BY DEF Led
<1>3. x \in Seq(Byte) /\ Len(x) \in Nat /\ Len(x) >= 5 /\ st = Prefix(st, Len(st))
  BY DEF Led, HasHeader
<1>4. w \in Seq(Byte) /\ Len(w) \in Nat \ {0}
  <2>2. ProtoBody(t, keys) \in Seq(Byte) /\ Len(ProtoBody(t, keys)) \in Nat
    BY BodyParts
  <2>3. Len(ProtoBody(t, keys)) % Word \in 0..(Word - 1)
    BY <1>1, <2>2, WordType
  <2>4. UlebBytes(Len(ProtoBody(t, keys)) % Word) \in Seq(Byte)
        /\ Len(UlebBytes(Len(ProtoBody(t, keys)) % Word)) >= 1
    BY <2>3, WordBytesType
  <2> HIDE DEF w
  <2>5. w = UlebBytes(Len(ProtoBody(t, keys)) % Word) \o ProtoBody(t, keys)
    BY DEF w, WithLength
  <2> QED
    BY <2>2, <2>4, <2>5, ConcatType
<1>5. y \in Seq(Byte) /\ Len(y) = Len(x) + Len(w) /\ Len(y) \in Nat
  <2> HIDE DEF w
  <2> QED
    BY <1>3, <1>4, ConcatType
<1>6. \A l \in 1..Len(x) : y[l] = x[l]
  <2> HIDE DEF w
  <2> QED
    BY <1>3, <1>4
<1>7. ASSUME NEW s, Len(s) \in Nat, Here(s, 0, y)
      PROVE  StockRounds(s, 5)[k + 1] = [to |-> Len(y), stack |-> st2]
  <2>1. Here(s, 0, x) /\ Here(s, Len(x), w) /\ Len(y) <= Len(s)
    <3> HIDE DEF w
    <3>1. Here(s, 0, x) /\ Here(s, 0 + Len(x), w)
      BY <1>3, <1>4, <1>7, JoinNext
    <3>2. 0 + Len(x) = Len(x) /\ 0 + Len(y) = Len(y)
      BY <1>3, <1>5
    <3> QED
      BY <1>7, <3>1, <3>2 DEF Here
  <2>2. StockRounds(s, 5)[k] = [to |-> Len(x), stack |-> st]
    BY <1>2, <1>7, <2>1 DEF Reaches
  <2>3. StockRound(s, Len(x), st) = [to |-> Len(x) + Len(w), stack |-> st2]
    <3>1. Len(ProtoBody(t, keys)) < Word /\ t.flags < PROTO_KEPT /\ Len(x) \in Nat
      BY <1>1, <1>3
    <3>2. Here(s, Len(x), WithLength(ProtoBody(t, keys))) /\ Len(s) \in Nat
      BY <1>7, <2>1
    <3>3. st = Prefix(st, Len(st))
      BY <1>3
    <3>4. StockRound(s, Len(x), st)
            = [to |-> Len(x) + Len(WithLength(ProtoBody(t, keys))),
               stack |-> Append(Prefix(st, Len(st) - Children(t, Len(t.kgc))), t)]
      BY <3>1, <3>2, <3>3, RoundRead
    <3> QED
      BY <3>4 DEF Adopted
  <2>4. k + 1 \in 1..Len(s) /\ (k + 1) - 1 = k
    <3> HIDE DEF w
    <3> QED
      BY <1>2, <1>3, <1>4, <1>5, <1>7, <2>1
  <2>5. StockRounds(s, 5)[k + 1] = RoundAfter(s, StockRounds(s, 5)[k])
    <3>1. \A j \in 1..Len(s) : StockRounds(s, 5)[j] = RoundAfter(s, StockRounds(s, 5)[j - 1])
      BY <1>7, NextRound
    <3> QED
      BY <2>4, <3>1
  <2> HIDE DEF w, st2
  <2>6. RoundAfter(s, [to |-> Len(x), stack |-> st]) = StockRound(s, Len(x), st)
    BY DEF RoundAfter
  <2> QED
    BY <1>5, <2>2, <2>3, <2>5, <2>6
<1>8. Reaches(y, st2, k + 1)
  BY <1>7 DEF Reaches
<1>9. Len(st2) \in Nat /\ st2 = Prefix(st2, Len(st2))
  <2>1. Len(st2) = b + 1 /\ st2 = Prefix(st2, b + 1)
    BY AdoptedIs
  <2> HIDE DEF st2
  <2> QED
    BY <2>1
<1> HIDE DEF w, st2
<1>10. k + 1 \in Nat /\ k + 1 < Len(y) /\ Len(y) >= 5
  BY <1>2, <1>3, <1>4, <1>5
<1>11. HasHeader(y)
  <2>1. HasHeader(x)
    BY DEF Led
  <2>2. \A l \in 1..5 : y[l] = x[l]
    BY <1>3, <1>6
  <2> HIDE DEF y
  <2>3. y[5] = x[5] /\ \A l \in 1..4 : y[l] = x[l]
    BY <2>2
  <2> QED
    BY <1>5, <1>10, <2>1, <2>3 DEF HasHeader
<1>12. Led(y, st2)
  <2> HIDE DEF y
  <2> QED
    BY <1>8, <1>9, <1>10, <1>11 DEF Led
<1> QED
  BY <1>12 DEF w, st2

\* The zero byte at the end: lj_bcread returns the one prototype that is left.
LEMMA LedEnds ==
  ASSUME NEW x, NEW v, Led(x, <<v>>)
  PROVE  StockRead(Append(x, 0)) = [ok |-> TRUE, v |-> v] /\ Foreign(Append(x, 0))
<1> DEFINE s == Append(x, 0)
           m == Len(x)
<1>1. x \in Seq(Byte) /\ m \in Nat /\ m >= 5 /\ HasHeader(x)
  BY DEF Led, HasHeader
<1>2. 0 \in Byte
  BY HalfFacts DEF Byte
<1>3. s \in Seq(Byte) /\ Len(s) = m + 1 /\ s[m + 1] = 0 /\ \A l \in 1..m : s[l] = x[l]
  BY <1>1, <1>2
<1>4. PICK k \in Nat : k < Len(x) /\ Reaches(x, <<v>>, k)
  BY DEF Led
<1> HIDE DEF s
<1>5. Here(s, 0, x) /\ Len(s) \in Nat
  <2>1. \A l \in 1..m : 0 + l = l
    BY <1>1
  <2> QED
    BY <1>1, <1>3, <2>1 DEF Here
<1>6. StockRounds(s, 5)[k] = [to |-> m, stack |-> <<v>>]
  BY <1>4, <1>5 DEF Reaches
<1>7. k + 1 \in 1..Len(s) /\ (k + 1) - 1 = k /\ k + 1 \in 0..Len(s)
  BY <1>1, <1>3, <1>4
<1>8. StockRounds(s, 5)[k + 1] = RoundAfter(s, StockRounds(s, 5)[k])
  <2>1. \A j \in 1..Len(s) : StockRounds(s, 5)[j] = RoundAfter(s, StockRounds(s, 5)[j - 1])
    BY <1>5, NextRound
  <2> QED
    BY <1>7, <2>1
<1> HIDE DEF m
<1>9. At(s, m) = 0
  BY <1>1, <1>3 DEF At
<1>10. StockRound(s, m, <<v>>) = [ok |-> TRUE, v |-> v]
  BY <1>1, <1>3, <1>5, <1>9, RoundEnd
<1>11. RoundAfter(s, [to |-> m, stack |-> <<v>>]) = StockRound(s, m, <<v>>)
  BY DEF RoundAfter
<1>12. StockRounds(s, 5)[k + 1] = [ok |-> TRUE, v |-> v]
  BY <1>6, <1>8, <1>10, <1>11
<1>13. StockRounds(s, 5)[Len(s)] = [ok |-> TRUE, v |-> v]
  BY <1>5, <1>7, <1>12, RoundsStay
<1>14. /\ \A l \in 1..4 : s[l] = StockMagic[l]
       /\ s[5] \in {STRIP, STRIP + FFI}
  <2>1. \A l \in 1..5 : s[l] = x[l]
    BY <1>1, <1>3
  <2>2. s[5] = x[5] /\ \A l \in 1..4 : s[l] = x[l]
    BY <2>1
  <2> QED
    BY <1>1, <2>2 DEF HasHeader
<1>15. StockMagic \in Seq(Byte) /\ Len(StockMagic) = 4
  BY StockAssumption
<1>16. SubSeq(s, 1, 4) = StockMagic
  <2>1. Len(s) \in Nat /\ 4 <= Len(s)
    BY <1>1, <1>3
  <2>2. SubSeq(s, 1, 4) = [i \in 1..4 |-> s[i]]
    BY <1>3, <2>1
  <2>3. StockMagic = [i \in 1..4 |-> StockMagic[i]]
    BY <1>15
  <2> QED
    BY <1>14, <2>2, <2>3
<1>17. At(s, 4) \in {STRIP, STRIP + FFI}
  <2>1. 4 < Len(s) /\ 4 + 1 = 5
    BY <1>1, <1>3
  <2>2. At(s, 4) = s[5]
    BY <2>1 DEF At
  <2> QED
    BY <1>14, <2>2
<1>18. StockRead(s) = [ok |-> TRUE, v |-> v]
  BY <1>13, <1>16, <1>17 DEF StockRead
<1>19. Foreign(s)
  <2>1. s[1] = Esc
    BY <1>14, StockAssumption
  <2>2. Block(s, 1, 3).v = Tail(StockMagic)
    <3>1. Block(s, 1, 3).v = [i \in 1..3 |-> At(s, 1 + i - 1)]
      BY DEF Block
    <3>2. \A i \in 1..3 : At(s, 1 + i - 1) = s[i + 1] /\ i + 1 \in 1..4
      BY <1>1, <1>3 DEF At
    <3>3. Tail(StockMagic) = [i \in 1..3 |-> StockMagic[i + 1]]
      BY <1>15, TailIs
    <3>4. \A i \in 1..3 : s[i + 1] = StockMagic[i + 1]
      BY <1>14, <3>2
    <3>5. \A i \in 1..3 : At(s, 1 + i - 1) = StockMagic[i + 1]
      BY <3>2, <3>4, Zenon
    <3> QED
      BY <3>1, <3>3, <3>5, Zenon
  <2>3. Len(s) \in Nat \ {0}
    BY <1>1, <1>3
  <2> QED
    BY <2>1, <2>2, <2>3, StockAssumption DEF Foreign
<1> QED
  BY <1>18, <1>19 DEF s

\* What is left to write of the prototype v: when no call is under way, it is
\* what the reader has on its stack.
Pending(P, F, st, v) ==
  \/ F = <<>> /\ st = <<v>>
  \/ F # <<>> /\ F[1].pt = v /\ \E base : Layout(P, F, st, base)
WrittenSoFar(P) == \E st : Led(sb, st) /\ Pending(P, frames, st, root)
ReadsBack(f, v) == StockRead(f) = [ok |-> TRUE, v |-> v]

\* The inductive invariant of the writer.
Written(P) ==
  /\ root \in P
  /\ \/ writing = "header" /\ sb = <<>>
     \/ writing = "protos" /\ WrittenSoFar(P)
     \/ writing = "done" /\ ReadsBack(sb, root) /\ Foreign(sb)

LEMMA WriteHeaderStep ==
  ASSUME NEW P, Family(P), Written(P), WriteHeader
  PROVE  Written(P)'
<1> DEFINE b == STRIP + (IF Bit(root.flags, PROTO_FFI) THEN FFI ELSE 0)
<1>1. /\ writing = "header" /\ writing' = "protos" /\ frames' = <<Frame(root)>> /\ root' = root
      /\ sb' = sb \o StockMagic \o <<b>>
  BY DEF WriteHeader
<1>2. root \in P /\ sb = <<>>
  BY <1>1 DEF Written
<1>3. b \in {STRIP, STRIP + FFI}
  BY DEF STRIP, FFI
<1> HIDE DEF b
<1>4. Led(sb', <<>>)
  BY <1>1, <1>2, <1>3, LedHeader
<1>5. Layout(P, <<Frame(root)>>, <<>>, [i \in 1..2 |-> 0])
  BY <1>2, LayoutStarts
<1>6. frames' # <<>> /\ frames'[1].pt = root'
  <2>1. Frame(root).pt = root /\ <<Frame(root)>>[1] = Frame(root) /\ <<Frame(root)>> # <<>>
    BY DEF Frame
  <2> QED
    BY <1>1, <2>1
<1>7. \E base : Layout(P, frames', <<>>, base)
  BY <1>1, <1>5
<1>8. Pending(P, frames', <<>>, root')
  BY <1>6, <1>7 DEF Pending
<1>9. WrittenSoFar(P)'
  BY <1>4, <1>8 DEF WrittenSoFar
<1>10. root' \in P
  BY <1>1, <1>2
<1> QED
  BY <1>1, <1>9, <1>10 DEF Written

LEMMA VisitConstantStep ==
  ASSUME NEW P, Family(P), Written(P), VisitConstant
  PROVE  Written(P)'
<1> DEFINE f == Last(frames)
           k == f.pt.kgc[f.left]
           rest == Append(Front(frames), [f EXCEPT !.left = @ - 1])
<1>1. /\ writing = "protos" /\ frames # <<>> /\ f.left > 0
      /\ frames' = (IF k[1] = "child" THEN Append(rest, Frame(k[2])) ELSE rest)
      /\ root' = root /\ sb' = sb /\ writing' = writing
  BY DEF VisitConstant
<1>2. root \in P /\ WrittenSoFar(P)
  BY <1>1 DEF Written
<1>3. PICK st : Led(sb, st) /\ Pending(P, frames, st, root)
  BY <1>2 DEF WrittenSoFar
<1>4. frames[1].pt = root /\ \E base : Layout(P, frames, st, base)
  BY <1>1, <1>3 DEF Pending
<1>5. PICK base : Layout(P, frames, st, base)
  BY <1>4
<1>6. rest = Visited(frames)
  BY DEF Visited
<1>7. frames' # <<>> /\ frames'[1].pt = root /\ \E next : Layout(P, frames', st, next)
  <2>1. CASE k[1] = "child"
    <3>1. f.pt \in P /\ f.left \in 1..Len(f.pt.kgc)
      <4>1. f.pt \in P /\ IsProto(f.pt) /\ f.left \in 0..Len(f.pt.kgc)
        BY <1>1, <1>5, LastFrame
      <4>2. Len(f.pt.kgc) \in Nat
        BY <4>1, ChildIs
      <4> HIDE DEF f
      <4> QED
        BY <1>1, <4>1, <4>2
    <3>2. PICK u \in P : k = <<"child", u>>
      BY <2>1, <3>1 DEF Family
    <3>3. k[2] = u
      BY <3>2
    <3>4. frames' = Append(Visited(frames), Frame(u))
      BY <1>1, <1>6, <2>1, <3>3
    <3>5. frames # <<>> /\ Last(frames).left > 0
      BY <1>1
    <3>6. Last(frames).pt.kgc[Last(frames).left] = <<"child", u>>
      BY <3>2
    <3> DEFINE G == Append(Visited(frames), Frame(u))
    <3>7. G = Append(Visited(frames), Frame(u))
      OBVIOUS
    <3> HIDE DEF rest, f, k, G
    <3>8. G # <<>> /\ G[1].pt = frames[1].pt
      BY <1>5, <3>5, <3>6, <3>7, ChildLayout
    <3>9. \E next : Layout(P, G, st, next)
      BY <1>5, <3>5, <3>6, <3>7, ChildLayout
    <3>10. frames' = G
      BY <3>4, <3>7
    <3> QED
      BY <1>4, <3>8, <3>10, <3>9
  <2>2. CASE k[1] # "child"
    <3>1. frames' = Visited(frames)
      BY <1>1, <1>6, <2>2
    <3>2. Layout(P, Visited(frames), st, base) /\ Visited(frames)[1].pt = frames[1].pt
      BY <1>1, <1>5, <2>2, SkipLayout
    <3>3. Visited(frames) # <<>>
      <4>1. Len(Visited(frames)) = Len(frames) /\ Len(frames) \in Nat \ {0}
        BY <1>1, <1>5, VisitedIs, LastFrame
      <4> QED
        BY <4>1
    <3> QED
      BY <1>4, <3>1, <3>2, <3>3
  <2> QED
    BY <2>1, <2>2
<1> HIDE DEF f, k, rest
<1>8. Pending(P, frames', st, root')
  BY <1>1, <1>7 DEF Pending
<1>9. WrittenSoFar(P)'
  BY <1>1, <1>3, <1>8 DEF WrittenSoFar
<1>10. root' \in P /\ writing' = "protos"
  BY <1>1, <1>2
<1> QED
  BY <1>9, <1>10 DEF Written

LEMMA WriteProtoStep ==
  ASSUME NEW P, Family(P), Written(P), WriteProto
  PROVE  Written(P)'
<1> DEFINE t == Last(frames).pt
<1>1. /\ writing = "protos" /\ frames # <<>> /\ Last(frames).left = 0
      /\ frames' = Front(frames) /\ root' = root /\ writing' = writing
  BY DEF WriteProto
<1>2. PICK keys \in NodeOrders(t) : sb' = sb \o WithLength(ProtoBody(t, keys))
  BY DEF WriteProto
<1>3. root \in P /\ WrittenSoFar(P)
  BY <1>1 DEF Written
<1>4. PICK st : Led(sb, st) /\ Pending(P, frames, st, root)
  BY <1>3 DEF WrittenSoFar
<1>5. frames[1].pt = root /\ \E base : Layout(P, frames, st, base)
  BY <1>1, <1>4 DEF Pending
<1>6. PICK base : Layout(P, frames, st, base)
  BY <1>5
<1>7. /\ OnTop(t, st) /\ Len(st) - Children(t, Len(t.kgc)) = base[Len(frames)]
      /\ base[Len(frames)] \in Nat
  BY <1>1, <1>6, LastOnTop
<1>8. IsProto(t) /\ Writable(t)
  BY <1>1, <1>6, LastFrame
<1>9. Led(sb', Adopted(st, t))
  <2> DEFINE b == base[Len(frames)]
  <2>1. b \in Nat /\ Len(st) - Children(t, Len(t.kgc)) = b
    BY <1>7
  <2> HIDE DEF t, b
  <2>2. Led(sb \o WithLength(ProtoBody(t, keys)), Adopted(st, t))
    BY <1>4, <1>7, <1>8, <2>1, LedGrows
  <2> QED
    BY <1>2, <2>2
<1>10. Pending(P, frames', Adopted(st, t), root')
  <2>1. CASE Front(frames) = <<>>
    <3>1. Adopted(st, t) = <<frames[1].pt>>
      BY <1>1, <1>6, <2>1, OnlyFrame
    <3> QED
      BY <1>1, <1>5, <2>1, <3>1 DEF Pending
  <2>2. CASE Front(frames) # <<>>
    <3>1. Front(frames)[1].pt = frames[1].pt /\ \E next : Layout(P, Front(frames), Adopted(st, t), next)
      BY <1>1, <1>6, <2>2, FrontLayout
    <3> QED
      BY <1>1, <1>5, <2>2, <3>1 DEF Pending
  <2> QED
    BY <2>1, <2>2
<1>11. WrittenSoFar(P)'
  BY <1>9, <1>10 DEF WrittenSoFar
<1>12. root' \in P /\ writing' = "protos"
  BY <1>1, <1>3
<1> QED
  BY <1>11, <1>12 DEF Written

LEMMA WriteFooterStep ==
  ASSUME NEW P, Family(P), Written(P), WriteFooter
  PROVE  Written(P)'
<1>1. /\ writing = "protos" /\ frames = <<>> /\ sb' = Append(sb, 0) /\ root' = root
      /\ writing' = "done"
  BY DEF WriteFooter
<1>2. root \in P /\ WrittenSoFar(P)
  BY <1>1 DEF Written
<1>3. PICK st : Led(sb, st) /\ Pending(P, frames, st, root)
  BY <1>2 DEF WrittenSoFar
<1>4. st = <<root>>
  BY <1>1, <1>3 DEF Pending
<1>5. StockRead(sb') = [ok |-> TRUE, v |-> root] /\ Foreign(sb')
  BY <1>1, <1>3, <1>4, LedEnds
<1>6. ReadsBack(sb', root')
  BY <1>1, <1>5 DEF ReadsBack
<1>7. root' \in P
  BY <1>1, <1>2
<1> QED
  BY <1>1, <1>5, <1>6, <1>7 DEF Written

LEMMA WriteStep ==
  ASSUME NEW P, Family(P), Written(P), WriteNext
  PROVE  Written(P)' /\ root' = root
<1>1. root' = root
  BY DEF WriteNext, WriteHeader, VisitConstant, WriteProto, WriteFooter
<1>2. Written(P)'
  BY WriteHeaderStep, VisitConstantStep, WriteProtoStep, WriteFooterStep DEF WriteNext
<1> QED
  BY <1>1, <1>2

-----------------------------------------------------------------------------
(* The tool, for directories whose files are dumps as they were made,      *)
(* texts, files of another kind, and files that cannot be opened.          *)

PlainText(f) == f \in Seq(Byte) /\ At(f, 0) \notin {Esc, Magic[1]}
Whole(f) == f = Missing \/ IsDump(f) \/ PlainText(f) \/ Foreign(f)

\* What is known of a text, or of a file of another kind, while it is read.
TextRead ==
  /\ at \in {"setup", "text", "loaded", "refused"} /\ (at # "setup" => oldtop = 1)
  /\ at \in {"setup", "text"} => stack = <<ChunkName>>
  /\ at = "loaded" => \E t \in Sources : Last(stack) = <<"proto", t>>
ForeignRead ==
  /\ at \in {"setup", "want header", "header", "refused"} /\ (at # "setup" => oldtop = 1)
  /\ at = "setup" => stack = <<ChunkName>>
  /\ at \in {"want header", "header"} => p = 1

\* What the current file, as it was given, may stand for.
Meant(v) == cur \in DOMAIN given.files /\ v \in Meanings(given.files[cur])

Loading ==
  \/ /\ cur \in DOMAIN given.files /\ file = given.files[cur]
     /\ IsDump(file) \/ (PlainText(file) /\ TextRead)
  \/ Foreign(file) /\ ForeignRead
FilesStay ==
  \A x \in DOMAIN files :
    (x \in DOMAIN given.files /\ files[x] = given.files[x]) \/ Foreign(files[x])
Decodes(o, f) ==
  \E v : /\ ReadsBack(f, v)
         /\ \E name \in DOMAIN given.files :
              OutName[name] = o /\ v \in Meanings(given.files[name])

Directory ==
  /\ given \in Directories /\ todo \subseteq DOMAIN files /\ FilesStay
  /\ \A o \in DOMAIN out : Decodes(o, out[o])
Loaded(P) == stack[1] = Err \/ \E t \in P : stack[1] = <<"function", t>> /\ Meant(t)

\* The inductive invariant of the tool.
ToolInv(P) ==
  /\ Directory
  /\ step = "load" => Loading
  /\ step = "check" => Loaded(P)
  /\ step = "dump" => Written(P) /\ Meant(root)

LEMMA DirectoryStays ==
  ASSUME Directory, UNCHANGED <<given, files, out>>, todo' \subseteq todo
  PROVE  Directory'
<1>1. FilesStay'
  BY DEF Directory, FilesStay
<1>2. given' \in Directories /\ todo' \subseteq DOMAIN files'
  BY DEF Directory
<1>3. \A o \in DOMAIN out' : Decodes(o, out[o])'
  BY DEF Directory, Decodes
<1> QED
  BY <1>1, <1>2, <1>3 DEF Directory

LEMMA TextStep ==
  ASSUME PlainText(file), TextRead, ReadNext
  PROVE  TextRead'
<1>1. CASE at = "setup"
  <2>1. stack = <<ChunkName>> /\ Len(stack) = 1
    BY <1>1 DEF TextRead
  <2>2. Setup
    BY <1>1 DEF ReadNext, ParseText, EndMark, WantLength, ReadLength, NeedProto, ReadProto,
              ReadNumbers, ReadConstant, ReadCdata, PushProto, Finish, WantHeader,
              ReadHeader, SkipName
  <2>3. at' = "text"
    BY <2>2, Zenon DEF Setup, PlainText
  <2>4. stack' = stack /\ oldtop' = 1
    BY <2>1, <2>2, Zenon DEF Setup
  <2> QED
    BY <2>1, <2>3, <2>4 DEF TextRead
<1>2. CASE at = "text"
  <2>1. ParseText
    BY <1>2 DEF ReadNext, Setup, EndMark, WantLength, ReadLength, NeedProto, ReadProto,
              ReadNumbers, ReadConstant, ReadCdata, PushProto, Finish, WantHeader,
              ReadHeader, SkipName
  <2>2. stack = <<ChunkName>> /\ oldtop = 1 /\ oldtop' = oldtop
    BY <1>2, <2>1 DEF TextRead, ParseText
  <2>3. CASE at' = "refused"
    BY <2>2, <2>3 DEF TextRead
  <2>4. CASE at' # "refused"
    <3>1. at' = "loaded" /\ \E t \in Sources : stack' = Append(stack, <<"proto", t>>)
      BY <2>1, <2>4 DEF ParseText
    <3>2. PICK t \in Sources : stack' = Append(stack, <<"proto", t>>)
      BY <3>1
    <3> DEFINE x == <<"proto", t>>
               y == ChunkName
    <3>3. stack' = Append(<<y>>, x)
      BY <2>2, <3>2
    <3> HIDE DEF x, y
    <3>4. Last(Append(<<y>>, x)) = x
      BY DEF Last
    <3>5. Last(stack') = <<"proto", t>>
      BY <3>3, <3>4 DEF x
    <3> QED
      BY <2>2, <3>1, <3>5 DEF TextRead
  <2> QED
    BY <2>3, <2>4
<1>3. CASE at \in {"loaded", "refused"}
  BY <1>3, Zenon DEF ReadNext, Setup, ParseText, EndMark, WantLength, ReadLength, NeedProto,
              ReadProto, ReadNumbers, ReadConstant, ReadCdata, PushProto, Finish, WantHeader,
              ReadHeader, SkipName
<1> QED
  BY <1>1, <1>2, <1>3 DEF TextRead

LEMMA ForeignStep ==
  ASSUME Foreign(file), ForeignRead, ReadNext
  PROVE  ForeignRead'
<1>1. CASE at = "setup"
  <2>1. stack = <<ChunkName>> /\ Len(stack) = 1
    BY <1>1 DEF ForeignRead
  <2>2. Setup
    BY <1>1 DEF ReadNext, ParseText, EndMark, WantLength, ReadLength, NeedProto, ReadProto,
              ReadNumbers, ReadConstant, ReadCdata, PushProto, Finish, WantHeader,
              ReadHeader, SkipName
  <2>3. At(file, 0) = Esc /\ Esc # Magic[1]
    BY MagicAssumption DEF Foreign, At
  <2>4. at' = "want header"
    BY <2>2, <2>3, Zenon DEF Setup
  <2>5. stack' = stack /\ oldtop' = 1
    BY <2>1, <2>2, Zenon DEF Setup
  <2>6. file # <<>>
    <3>1. Len(file) # 0
      BY DEF Foreign
    <3> QED
      BY <3>1
  <2>7. p' = 1
    BY <2>2, <2>6, Zenon DEF Setup
  <2> QED
    BY <2>4, <2>5, <2>7, Zenon DEF ForeignRead
<1>2. CASE at = "want header"
  <2>1. WantHeader
    BY <1>2, Zenon DEF ReadNext, Setup, ParseText, EndMark, WantLength, ReadLength, NeedProto,
              ReadProto, ReadNumbers, ReadConstant, ReadCdata, PushProto, Finish,
              ReadHeader, SkipName
  <2>2. p = 1 /\ oldtop = 1 /\ oldtop' = oldtop
    BY <1>2, <2>1, Zenon DEF ForeignRead, WantHeader
  <2>3. at' = "refused" \/ (at' = "header" /\ p' = p + 0)
    BY <2>1, Zenon DEF WantHeader, Request
  <2>4. p + 0 = 1
    BY <2>2
  <2> QED
    BY <2>2, <2>3, <2>4, Zenon DEF ForeignRead
<1>3. CASE at = "header"
  <2>1. ReadHeader
    BY <1>3 DEF ReadNext, Setup, ParseText, EndMark, WantLength, ReadLength, NeedProto, ReadProto,
              ReadNumbers, ReadConstant, ReadCdata, PushProto, Finish, WantHeader, SkipName
  <2>2. p = 1 /\ oldtop = 1 /\ oldtop' = oldtop
    BY <1>3, <2>1 DEF ForeignRead, ReadHeader
  <2>3. Block(file, p, 3).v # Tail(Magic)
    BY <2>2 DEF Foreign
  <2>4. at' = "refused"
    BY <2>1, <2>3 DEF ReadHeader
  <2> QED
    BY <2>2, <2>4, Zenon DEF ForeignRead
<1>4. CASE at = "refused"
  BY <1>4 DEF ReadNext, Setup, ParseText, EndMark, WantLength, ReadLength, NeedProto, ReadProto,
              ReadNumbers, ReadConstant, ReadCdata, PushProto, Finish, WantHeader,
              ReadHeader, SkipName
<1> QED
  BY <1>1, <1>2, <1>3, <1>4, Zenon DEF ForeignRead

\* A dump stands for what it was made from, and a text for what it compiles to.
LEMMA DumpMeans ==
  ASSUME NEW d \in Dumps
  PROVE  d.tree \in Meanings(d.bytes)
<1> DEFINE f == d.bytes
           b == Len(Magic)
<1>1. Magic \in Seq(Byte) /\ b = 4
  BY MagicAssumption
<1>2. f \in Seq(Byte) /\ Len(f) \in Nat /\ HeaderFound(f, d) /\ Len(MangledHeader(d)) < Len(f)
  BY DumpRead
<1>3. 4 <= Len(f)
  <2>1. Len(MangledHeader(d)) >= 4 /\ Len(MangledHeader(d)) \in Nat
    BY HeaderRead
  <2> HIDE DEF f
  <2> QED
    BY <1>2, <2>1
<1>4. SubSeq(f, 1, 4) = Magic
  BY <1>2 DEF HeaderFound
<1>5. SubSeq(Magic, 1, 4) = Magic
  BY <1>1
<1>6. IsPrefix(Magic, f)
  <2> HIDE DEF f, b
  <2> QED
    BY <1>1, <1>3, <1>4, <1>5 DEF IsPrefix, b
<1>7. IsPrefix(f, f)
  <2> HIDE DEF f
  <2> QED
    BY <1>2 DEF IsPrefix
<1> QED
  BY <1>6, <1>7 DEF Meanings

LEMMA TextMeans ==
  ASSUME NEW f, PlainText(f)
  PROVE  Meanings(f) = Sources /\ f # Missing
<1>1. f \in Seq(Byte) /\ At(f, 0) # Esc /\ At(f, 0) # Magic[1]
  BY DEF PlainText
<1>2. f # Missing
  <2>1. -1 \notin Byte
    BY HalfFacts DEF Byte
  <2>2. Len(Missing) = 1 /\ Missing[1] = -1
    BY DEF Missing
  <2> QED
    BY <1>1, <2>1, <2>2, SMTT(30)
<1>3. ~IsPrefix(Magic, f)
  <2> SUFFICES ASSUME IsPrefix(Magic, f) PROVE FALSE
    OBVIOUS
  <2>1. Magic \in Seq(Byte) /\ Len(Magic) = 4
    BY MagicAssumption
  <2> DEFINE b == Len(Magic)
  <2>2. b <= Len(f) /\ SubSeq(Magic, 1, b) = SubSeq(f, 1, b)
    BY DEF IsPrefix
  <2>3. b = 4
    BY <2>1
  <2> HIDE DEF b
  <2>4. SubSeq(f, 1, 4) = SubSeq(Magic, 1, 4) /\ Len(f) >= 4 /\ Len(f) \in Nat
    BY <1>1, <2>2, <2>3
  <2>5. SubSeq(f, 1, 4)[1] = f[1] /\ SubSeq(Magic, 1, 4)[1] = Magic[1]
    BY <1>1, <2>1, <2>4
  <2>6. At(f, 0) = f[1]
    BY <2>4 DEF At
  <2> QED
    BY <1>1, <2>4, <2>5, <2>6
<1> QED
  BY <1>1, <1>2, <1>3 DEF Meanings

\* What the theorem supposes: no dump is in the other byte order, nothing is lost
\* of what the dumps and texts hold, and every file is one of those above.
Supposed(P) ==
  /\ Family(P) /\ Sources \subseteq P
  /\ \A d \in Dumps : ~Has(d.flags, F_BE) /\ d.tree \in P
  /\ \A g \in Directories : \A x \in DOMAIN g.files : Whole(g.files[x])

LEMMA ToolInit ==
  ASSUME NEW P, Supposed(P), Init
  PROVE  ToolInv(P)
<1>1. /\ given \in Directories /\ files = given.files /\ todo = DOMAIN given.files
      /\ out = [x \in {} |-> <<>>] /\ step = "next"
  BY DEF Init
<1>2. todo \subseteq DOMAIN files /\ FilesStay
  BY <1>1 DEF FilesStay
<1>3. DOMAIN out = {}
  BY <1>1
<1> QED
  BY <1>1, <1>2, <1>3 DEF ToolInv, Directory

LEMMA ToolOpen ==
  ASSUME NEW P, Supposed(P), Inv, ToolInv(P), Open
  PROVE  ToolInv(P)'
<1>1. /\ step = "next" /\ stack = <<>> /\ UNCHANGED <<given, files, out>> /\ Directory
      /\ todo \subseteq DOMAIN files /\ FilesStay /\ given \in Directories
  BY DEF Open, Inv, ToolInv, Directory
<1>2. PICK name \in todo :
        /\ cur' = name /\ todo' = todo \ {name} /\ Start(files[name])
        /\ stack' = Append(stack, IF files[name] = Missing THEN Err ELSE ChunkName)
        /\ step' = IF files[name] = Missing THEN "check" ELSE "load"
  BY DEF Open
<1>3. Directory'
  BY <1>1, <1>2, DirectoryStays
<1>4. CASE files[name] = Missing
  <2>1. stack' = <<Err>> /\ step' = "check"
    BY <1>1, <1>2, <1>4
  <2>2. Loaded(P)'
    BY <2>1 DEF Loaded
  <2> QED
    BY <1>3, <2>1, <2>2 DEF ToolInv
<1>5. CASE files[name] # Missing
  <2>1. stack' = <<ChunkName>> /\ step' = "load"
    BY <1>1, <1>2, <1>5
  <2>2. file' = files[name] /\ at' = "setup"
    BY <1>2 DEF Start
  <2>3. TextRead' /\ ForeignRead'
    BY <2>1, <2>2 DEF TextRead, ForeignRead
  <2>4. ASSUME name \in DOMAIN given.files, files[name] = given.files[name]
        PROVE  Loading'
    <3>1. (cur \in DOMAIN given.files /\ file = given.files[cur])'
      BY <1>1, <1>2, <2>2, <2>4
    <3>2. Whole(files[name])
      BY <1>1, <2>4 DEF Supposed
    <3>3. IsDump(file)' \/ PlainText(file)' \/ Foreign(file)'
      BY <1>5, <2>2, <3>2 DEF Whole, IsDump, PlainText, Foreign
    <3> QED
      BY <2>3, <3>1, <3>3 DEF Loading
  <2>5. ASSUME Foreign(files[name]) PROVE Loading'
    <3>1. Foreign(file)'
      BY <2>2, <2>5 DEF Foreign
    <3> QED
      BY <2>3, <3>1 DEF Loading
  <2>6. Loading'
    <3>1. name \in DOMAIN files
      BY <1>1, <1>2
    <3> QED
      BY <1>1, <2>4, <2>5, <3>1 DEF FilesStay
  <2> QED
    BY <1>3, <2>1, <2>6 DEF ToolInv
<1> QED
  BY <1>4, <1>5

LEMMA ToolRead ==
  ASSUME NEW P, Supposed(P), Inv, ToolInv(P), Read
  PROVE  ToolInv(P)'
<1>1. /\ step = "load" /\ step' = step /\ ReadNext /\ Loading
      /\ UNCHANGED <<given, files, todo, cur, out>>
  BY DEF Read, ToolInv, toolVars
<1>2. UNCHANGED file
  BY <1>1, Zenon DEF ReadNext, ParseText, EndMark, WantLength, ReadLength, NeedProto, ReadProto,
              ReadNumbers, ReadConstant, ReadCdata, PushProto, Finish, Setup, WantHeader,
              ReadHeader, SkipName
<1>3. Loading'
  <2>1. PlainText(file) /\ TextRead => TextRead'
    BY <1>1, TextStep
  <2>2. Foreign(file) /\ ForeignRead => ForeignRead'
    BY <1>1, ForeignStep
  <2> QED
    BY <1>1, <1>2, <2>1, <2>2 DEF Loading
<1>4. Directory'
  BY <1>1, DirectoryStays DEF ToolInv
<1> QED
  BY <1>1, <1>3, <1>4 DEF ToolInv

LEMMA ToolReturn ==
  ASSUME NEW P, Supposed(P), Inv, ToolInv(P), Return
  PROVE  ToolInv(P)'
<1>0. PICK ferror \in BOOLEAN :
        stack' = Append(SubSeq(stack, 1, oldtop - 1),
                        IF at = "loaded" /\ ~ferror THEN <<"function", Last(stack)[2]>> ELSE Err)
  BY DEF Return, BelowName
<1> DEFINE x == IF at = "loaded" /\ ~ferror THEN <<"function", Last(stack)[2]>> ELSE Err
<1>1. /\ step = "load" /\ at \in {"loaded", "refused"} /\ step' = "check" /\ Loading
      /\ stack' = Append(SubSeq(stack, 1, oldtop - 1), x)
      /\ UNCHANGED <<given, files, todo, cur, out>>
  BY <1>0 DEF Return, ToolInv, toolVars
<1>2. oldtop = 1
  <2>1. CASE IsDump(file)
    BY <1>1, <2>1 DEF Inv, IsDump, Reading
  <2>2. CASE TextRead \/ ForeignRead
    BY <1>1, <2>2, Zenon DEF TextRead, ForeignRead
  <2> QED
    BY <1>1, <2>1, <2>2 DEF Loading
<1>3. stack'[1] = x
  <2> HIDE DEF x
  <2>1. SubSeq(stack, 1, 0) = <<>>
    OBVIOUS
  <2>2. oldtop - 1 = 0
    BY <1>2
  <2>3. stack' = Append(<<>>, x)
    BY <1>1, <2>1, <2>2
  <2> QED
    BY <2>3
<1>4. ASSUME at = "refused" \/ ferror PROVE Loaded(P)'
  <2>1. stack'[1] = Err
    BY <1>3, <1>4
  <2> QED
    BY <2>1 DEF Loaded
<1>5. ASSUME at = "loaded", ~ferror PROVE Loaded(P)'
  <2>1. /\ cur \in DOMAIN given.files /\ file = given.files[cur]
        /\ IsDump(file) \/ (PlainText(file) /\ TextRead)
    BY <1>1, <1>5 DEF Loading, ForeignRead
  <2>2. PICK t \in P : Last(stack) = <<"proto", t>> /\ t \in Meanings(file)
    <3>1. CASE IsDump(file)
      <4>1. PICK d \in Dumps : file = d.bytes
        BY <3>1 DEF IsDump
      <4>2. LoadedAs(d)
        BY <1>1, <1>5, <4>1, InvLoads DEF PlainAreLoaded, Supposed
      <4>3. d.tree \in P /\ d.tree \in Meanings(file)
        BY <4>1, DumpMeans DEF Supposed
      <4> QED
        BY <4>2, <4>3 DEF LoadedAs
    <3>2. CASE PlainText(file) /\ TextRead
      <4>1. PICK t \in Sources : Last(stack) = <<"proto", t>>
        BY <1>5, <3>2 DEF TextRead
      <4>2. t \in P /\ t \in Meanings(file)
        BY <3>2, TextMeans DEF Supposed
      <4> QED
        BY <4>1, <4>2
    <3> QED
      BY <2>1, <3>1, <3>2
  <2>3. x = <<"function", t>>
    BY <1>5, <2>2
  <2>4. stack'[1] = <<"function", t>>
    BY <1>3, <2>3
  <2>5. Meant(t)'
    BY <1>1, <2>1, <2>2 DEF Meant
  <2> QED
    BY <2>4, <2>5 DEF Loaded
<1>6. Directory'
  BY <1>1, DirectoryStays DEF ToolInv
<1>7. Loaded(P)'
  BY <1>1, <1>4, <1>5
<1> QED
  BY <1>1, <1>6, <1>7 DEF ToolInv

LEMMA ToolCheck ==
  ASSUME NEW P, Supposed(P), ToolInv(P), CheckFunction
  PROVE  ToolInv(P)'
<1>1. step = "check" /\ UNCHANGED <<given, files, todo, cur, out>>
  BY DEF CheckFunction, toolVars
<1>0. Directory' /\ Loaded(P)
  BY <1>1, DirectoryStays DEF ToolInv
<1>2. CASE stack[1][1] # "function"
  <2>1. step' = "panic"
    BY <1>2 DEF CheckFunction
  <2> QED
    BY <1>0, <2>1 DEF ToolInv
<1>3. CASE stack[1][1] = "function"
  <2>1. root' = stack[1][2] /\ writing' = "header" /\ sb' = <<>> /\ step' = "dump"
    BY <1>3 DEF CheckFunction
  <2>2. stack[1] # Err
    BY <1>3 DEF Err
  <2>3. PICK t \in P : stack[1] = <<"function", t>> /\ Meant(t)
    BY <1>0, <2>2 DEF Loaded
  <2>4. root' = t
    BY <2>1, <2>3
  <2>5. Written(P)'
    BY <2>1, <2>4 DEF Written
  <2>6. Meant(root)'
    BY <1>1, <2>3, <2>4 DEF Meant
  <2> QED
    BY <1>0, <2>1, <2>5, <2>6 DEF ToolInv
<1> QED
  BY <1>2, <1>3

LEMMA ToolWrite ==
  ASSUME NEW P, Supposed(P), ToolInv(P), Write
  PROVE  ToolInv(P)'
<1>1. /\ step = "dump" /\ step' = step /\ WriteNext
      /\ UNCHANGED <<given, files, todo, cur, out>>
  BY DEF Write, toolVars
<1>2. Written(P) /\ Meant(root) /\ Family(P)
  BY <1>1 DEF ToolInv, Supposed
<1>3. Written(P)' /\ root' = root
  BY <1>1, <1>2, WriteStep
<1>4. Meant(root)'
  BY <1>1, <1>2, <1>3 DEF Meant
<1>5. Directory'
  BY <1>1, DirectoryStays DEF ToolInv
<1> QED
  BY <1>1, <1>3, <1>4, <1>5 DEF ToolInv

LEMMA ToolSave ==
  ASSUME NEW P, Supposed(P), ToolInv(P), Save
  PROVE  ToolInv(P)'
<1> DEFINE e == OutName[cur]
           put(f) == [x \in DOMAIN f \cup {e} |-> IF x = e THEN sb ELSE f[x]]
<1>1. /\ step = "dump" /\ writing = "done" /\ step' = "next" /\ given' = given
      /\ out' = put(out) /\ files' = (IF given.here THEN put(files) ELSE files)
      /\ todo' \in {todo} \cup (IF given.here THEN {todo \cup {e}} ELSE {})
  BY DEF Save
<1>2. ReadsBack(sb, root) /\ Foreign(sb) /\ Meant(root)
  BY <1>1 DEF ToolInv, Written
<1>3. Decodes(e, sb)
  BY <1>2 DEF Decodes, Meant
<1>4. Directory
  BY DEF ToolInv
<1>5. ASSUME NEW f
      PROVE  /\ DOMAIN put(f) = DOMAIN f \cup {e}
             /\ \A x \in DOMAIN put(f) : x # e => put(f)[x] = f[x]
             /\ put(f)[e] = sb
  OBVIOUS
<1> HIDE DEF put, e
<1>6. ASSUME NEW o \in DOMAIN out' PROVE Decodes(o, out[o])'
  <2>1. Decodes(o, out'[o])
    <3>1. CASE o = e
      BY <1>1, <1>3, <1>5, <3>1
    <3>2. CASE o # e
      <4>1. out' = put(out)
        BY <1>1
      <4>2. DOMAIN out' = DOMAIN out \cup {e} /\ (o # e => out'[o] = out[o])
        BY <1>5, <4>1
      <4> QED
        BY <1>4, <3>2, <4>2 DEF Directory
    <3> QED
      BY <3>1, <3>2
  <2> QED
    BY <1>1, <2>1 DEF Decodes
<1>7. todo' \subseteq DOMAIN files'
  <2>1. CASE given.here
    <3>1. DOMAIN files' = DOMAIN files \cup {e} /\ todo' \subseteq todo \cup {e}
      BY <1>1, <1>5, <2>1
    <3> QED
      BY <1>4, <3>1 DEF Directory
  <2>2. CASE ~given.here
    <3>1. files' = files /\ todo' = todo
      BY <1>1, <2>2
    <3> QED
      BY <1>4, <3>1 DEF Directory
  <2> QED
    BY <2>1, <2>2
<1>8. ASSUME NEW x \in DOMAIN files'
      PROVE  (x \in DOMAIN given.files /\ files'[x] = given.files[x]) \/ Foreign(files'[x])
  <2>1. CASE files' = put(files)
    <3>1. CASE x = e
      BY <1>2, <1>5, <2>1, <3>1
    <3>2. CASE x # e
      <4>1. DOMAIN files' = DOMAIN files \cup {e} /\ (x # e => files'[x] = files[x])
        BY <1>5, <2>1
      <4> QED
        BY <1>4, <3>2, <4>1 DEF Directory, FilesStay
    <3> QED
      BY <3>1, <3>2
  <2>2. CASE files' = files
    BY <1>4, <2>2 DEF Directory, FilesStay
  <2> QED
    BY <1>1, <2>1, <2>2
<1>9. FilesStay'
  BY <1>1, <1>8 DEF FilesStay, Foreign
<1>10. Directory'
  BY <1>1, <1>4, <1>6, <1>7, <1>9 DEF Directory
<1> QED
  BY <1>1, <1>10 DEF ToolInv

LEMMA ToolNext ==
  ASSUME NEW P, Supposed(P), Inv, ToolInv(P), [Next]_vars
  PROVE  ToolInv(P)'
<1>1. CASE Exit
  <2>1. step' = "done" /\ UNCHANGED <<given, files, todo, cur, out>>
    BY <1>1 DEF Exit, toolVars
  <2>2. Directory'
    BY <2>1, DirectoryStays DEF ToolInv
  <2> QED
    BY <2>1, <2>2 DEF ToolInv
<1>2. CASE UNCHANGED vars
  <2>1. /\ UNCHANGED <<given, files, todo, cur, out, step, root, frames, sb, writing, stack, file,
                       at, oldtop, p>>
    BY <1>2 DEF vars, readVars, writeVars, toolVars, window
  <2>2. Directory'
    BY <2>1, DirectoryStays DEF ToolInv
  <2>3. (Loading' <=> Loading) /\ (Loaded(P)' <=> Loaded(P)) /\ (Meant(root)' <=> Meant(root))
    BY <2>1 DEF Loading, TextRead, ForeignRead, Loaded, Meant
  <2>4. Written(P)' <=> Written(P)
    BY <2>1 DEF Written, WrittenSoFar
  <2> QED
    BY <2>1, <2>2, <2>3, <2>4 DEF ToolInv
<1> QED
  BY <1>1, <1>2, ToolOpen, ToolRead, ToolReturn, ToolCheck, ToolWrite, ToolSave DEF Next, Stay

LEMMA ToolReadsBack ==
  ASSUME NEW P, ToolInv(P)
  PROVE  OutputsReadBack
<1> SUFFICES ASSUME NEW o \in DOMAIN out
             PROVE  \E r \in {StockRead(out[o])} :
                      r.ok /\ \E name \in DOMAIN given.files :
                                OutName[name] = o /\ r.v \in Meanings(given.files[name])
  BY DEF OutputsReadBack
<1>1. PICK v : /\ ReadsBack(out[o], v)
               /\ \E name \in DOMAIN given.files :
                    OutName[name] = o /\ v \in Meanings(given.files[name])
  BY DEF ToolInv, Directory, Decodes
<1> DEFINE r == StockRead(out[o])
<1>2. r = [ok |-> TRUE, v |-> v]
  BY <1>1 DEF ReadsBack
<1> HIDE DEF r
<1>3. r.ok /\ r.v = v
  BY <1>2
<1>4. r \in {StockRead(out[o])}
  BY DEF r
<1> QED
  BY <1>1, <1>3, <1>4

\* Unmodified LuaJIT reads from every output what an input of that name stands
\* for (bcdec.cpp, ByteCodeDec.cpp, lj_bcread_mod and lj_bcwrite).  P are the
\* prototypes in question, with their children.  The files of the directories
\* are dumps as they were made, texts, files of another kind, and files that
\* cannot be opened; outputs may overwrite them.
THEOREM EveryOutputReadsBack ==
  ASSUME NEW P, Family(P), Sources \subseteq P,
         \A d \in Dumps : ~Has(d.flags, F_BE) /\ d.tree \in P,
         \A g \in Directories : \A x \in DOMAIN g.files : Whole(g.files[x])
  PROVE  Spec => []OutputsReadBack
<1> DEFINE IInv == Inv /\ ToolInv(P)
<1>1. Supposed(P)
  BY DEF Supposed
<1>2. Init => IInv
  BY <1>1, InvInit, ToolInit
<1>3. IInv /\ [Next]_vars => IInv'
  BY <1>1, InvNext, ToolNext
<1>4. IInv => OutputsReadBack
  BY ToolReadsBack
<1> QED
  BY <1>2, <1>3, <1>4, PTL DEF Spec

-----------------------------------------------------------------------------
(* Types.                                                                  *)

Opened(f) == f \in Seq(Byte) \cup {Missing}

\* The inductive invariant, part by part: the window lies in the file, the
\* stack was entered at its bottom, the writer began with the root.
WindowTyped ==
  /\ Opened(file) /\ chunk \in Chunks
  /\ p \in Nat /\ pe \in 0..Len(file) /\ c \in {-1, 0}
StackTyped == oldtop \in {0, 1} /\ Len(stack) \in Nat
WriterTyped == (frames # <<>> => root = frames[1].pt) /\ sb \in Seq(Byte)
FilesTyped ==
  /\ DOMAIN given.files \subseteq DOMAIN files /\ cur \in DOMAIN files
  /\ todo \subseteq DOMAIN files
  /\ \A x \in DOMAIN files : Opened(files[x])
Typed ==
  /\ WindowTyped /\ StackTyped /\ WriterTyped /\ FilesTyped
  /\ step \in {"next", "load", "check", "dump", "done", "panic"}

LEMMA FileLength ==
  ASSUME NEW f, Opened(f)
  PROVE  Len(f) \in Nat
<1>1. Len(Missing) = 1
  BY DEF Missing
<1> QED
  BY <1>1 DEF Opened

LEMMA TypedIs == Typed => TypeOK
<1> SUFFICES ASSUME Typed PROVE TypeOK
  OBVIOUS
<1>1. oldtop <= Len(stack) + 1
  BY DEF Typed, StackTyped
<1> QED
  BY <1>1 DEF TypeOK, Typed, WindowTyped, WriterTyped, FilesTyped, Opened

LEMMA TypedInit ==
  ASSUME Init, \A g \in Directories : \A x \in DOMAIN g.files : Opened(g.files[x])
  PROVE  Typed
<1>1. /\ file = <<>> /\ p = 0 /\ pe = 0 /\ c = 0 /\ oldtop = 0 /\ stack = <<>>
      /\ frames = <<>> /\ sb = <<>> /\ chunk \in Chunks /\ step = "next"
      /\ given \in Directories /\ files = given.files /\ cur \in DOMAIN files
      /\ todo = DOMAIN files
  BY DEF Init, ReadInit
<1>2. WindowTyped
  BY <1>1 DEF WindowTyped, Opened
<1>3. StackTyped /\ WriterTyped /\ FilesTyped
  BY <1>1 DEF StackTyped, WriterTyped, FilesTyped
<1> QED
  BY <1>1, <1>2, <1>3 DEF Typed

LEMMA TypedOpen ==
  ASSUME Inv, Typed, Open
  PROVE  Typed'
<1>1. /\ step = "next" /\ stack = <<>> /\ UNCHANGED <<root, frames, sb, given, files>>
  BY DEF Open, Inv, writeVars
<1>2. PICK name \in todo :
        /\ cur' = name /\ todo' = todo \ {name} /\ Start(files[name])
        /\ stack' = Append(stack, IF files[name] = Missing THEN Err ELSE ChunkName)
        /\ step' = IF files[name] = Missing THEN "check" ELSE "load"
  BY DEF Open
<1>3. name \in DOMAIN files /\ Opened(files[name])
  BY DEF Typed, FilesTyped
<1>4. file' = files[name] /\ p' = 0 /\ pe' = 0 /\ c' = 0 /\ UNCHANGED <<chunk, oldtop>>
  BY <1>2 DEF Start
<1>5. WindowTyped'
  <2>1. Opened(file') /\ Len(file') \in Nat
    BY <1>3, <1>4, FileLength
  <2>2. chunk' \in Chunks
    BY <1>4 DEF Typed, WindowTyped
  <2> QED
    BY <1>4, <2>1, <2>2 DEF WindowTyped, Opened
<1>6. StackTyped'
  <2> DEFINE x == IF files[name] = Missing THEN Err ELSE ChunkName
  <2>1. stack' = Append(<<>>, x)
    BY <1>1, <1>2
  <2> HIDE DEF x
  <2>2. Len(stack') = 1
    BY <2>1
  <2> QED
    BY <1>4, <2>2 DEF Typed, StackTyped
<1>7. WriterTyped'
  BY <1>1 DEF Typed, WriterTyped
<1>8. FilesTyped'
  BY <1>1, <1>2, <1>3 DEF Typed, FilesTyped, Opened
<1> QED
  BY <1>2, <1>5, <1>6, <1>7, <1>8 DEF Typed

\* What a request for more than there may be does to the window.
LEMMA RequestTyped ==
  ASSUME WindowTyped, NEW len \in Nat, NEW next, Request(len, FALSE, 0, next)
  PROVE  p' \in Nat /\ pe' \in 0..Len(file) /\ c' \in {-1, 0}
<1>1. /\ chunk \in Chunks /\ p \in Nat /\ pe \in 0..Len(file) /\ c \in {-1, 0}
      /\ Len(file) \in Nat
  BY FileLength DEF WindowTyped
<1> DEFINE k == p + len
<1>2. k \in Nat
  BY <1>1
<1>3. Delivered(k) \in 0..Len(file)
  BY <1>1, <1>2, DeliveredFits
<1>4. p' \in {p, p + 0} /\ pe' \in {pe, Delivered(k)} /\ c' \in {c, -1}
  BY Zenon DEF Request, window
<1> HIDE DEF k
<1> QED
  BY <1>1, <1>3, <1>4

LEMMA SetupTyped ==
  ASSUME WindowTyped, Setup
  PROVE  p' \in Nat /\ pe' \in 0..Len(file) /\ c' \in {-1, 0}
<1>1. chunk \in Chunks /\ Len(file) \in Nat
  BY FileLength DEF WindowTyped
<1>2. Delivered(1) \in 0..Len(file)
  BY <1>1, DeliveredFits
<1>3. pe' = Delivered(1) /\ p' \in {0, 1} /\ c' \in {-1, 0}
  BY Zenon DEF Setup
<1> QED
  BY <1>2, <1>3

\* Of the reader of a dump, the invariant of the reading says almost all of it.
LEMMA ReadingTyped ==
  ASSUME NEW d, Reading(d)'
  PROVE  Len(stack') \in Nat /\ p' \in Nat /\ pe' \in 0..Len(file')
<1>1. Window'
  BY DEF Reading
<1>2. p' \in Nat /\ pe' \in 0..Len(file')
  BY <1>1 DEF Window
<1>3. Len(stack') \in Nat
  <2>1. ASSUME NEW k, NEW r, OnStack(d, k, r)' PROVE Len(stack') \in Nat
    BY <2>1 DEF OnStack
  <2>2. CASE AtHeader(d)'
    <3>1. CASE stack' = <<ChunkName>>
      <4>1. Len(<<ChunkName>>) = 1
        OBVIOUS
      <4> QED
        BY <3>1, <4>1
    <3>2. CASE AllOnStack(d, 0)'
      BY <2>1, <3>2 DEF AllOnStack
    <3> QED
      BY <2>2, <3>1, <3>2, Zenon DEF AtHeader
  <2>3. CASE \E k \in 0..Len(d.protos) : Between(d, k)'
    BY <2>1, <2>3, Zenon DEF Between, AllOnStack
  <2>4. CASE \E k \in 1..Len(d.protos) : \E j \in 0..Len(d.protos[k].kgc) : Within(d, k, j)'
    BY <2>1, <2>4, Zenon DEF Within
  <2>5. CASE AllOnStack(d, Len(d.protos))'
    BY <2>1, <2>5 DEF AllOnStack
  <2> QED
    BY <2>2, <2>3, <2>4, <2>5, Zenon DEF Reading
<1> QED
  BY <1>2, <1>3

\* Whatever is read, it is the only thing on the stack at first.
LEMMA FirstOnStack ==
  ASSUME NEW P, Inv, ToolInv(P), step = "load", at = "setup"
  PROVE  Len(stack) = 1
<1>1. stack = <<ChunkName>>
  <2>1. CASE IsDump(file)
    <3>1. PICK d \in Dumps : Reading(d)
      BY <2>1 DEF Inv, IsDump
    <3>2. AtHeader(d)
      BY <3>1, Zenon DEF Reading, Between, Within
    <3> QED
      BY <3>2, Zenon DEF AtHeader
  <2> QED
    BY <2>1 DEF ToolInv, Loading, TextRead, ForeignRead
<1>2. Len(<<ChunkName>>) = 1
  OBVIOUS
<1> QED
  BY <1>1, <1>2

\* The window and the stack after a step in a text or a file of another kind.
LEMMA OtherTyped ==
  ASSUME WindowTyped, StackTyped, ReadNext,
         (PlainText(file) /\ TextRead) \/ (Foreign(file) /\ ForeignRead)
  PROVE  p' \in Nat /\ pe' \in 0..Len(file) /\ Len(stack') \in Nat
<1>1. p \in Nat /\ pe \in 0..Len(file) /\ Len(stack) \in Nat
  BY DEF WindowTyped, StackTyped
<1>2. CASE at = "setup"
  <2>1. Setup
    BY <1>2 DEF ReadNext, ParseText, EndMark, WantLength, ReadLength, NeedProto, ReadProto,
              ReadNumbers, ReadConstant, ReadCdata, PushProto, Finish, WantHeader,
              ReadHeader, SkipName
  <2>2. stack' = stack
    BY <2>1 DEF Setup
  <2> QED
    BY <1>1, <2>1, <2>2, SetupTyped
<1>3. CASE at = "text"
  <2>1. ParseText /\ TextRead
    BY <1>3 DEF ReadNext, Setup, EndMark, WantLength, ReadLength, NeedProto, ReadProto,
              ReadNumbers, ReadConstant, ReadCdata, PushProto, Finish, WantHeader,
              ReadHeader, SkipName, ForeignRead
  <2>2. UNCHANGED <<p, pe>> /\ (stack' = stack \/ \E t : stack' = Append(stack, <<"proto", t>>))
    BY <2>1 DEF ParseText, window
  <2>3. ASSUME NEW x PROVE Len(Append(<<ChunkName>>, x)) = 2
    OBVIOUS
  <2>4. stack = <<ChunkName>>
    BY <1>3, <2>1 DEF TextRead
  <2> QED
    BY <1>1, <2>2, <2>3, <2>4
<1>4. CASE at = "want header"
  <2>1. WantHeader
    BY <1>4, Zenon DEF ReadNext, Setup, ParseText, EndMark, WantLength, ReadLength, NeedProto,
              ReadProto, ReadNumbers, ReadConstant, ReadCdata, PushProto, Finish,
              ReadHeader, SkipName
  <2>2. stack' = stack /\ Request(HeaderWant, FALSE, 0, "header")
    BY <2>1 DEF WantHeader
  <2>3. HeaderWant \in Nat
    BY NumberAssumption DEF HeaderWant
  <2> QED
    BY <1>1, <2>2, <2>3, RequestTyped
<1>5. CASE at = "header"
  <2>1. ReadHeader /\ Foreign(file) /\ p = 1
    BY <1>5 DEF ReadNext, Setup, ParseText, EndMark, WantLength, ReadLength, NeedProto,
              ReadProto, ReadNumbers, ReadConstant, ReadCdata, PushProto, Finish, WantHeader,
              SkipName, TextRead, ForeignRead
  <2>2. Block(file, p, 3).v # Tail(Magic)
    BY <2>1 DEF Foreign
  <2>3. UNCHANGED <<p, pe, stack>>
    BY <2>1, <2>2 DEF ReadHeader
  <2> QED
    BY <1>1, <2>3
<1>6. CASE at \in {"loaded", "refused"}
  BY <1>6, Zenon DEF ReadNext, Setup, ParseText, EndMark, WantLength, ReadLength, NeedProto,
              ReadProto, ReadNumbers, ReadConstant, ReadCdata, PushProto, Finish, WantHeader,
              ReadHeader, SkipName
<1> QED
  BY <1>2, <1>3, <1>4, <1>5, <1>6 DEF TextRead, ForeignRead

LEMMA TypedRead ==
  ASSUME NEW P, Supposed(P), Inv, ToolInv(P), Typed, Read
  PROVE  Typed'
<1>1. /\ step = "load" /\ step' = step /\ ReadNext /\ Loading
      /\ UNCHANGED <<given, files, todo, cur, root, frames, sb>>
  BY DEF Read, ToolInv, toolVars, writeVars
<1>2. UNCHANGED <<file, chunk>>
  BY <1>1, Zenon DEF ReadNext, ParseText, EndMark, WantLength, ReadLength, NeedProto, ReadProto,
              ReadNumbers, ReadConstant, ReadCdata, PushProto, Finish, Setup, WantHeader,
              ReadHeader, SkipName
<1>3. WindowTyped /\ StackTyped
  BY DEF Typed
<1>4. p' \in Nat /\ pe' \in 0..Len(file) /\ Len(stack') \in Nat
  <2>1. CASE IsDump(file)
    <3>1. PICK d \in Dumps : file = d.bytes
      BY <2>1 DEF IsDump
    <3>2. Reading(d)'
      BY <1>1, <1>2, <3>1, ReadStep DEF Inv
    <3> QED
      BY <1>2, <3>2, ReadingTyped
  <2>2. CASE (PlainText(file) /\ TextRead) \/ (Foreign(file) /\ ForeignRead)
    BY <1>1, <1>3, <2>2, OtherTyped
  <2> QED
    BY <1>1, <2>1, <2>2 DEF Loading
<1>5. c' \in {c, -1, 0} /\ oldtop' \in {oldtop, 1}
  <2>1. CASE Setup
    <3>1. c' \in {-1, 0} /\ oldtop' = Len(stack) /\ at = "setup"
      BY <2>1, Zenon DEF Setup
    <3>2. Len(stack) = 1
      BY <1>1, <3>1, FirstOnStack
    <3> QED
      BY <3>1, <3>2
  <2>2. CASE ~Setup
    BY <1>1, <2>2, Zenon DEF ReadNext, ParseText, EndMark, WantLength, ReadLength, NeedProto,
              ReadProto, ReadNumbers, ReadConstant, ReadCdata, PushProto, Finish, WantHeader,
              ReadHeader, SkipName, Request, window
  <2> QED
    BY <2>1, <2>2
<1>6. WindowTyped' /\ StackTyped'
  BY <1>2, <1>3, <1>4, <1>5 DEF WindowTyped, StackTyped, Opened
<1>7. WriterTyped'
  BY <1>1 DEF Typed, WriterTyped
<1>8. FilesTyped'
  BY <1>1 DEF Typed, FilesTyped, Opened
<1> QED
  BY <1>1, <1>6, <1>7, <1>8 DEF Typed

LEMMA TypedReturn ==
  ASSUME NEW P, Supposed(P), Inv, ToolInv(P), Typed, Return
  PROVE  Typed'
<1>1. PICK x : /\ step = "load" /\ at \in {"loaded", "refused"} /\ step' = "check" /\ Loading
               /\ stack' = Append(SubSeq(stack, 1, oldtop - 1), x)
               /\ UNCHANGED <<file, chunk, p, pe, c, oldtop, given, files, todo, cur, root, frames, sb>>
  BY DEF Return, ToolInv, toolVars, writeVars, window, BelowName
<1>2. oldtop = 1
  <2>1. CASE IsDump(file)
    BY <1>1, <2>1 DEF Inv, IsDump, Reading
  <2>2. CASE TextRead \/ ForeignRead
    BY <1>1, <2>2, Zenon DEF TextRead, ForeignRead
  <2> QED
    BY <1>1, <2>1, <2>2 DEF Loading
<1>3. Len(stack') = 1
  <2>1. SubSeq(stack, 1, 0) = <<>> /\ oldtop - 1 = 0
    BY <1>2
  <2>2. stack' = Append(<<>>, x)
    BY <1>1, <2>1
  <2> QED
    BY <2>2
<1>4. StackTyped' /\ WindowTyped'
  BY <1>1, <1>2, <1>3 DEF Typed, WindowTyped, StackTyped, Opened
<1>5. WriterTyped' /\ FilesTyped'
  BY <1>1 DEF Typed, WriterTyped, FilesTyped, Opened
<1> QED
  BY <1>1, <1>4, <1>5 DEF Typed

LEMMA TypedCheck ==
  ASSUME Typed, CheckFunction
  PROVE  Typed'
<1>1. /\ UNCHANGED <<file, chunk, p, pe, c, oldtop, given, files, todo, cur>>
      /\ \/ /\ stack' = SubSeq(stack, 1, 1) /\ frames' = <<>> /\ sb' = <<>> /\ step' = "dump"
         \/ UNCHANGED <<stack, root, frames, sb>> /\ step' = "panic"
  BY DEF CheckFunction, toolVars, writeVars, window
<1>2. Len(SubSeq(stack, 1, 1)) = 1
  <2>1. \A i \in 1..1 : stack[i] \in {stack[1]}
    OBVIOUS
  <2> QED
    BY <2>1, SubSeqProperties
<1>3. StackTyped' /\ WriterTyped'
  <2>1. <<>> \in Seq(Byte)
    OBVIOUS
  <2>2. CASE UNCHANGED <<stack, root, frames, sb>>
    BY <1>1, <2>2 DEF Typed, StackTyped, WriterTyped
  <2>3. CASE stack' = SubSeq(stack, 1, 1) /\ frames' = <<>> /\ sb' = <<>>
    <3>1. Len(stack') = 1 /\ oldtop' \in {0, 1}
      BY <1>1, <1>2, <2>3 DEF Typed, StackTyped
    <3>2. StackTyped'
      BY <3>1 DEF StackTyped
    <3>3. WriterTyped'
      BY <2>1, <2>3, Zenon DEF WriterTyped
    <3> QED
      BY <3>2, <3>3
  <2> QED
    BY <1>1, <2>2, <2>3
<1>4. WindowTyped' /\ FilesTyped'
  BY <1>1 DEF Typed, WindowTyped, FilesTyped, Opened
<1> QED
  BY <1>1, <1>3, <1>4 DEF Typed

LEMMA TypedWrite ==
  ASSUME NEW P, Supposed(P), ToolInv(P), Typed, Write
  PROVE  Typed'
<1>1. /\ step = "dump" /\ step' = step /\ WriteNext /\ Written(P) /\ Family(P)
      /\ UNCHANGED <<file, chunk, p, pe, c, stack, oldtop, given, files, todo, cur>>
  BY DEF Write, ToolInv, Supposed, toolVars, readVars, window
<1>2. WriterTyped'
  <2>1. CASE WriteFooter
    <3>1. frames' = <<>> /\ sb' = Append(sb, 0) /\ sb \in Seq(Byte)
      BY <2>1 DEF WriteFooter, Typed, WriterTyped
    <3>2. 0 \in Byte
      BY HalfFacts DEF Byte
    <3> QED
      BY <3>1, <3>2 DEF WriterTyped
  <2>2. CASE ~WriteFooter
    <3>1. writing' = "protos"
      BY <1>1, <2>2 DEF WriteNext, WriteHeader, VisitConstant, WriteProto
    <3>2. Written(P)'
      BY <1>1, WriteStep
    <3>3. PICK st : Led(sb', st) /\ Pending(P, frames', st, root')
      BY <3>1, <3>2, Zenon DEF Written, WrittenSoFar
    <3> QED
      BY <3>3 DEF WriterTyped, Led, HasHeader, Pending
  <2> QED
    BY <2>1, <2>2
<1>3. WindowTyped' /\ StackTyped' /\ FilesTyped'
  BY <1>1 DEF Typed, WindowTyped, StackTyped, FilesTyped, Opened
<1> QED
  BY <1>1, <1>2, <1>3 DEF Typed

LEMMA TypedSave ==
  ASSUME Typed, Save
  PROVE  Typed'
<1> DEFINE e == OutName[cur]
           put(f) == [x \in DOMAIN f \cup {e} |-> IF x = e THEN sb ELSE f[x]]
<1>1. /\ step' = "next" /\ stack' = <<>>
      /\ files' = (IF given.here THEN put(files) ELSE files)
      /\ todo' \in {todo} \cup (IF given.here THEN {todo \cup {e}} ELSE {})
      /\ UNCHANGED <<file, chunk, p, pe, c, oldtop, given, cur, root, frames, sb>>
  BY DEF Save, Settop, writeVars, window
<1>2. WindowTyped' /\ StackTyped' /\ WriterTyped'
  BY <1>1 DEF Typed, WindowTyped, StackTyped, WriterTyped, Opened
<1>3. FilesTyped /\ Opened(sb)
  BY DEF Typed, WriterTyped, Opened
<1>4. CASE given.here
  <2>1. /\ DOMAIN files' = DOMAIN files \cup {e} /\ todo' \subseteq todo \cup {e}
        /\ \A x \in DOMAIN files' : files'[x] = IF x = e THEN sb ELSE files[x]
    BY <1>1, <1>4
  <2> HIDE DEF e
  <2>2. \A x \in DOMAIN files' : Opened(files'[x])
    BY <1>3, <2>1, Zenon DEF FilesTyped
  <2>3. FilesTyped'
    BY <1>1, <1>3, <2>1, <2>2 DEF FilesTyped, Opened
  <2> QED
    BY <1>1, <1>2, <2>3 DEF Typed
<1>5. CASE ~given.here
  <2>1. FilesTyped'
    BY <1>1, <1>3, <1>5 DEF FilesTyped, Opened
  <2> QED
    BY <1>1, <1>2, <2>1 DEF Typed
<1> QED
  BY <1>4, <1>5

LEMMA TypedNext ==
  ASSUME NEW P, Supposed(P), Inv, ToolInv(P), Typed, [Next]_vars
  PROVE  Typed'
<1>1. CASE Exit
  <2>1. /\ step' = "done"
        /\ UNCHANGED <<file, chunk, p, pe, c, stack, oldtop, given, files, todo, cur, root,
                       frames, sb>>
    BY <1>1 DEF Exit, toolVars, readVars, writeVars, window
  <2> QED
    BY <2>1 DEF Typed, WindowTyped, StackTyped, WriterTyped, FilesTyped, Opened
<1>2. CASE UNCHANGED vars
  BY <1>2 DEF vars, toolVars, readVars, writeVars, window, Typed, WindowTyped, StackTyped,
              WriterTyped, FilesTyped, Opened
<1> QED
  BY <1>1, <1>2, TypedOpen, TypedRead, TypedReturn, TypedCheck, TypedWrite, TypedSave
  DEF Next, Stay

\* In the same directories, if their files consist of bytes, the window lies in
\* the file that is read, the writer works on the prototype that was loaded, and
\* every name there is to open is one of a file (ByteCodeDec.cpp, lj_load.c,
\* lj_lex_setup_mod, lj_bcread_mod and lj_bcwrite).
THEOREM TypeCorrect ==
  ASSUME NEW P, Family(P), Sources \subseteq P,
         \A d \in Dumps : ~Has(d.flags, F_BE) /\ d.tree \in P,
         \A g \in Directories : \A x \in DOMAIN g.files : Whole(g.files[x]),
         \A g \in Directories : \A x \in DOMAIN g.files : Opened(g.files[x])
  PROVE  Spec => []TypeOK
<1> DEFINE IInv == Inv /\ ToolInv(P) /\ Typed
<1>1. Supposed(P)
  BY DEF Supposed
<1>2. Init => IInv
  BY <1>1, InvInit, ToolInit, TypedInit
<1>3. IInv /\ [Next]_vars => IInv'
  BY <1>1, InvNext, ToolNext, TypedNext
<1>4. IInv => TypeOK
  BY TypedIs
<1> QED
  BY <1>2, <1>3, <1>4, PTL DEF Spec
=============================================================================
