------------------------------ MODULE MC_BcDec ------------------------------
(***************************************************************************)
(* BcDec with bytes of four bits and words of eight.  Four prototypes that *)
(* hold one another, in dumps with and without debug information; each    *)
(* whole, with a byte after it, and cut short after every byte; dumps      *)
(* with a child or a prototype too many; files whose reading fails before  *)
(* or at their end; and directories of two files.                          *)
(***************************************************************************)
EXTENDS BcDec, Bitwise

CONSTANTS n1, n2, o1, o2

MCMagic == <<8, 10, 14, 10>>
MCStockMagic == <<11, 12, 13, 2>>
MCOutName == [x \in {n1, n2, o1, o2} |-> IF x \in {n1, o1} THEN o1 ELSE o2]

Leaf(k, params) ==
  [flags |-> 0, numparams |-> params, framesize |-> 3, uv |-> <<>>,
   code |-> <<<<7, 1, 2, 3>>, <<2, 15, 0, 9>>>>, knum |-> k, kgc |-> <<>>]

L1 == Leaf(<<Number(5, IntHi), Number(64, IntHi), Number(128, IntHi), Number(255, IntHi)>>, 1)
L2 == Leaf(<<Number(127, 3), Number(192, 200)>>, 2)

\* A prototype with strings, a table and an upvalue.
Table ==
  <<"tab", <<Number(9, IntHi), <<"pri", 2>>, Nil, Number(1, 2)>>,
    (<<"str", <<4>>>> :> Number(200, IntHi)) @@ (Number(70, IntHi) :> <<"str", <<>>>>)>>
T1 == [flags |-> 6, numparams |-> 0, framesize |-> 9, uv |-> <<<<1, 12>>>>,
       code |-> <<>>, knum |-> <<>>, kgc |-> <<<<"str", <<1, 2, 3, 4>>>>, Table, <<"str", <<>>>>>>]

\* Children between other constants, and children of children.
Pair == [flags |-> 1, numparams |-> 0, framesize |-> 2, uv |-> <<<<0, 8>>>>,
         code |-> <<<<14, 0, 0, 0>>>>, knum |-> <<Number(0, IntHi)>>,
         kgc |-> <<<<"child", L1>>, <<"str", <<6>>>>, <<"child", L2>>>>]
Nested == [Pair EXCEPT !.kgc = <<<<"child", T1>>, <<"child", [Pair EXCEPT !.knum = <<>>]>>>>]

\* The prototypes of a dump: children come before their parent, the last
\* one first.
RECURSIVE PostOrder(_)
PostOrder(t) ==
  LET children == SelectSeq(Reverse(t.kgc), LAMBDA k : k[1] = "child")
  IN  Append(FlattenSeq([i \in DOMAIN children |-> PostOrder(children[i][2])]), t)

\* Those that have no parent among the first of them.
Orphans(ts) ==
  LET after[k \in 0..Len(ts)] ==
        IF k = 0 THEN <<>>
        ELSE LET before == after[k - 1]
                 adopted == Len(SelectSeq(ts[k].kgc, LAMBDA x : x[1] = "child"))
             IN  Append(SubSeq(before, 1, Len(before) - adopted), ts[k])
  IN  after

Dump(fl, t, dbg) ==
  LET d == [flags |-> fl, name |-> <<1, 2>>, dbg |-> dbg, tree |-> t,
            protos |-> PostOrder(t), orphans |-> Orphans(PostOrder(t))]
  IN  d @@ [bytes |-> Mangled(d)]
MCDumps ==
  {Dump(F_STRIP, t, 0) : t \in {L1, T1, Nested}}
    \cup {Dump(0, L2, 0), Dump(F_FFI, T1, 2), Dump(0, Pair, 3)}

\* Big-endian dumps.
SwappedDumps == {Dump(F_BE + F_STRIP, t, 0) : t \in {T1, L2}}

\* Exclusive or, of all pairs of bytes once.
XorTable == [a, b \in Byte |-> a ^^ b]
MCXor(a, b) == XorTable[a, b]

MCSources == {L2}

Small == Dump(F_STRIP, L1, 0).bytes
Other == Dump(0, L2, 0).bytes
Prefix == Magic \o <<F_STRIP>>
Text == <<1, 2, 3>>

\* A prototype too many, and a child for which there is no prototype.
Misfits ==
  {Prefix \o MangledProto(L1, F_STRIP, 0) \o MangledProto(L2, F_STRIP, 0) \o <<0>>,
   Prefix \o MangledProto(Pair, F_STRIP, 0) \o <<0>>,
   Prefix \o MangledProto(L2, F_STRIP, 0) \o MangledProto(Pair, F_STRIP, 0) \o <<0>>,
   Prefix \o <<0>>}

\* A constant of 64 bits.
Cdata == Prefix \o UlebBytes(10) \o <<Mask, 0, 0, 0, 0, 0, 1, 2, 1, 1>> \o <<0>>

CutShort(f) == {SubSeq(f, 1, k) : k \in 0..(Len(f) - 1)}
Singles ==
  UNION {{d.bytes} \cup {Append(d.bytes, b) : b \in {0, 1}} \cup CutShort(d.bytes) : d \in Dumps}
    \cup Misfits \cup {Cdata, Text, Missing, StockMagic \o <<2, 0>>}

MCDirectories ==
  {[files |-> n1 :> f, here |-> FALSE, failing |-> {}] : f \in Singles}
    \cup {[files |-> n1 :> f, here |-> FALSE, failing |-> {n1}] :
            f \in {Small, Text} \cup CutShort(Small)}
    \cup {[files |-> (x :> f) @@ (y :> g), here |-> h, failing |-> {}] :
            x \in {n1}, y \in {n2, o1}, h \in BOOLEAN,
            f \in {Small, Other}, g \in {Small, Other, Text, Missing}}
    \cup {[files |-> (n1 :> Small) @@ (y :> Other), here |-> h, failing |-> {y}] :
            y \in {n2, o1}, h \in BOOLEAN}
=============================================================================
