------------------------------ MODULE BcFormat ------------------------------
(***************************************************************************)
(* The data of bytecode dumps (src/src/lj_bcdump.h): numbers of variable   *)
(* length (ULEB128), template tables, and their bytes.  The reader of      *)
(* mangled dumps (module BcRead) and the writer of plain ones (BcWrite)    *)
(* share them.                                                             *)
(*                                                                         *)
(* A byte sequence is read at an offset, and an item read is a record of   *)
(* its value v and the offset to that follows it.  Bytes beyond the        *)
(* sequence read as 0; who reads them is checked elsewhere.                *)
(*                                                                         *)
(* A constant is a tuple that begins with its kind: <<"str", bytes>>,      *)
(* <<"num", lo, hi>> for the two words of a double, <<"pri", k>> for nil,  *)
(* false and true, <<"child", prototype>>, and <<"tab", array, hash>>.     *)
(***************************************************************************)
EXTENDS Integers, Sequences, SequencesExt, FiniteSetsExt

CONSTANTS
  DigitBits,  \* the bits of a digit of a number (7)
  WordBits,   \* the bits of a word (32)
  UlebMax,    \* the digits of the longest number (5)
  IntHi       \* the high word of the doubles that are integers

Half == 2^DigitBits
Word == 2^WordBits

\* The last digit of a word has room for a bit more, and two or more bits of
\* the word are in it.
ASSUME NumberAssumption ==
  /\ DigitBits \in Nat /\ DigitBits >= 3 /\ WordBits \in Nat /\ UlebMax \in 2..8
  /\ DigitBits * (UlebMax - 1) + 2 <= WordBits /\ WordBits < DigitBits * UlebMax
  /\ IntHi \in 0..(Word - 1)

Byte == 0..(2 * Half - 1)

At(s, i) == IF i < Len(s) THEN s[i + 1] ELSE 0
ByteOf(s, i) == [v |-> At(s, i), to |-> i + 1]
Block(s, i, n) == [v |-> [k \in 1..n |-> At(s, i + k - 1)], to |-> i + n]

\* n items, one after the other; item[j] is the one at offset j.
List(item, i, n) ==
  LET to[k \in 0..n] == IF k = 0 THEN i ELSE item[to[k - 1]].to
  IN  [v |-> [k \in 1..n |-> item[to[k - 1]].v], to |-> to[n]]

-----------------------------------------------------------------------------
\* The digits of a number, the least first; all but the last have their top
\* bit set.
LastDigit(s, i) ==
  CHOOSE j \in i..(i + Len(s)) : At(s, j) < Half /\ \A k \in i..(j - 1) : At(s, k) >= Half

\* The number, with the one bit that a number constant has on top of a word.
Digits(s, i) ==
  LET m == LastDigit(s, i) + 1 - i
      above[k \in 0..m] ==
        IF k = 0 THEN 0 ELSE ((At(s, i + m - k) % Half) + Half * above[k - 1]) % (2 * Word)
  IN  above[m]

Uleb(s, i) == [v |-> Digits(s, i) % Word, to |-> LastDigit(s, i) + 1]
Uleb33(s, i) == [v |-> (Digits(s, i) \div 2) % Word, to |-> LastDigit(s, i) + 1]

\* The weight of a digit that has k others below it.
Unit(k) == 2^(DigitBits * k)

UlebBytes(n) ==
  LET last == Min({d \in 1..UlebMax : n < Unit(d)})
  IN  [k \in 1..last |-> ((n \div Unit(k - 1)) % Half) + (IF k < last THEN Half ELSE 0)]

\* A word and a lowest bit as one number of 33 bits.  It is written as the 32
\* bits that fit, and its last digit is put right afterwards.
Top == Word \div 2
Low == Word \div (2 * Unit(UlebMax - 1))
PatchedDigit(d, n) == (d % Low) + Low * (n \div (Word \div 4))

Uleb33Bytes(n, bit) ==
  LET shifted == (2 * n) % Word
      fits == UlebBytes(bit + (IF n >= Top /\ shifted < Top THEN shifted + Top ELSE shifted))
  IN  IF n < Top THEN fits
      ELSE [fits EXCEPT ![Len(fits)] = PatchedDigit(@, n)]

-----------------------------------------------------------------------------
\* Type codes of constants, and of the keys and values of template tables.
KGC_CHILD == 0
KGC_TAB == 1
KGC_STR == 5
KTAB_NIL == 0
KTAB_INT == 3
KTAB_NUM == 4
KTAB_STR == 5

Nil == <<"pri", KTAB_NIL>>
Number(lo, hi) == <<"num", lo, hi>>
IsInt(o) == o[1] = "num" /\ o[3] = IntHi

\* bcread_ktabk
KTabK(s, i) ==
  LET tp == Uleb(s, i)
      lo == Uleb(s, tp.to)
      hi == Uleb(s, lo.to)
      str == Block(s, tp.to, tp.v - KTAB_STR)
  IN  CASE tp.v >= KTAB_STR -> [v |-> <<"str", str.v>>, to |-> str.to]
        [] tp.v = KTAB_INT -> [v |-> Number(lo.v, IntHi), to |-> lo.to]
        [] tp.v = KTAB_NUM -> [v |-> Number(lo.v, hi.v), to |-> hi.to]
        [] tp.v < KTAB_INT -> [v |-> <<"pri", tp.v>>, to |-> tp.to]

\* What a table holds after keys and values were stored in turn (lj_tab_set).
Assigned(kv) ==
  LET at(k) == {j \in 1..(Len(kv) \div 2) : kv[2 * j - 1] = k}
  IN  [k \in {kv[2 * j - 1] : j \in 1..(Len(kv) \div 2)} |-> kv[2 * Max(at(k))]]

\* bcread_ktab, and the same code inside bcread_kgc_mod
KTab(s, i) ==
  LET narray == Uleb(s, i)
      nhash == Uleb(s, narray.to)
      table(kv) == [v |-> <<"tab", SubSeq(kv.v, 1, narray.v),
                            Assigned(SubSeq(kv.v, narray.v + 1, Len(kv.v)))>>,
                    to |-> kv.to]
  IN  table(List([j \in Nat |-> KTabK(s, j)], nhash.to, narray.v + 2 * nhash.v))

\* bcwrite_ktabk: integral values are narrowed, keys are not.
KTabKBytes(o, narrow) ==
  CASE o[1] = "str" -> UlebBytes(KTAB_STR + Len(o[2])) \o o[2]
    [] IsInt(o) /\ narrow -> UlebBytes(KTAB_INT) \o UlebBytes(o[2])
    [] o[1] = "num" /\ ~(IsInt(o) /\ narrow) ->
         UlebBytes(KTAB_NUM) \o UlebBytes(o[2]) \o UlebBytes(o[3])
    [] o[1] = "pri" -> UlebBytes(KTAB_NIL + o[2])

\* The keys that bcwrite_ktab writes, in any order, which is that of the nodes.
Orders(t) == SetToSeqs({k \in DOMAIN t[3] : t[3][k] # Nil})

\* bcwrite_ktab: the array without the nils at its end, and the hash part.
KTabBytes(t, keys) ==
  LET narray == Max({0} \cup {i \in 1..Len(t[2]) : t[2][i] # Nil})
  IN  UlebBytes(narray) \o UlebBytes(Len(keys))
        \o FlattenSeq([i \in 1..narray |-> KTabKBytes(t[2][i], TRUE)])
        \o FlattenSeq([i \in 1..Len(keys) |->
             KTabKBytes(keys[i], FALSE) \o KTabKBytes(t[3][keys[i]], TRUE)])

\* bcread_knum, bcread_knum_mod and bcwrite_knum
KNum(s, i) ==
  LET lo == Uleb33(s, i)
      hi == Uleb(s, lo.to)
  IN  IF At(s, i) % 2 = 1 THEN [v |-> Number(lo.v, hi.v), to |-> hi.to]
      ELSE [v |-> Number(lo.v, IntHi), to |-> lo.to]

KNumBytes(o) ==
  IF IsInt(o) THEN Uleb33Bytes(o[2], 0) ELSE Uleb33Bytes(o[2], 1) \o UlebBytes(o[3])
=============================================================================
