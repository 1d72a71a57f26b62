----------------------------- MODULE BlockCipher -----------------------------
(***************************************************************************)
(* The four ciphers of DigitalSea_Scipio (src/AssetDecoder.cpp), one block *)
(* of two words at a time.  Each runs two rounds from the sum 2 * Delta    *)
(* down to zero.  The reference is the published encoder of each cipher,   *)
(* with two rounds: what it encrypts, the decoder must give back.          *)
(*                                                                         *)
(* Words have WordBits bits (32 in the code).  The sum keeps its real      *)
(* value, for the key index is taken from its high bits; it is reduced     *)
(* where it meets a word.  The names differ from those of AssetDecoder, of *)
(* whose blocks this module decodes one.                                   *)
(***************************************************************************)
EXTENDS Integers, Sequences

CONSTANTS
  WordBits,      \* the width of a word
  BitXor(_, _),  \* exclusive or, the operator ^ of C
  Plains,        \* the blocks encrypted: a set of pairs of words
  Offsets        \* the byte offsets of blocks, which cipher 2 mixes in

CipherWord == 0..(2^WordBits - 1)

ASSUME WidthAssumption == WordBits \in Nat \ {0}
ASSUME PlainAssumption == Plains \subseteq CipherWord \X CipherWord /\ Offsets \subseteq Nat
\* What the ciphers rely on: exclusive or makes words of words, undoes itself,
\* and with 1 leads to the neighbor of a number.
ASSUME XorAssumption ==
  /\ \A x, y \in CipherWord : BitXor(x, y) \in CipherWord /\ BitXor(BitXor(x, y), y) = x
  /\ \A e \in 0..3 : BitXor(1, e) = IF e % 2 = 0 THEN e + 1 ELSE e - 1

VARIABLES
  cipher,    \* v177: 0 XXTEA, 1 TEA, 2 XOR, 3 XTEA
  position,  \* v178
  word,      \* v184[4] and v184[5], the block in work
  sum,       \* v83, v77, v105
  plain      \* the block that was encrypted (history)

cipherVars == <<cipher, position, word, sum, plain>>

M == 2^WordBits
W(x) == x % M
Add(x, y) == W(x + y)
Sub(x, y) == W(x - y)
Shl(x, k) == W(x * 2^k)
Shr(x, k) == x \div 2^k

Delta == 117423365

\* key_bytes as little-endian words, reduced to the width of a word.
KeyWords ==
  <<494357436, 9879784, 6922892, 903531449, 6540994, 5925797, 345141550, 9625113, 746131,
    64968262, 5268418, 7508949, 6183843, 818130891, 18654838, 7884461, 4962562, 4846732, 92354900>>
Key(i) == W(KeyWords[i + 1])

-----------------------------------------------------------------------------
(* The mixing functions.                                                   *)

\* Of XXTEA: y and z are the neighbours of the word that changes.
Mix(z, y, s, k) ==
  BitXor(Add(BitXor(Shr(z, 5), Shl(y, 2)), BitXor(Shr(y, 3), Shl(z, 4))),
         Add(BitXor(W(s), y), BitXor(k, z)))

\* Of TEA, with a pair of key words.
Feistel(x, s, ka, kb) == BitXor(BitXor(Add(ka, Shl(x, 4)), Add(W(s), x)), Add(kb, Shr(x, 5)))

\* Of XTEA.
Schedule(x, s, k) == BitXor(Add(x, BitXor(Shl(x, 4), Shr(x, 5))), Add(W(s), k))

-----------------------------------------------------------------------------
(* The reference encoders, two rounds each.                                *)

XXTEAEncodeRound(b, s) ==
  LET e  == Shr(s, 2) % 4
      b0 == Add(b[1], Mix(b[2], b[2], s, Key(e)))
      b1 == Add(b[2], Mix(b0, b0, s, Key(IF e % 2 = 0 THEN e + 1 ELSE e - 1)))
  IN  <<b0, b1>>

TEAEncodeRound(b, s) ==
  LET b0 == Add(b[1], Feistel(b[2], s, Key(0), Key(1)))
      b1 == Add(b[2], Feistel(b0, s, Key(2), Key(3)))
  IN  <<b0, b1>>

XTEAEncodeRound(b, s) ==
  LET b0 == Add(b[1], Schedule(b[2], s - Delta, Key((s - Delta) % 4)))
      b1 == Add(b[2], Schedule(b0, s, Key(Shr(s, 11) % 4)))
  IN  <<b0, b1>>

XORBlock(b, o) == <<BitXor(b[1], BitXor(Key(13), W(o))), BitXor(b[2], BitXor(Key(2), W(o)))>>

Encrypt(m, o, b) ==
  CASE m = 0 -> XXTEAEncodeRound(XXTEAEncodeRound(b, Delta), 2 * Delta)
    [] m = 1 -> TEAEncodeRound(TEAEncodeRound(b, Delta), 2 * Delta)
    [] m = 2 -> XORBlock(b, o)
    [] m = 3 -> XTEAEncodeRound(XTEAEncodeRound(b, Delta), 2 * Delta)

-----------------------------------------------------------------------------
(* The decoder.                                                            *)

\* Faulty variants: words in the wrong order, the wrong half of the sum, a
\* key word of the wrong schedule.
XXTEAFirstWordFirst(b, s) ==
  LET e  == Shr(s, 2) % 4
      b0 == Sub(b[1], Mix(b[2], b[2], s, Key(e)))
      b1 == Sub(b[2], Mix(b0, b0, s, Key(BitXor(1, e))))
  IN  <<b0, b1>>
XTEASumNotLowered(b, s) ==
  LET b1 == Sub(b[2], Schedule(b[1], s, Key(Shr(s, 11) % 4)))
      b0 == Sub(b[1], Schedule(b1, s, Key((s - Delta) % 4)))
  IN  <<b0, b1>>

XXTEARound(b, s) ==
  LET e  == Shr(s, 2) % 4
      b1 == Sub(b[2], Mix(b[1], b[1], s, Key(BitXor(1, e))))
      b0 == Sub(b[1], Mix(b1, b1, s, Key(e)))
  IN  <<b0, b1>>

TEARound(b, s) ==
  LET b1 == Sub(b[2], Feistel(b[1], s, Key(2), Key(3)))
      b0 == Sub(b[1], Feistel(b1, s, Key(0), Key(1)))
  IN  <<b0, b1>>

XTEARound(b, s) ==
  LET b1 == Sub(b[2], Schedule(b[1], s, Key(Shr(s, 11) % 4)))
      b0 == Sub(b[1], Schedule(b1, s - Delta, Key(s \div Delta - 1)))
  IN  <<b0, b1>>

CipherInit ==
  /\ cipher \in 0..3
  /\ position \in Offsets
  /\ plain \in Plains
  /\ word = Encrypt(cipher, position, plain)
  /\ sum = 2 * Delta

XXTEA == cipher = 0 /\ word' = XXTEARound(word, sum) /\ sum' = sum - Delta
TEA   == cipher = 1 /\ word' = TEARound(word, sum) /\ sum' = sum - Delta
XOR   == cipher = 2 /\ word' = XORBlock(word, position) /\ sum' = 0
XTEA  == cipher = 3 /\ word' = XTEARound(word, sum) /\ sum' = sum - Delta

CipherNext ==
  /\ sum # 0
  /\ XXTEA \/ TEA \/ XOR \/ XTEA
  /\ UNCHANGED <<cipher, position, plain>>

CipherSpec == CipherInit /\ [][CipherNext]_cipherVars

-----------------------------------------------------------------------------
\* Each cipher of the decoder undoes the encoder of its name: after its
\* rounds the block is what was encrypted, so that no two encrypted blocks
\* decode to the same bytes.
Recovers == sum = 0 => word = plain
=============================================================================
