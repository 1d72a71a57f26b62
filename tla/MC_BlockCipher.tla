--------------------------- MODULE MC_BlockCipher ---------------------------
(* BlockCipher over every pair of 6-bit words, at two block offsets.      *)
EXTENDS BlockCipher, Bitwise

MCPlains == (0..63) \X (0..63)
MCXor(x, y) == x ^^ y
=============================================================================
