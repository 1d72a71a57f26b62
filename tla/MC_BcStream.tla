----------------------------- MODULE MC_BcStream -----------------------------
(* A dump of 6 bytes, chunks of 1 to 3 bytes, requests of 1 to 4 bytes and  *)
(* one of 9, which is longer than the largest buffer.                       *)
EXTENDS BcStream
=============================================================================
