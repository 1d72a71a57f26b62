--------------------------- MODULE MC_AssetDecoder ---------------------------
(* AssetDecoder with 7-bit words: files of 0 to 55 bytes, so that all four  *)
(* ciphers have their turn and the first comes round again, and every       *)
(* trailer.                                                                 *)
EXTENDS AssetDecoder

MCFileSizes == 0..55
MCTrailers  == 0..127
=============================================================================
