---------------------------- MODULE MC_LuaGC_debug ----------------------------
(* LuaGC_debug with two stack slots. *)
EXTENDS LuaGC_debug

MCDepth == [t \in Threads |-> 1]
=============================================================================
