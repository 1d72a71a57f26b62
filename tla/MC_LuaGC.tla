------------------------------- MODULE MC_LuaGC -------------------------------
(* LuaGC on a handful of cells: the stack of the main thread has two slots, *)
(* and that of a coroutine one.                                             *)
EXTENDS LuaGC

MCDepth == [t \in Threads |-> IF t = Main THEN 1 ELSE 0]
=============================================================================
