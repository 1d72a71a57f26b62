--------------------------- MODULE MC_LuaGC_garbage ---------------------------
(* LuaGC for its liveness property.  A bit flips with every step of the     *)
(* collector; that it flips for ever says that the collector takes steps    *)
(* for ever, which is WF_vars(Collect), for it always has a step to take.   *)
EXTENDS LuaGC

VARIABLE tick

MCDepth == [t \in Threads |-> 1]

TickInit == Init /\ tick = FALSE
TickNext ==
  \/ Collect /\ tick' = ~tick
  \/ (FullGC \/ Mutate) /\ UNCHANGED tick

FairSpec ==
  TickInit /\ [][TickNext]_<<vars, tick>> /\ []<>(tick = FALSE) /\ []<>(tick = TRUE)
=============================================================================
