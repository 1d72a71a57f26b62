------------------------------ MODULE LuaGC_debug ------------------------------
(***************************************************************************)
(* LuaGC for programs that also set the upvalues of a closure from outside *)
(* it: lua_setupvalue (src/src/lj_api.c), which debug.setupvalue calls.    *)
(***************************************************************************)
EXTENDS LuaGC

\* lua_setupvalue: the value goes to the upvalue, and the barrier that
\* follows is that of the closure.
SetUpvalue(t, f, u, v) ==
  /\ f \in OnStack(t) \cap Funcs
  /\ u \in ref[f] \cap Upvals
  /\ v \in OnStack(t)
  /\ IF Open(u)
       THEN stack' = [stack EXCEPT ![home[u][1]][home[u][2]] = v] /\ UNCHANGED ref
       ELSE ref' = [ref EXCEPT ![u] = {v}] /\ UNCHANGED stack
  /\ BarrierForward(f, {v})
  /\ UNCHANGED <<phase, full, white, finalized, ahead, grayagain, weak, mmudata, sweep, home>>

DebugNext ==
  \/ Next
  \/ /\ Running
     /\ \E t \in Threads, f \in Funcs, u \in Upvals, v \in Obj :
          Active(t) /\ SetUpvalue(t, f, u, v)

DebugSpec == Init /\ [][DebugNext]_vars

\* Every value a program copies is checked to be live (tvchecklive): what it
\* can reach is never an object of the other white, which the sweep frees.
NothingDeadInReach == \A o \in Reachable : ~Dead(o)
=============================================================================
