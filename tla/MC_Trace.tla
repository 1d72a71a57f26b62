------------------------------ MODULE MC_Trace ------------------------------
(***************************************************************************)
(* Small programs for Trace: a numeric loop, a loop with a call that       *)
(* cannot be compiled, and a recursive function and its caller.            *)
(***************************************************************************)
EXTENDS Trace, TLC

CONSTANTS loop, call, fun, return, pt1, pt2

Loops == [kind |-> loop :> "FORL", proto |-> loop :> pt1, traces |-> 3, flushInCalls |-> FALSE]
Stitching == [kind |-> loop :> "LOOP" @@ call :> "CALL", proto |-> loop :> pt1 @@ call :> pt1,
              traces |-> 3, flushInCalls |-> FALSE]
Recursion == [kind |-> fun :> "FUNCF" @@ return :> "RET", proto |-> fun :> pt1 @@ return :> pt2,
              traces |-> 2, flushInCalls |-> FALSE]

MCWorlds == {Loops, Stitching, Recursion}

\* A call that may also flush single traces and prototypes.
FlushedInCalls == [Stitching EXCEPT !.flushInCalls = TRUE]

FlushedInCallsOnly == {FlushedInCalls}

\* WF_vars(Compile) without ENABLED, which takes TLC most of its time: every
\* step of Compile changes the state of the compiler or, while it assembles,
\* whether code is reserved, so it takes steps if these do not stay.
GoesOn ==
  /\ \A x \in {"START", "END", "ERR"} : []<>(jit.state # x)
  /\ \A b \in BOOLEAN : []<>(jit.state # "ASM" \/ open # b)
FairSpec == Init /\ [][Next]_vars /\ GoesOn
=============================================================================
