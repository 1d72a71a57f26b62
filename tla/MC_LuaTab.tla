------------------------------- MODULE MC_LuaTab -------------------------------
(* LuaTab for a few small programs. *)
EXTENDS LuaTab, TLC

CONSTANTS s1, s2, s3, s4, n1, n2, n3, a1, a2, a3

\* Strings that collide, each at an address of its own.
Colliding ==
  [keys |-> {s1, s2, s3, n1}, hash |-> (s1 :> 0) @@ (s2 :> 4) @@ (s3 :> 1) @@ (n1 :> 2),
   places |-> (s1 :> {a1}) @@ (s2 :> {a2}) @@ (s3 :> {a3}),
   asizes |-> {0}, hsizes |-> {0, 1, 3, 4}, lengths |-> {}, exhausted |-> {"array", "nodes"}]

\* Integers that move between the parts of the table.
Mixed ==
  [keys |-> {1, 2, 3, 5, n1}, hash |-> (1 :> 1) @@ (2 :> 3) @@ (3 :> 1) @@ (5 :> 0) @@ (n1 :> 1),
   places |-> << >>,
   asizes |-> {0, 2}, hsizes |-> {0, 2}, lengths |-> {3}, exhausted |-> {"array"}]

\* Strings of which two may be made at one address.
Reused ==
  [keys |-> {s1, s2, s3, s4, n1},
   hash |-> (s1 :> 0) @@ (s2 :> 2) @@ (s3 :> 0) @@ (s4 :> 0) @@ (n1 :> 2),
   places |-> (s1 :> {a1}) @@ (s2 :> {a1}) @@ (s3 :> {a2}) @@ (s4 :> {a3}),
   asizes |-> {0}, hsizes |-> {4}, lengths |-> {}, exhausted |-> {}]

MCWorlds == {Colliding, Mixed, Reused}

\* Two strings of one address, with numbers that collide with either.
Resurrected ==
  [keys |-> {s1, s2, n1, n2, n3},
   hash |-> (s1 :> 3) @@ (s2 :> 0) @@ (n1 :> 3) @@ (n2 :> 3) @@ (n3 :> 0),
   places |-> (s1 :> {a1}) @@ (s2 :> {a1}),
   asizes |-> {0}, hsizes |-> {4}, lengths |-> {}, exhausted |-> {}]

ResurrectedOnly == {Resurrected}

\* Integers that move between the parts, without memory for new nodes either.
MixedOutOfMemory == [Mixed EXCEPT !.exhausted = {"array", "nodes"}]

OutOfMemoryOnly == {MixedOutOfMemory}
=============================================================================
