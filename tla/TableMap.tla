------------------------------- MODULE TableMap -------------------------------
(***************************************************************************)
(* What a Lua table promises: a map from keys to values, and traversals    *)
(* that visit every field once, as long as the program assigns only to     *)
(* fields that exist, which may be cleared.                                *)
(*                                                                         *)
(* The value stored under a key is the key itself: this tells a value that *)
(* turns up under another key.                                             *)
(***************************************************************************)
CONSTANTS Keys, Nil

VARIABLES
  fields,   \* the pairs of a key and a value that is not nil
  seen      \* the keys that the traversal under way has visited, or Nil

tableVars == <<fields, seen>>

Idle == seen = Nil
Visited == {<<k, k>> : k \in seen}

Empty == fields = {} /\ Idle

\* One field is assigned to, or all of them are cleared.
Assign ==
  /\ UNCHANGED seen
  /\ \/ Idle /\ fields' = {}
     \/ \E f \in {<<k, k>> : k \in Keys} :
          /\ ~Idle => f \in fields
          /\ fields' \in {fields \cup {f}, fields \ {f}}

Start == Idle /\ seen' = {} /\ UNCHANGED fields
Visit == /\ ~Idle
         /\ \E f \in fields \ Visited : seen' = seen \cup {f[1]}
         /\ UNCHANGED fields
Finish == ~Idle /\ seen' = Nil /\ fields \subseteq Visited /\ UNCHANGED fields

Operation == Assign \/ Start \/ Visit \/ Finish

MapSpec == Empty /\ [][Operation]_tableVars
=============================================================================
