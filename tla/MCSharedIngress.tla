-------------------------- MODULE MCSharedIngress --------------------------
EXTENDS SharedIngress, TLC

CONSTANTS i1, i2, g1, g2

Imports == {i1, i2}
Games == i1 :> g1 @@ i2 :> g2

(* Requests may change places, and so may the two games with their imports. *)
Swap == i1 :> i2 @@ i2 :> i1 @@ g1 :> g2 @@ g2 :> g1
Alike == Permutations(Request) \cup {Swap @@ p : p \in Permutations(Request)}
=============================================================================
