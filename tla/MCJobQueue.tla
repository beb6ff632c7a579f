----------------------------- MODULE MCJobQueue -----------------------------
(* Instances of JobQueue for TLC; the configurations choose among them.    *)
EXTENDS JobQueue, TLC

CONSTANTS w1, w2, general, selection, t1, t2, t3, g1

OneLane  == [w \in Worker |-> general]
SelectionLane == [w \in Worker |-> selection]
AllGeneral == [j \in Job |-> general]
AllSelection == [j \in Job |-> selection]
OneGame  == [j \in Job |-> g1]

One   == {1}
Two   == {2}
Three == {3}
Pair  == {1, 2}
Trio  == {1, 2, 3}
TwoThree == {2, 3}
None  == {}

NoChild  == [p \in {} |-> 0]
ChildTwo == [p \in {1} |-> 2]

Tokens == Permutations(Token)
=============================================================================
