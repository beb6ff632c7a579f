---------------------------- MODULE MCProjectStore ----------------------------
EXTENDS ProjectStore, TLC

CONSTANTS p0, p1, p2, o1, o2

(* Processes may change places, and so may the ids of operations. *)
Swaps == Permutations(Proc \ Gone)
Renamings == Permutations(OpId)
Alike == Swaps \cup Renamings \cup {s @@ r : s \in Swaps, r \in Renamings}

\* Commands that add a file, remove it, and change only the range.
Few == {Accept(1), SetRange(2, "descending"), Undo, Accept(2)}
=============================================================================
