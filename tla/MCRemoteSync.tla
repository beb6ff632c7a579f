---------------------------- MODULE MCRemoteSync ----------------------------
EXTENDS RemoteSync, TLC

CONSTANTS c1, c2, a1, a2, a3, b1

ThreeAndOne == c1 :> {a1, a2, a3} @@ c2 :> {b1}
SameToEachOther == Permutations({a1, a2, a3})
=============================================================================
