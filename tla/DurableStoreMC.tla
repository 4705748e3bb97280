--------------------------- MODULE DurableStoreMC ---------------------------
(***************************************************************************)
(* TLC instance of DurableStore: two instances of one process, two event   *)
(* ids and one lease, so that a restart can lose two instances at once.    *)
(***************************************************************************)
EXTENDS DurableStore, TLC

CONSTANTS i1, i2, p1, e1, e2, l1

McInsts == {i1, i2}
McProcs == {p1}
McProcOf == i1 :> p1 @@ i2 :> p1
McTimes == 1 .. 2
McIds == {e1, e2}
McLeases == {l1}
McSymmetry == Permutations({e1, e2}) \cup Permutations({i1, i2})
=============================================================================
