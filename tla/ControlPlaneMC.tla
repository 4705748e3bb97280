--------------------------- MODULE ControlPlaneMC ---------------------------
(***************************************************************************)
(* TLC instance of ControlPlane: two instances of one process, so that a   *)
(* replacement and the instance it replaces meet in the same rows.         *)
(***************************************************************************)
EXTENDS ControlPlane, TLC

CONSTANTS i1, i2, p1, c1, c2, s1, s2, d1, l1

McInsts == {i1, i2}
McOneInst == {i1}
McOneProcOf == i1 :> p1
McProcs == {p1}
McProcOf == i1 :> p1 @@ i2 :> p1
McConns == {c1, c2}
McSessions == {s1, s2}
McDashes == {d1}
McLeaseIds == {l1}
=============================================================================
