---------------------------- MODULE CommandPathMC ----------------------------
(***************************************************************************)
(* TLC instance of CommandPath: two instances of one process, two sockets, *)
(* one command that a client and a phone may send.                         *)
(***************************************************************************)
EXTENDS CommandPath, TLC

CONSTANTS i1, i2, p1, c1, c2, s1, s2, k1, r1, a1

McInsts == {i1, i2}
McOne == {i1}
McS1 == {s1}
McK2 == {k1, r1}
McOneOf == i1 :> p1
McProcs == {p1}
McProcOf == i1 :> p1 @@ i2 :> p1
McRuntimes == i1 :> {s1, s2} @@ i2 :> {s2}
McConns == {c1, c2}
McSessions == {s1, s2}
McCmds == {k1}
McRequests == {r1}
McClients == {a1}
=============================================================================
