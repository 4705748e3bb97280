--------------------------- MODULE PhoneSessionsMC ---------------------------
(***************************************************************************)
(* TLC instance of PhoneSessions.                                          *)
(***************************************************************************)
EXTENDS PhoneSessions

CONSTANTS p1, p2, t1, t2, w1, w2, none
=============================================================================
