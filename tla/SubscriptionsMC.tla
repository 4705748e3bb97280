--------------------------- MODULE SubscriptionsMC ---------------------------
(***************************************************************************)
(* TLC instance of Subscriptions: a queue of two frames, which is full of  *)
(* bytes with a large and a small one.                                     *)
(***************************************************************************)
EXTENDS Subscriptions

McSizes == 1 .. 2
=============================================================================
