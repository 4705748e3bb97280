--------------------------- MODULE BridgeDeliveryMC ---------------------------
(***************************************************************************)
(* TLC instance of BridgeDelivery.                                         *)
(***************************************************************************)
EXTENDS BridgeDelivery

\* The instance's name.
CONSTANT i1
=============================================================================
