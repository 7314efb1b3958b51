----------------------------- MODULE MCDelivery -----------------------------
(* One client and one server, for TLC.                                     *)
EXTENDS DeliveryProperties
============================================================================
