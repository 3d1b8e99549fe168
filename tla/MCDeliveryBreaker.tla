-------------------------- MODULE MCDeliveryBreaker --------------------------
(* Instances of DeliveryBreaker for TLC. *)
EXTENDS DeliveryBreaker
=============================================================================
