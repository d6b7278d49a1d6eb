----------------------------- MODULE MCDelivery -----------------------------
(* The instance of Delivery that TLC checks; no symmetry, since one of the  *)
(* properties is a liveness property.                                       *)
EXTENDS Delivery
=============================================================================
