----------------------------- MODULE MCDelivery -----------------------------
(* Small instances of Delivery for TLC. *)
EXTENDS Delivery, TLC

Interchangeable == Permutations(Instances) \cup Permutations(Deliveries)
=============================================================================
