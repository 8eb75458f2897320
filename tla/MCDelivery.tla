----------------------------- MODULE MCDelivery -----------------------------
(* A small instance of Delivery: two jobs of the tier that is checked for    *)
(* remote work, which share a digest, and a tier whose digests are empty.    *)
EXTENDS Delivery

CONSTANTS a, b

OneTier == [j \in Jobs |-> 1]
=============================================================================
