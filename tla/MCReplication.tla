--------------------------- MODULE MCReplication ---------------------------
(* A small instance of Replication for TLC. *)
EXTENDS Replication

(* New objects are sent with a pose rounded down to a multiple of 4, and a *)
(* difference of more than 2 arrives as 2: as coarse as can be.            *)
CoarseGrid == [p \in 0 .. 3 |-> 4 * (p \div 4)]

Saturating ==
  [d \in -9 .. 9 |-> IF d > 2 THEN 2 ELSE IF d < -2 THEN -2 ELSE d]
=============================================================================
