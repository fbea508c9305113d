-------------------------- MODULE MCMessageFraming --------------------------
(* A small instance of MessageFraming for TLC. *)
EXTENDS MessageFraming

(* Every case of recv: an empty message, one of a single byte, a           *)
(* compressed one in up to three pieces, one that does not decompress, and *)
(* one that is too long.                                                   *)
EveryKind ==
  {[len |-> 0, lz4 |-> FALSE, fits |-> TRUE],
   [len |-> 1, lz4 |-> FALSE, fits |-> TRUE],
   [len |-> 3, lz4 |-> TRUE, fits |-> TRUE],
   [len |-> 2, lz4 |-> TRUE, fits |-> FALSE],
   [len |-> 4, lz4 |-> FALSE, fits |-> TRUE]}
=============================================================================
