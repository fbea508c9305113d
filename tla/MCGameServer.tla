---------------------------- MODULE MCGameServer ----------------------------
(* Small instances of GameServer for TLC. *)
EXTENDS GameServer, TLC

(* Addresses and ids are interchangeable, and so are connections. *)
Symmetry == Permutations(Obj) \cup Permutations(Ids) \cup Permutations(Handle)
=============================================================================
