---------------------------- MODULE PlayerRoster ----------------------------
(***************************************************************************)
(* The players' part of a message: pids given out and taken back           *)
(* (game.cpp), the list of players each handle writes, its own first       *)
(* (server-tick.cpp), and the player_map and my_pid the clients make of it *)
(* (client-tick.cpp).                                                      *)
(*                                                                         *)
(* A player's state stands for whose it is.  The handle of a connection    *)
(* gives its pid back before it leaves the list, so that two in the list   *)
(* may have the same.                                                      *)
(***************************************************************************)
EXTENDS Naturals, FiniteSets, SequencesExt

CONSTANTS
  Conns,    \* connections, each with its Handle and its client
  MaxWire,  \* bound: messages under way to a client
  MaxJoins  \* bound: connections in all

(* What the proofs need of them; the module of the run assumes it.         *)
RosterConstants == IsFiniteSet(Conns) /\ MaxWire \in Nat /\ MaxJoins \in Nat

Pids == 1..MaxJoins

VARIABLES
  stage,      \* "out", "added", "listed", "removed"
  pid,        \* Player::pid, 0 before addHandle
  state,      \* Player::state, the number of the connection it belongs to
  allHandles, \* its keys
  players,    \* World::players, in order
  wire,       \* to each client, the players' parts of its messages
  my_pid,     \* of each client
  player_map, \* of each client, the state each pid is shown with, or 0
  joins,      \* connections so far
  peak        \* the most handles there were at once, by their stages

vars == <<stage, pid, state, allHandles, players, wire, my_pid, player_map,
          joins, peak>>

TypeOK ==
  /\ stage \in [Conns -> {"out", "added", "listed", "removed"}]
  /\ pid \in [Conns -> 0..MaxJoins] /\ state \in [Conns -> 0..joins]
  /\ allHandles \subseteq Pids
  /\ ToSet(players) = {h \in Conns : stage[h] \in {"listed", "removed"}}
  /\ IsInjective(players)
  /\ \A h \in Conns :
       /\ Len(wire[h]) <= MaxWire
       /\ \A i \in DOMAIN wire[h] : wire[h][i][1] = [pid |-> pid[h], state |-> state[h]]
  /\ my_pid \in [Conns -> 0..MaxJoins]
  /\ player_map \in [Conns -> [Pids -> 0..MaxJoins]]
  /\ joins \in 0..MaxJoins /\ peak \in 0..Cardinality(Conns)

Init ==
  /\ stage = [h \in Conns |-> "out"] /\ pid = [h \in Conns |-> 0] /\ state = [h \in Conns |-> 0]
  /\ allHandles = {} /\ players = <<>>
  /\ wire = [h \in Conns |-> <<>>]
  /\ my_pid = [h \in Conns |-> 0]
  /\ player_map = [h \in Conns |-> [p \in Pids |-> 0]]
  /\ joins = 0 /\ peak = 0

-----------------------------------------------------------------------------
(* The server. *)

BugNewPid == Cardinality(allHandles) + 1   \* without looking for a gap

NewPid == CHOOSE i \in Pids : i \notin allHandles /\ 1..i - 1 \subseteq allHandles

(* A new Handle, onConnect's first half; its client starts afresh.         *)
AddHandle(h) ==
  /\ stage[h] = "out" /\ joins < MaxJoins
  /\ stage' = [stage EXCEPT ![h] = "added"]
  /\ pid' = [pid EXCEPT ![h] = NewPid]
  /\ allHandles' = allHandles \cup {NewPid}
  /\ joins' = joins + 1 /\ state' = [state EXCEPT ![h] = joins + 1]
  /\ peak' = LET there == Cardinality({g \in Conns : stage'[g] \in {"added", "listed"}})
             IN  IF there > peak THEN there ELSE peak
  /\ my_pid' = [my_pid EXCEPT ![h] = 0]
  /\ player_map' = [player_map EXCEPT ![h] = [p \in Pids |-> 0]]
  /\ UNCHANGED <<players, wire>>

Spawn(h) ==
  /\ stage[h] = "added"
  /\ stage' = [stage EXCEPT ![h] = "listed"]
  /\ players' = Append(players, h)
  /\ UNCHANGED <<pid, state, allHandles, wire, my_pid, player_map, joins, peak>>

BugErase(p) == allHandles                  \* the handle stays

Erase(p) == allHandles \ {p}

RemoveHandle(h) ==
  /\ stage[h] = "listed"
  /\ stage' = [stage EXCEPT ![h] = "removed"]
  /\ allHandles' = Erase(pid[h])
  /\ UNCHANGED <<pid, state, players, wire, my_pid, player_map, joins, peak>>

(* Everyone in the list but h, in its order.                               *)
Others(h) == RemoveAt(players, CHOOSE i \in DOMAIN players : players[i] = h)

(* The connection, and what was under way on it, is gone with the player.  *)
Destroy(h) ==
  /\ stage[h] = "removed"
  /\ stage' = [stage EXCEPT ![h] = "out"]
  /\ players' = Others(h)
  /\ pid' = [pid EXCEPT ![h] = 0]
  /\ wire' = [wire EXCEPT ![h] = <<>>]
  /\ UNCHANGED <<state, allHandles, my_pid, player_map, joins, peak>>

BugEntries(h) ==                           \* in the list's order
  [i \in DOMAIN players |-> [pid |-> pid[players[i]], state |-> state[players[i]]]]

Entries(h) ==
  LET order == <<h>> \o Others(h)
  IN  [i \in DOMAIN order |-> [pid |-> pid[order[i]], state |-> state[order[i]]]]

(* Everyone in the list is written to, player_mutex held.                  *)
UpdateNet ==
  /\ players # <<>>
  /\ \A h \in ToSet(players) : Len(wire[h]) < MaxWire
  /\ wire' = [h \in Conns |->
       IF h \in ToSet(players) THEN Append(wire[h], Entries(h)) ELSE wire[h]]
  /\ UNCHANGED <<stage, pid, state, allHandles, players, my_pid, player_map, joins, peak>>

-----------------------------------------------------------------------------
(* The clients. *)

(* The entries one after the other; a pid that comes twice ends with the   *)
(* later one.                                                              *)
Shown(map, entries) ==
  [p \in Pids |->
     LET at == {i \in DOMAIN entries : entries[i].pid = p}
     IN  IF at = {} THEN map[p] ELSE entries[Max(at)].state]

OnData(h) ==
  /\ wire[h] # <<>>
  /\ my_pid' = [my_pid EXCEPT ![h] = IF @ = 0 THEN Head(wire[h])[1].pid ELSE @]
  /\ player_map' = [player_map EXCEPT ![h] = Shown(player_map[h], Head(wire[h]))]
  /\ wire' = [wire EXCEPT ![h] = Tail(wire[h])]
  /\ UNCHANGED <<stage, pid, state, allHandles, players, joins, peak>>

-----------------------------------------------------------------------------
Next ==
  \/ UpdateNet
  \/ \E h \in Conns :
       AddHandle(h) \/ Spawn(h) \/ RemoveHandle(h) \/ Destroy(h) \/ OnData(h)

Spec == Init /\ [][Next]_vars

(* The server ticks, callbacks that have begun go on, MsQuic delivers.     *)
FairSpec ==
  /\ Spec
  /\ WF_vars(UpdateNet)
  /\ \A h \in Conns : /\ WF_vars(Spawn(h)) /\ WF_vars(Destroy(h))
                      /\ WF_vars(OnData(h))

-----------------------------------------------------------------------------
(* Properties. *)

(***************************************************************************)
(* A client takes its own handle's pid for its own, whoever else is in the *)
(* list and whoever joins or leaves (client-tick.cpp:45).                  *)
(***************************************************************************)
KnowsItself ==
  \A h \in Conns : stage[h] # "out" => my_pid[h] \in {0, pid[h]}

(***************************************************************************)
(* Nobody is ever removed from player_map (client-tick.cpp:47-56), but pids*)
(* are used again, so that a client shows no more players, present and     *)
(* past, than there once were handles at the same time (game.cpp:83-98).   *)
(***************************************************************************)
GhostsBounded ==
  \A h \in Conns, p \in Pids : player_map[h][p] # 0 => p <= peak

(***************************************************************************)
(* A client that shows a player goes on to.  Whoever leaves may be in the  *)
(* same message as the newcomer with its pid, and overwrite it even on the *)
(* newcomer's own client, whose entry comes first; but only at the start,  *)
(* never later (server-tick.cpp:40-48, client-tick.cpp:41-57).             *)
(***************************************************************************)
Shows(h, g) == pid[g] # 0 /\ player_map[h][pid[g]] = state[g]

OnceRight ==
  [][\A h, g \in Conns :
       stage[h] = "listed" /\ stage[g] = "listed" /\ Shows(h, g)
         => Shows(h, g)' \/ stage'[g] # "listed" \/ stage'[h] # "listed"]_vars

(***************************************************************************)
(* Who stays is shown to everyone who stays, itself included.              *)
(***************************************************************************)
AllShown ==
  \A h, g \in Conns :
    (stage[h] = "listed" /\ stage[g] = "listed")
      ~> (Shows(h, g) \/ stage[h] # "listed" \/ stage[g] # "listed")
=============================================================================
