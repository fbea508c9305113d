----------------------------- MODULE MCSending -----------------------------
(***************************************************************************)
(* What the server sends to several clients: the requests that carry a     *)
(* message, and the list of players in it.  The two share no state in the  *)
(* models, so a behaviour runs the one that `part' names and leaves the    *)
(* other in its initial state.                                             *)
(***************************************************************************)
EXTENDS SendRequest

CONSTANTS Conns, MaxWire, MaxJoins

VARIABLES
  part,
  stage, pid, state, allHandles, players, wire, my_pid, player_map, joins, peak

rosterVars == <<stage, pid, state, allHandles, players, wire, my_pid, player_map,
                joins, peak>>

Roster == INSTANCE PlayerRoster

ASSUME RosterAssumption == Roster!RosterConstants

PartsInit == part \in {"request", "roster"} /\ Init /\ Roster!Init

PartsNext ==
  \/ part = "request" /\ Next /\ UNCHANGED <<part, rosterVars>>
  \/ part = "roster" /\ Roster!Next /\ UNCHANGED <<part, vars>>

PartsSpec == PartsInit /\ [][PartsNext]_<<part, vars, rosterVars>>

(* The fairness of each part's FairSpec, while it is the one that runs. *)
RequestsRun ==
  /\ WF_vars(part = "request" /\ Loop)
  /\ \A c \in Conn : WF_vars(part = "request" /\ Complete(c))
  /\ \A c \in Conn, r \in Req :
       SF_vars(part = "request" /\ Load(c) /\ r \in pending[c] /\ r \notin pending'[c])

RosterRuns ==
  /\ WF_rosterVars(part = "roster" /\ Roster!UpdateNet)
  /\ \A h \in Conns : /\ WF_rosterVars(part = "roster" /\ Roster!Spawn(h))
                      /\ WF_rosterVars(part = "roster" /\ Roster!Destroy(h))
                      /\ WF_rosterVars(part = "roster" /\ Roster!OnData(h))

FairPartsSpec == PartsSpec /\ RequestsRun /\ RosterRuns

-----------------------------------------------------------------------------
(***************************************************************************)
(* A client takes its own pid for its own, and shows no more players,      *)
(* present and past, than there once were handles at a time (client-       *)
(* tick.cpp:41-57).                                                        *)
(***************************************************************************)
RosterRight == Roster!TypeOK /\ Roster!KnowsItself /\ Roster!GhostsBounded

(***************************************************************************)
(* A client that shows a listed player goes on to, while both stay         *)
(* (client-tick.cpp:41-57).                                                *)
(***************************************************************************)
OnceRight == Roster!OnceRight

(***************************************************************************)
(* Who stays is shown to everyone who stays, itself included.              *)
(***************************************************************************)
AllShown == Roster!AllShown
=============================================================================
