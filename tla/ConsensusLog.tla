---------------------------- MODULE ConsensusLog ----------------------------
(***************************************************************************)
(* What the repository accepts as the record of a wolf team's night: the   *)
(* validation of a consensus entry against the game's log                  *)
(* (consensus_log.py), and of the team's decisions against the entries     *)
(* (log_bundle.py).  Two engines write such entries: ConsensusGame models  *)
(* one, GameAudit the other.                                               *)
(*                                                                         *)
(* An entry is a record of its round, participants, status, the primary    *)
(* proposer, the wolves that answer its proposal (responders), target,     *)
(* supporters, dissenters, and the places in the log of the events its     *)
(* proposal refers to (refs).  A kill is the place, round and target of    *)
(* one werewolf_kill event.                                                *)
(***************************************************************************)
EXTENDS Naturals

(* Rubric B.2: a wolf proposes or responds, not both.                      *)
OneActionEach(c) == c.primary \notin c.responders

MembersOnly(c) ==
  {c.primary} \cup c.responders \cup c.supporters \cup c.dissenters \subseteq c.participants

Outsider(c) == c.target \notin c.participants

(* Everyone is for the target or against it.                               *)
AllCounted(c) ==
  /\ c.supporters \cap c.dissenters = {}
  /\ c.supporters \cup c.dissenters = c.participants

FitsStatus(c) ==
  /\ c.status = "consensus" => c.dissenters = {}
  /\ c.status = "coordinator_tie_break" => c.dissenters # {}

(* The proposal refers to what the team has seen before its kill.          *)
SeenBefore(c, kills, visible) ==
  \A r \in c.refs : r \in visible /\ \A k \in kills : k.round = c.round => r < k.place

ValidEntry(c, kills, visible) ==
  /\ MembersOnly(c) /\ OneActionEach(c) /\ Outsider(c)
  /\ AllCounted(c) /\ FitsStatus(c)
  /\ SeenBefore(c, kills, visible)
  /\ \E k \in kills : k.round = c.round /\ k.target = c.target

(* Every kill has one entry, and every entry its kill.                     *)
CoversAllKills(entries, kills) ==
  /\ \A k \in kills : \E c \in entries : c.round = k.round /\ c.target = k.target
  /\ \A c, d \in entries : c.round = d.round => c = d

ValidLog(entries, kills, visible) ==
  /\ \A c \in entries : ValidEntry(c, kills, visible)
  /\ CoversAllKills(entries, kills)

(* A decision is a record of whether it counts as the team's (team), of    *)
(* the consensus it names, its target, and whether its type is one of the  *)
(* five and its reason no longer than 200 characters (typed).              *)
Typed(decisions) == \A d \in decisions : d.typed

(* A team decision names the entry it was taken by: one for its target.    *)
Linked(decisions, entries) ==
  \A d \in decisions :
    d.team => \E c \in entries : c.round = d.consensus /\ c.target = d.target

ValidDecisions(decisions, entries) == Typed(decisions) /\ Linked(decisions, entries)
=============================================================================
