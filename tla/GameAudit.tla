----------------------------- MODULE GameAudit -----------------------------
(***************************************************************************)
(* What a game writes (_emit, _decision and the snapshots of               *)
(* emergent_engine.py, the entries of its consensus log) and two of its    *)
(* readers: the invariant checker (invariants/) and the three rules of who *)
(* may see an event (role_visibility, observer_projection,                 *)
(* scoring_records).  Every step is a step of WerewolfGame together with   *)
(* what it writes; the readers are operators of what was written.          *)
(* GameReport and Projection add the others.                               *)
(***************************************************************************)
EXTENDS WerewolfGame, ConsensusLog, Sequences, FiniteSetsExt

CONSTANT Considers     \* Considers[p]: the seats p ever names; with NoOne, it may fail

ASSUME ConsidersAssumption == Considers \in [1..N -> SUBSET (0..N)]

VARIABLES
  log,         \* _events
  snapshots,   \* the god snapshots written: who is alive, by round and phase
  proposals    \* the wolves' proposals of this night, in turn order

auditVars == <<vars, log, snapshots, proposals>>

(* Actors and targets of an event that are not seats.                      *)
System == -1
TeamOf == [villager |-> -2, werewolf |-> -3]       \* the target of game_over

(* The visibility each type of event is emitted with.                      *)
Visibility ==
  [role_assignment |-> "public", guard_protect |-> "guard", werewolf_kill |-> "werewolf_team",
   seer_check |-> "seer", witch_save |-> "witch", witch_poison |-> "witch",
   witch_pass |-> "witch", player_died |-> "all", hunter_shoot |-> "public",
   hunter_pass |-> "public", final_words |-> "public", day_announcement |-> "public",
   player_speech |-> "public", player_vote |-> "public", player_eliminated |-> "all",
   role_revealed |-> "all", game_over |-> "all"]

EventIn(ph, type, actor, target) ==
  [round |-> IF ph = "setup" THEN 0 ELSE rnd, phase |-> ph, type |-> type,
   actor |-> actor, target |-> target, visibility |-> Visibility[type]]

Emit(events) == log' = log \o events

Snapshot(r, phases) ==
  snapshots' = snapshots \cup {[round |-> r, phase |-> ph, alive |-> alive] : ph \in phases}

(* The seats a turn of p can end in: one it considers, or, when it fails   *)
(* or names none that is legal, one drawn from all that are.               *)
Answers(p, legal) ==
  OrNoOne(IF NoOne \in Considers[p] \/ Considers[p] \cap legal = {} THEN legal
          ELSE Considers[p] \cap legal)

---------------------------------------------------------------------------
AuditInit == Init /\ log = <<>> /\ snapshots = {} /\ proposals = <<>>

SetupLogged ==
  /\ Setup /\ Emit(<<EventIn("setup", "role_assignment", System, NoOne)>>)
  /\ Snapshot(0, {"setup"})
  /\ UNCHANGED proposals

(* A resolver's plan names its target; one that skipped emits nothing.     *)
Acted(ph, type, p, target) ==
  Emit(IF target = NoOne THEN <<>> ELSE <<EventIn(ph, type, p, target)>>)

GuardLogged(p, target) ==
  /\ GuardTurn(p, target) /\ target \in Answers(p, GuardTargets)
  /\ Acted("night", "guard_protect", p, target)
  /\ UNCHANGED <<snapshots, proposals>>

Proposed(p, target) ==
  /\ target \in OrNoOne(Considers[p] \cap (WolfTargets \cup {NoOne}))
  /\ WolfTurn(p, target)
  /\ proposals' = IF target = NoOne THEN proposals ELSE Append(proposals, <<p, target>>)
  /\ UNCHANGED <<log, snapshots>>

(* The kill is the primary's: the first to propose it, or the first wolf.  *)
Primary(target) ==
  IF proposals = <<>> THEN Min(PhaseActors)
  ELSE proposals[Min({i \in DOMAIN proposals : proposals[i][2] = target})][1]

KillLogged(target) ==
  /\ WolfConsensus(target)
  /\ IF target = NoOne THEN UNCHANGED log
     ELSE Emit(<<EventIn("night", "werewolf_kill", Primary(target), target)>>)
  /\ proposals' = <<>>
  /\ UNCHANGED snapshots

PublicRefs == {i \in DOMAIN log : log[i].visibility \in {"public", "all"}}

(* The entry of a kill in the consensus log: who proposed its target is for*)
(* it, everybody else on the team against, those without a usable answer   *)
(* included; it was a consensus when all the proposals there are agree.    *)
ConsensusEntry(target) ==
  LET for == {proposals[i][1] : i \in {j \in DOMAIN proposals : proposals[j][2] = target}}
  IN [round |-> rnd, participants |-> PhaseActors, target |-> target,
      status |-> IF proposals # <<>> /\ Cardinality(for) = Len(proposals)
                 THEN "consensus" ELSE "coordinator_tie_break",
      primary |-> Primary(target), responders |-> PhaseActors \ {Primary(target)},
      supporters |-> for, dissenters |-> PhaseActors \ (for \cup {Primary(target)}),
      refs |-> PublicRefs]

SeerLogged(p, target) ==
  /\ target \in Answers(p, alive \ {p})
  /\ SeerTurn(p) /\ Acted("night", "seer_check", p, target)
  /\ UNCHANGED <<snapshots, proposals>>

WitchLogged(p) ==
  /\ \/ WitchPass(p) /\ Emit(<<EventIn("night", "witch_pass", p, NoOne)>>)
     \/ WitchSave(p) /\ Emit(<<EventIn("night", "witch_save", p, row.kill)>>)
     \/ \E target \in Considers[p] \ {NoOne} :
          WitchPoison(p, target) /\ Emit(<<EventIn("night", "witch_poison", p, target)>>)
  /\ UNCHANGED <<snapshots, proposals>>

(* A death's events: its commit, then the last words of a human seat.      *)
Words(ph, p) ==
  {<<>>} \cup IF p \in HumanSeats THEN {<<EventIn(ph, "final_words", p, NoOne)>>} ELSE {}

DeathLogged(c) ==
  /\ CommitDeath(c)
  /\ \E words \in Words("night", deaths[c]) :
       Emit(<<EventIn("night", "player_died", System, deaths[c])>> \o words)
  /\ UNCHANGED <<snapshots, proposals>>

ShotLogged(target) ==
  /\ HunterShoot(target) /\ target \in Considers[shooter]
  /\ \E words \in Words(phase, target) :
       Emit(<<EventIn(phase, "hunter_shoot", shooter, target),
              EventIn(phase, "player_died", System, target)>> \o words)
  /\ UNCHANGED <<snapshots, proposals>>

PassLogged ==
  /\ HunterPass /\ Emit(<<EventIn(phase, "hunter_pass", shooter, NoOne)>>)
  /\ UNCHANGED <<snapshots, proposals>>

DaybreakLogged ==
  /\ Daybreak /\ Emit(<<EventIn("day", "day_announcement", System, NoOne)>>)
  /\ Snapshot(rnd, {"night"})
  /\ UNCHANGED proposals

SpeechLogged(p) ==
  /\ SpeechTurn(p) /\ Emit(<<EventIn("day", "player_speech", p, NoOne)>>)
  /\ UNCHANGED <<snapshots, proposals>>

VoteLogged(p, target) ==
  /\ target \in Answers(p, alive \ {p})
  /\ VoteTurn(p, target) /\ Acted("day", "player_vote", p, target)
  /\ UNCHANGED <<snapshots, proposals>>

EliminationLogged(target) ==
  /\ Elimination(target)
  /\ IF target = NoOne THEN UNCHANGED log
     ELSE \E words \in Words("day", target) :
            Emit(<<EventIn("day", "player_eliminated", System, target),
                   EventIn("day", "role_revealed", System, target)>> \o words)
  /\ UNCHANGED <<snapshots, proposals>>

WinLogged ==
  /\ Win /\ Emit(<<EventIn("game_end", "game_over", System, TeamOf[WinCheck(alive)])>>)
  /\ Snapshot(rnd, {phase, "game_end"})
  /\ UNCHANGED proposals

DayClosed ==
  /\ NextRound \/ RoundCap
  /\ Snapshot(rnd, {"day"})
  /\ UNCHANGED <<log, proposals>>

(* Steps of the game that write nothing.                                   *)
Unlogged ==
  /\ \/ NextPhase \/ SettleNight \/ ScribeTurn \/ BudgetExhausted \/ Finished
     \/ \E c \in Causes : SkipDeath(c)
  /\ UNCHANGED <<log, snapshots, proposals>>

AuditNext ==
  \/ SetupLogged \/ PassLogged \/ DaybreakLogged \/ WinLogged \/ DayClosed
  \/ Unlogged
  \/ \E c \in Causes : DeathLogged(c)
  \/ \E p \in Players : WitchLogged(p) \/ SpeechLogged(p) \/ ShotLogged(p)
  \/ \E p \in Players, target \in Players \cup {NoOne} :
       \/ GuardLogged(p, target) \/ Proposed(p, target) \/ SeerLogged(p, target)
       \/ VoteLogged(p, target)
  \/ \E target \in Players \cup {NoOne} : KillLogged(target) \/ EliminationLogged(target)

AuditSpec == AuditInit /\ [][AuditNext]_auditVars

---------------------------------------------------------------------------
(* The invariant checker (checker.py), on the events of a finished game.   *)

At(types) == {i \in DOMAIN log : log[i].type \in types}
CommitTypes == {"player_died", "player_eliminated"}
ActiveTypes == {"werewolf_kill", "seer_check", "witch_save", "witch_poison", "witch_pass",
                "guard_protect", "player_speech", "player_vote"}
CauseTypes  == {"werewolf_kill", "witch_poison", "hunter_shoot"}

CheckI1 == \A i, j \in At(CommitTypes) : log[i].target = log[j].target => i = j
CheckI2 == \A i \in At(ActiveTypes), j \in At(CommitTypes) :
             log[i].actor = log[j].target => i < j
CheckI3 == \A i, j \in At(Consumables) :
             log[i].actor = log[j].actor /\ log[i].type = log[j].type => i = j
CheckI6 == \A i \in At({"player_died"}) :
             \E j \in At(CauseTypes) : j < i /\ log[j].target = log[i].target

(* _guard_night_rows: the night's last target of each action, and its dead.*)
OfNight(r, type) == {i \in At({type}) : log[i].round = r /\ log[i].phase = "night"}
NightTarget(r, type) ==
  IF OfNight(r, type) = {} THEN NoOne ELSE log[Max(OfNight(r, type))].target
DiedAtNight(r) == {log[i].target : i \in OfNight(r, "player_died")}

CheckI8 ==
  \A r \in 1..MaxDayRounds :
    LET kill == NightTarget(r, "werewolf_kill")
        saved == NightTarget(r, "witch_save") = kill
        poisoned == NightTarget(r, "witch_poison") = kill
    IN kill # NoOne /\ NightTarget(r, "guard_protect") = kill =>
         /\ ~saved /\ ~poisoned => kill \notin DiedAtNight(r)
         /\ saved => kill \in DiedAtNight(r)

CheckI8c == \A i, j \in At({"guard_protect"}) :
              log[j].round = log[i].round + 1 => log[i].target # log[j].target

(* The log validators: phases, tags, actors and targets are known ones.    *)
ValidEvent(e) ==
  /\ e.phase \in {"setup", "night", "day", "game_end"}
  /\ e.visibility \in {"public", "all", "werewolf_team", "seer", "witch", "hunter", "guard",
                       "specific_player_ids"}
  /\ e.actor \in Players \cup {System}
  /\ e.target \in Players \cup {NoOne} \cup {TeamOf[team] : team \in DOMAIN TeamOf}

(* A decision is recorded by the function that emits its event, just       *)
(* before it and with the same action, phase, actor and target: it goes by *)
(* the place of the event.                                                 *)
Decided == (ActiveTypes \ {"player_speech"}) \cup {"hunter_shoot", "hunter_pass"}
Decisions == At(Decided)
ValidDecision(d) == d.actor \in Players /\ d.phase \in {"night", "day"}

---------------------------------------------------------------------------
(* Who sees an event: the engine's rule, from which prompts are rendered,  *)
(* and its two independent witnesses, the observer's and the scorer's.     *)

PrivateRefsBug(p) ==                               \* the team's channel open to all
  {i \in DOMAIN log : log[i].visibility \in {"all", Role[p], "werewolf_team"}}
PrivateRefs(p) ==
  {i \in DOMAIN log : \/ log[i].visibility \in {"all", Role[p]}
                      \/ log[i].visibility = "werewolf_team" /\ p \in Wolves}
EngineSees(p) == PublicRefs \cup PrivateRefs(p)

Entitled(p, e) ==
  \/ e.visibility \in {"public", "all"}
  \/ e.visibility \in {"seer", "witch", "guard"} /\ Role[p] = e.visibility
  \/ e.visibility = "werewolf_team" /\ p \in Wolves

VisibleToActor(p, e) ==
  \/ e.visibility \in {"public", "all", Role[p]}
  \/ e.visibility = "werewolf_team" /\ p \in Wolves
  \/ e.visibility = "specific_player_ids" /\ e.target = p

(* Every event a prompt was built from is one the observer's rule shows to *)
(* that seat; the dead of the log are known players, the revealed role     *)
(* being a text left out here.                                             *)
CheckI4b == \A p \in Players : \A i \in EngineSees(p) : Entitled(p, log[i])
CheckI7  == \A i \in At(CommitTypes) : log[i].target \in Players

---------------------------------------------------------------------------
Over == status = "completed"

(* The checker finds nothing in the log of a finished game, and the        *)
(* validators accept it: what engine and checker say of deaths, potions    *)
(* and guards in two independent ways agrees.                              *)
AuditPasses ==
  Over => /\ CheckI1 /\ CheckI2 /\ CheckI3 /\ CheckI4b /\ CheckI6 /\ CheckI7
          /\ CheckI8 /\ CheckI8c
          /\ \A i \in DOMAIN log : ValidEvent(log[i])
          /\ \A k \in Decisions : ValidDecision(log[k])

(* "The four logs pass the existing validators": the entry of a kill is    *)
(* accepted by the validator of consensus logs.                            *)
EntriesAccepted ==
  [][\A target \in Players : KillLogged(target) =>
       ValidEntry(ConsensusEntry(target),
                  {[place |-> Len(log'), round |-> rnd, target |-> target]},
                  PublicRefs)]_auditVars

===========================================================================
