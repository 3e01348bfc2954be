----------------------------- MODULE GameReport -----------------------------
(***************************************************************************)
(* The battle report of a finished game: the score log (scoring_records),  *)
(* the metrics (scoring_metrics), the attribution of the result to a vote  *)
(* (attribution.py) and the settlement bundle that joins them.  All of it  *)
(* is computed from the logs alone; the properties hold it against the     *)
(* game that wrote them, and its parts against each other.                 *)
(***************************************************************************)
EXTENDS GameAudit

(* The scorer's matching of decisions to events: in log order, each scored *)
(* event takes its only unused decision; with two it cannot tell, raises,  *)
(* and the bundle is degraded.  A decision is taken by an event like it    *)
(* only, so the first event of a kind finds all decisions of that kind.    *)
Scored == {"werewolf_kill", "seer_check", "witch_save", "witch_poison", "player_vote"}
Matches(d, e) == /\ d.type = e.type /\ d.phase = e.phase
                 /\ d.actor = e.actor /\ d.target = e.target
Candidates(e) == {k \in Decisions : Matches(log[k], e)}
Ambiguous == \E i \in At(Scored) : Cardinality(Candidates(log[i])) > 1
Degraded == Ambiguous

(* What an event of a round says of a seat.                                *)
In(r, type) == {i \in At({type}) : log[i].round = r}
Hits(r, type, target) == {i \in In(r, type) : log[i].target = target}
VotesFor(r, t) == Hits(r, "player_vote", t)

---------------------------------------------------------------------------
(* The score log: an outcome for each scored event.                        *)
KeyRoles == {"seer", "witch", "hunter", "guard"}
Key(p) == Role[p] \in KeyRoles

(* A wolf's vote scores only when it took its target, others' by target.   *)
TookBug(e) == Hits(e.round, "player_died", e.target) # {}
Took(e) == Hits(e.round, "player_eliminated", e.target) # {}
VoteGap(e) ==
  IF Role[e.actor] = "witch" THEN "witch_day_vote_outcome_not_explicit"
  ELSE IF e.actor \in Wolves /\ ~Took(e) THEN "werewolf_day_vote_without_elimination"
  ELSE IF Role[e.actor] \in {"werewolf", "seer", "villager"} THEN "none"
  ELSE "unscored_vote_role"

VoteOutcome(e) ==
  IF VoteGap(e) # "none" THEN 0
  ELSE IF e.actor \in Wolves
       THEN IF e.target \in Wolves THEN -2 ELSE IF Key(e.target) THEN 2 ELSE 1
       ELSE IF e.target \in Wolves THEN 2
            ELSE IF Role[e.actor] = "villager" /\ Key(e.target) THEN -2 ELSE -1

Outcome(e) ==
  CASE e.type = "werewolf_kill" -> IF Key(e.target) THEN 3 ELSE 1
    [] e.type = "seer_check"    -> IF e.target \in Wolves THEN 2 ELSE 0
    [] e.type = "witch_save"    -> IF e.target \in Wolves THEN -1 ELSE IF Key(e.target) THEN 3 ELSE 1
    [] e.type = "witch_poison"  -> IF e.target \in Wolves THEN 3 ELSE IF Key(e.target) THEN -3 ELSE -1
    [] e.type = "player_vote"   -> VoteOutcome(e)

(* What backs a kill's record: the death of that round, or else the save.  *)
KillEvidence(e) ==
  LET died == Hits(e.round, "player_died", e.target)
      save == Hits(e.round, "witch_save", e.target)
  IN IF died # {} THEN {Min(died)} ELSE IF save # {} THEN {Min(save)} ELSE {}

(* A vote is decided on the public events before the voting; a reference   *)
(* to an event its actor cannot see costs three points of integrity.       *)
VoteRefs(e) == {i \in PublicRefs : i < Min(In(e.round, "player_vote"))}
Integrity(e) == IF \A i \in VoteRefs(e) : VisibleToActor(e.actor, log[i]) THEN 0 ELSE -3

(* The score summary: what a seat's own records add up to.                 *)
ByActor(type, p) == {i \in At({type}) : log[i].actor = p}
Outcomes == [i \in At(Scored) |-> Outcome(log[i])]
PlayerScore(p) == SumFunctionOnSet(Outcomes, UNION {ByActor(type, p) : type \in Scored})

---------------------------------------------------------------------------
(* The metrics, which read the same log once more.                         *)
Accurate(e) == (e.actor \in Wolves) # (e.target \in Wolves)
KnownGaps ==
  [werewolf_day_vote_without_elimination |->
     {i \in At({"player_vote"}) : /\ log[i].actor \in Wolves
                                  /\ Hits(log[i].round, "player_eliminated", log[i].target) = {}},
   witch_day_vote_outcome_not_explicit |->
     {i \in At({"player_vote"}) : Role[log[i].actor] = "witch"}]

EndRound == log[Len(log)].round
SurvivalRounds(p) ==
  Min({EndRound} \cup {log[i].round : i \in {j \in At(CommitTypes) : log[j].target = p}})

(* The first potion of each kind is the one judged.                        *)
SaveAccurate(p) ==
  ByActor("witch_save", p) # {} /\ log[Min(ByActor("witch_save", p))].target \notin Wolves
PoisonAccurate(p) ==
  ByActor("witch_poison", p) # {} /\ log[Min(ByActor("witch_poison", p))].target \in Wolves
FoundWolves(p) == {i \in ByActor("seer_check", p) : log[i].target \in Wolves}

AliveAfterGame == Players \ {log[i].target : i \in At(CommitTypes)}
WolfDeaths == {log[i].target : i \in At(CommitTypes)} \cap Wolves
Margin == LET wolves == Cardinality(AliveAfterGame \cap Wolves)
              others == Cardinality(AliveAfterGame \ Wolves)
          IN IF winner = "villager" THEN others - wolves ELSE wolves - others

---------------------------------------------------------------------------
(* The attribution.  A critical vote (F.1): the eliminated leads the       *)
(* runner-up by one.  Its impact doubles when it took a seer or a witch;   *)
(* the one of most impact, the later of equals, is named on top.           *)
Eliminated(r) == log[Min(In(r, "player_eliminated"))].target
RunnerUp(r) == Max({Cardinality(VotesFor(r, t)) : t \in Players \ {Eliminated(r)}})
Lead(r) == Cardinality(VotesFor(r, Eliminated(r))) - RunnerUp(r)
CriticalRounds ==
  {r \in 1..MaxDayRounds : In(r, "player_eliminated") # {} /\ Lead(r) = 1}
Impact(r) == IF Role[Eliminated(r)] \in {"seer", "witch"} THEN 2 ELSE 1
TopRound == CHOOSE r \in CriticalRounds :
              \A s \in CriticalRounds : Impact(s) < Impact(r) \/ (Impact(s) = Impact(r) /\ s <= r)

(* A misfire (F.3): the witch poisons one of her own side.                 *)
Misfires == {i \in At({"witch_poison"}) : log[i].target \notin Wolves}

---------------------------------------------------------------------------
(* The bundle's timeline: a node for each run of events of one round and   *)
(* phase, named by its first event, with who is alive after it and what it *)
(* puts in the spotlight, the last death before anything else.             *)
Nodes == {i \in DOMAIN log : \/ i = 1 \/ log[i].round # log[i - 1].round
                              \/ log[i].phase # log[i - 1].phase}
OfNode(i) == LET later == {k \in Nodes : k > i}
             IN i..(IF later = {} THEN Len(log) ELSE Min(later) - 1)
AliveAtBug(i) ==                                   \* votes take nobody off the board
  Players \ {log[j].target : j \in {k \in At({"player_died"}) : k <= Max(OfNode(i))}}
AliveAt(i) == Players \ {log[j].target : j \in {k \in At(CommitTypes) : k <= Max(OfNode(i))}}
DeathsOf(i) == OfNode(i) \cap At(CommitTypes)
Spotlight(i) ==
  IF DeathsOf(i) # {} THEN Max(DeathsOf(i))
  ELSE LET named == {j \in OfNode(i) : log[j].target # NoOne}
       IN IF named = {} THEN 0 ELSE Min(named)

(* The node a turning point is shown at, that of its first vote.           *)
CursorFor(r) ==
  LET vote == log[Min(In(r, "player_vote"))]
  IN Min({i \in Nodes : log[i].round = r /\ log[i].phase = vote.phase})

(* The curtain call reads the result the engine wrote, the survivors.      *)
Curtain == [p \in Players |-> [role |-> Role[p], alive |-> p \in alive]]

---------------------------------------------------------------------------
(* The battle report agrees with the game: its timeline has one node per   *)
(* round and phase and ends with the survivors of the curtain call, as the *)
(* metrics do; a node spotlights somebody it took off the board; the       *)
(* winner does not end behind, and villagers win by every wolf's death.    *)
(* "One changed vote would change the result": of a critical round, shown  *)
(* at the vote that took its subject, somebody could have put another      *)
(* player ahead of everyone.                                               *)
ReportAgrees ==
  Over => /\ AliveAt(Max(Nodes)) = {p \in Players : Curtain[p].alive}
          /\ AliveAfterGame = alive
          /\ \A i, j \in Nodes :
               log[i].round = log[j].round /\ log[i].phase = log[j].phase => i = j
          /\ \A i \in Nodes :
               DeathsOf(i) # {} => log[Spotlight(i)].target \notin AliveAt(i)
          /\ Margin >= 0 /\ (winner = "villager" => WolfDeaths = Wolves)
          /\ \A r \in CriticalRounds :
               /\ \E j \in DeathsOf(CursorFor(r)) : log[j].target = Eliminated(r)
               /\ \E i \in VotesFor(r, Eliminated(r)), t \in Players :
                    /\ t # log[i].actor /\ t # Eliminated(r)
                    /\ \A s \in Players \ {t} :
                         Cardinality(VotesFor(r, t)) + 1 > Cardinality(VotesFor(r, s) \ {i})
          /\ CriticalRounds # {} => Impact(TopRound) = Max({Impact(r) : r \in CriticalRounds})

(* The score log and the metrics, which judge each event twice in two      *)
(* modules, agree: the votes one scores as a gap of the rubric are those   *)
(* the other lists; a vote that scores is accurate exactly when it scores  *)
(* above zero; a potion and a check likewise; the attribution's misfires   *)
(* are the poisons that cost points; no record is lost between the log and *)
(* the seats' sums; a seat acts in no round after those it survived, and   *)
(* what backs a kill's record comes after the kill.                        *)
ScoresAgree ==
  Over => /\ \A gap \in DOMAIN KnownGaps :
               KnownGaps[gap] = {i \in At({"player_vote"}) : VoteGap(log[i]) = gap}
          /\ \A i \in At({"player_vote"}) :
               /\ Outcome(log[i]) # 0 => (Outcome(log[i]) > 0 <=> Accurate(log[i]))
               /\ Integrity(log[i]) = 0
          /\ \A i \in At({"witch_save"}) : SaveAccurate(log[i].actor) <=> Outcome(log[i]) > 0
          /\ \A i \in At({"witch_poison"}) :
               /\ PoisonAccurate(log[i].actor) <=> Outcome(log[i]) > 0
               /\ i \in Misfires <=> Outcome(log[i]) < 0
          /\ \A i \in At({"seer_check"}) :
               i \in FoundWolves(log[i].actor) <=> Outcome(log[i]) > 0
          /\ SumFunction([p \in Players |-> PlayerScore(p)]) = SumFunction(Outcomes)
          /\ \A p \in Players :
               LET survived == SurvivalRounds(p)
               IN \A i \in At(ActiveTypes) : log[i].actor = p => log[i].round <= survived
          /\ \A i \in At({"werewolf_kill"}) : \A j \in KillEvidence(log[i]) : j > i

(* A finished game gets its full report: no scored event leaves the        *)
(* matching with two decisions to choose from.                             *)
FullReport == Over => ~Degraded

===========================================================================
