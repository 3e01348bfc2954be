--------------------------- MODULE WerewolfGame ---------------------------
(***************************************************************************)
(* The game loop of EmergentGameEngine (emergent_engine.py): nights of     *)
(* guard, wolf team, seer and witch, their joint settlement, the death     *)
(* loop with the hunters' cascading shots, days of speeches and a vote,    *)
(* the request budget and the fail-closed end.                             *)
(*                                                                         *)
(* The engine is one thread.  What it does not control is what the agents  *)
(* and the human seat answer, and what its random generator draws: each    *)
(* turn is one action, and its answer is chosen with \E.  A provider error,*)
(* an illegal answer and a human timeout all end in a draw from the same   *)
(* legal targets an accepted answer comes from, so the choice of a legal   *)
(* target stands for the three; a wolf may also end up with no proposal.   *)
(***************************************************************************)
EXTENDS Integers, FiniteSets

CONSTANTS
  N,              \* number of seats; seat order is 1 < 2 < ... < N
  Role,           \* Role[p]: the role of seat p
  HumanSeats,     \* seats played by a human participant (none or one)
  MaxDayRounds,   \* EmergentBudget.max_day_rounds
  MaxRequests,    \* EmergentBudget.max_requests
  Scaffold        \* whether the renderer requires the scribe's turn

Players == 1..N
NoOne   == 0      \* Python's None, and the literal "none" of the logs
Roles   == {"werewolf", "seer", "witch", "guard", "hunter", "villager"}

ASSUME BoardAssumption ==
  /\ N \in Nat
  /\ Role \in [1..N -> Roles]
  /\ \A special \in {"seer", "witch", "guard"} : \A p, q \in 1..N :
       Role[p] = special /\ Role[q] = special => p = q
  /\ HumanSeats \subseteq 1..N
  /\ \A p, q \in HumanSeats : p = q
  /\ MaxDayRounds \in Nat \ {0}
  /\ MaxRequests \in Nat
  /\ Scaffold \in BOOLEAN

Wolves      == {p \in Players : Role[p] = "werewolf"}
Hunters     == {p \in Players : Role[p] = "hunter"}
Consumables == {"witch_save", "witch_poison", "hunter_shoot"}
Causes      == {"werewolf_kill", "witch_poison"}

VARIABLES
  pc,           \* where _run_inner is
  status,       \* running, completed, failed (GameOutcome) or raised
  rnd,          \* the round, 1 .. MaxDayRounds
  phase,        \* the phase argument of the death triggers: night or day
  cursor,       \* the last seat that took its turn in the current phase
  alive,        \* _alive
  committed,    \* _death_committed
  lastGuarded,  \* _last_guarded
  saveUsed,     \* save_used
  poisonUsed,   \* poison_used
  tally,        \* proposals of the wolves, or votes, per target
  deaths,       \* the deaths the settler returned, not reached yet, by cause
  shooter,      \* the dead hunter whose on-death turn is being resolved
  used,         \* EmergentBudget.used
  winner,       \* the winner, or none
  partialLog,   \* whether partial logs are on disk
  row,          \* the events of this round, the locals of the round loop
  spent         \* history: how often each player's consumables were emitted

vars == <<pc, status, rnd, phase, cursor, alive, committed, lastGuarded,
          saveUsed, poisonUsed, tally, deaths, shooter, used, winner,
          partialLog, row, spent>>

---------------------------------------------------------------------------
(* The round's record: targets of the night's events, who was voted out,   *)
(* who was shot, which hunters were asked, who was committed dead.         *)

BlankRow(before) ==
  [before |-> before, guard |-> NoOne, kill |-> NoOne, save |-> NoOne,
   poison |-> NoOne, voted |-> NoOne, shot |-> {}, asked |-> {}, died |-> {}]

NoVotes == [p \in Players |-> 0]

AliveWith(role) == {p \in alive : Role[p] = role}

(* The seats that act in the current phase; the shot's only actor is dead. *)
PhaseActors ==
  CASE pc = "guard" -> AliveWith("guard")
    [] pc = "wolf"  -> Wolves \cap alive
    [] pc = "seer"  -> AliveWith("seer")
    [] pc = "witch" -> AliveWith("witch")
    [] pc \in {"speech", "vote"} -> alive
    [] OTHER -> {}

Pending   == {p \in PhaseActors : p > cursor}
Turn(p)   == p \in Pending /\ \A q \in Pending : p <= q
PhaseOver == Pending = {}

(* charge(): the request is counted, then refused beyond the budget. A     *)
(* human turn is not charged.                                              *)
CanAfford(p) == p \in HumanSeats \/ used < MaxRequests
Charge(p) == /\ CanAfford(p)
             /\ used' = IF p \in HumanSeats THEN used ELSE used + 1

(* Variants named ...Bug are slips this code could have; Next uses none.   *)
GuardTargetsBug == alive                              \* repeats allowed
PoisonTargetsBug(p) == alive \ {p}                    \* a second potion
GuardTargets     == alive \ {lastGuarded}
WolfTargets      == alive \ Wolves
PoisonTargets(p) == IF poisonUsed THEN {} ELSE alive \ {p}
MaySave(p)       == /\ ~saveUsed
                    /\ row.kill # NoOne
                    /\ ~(row.kill = p /\ rnd # 1)
ShotTargets(p)   == alive \ {p}

(* The targets with the most proposals or votes; a tie is drawn.           *)
Leaders == {p \in Players : tally[p] > 0 /\ \A q \in Players : tally[q] <= tally[p]}
Ballot(target) == IF target = NoOne THEN tally ELSE [tally EXCEPT ![target] = @ + 1]

(* A resolver without a candidate skips: the turn counts and names no one. *)
OrNoOne(targets) == IF targets = {} THEN {NoOne} ELSE targets

WinCheck(living) ==
  IF living \cap Wolves = {} THEN "villager"
  ELSE IF Cardinality(living \cap Wolves) >= Cardinality(living \ Wolves)
       THEN "werewolf" ELSE "none"

(* JointSettler.resolve_night: save and guard each cancel the kill, both   *)
(* on the same target do not (guard+save_same_target = death).             *)
ProtectedBug == row.save # NoOne \/ row.guard = row.kill   \* no double protection
Protected == IF row.guard # NoOne /\ row.guard = row.kill
             THEN row.save = NoOne ELSE row.save # NoOne
Settlement ==
  [werewolf_kill |-> IF row.kill \in alive /\ ~Protected THEN row.kill ELSE NoOne,
   witch_poison  |-> IF row.poison \in alive /\ (row.poison # row.kill \/ Protected)
                     THEN row.poison ELSE NoOne]

(* The deaths not reached yet, in the settler's order: victim, then poison. *)
Due      == {c \in Causes : deaths[c] # NoOne}
IsDue(c) == c \in Due /\ (c = "witch_poison" => "werewolf_kill" \notin Due)
NoDeaths == [c \in Causes |-> NoOne]

(* _trigger_on_death: only a hunter, and not one that died of poison.      *)
TriggersBug(p, cause) == p \in Hunters                      \* any cause
Triggers(p, cause) == p \in Hunters /\ cause # "witch_poison"

AfterDeaths == IF phase = "night" THEN "deaths" ELSE "dusk"

---------------------------------------------------------------------------
Init ==
  /\ pc = "setup" /\ status = "running" /\ rnd = 1 /\ phase = "night"
  /\ cursor = 0
  /\ alive = Players /\ committed = {}
  /\ lastGuarded = NoOne /\ saveUsed = FALSE /\ poisonUsed = FALSE
  /\ tally = NoVotes /\ deaths = NoDeaths /\ shooter = NoOne
  /\ used = 0 /\ winner = "none" /\ partialLog = FALSE
  /\ row = BlankRow(NoOne)
  /\ spent = [use \in Players \X Consumables |-> 0]

(* role_assignment is the first event, and mirrors the first partial log.  *)
Setup ==
  /\ pc = "setup"
  /\ pc' = "guard" /\ partialLog' = TRUE
  /\ UNCHANGED <<status, rnd, phase, cursor, alive, committed, lastGuarded, saveUsed,
                 poisonUsed, tally, deaths, shooter, used, winner, row, spent>>

(* A turn of the night or the day moves the cursor past its seat.          *)
TakeTurn(p) == /\ Turn(p) /\ Charge(p)
               /\ cursor' = p
               /\ UNCHANGED <<pc, status, rnd, phase, winner, partialLog>>

GuardTurn(p, target) ==
  /\ pc = "guard" /\ TakeTurn(p)
  /\ target \in OrNoOne(GuardTargets)
  /\ lastGuarded' = IF target = NoOne THEN lastGuarded ELSE target
  /\ row' = [row EXCEPT !.guard = target]
  /\ UNCHANGED <<alive, committed, saveUsed, poisonUsed, tally, deaths, shooter, spent>>

(* One wolf's turn: a legal proposal, or none (error, illegal, timeout).   *)
WolfTurn(p, proposal) ==
  /\ pc = "wolf" /\ TakeTurn(p)
  /\ proposal \in WolfTargets \cup {NoOne}
  /\ tally' = Ballot(proposal)
  /\ UNCHANGED <<alive, committed, lastGuarded, saveUsed, poisonUsed, deaths, shooter,
                 row, spent>>

(* The team's kill: the leading proposal, or a draw when there is none.    *)
WolfConsensus(target) ==
  /\ pc = "wolf" /\ PhaseOver
  /\ target \in IF PhaseActors = {} THEN {NoOne}
                ELSE IF Leaders = {} THEN OrNoOne(WolfTargets) ELSE Leaders
  /\ row' = [row EXCEPT !.kill = target]
  /\ pc' = "seer" /\ cursor' = 0 /\ tally' = NoVotes
  /\ UNCHANGED <<status, rnd, phase, alive, committed, lastGuarded, saveUsed, poisonUsed,
                 deaths, shooter, used, winner, partialLog, spent>>

(* The seer's check is an event nothing else in the loop reads.            *)
SeerTurn(p) ==
  /\ pc = "seer" /\ TakeTurn(p)
  /\ UNCHANGED <<alive, committed, lastGuarded, saveUsed, poisonUsed, tally, deaths,
                 shooter, row, spent>>

WitchPass(p) ==
  /\ pc = "witch" /\ TakeTurn(p)
  /\ UNCHANGED <<alive, committed, lastGuarded, saveUsed, poisonUsed, tally, deaths,
                 shooter, row, spent>>

WitchSave(p) ==
  /\ pc = "witch" /\ TakeTurn(p)
  /\ MaySave(p)
  /\ saveUsed' = TRUE
  /\ row' = [row EXCEPT !.save = row.kill]
  /\ spent' = [spent EXCEPT ![<<p, "witch_save">>] = @ + 1]
  /\ UNCHANGED <<alive, committed, lastGuarded, poisonUsed, tally, deaths, shooter>>

WitchPoison(p, target) ==
  /\ pc = "witch" /\ TakeTurn(p)
  /\ target \in PoisonTargets(p)
  /\ poisonUsed' = TRUE
  /\ row' = [row EXCEPT !.poison = target]
  /\ spent' = [spent EXCEPT ![<<p, "witch_poison">>] = @ + 1]
  /\ UNCHANGED <<alive, committed, lastGuarded, saveUsed, tally, deaths, shooter>>

(* A phase in which every seat has acted gives way to the next one.        *)
Following == [guard |-> "wolf", seer |-> "witch",
              speech |-> IF Scaffold THEN "scribe" ELSE "vote"]
NextPhase ==
  /\ pc \in {"guard", "seer", "speech"} /\ PhaseOver
  /\ pc' = Following[pc] /\ cursor' = 0
  /\ UNCHANGED <<status, rnd, phase, alive, committed, lastGuarded, saveUsed, poisonUsed,
                 tally, deaths, shooter, used, winner, partialLog, row, spent>>

SettleNight ==
  /\ pc = "witch" /\ PhaseOver
  /\ deaths' = Settlement
  /\ pc' = "deaths" /\ cursor' = 0 /\ phase' = "night"
  /\ UNCHANGED <<status, rnd, alive, committed, lastGuarded, saveUsed, poisonUsed, tally,
                 shooter, used, winner, partialLog, row, spent>>

(* One death: alive and _death_committed move together with the player_died *)
(* event, or assert_death_commit_once raises out of run(); then the dead    *)
(* player's trigger.  r is the round's record with the events before it.    *)
Die(p, cause, after, r) ==
  /\ alive' = alive \ {p}
  /\ committed' = committed \cup {p}
  /\ row' = IF p \in committed THEN r ELSE [r EXCEPT !.died = @ \cup {p}]
  /\ status' = IF p \in committed THEN "raised" ELSE status
  /\ shooter' = IF Triggers(p, cause) THEN p ELSE NoOne
  /\ pc' = IF p \in committed THEN "over"
           ELSE IF Triggers(p, cause) THEN "shot" ELSE after

(* The death loop passes over a settled death a hunter's shot came before. *)
OvertakenBug(p) == FALSE                        \* the alive gate dropped
Overtaken(p) == p \notin alive
SkipDeathBug(c) ==                              \* passed over, never removed
  /\ pc = "deaths" /\ IsDue(c) /\ Overtaken(deaths[c])
  /\ UNCHANGED vars
SkipDeath(c) ==
  /\ pc = "deaths" /\ IsDue(c) /\ Overtaken(deaths[c])
  /\ deaths' = [deaths EXCEPT ![c] = NoOne]
  /\ UNCHANGED <<pc, status, rnd, phase, cursor, alive, committed, lastGuarded, saveUsed,
                 poisonUsed, tally, shooter, used, winner, partialLog, row, spent>>

CommitDeath(c) ==
  /\ pc = "deaths" /\ IsDue(c) /\ ~Overtaken(deaths[c])
  /\ deaths' = [deaths EXCEPT ![c] = NoOne]
  /\ Die(deaths[c], c, "deaths", row)
  /\ UNCHANGED <<rnd, phase, cursor, lastGuarded, saveUsed, poisonUsed, tally, used,
                 winner, partialLog, spent>>

(* The hunter's on-death turn; a shot victim may be a hunter in its turn.  *)
HunterShoot(target) ==
  /\ pc = "shot" /\ Charge(shooter)
  /\ target \in ShotTargets(shooter)
  /\ spent' = [spent EXCEPT ![<<shooter, "hunter_shoot">>] = @ + 1]
  /\ Die(target, "hunter_shoot", AfterDeaths,
         [row EXCEPT !.asked = @ \cup {shooter}, !.shot = @ \cup {target}])
  /\ UNCHANGED <<rnd, phase, cursor, lastGuarded, saveUsed, poisonUsed, tally, deaths,
                 winner, partialLog>>

HunterPass ==
  /\ pc = "shot" /\ Charge(shooter)
  /\ row' = [row EXCEPT !.asked = @ \cup {shooter}]
  /\ pc' = AfterDeaths /\ shooter' = NoOne
  /\ UNCHANGED <<status, rnd, phase, cursor, alive, committed, lastGuarded, saveUsed,
                 poisonUsed, tally, deaths, winner, partialLog, spent>>

(* The win check at the end of the night and at the end of the day.        *)
NightOver == pc = "deaths" /\ Due = {}
DayOver   == pc = "dusk"

Win ==
  /\ NightOver \/ DayOver
  /\ WinCheck(alive) # "none"
  /\ winner' = WinCheck(alive) /\ status' = "completed" /\ pc' = "over"
  /\ UNCHANGED <<rnd, phase, cursor, alive, committed, lastGuarded, saveUsed, poisonUsed,
                 tally, deaths, shooter, used, partialLog, row, spent>>

DaybreakBug ==                                  \* no win check at dawn
  /\ NightOver
  /\ pc' = "speech"
  /\ UNCHANGED <<status, rnd, phase, cursor, alive, committed, lastGuarded, saveUsed,
                 poisonUsed, tally, deaths, shooter, used, winner, partialLog, row, spent>>
Daybreak ==
  /\ NightOver /\ WinCheck(alive) = "none"
  /\ pc' = "speech"
  /\ UNCHANGED <<status, rnd, phase, cursor, alive, committed, lastGuarded, saveUsed,
                 poisonUsed, tally, deaths, shooter, used, winner, partialLog, row, spent>>

SpeechTurn(p) ==
  /\ pc = "speech" /\ TakeTurn(p)
  /\ UNCHANGED <<alive, committed, lastGuarded, saveUsed, poisonUsed, tally, deaths,
                 shooter, row, spent>>

(* The scribe's extraction never changes the game, only the budget.        *)
ScribeTurn ==
  /\ pc = "scribe" /\ used < MaxRequests
  /\ used' = used + 1 /\ pc' = "vote"
  /\ UNCHANGED <<status, rnd, phase, cursor, alive, committed, lastGuarded, saveUsed,
                 poisonUsed, tally, deaths, shooter, winner, partialLog, row, spent>>

VoteTurn(p, target) ==
  /\ pc = "vote" /\ TakeTurn(p)
  /\ target \in OrNoOne(alive \ {p})
  /\ tally' = Ballot(target)
  /\ UNCHANGED <<alive, committed, lastGuarded, saveUsed, poisonUsed, deaths, shooter,
                 row, spent>>

Elimination(target) ==
  /\ pc = "vote" /\ PhaseOver
  /\ target \in OrNoOne(Leaders)
  /\ IF target = NoOne
     THEN pc' = "dusk" /\ UNCHANGED <<alive, committed, row, status, shooter>>
     ELSE Die(target, "vote", "dusk", [row EXCEPT !.voted = target])
  /\ phase' = "day" /\ cursor' = 0 /\ tally' = NoVotes
  /\ UNCHANGED <<rnd, lastGuarded, saveUsed, poisonUsed, deaths, used, winner, partialLog,
                 spent>>

NextRoundBug ==                                 \* one round too many
  /\ DayOver /\ WinCheck(alive) = "none" /\ rnd <= MaxDayRounds
  /\ rnd' = rnd + 1 /\ pc' = "guard"
  /\ row' = BlankRow(row.guard)
  /\ UNCHANGED <<status, phase, cursor, alive, committed, lastGuarded, saveUsed,
                 poisonUsed, tally, deaths, shooter, used, winner, partialLog, spent>>
NextRound ==
  /\ DayOver /\ WinCheck(alive) = "none" /\ rnd < MaxDayRounds
  /\ rnd' = rnd + 1 /\ pc' = "guard"
  /\ row' = BlankRow(row.guard)
  /\ UNCHANGED <<status, phase, cursor, alive, committed, lastGuarded, saveUsed,
                 poisonUsed, tally, deaths, shooter, used, winner, partialLog, spent>>

FailClosedBug(reason) == /\ status' = reason /\ pc' = "over"   \* logs stay behind
                         /\ UNCHANGED partialLog
(* _failed_outcome: no game log, and no partial log left behind.           *)
FailClosed(reason) == /\ status' = reason /\ pc' = "over" /\ partialLog' = FALSE

RoundCap ==
  /\ DayOver /\ WinCheck(alive) = "none" /\ rnd = MaxDayRounds
  /\ FailClosed("round_cap")
  /\ UNCHANGED <<rnd, phase, cursor, alive, committed, lastGuarded, saveUsed, poisonUsed,
                 tally, deaths, shooter, used, winner, row, spent>>

(* BudgetExhausted leaves whichever turn asked for one request too many.   *)
Refused == \/ \E p \in Players : Turn(p) /\ ~CanAfford(p)
           \/ pc = "shot" /\ ~CanAfford(shooter)
           \/ pc = "scribe" /\ used >= MaxRequests
BudgetExhausted ==
  /\ Refused
  /\ used' = used + 1
  /\ FailClosed("budget_exhausted")
  /\ UNCHANGED <<rnd, phase, cursor, alive, committed, lastGuarded, saveUsed, poisonUsed,
                 tally, deaths, shooter, winner, row, spent>>

(* run() has returned, or raised.                                          *)
Finished == pc = "over" /\ UNCHANGED vars

Next ==
  \/ Setup \/ NextPhase \/ SettleNight
  \/ \E c \in Causes : SkipDeath(c) \/ CommitDeath(c)
  \/ \E p \in Players :
       \/ SeerTurn(p) \/ SpeechTurn(p) \/ WitchPass(p) \/ WitchSave(p)
       \/ \E target \in Players \cup {NoOne} :
            GuardTurn(p, target) \/ WolfTurn(p, target) \/ VoteTurn(p, target)
       \/ \E target \in Players : WitchPoison(p, target)
  \/ \E target \in Players \cup {NoOne} : WolfConsensus(target) \/ Elimination(target)
  \/ \E target \in Players : HunterShoot(target)
  \/ HunterPass \/ Win \/ Daybreak \/ ScribeTurn
  \/ NextRound \/ RoundCap \/ BudgetExhausted \/ Finished

(* The engine's thread runs on: providers answer or raise, and a human's   *)
(* window is bounded by its timeout.                                       *)
Spec == Init /\ [][Next]_vars /\ WF_vars(Next)

---------------------------------------------------------------------------
Statuses == {"running", "completed", "round_cap", "budget_exhausted", "raised"}
Failures == {"round_cap", "budget_exhausted"}

RoundRecord == [before : Players \cup {NoOne}, guard : Players \cup {NoOne},
                kill : Players \cup {NoOne}, save : Players \cup {NoOne},
                poison : Players \cup {NoOne}, voted : Players \cup {NoOne},
                shot : SUBSET Players, asked : SUBSET Players, died : SUBSET Players]

(* Every variable has its type.                                            *)
TypeOK ==
  /\ pc \in {"setup", "guard", "wolf", "seer", "witch", "deaths", "shot", "speech",
             "scribe", "vote", "dusk", "over"}
  /\ status \in Statuses
  /\ rnd \in 1..MaxDayRounds
  /\ phase \in {"night", "day"}
  /\ cursor \in Players \cup {0}
  /\ alive \subseteq Players /\ committed \subseteq Players
  /\ lastGuarded \in Players \cup {NoOne}
  /\ saveUsed \in BOOLEAN /\ poisonUsed \in BOOLEAN
  /\ tally \in [Players -> Nat]
  /\ deaths \in [Causes -> Players \cup {NoOne}]
  /\ shooter \in Players \cup {NoOne}
  /\ used \in 0..(MaxRequests + 1)
  /\ winner \in {"none", "villager", "werewolf"}
  /\ partialLog \in BOOLEAN
  /\ row \in RoundRecord
  /\ spent \in [Players \X Consumables -> Nat]

(* I1, the runtime guard: no path of settlement, vote and cascading shots  *)
(* commits a player dead twice, so assert_death_commit_once never raises.  *)
NoDoubleDeath == status # "raised"

(* No death or shot is still owed: the round's record is complete.         *)
Settled == NightOver \/ DayOver \/ pc \in {"speech", "scribe", "vote"} \/ status = "completed"

(* Rulings on double protection (I8a, I8b and their converses, I6): once   *)
(* the deaths of a round are settled, its dead are exactly the wolves'     *)
(* victim, unless one and only one of guard and witch stood by it, the     *)
(* poisoned player, the player voted out and those hunters shot.           *)
KillLands == row.kill # NoOne /\ (row.guard = row.kill <=> row.save = row.kill)
RoundOutcome ==
  Settled => row.died = (IF KillLands THEN {row.kill} ELSE {})
                        \cup ({row.poison, row.voted} \ {NoOne}) \cup row.shot

(* Ruling A-2: a hunter who died this round was asked for a shot, except   *)
(* when nothing but the poison killed it; nobody else was ever asked.      *)
OnlyPoisoned(p) == /\ p = row.poison /\ p # row.voted /\ p \notin row.shot
                   /\ ~(p = row.kill /\ KillLands)
HunterRuling ==
  Settled => row.asked = {p \in row.died \cap Hunters : ~OnlyPoisoned(p)}

(* I3: each consumable is used at most once a game by each player, and     *)
(* (ruling A-3) the witch saves herself on the first night only.           *)
ConsumedOnce ==
  /\ \A use \in DOMAIN spent : spent[use] <= 1
  /\ row.save # NoOne /\ Role[row.save] = "witch" => rnd = 1

(* I8c: the guard, fallback draws included, never protects one player on   *)
(* two consecutive nights.                                                 *)
NoConsecutiveGuard == row.guard # NoOne => row.guard # row.before

(* The game stops as soon as it is decided: after the first dawn no turn   *)
(* of a night or a day is taken on a board one team has already won.       *)
Playing == \/ pc \in {"speech", "scribe", "vote"}
           \/ rnd > 1 /\ pc \in {"guard", "wolf", "seer", "witch"}
NoTurnAfterDecision == Playing => WinCheck(alive) = "none"

(* Fail-closed: only a completed game has a winner, the one the board      *)
(* shows, and a failed one leaves no partial log and made no request       *)
(* beyond its budget.                                                      *)
FailsClosed ==
  /\ winner # "none" <=> status = "completed"
  /\ winner # "none" => winner = WinCheck(alive)
  /\ status \in Failures => ~partialLog
  /\ status # "budget_exhausted" => used <= MaxRequests

(* Every game ends, by a winner, the round cap or the budget.              *)
Termination == <>(pc = "over")

===========================================================================
