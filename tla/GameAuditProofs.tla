-------------------------- MODULE GameAuditProofs --------------------------
(***************************************************************************)
(* The game loop and the log it writes, for every board, budget and number *)
(* of rounds, and whatever the seats ever name.                            *)
(*                                                                         *)
(* First the game: types, deaths, rulings, limits and ends.  Then its log: *)
(* the invariant checker finds nothing in it, nobody sees more than he     *)
(* may, the seats shown alive follow the game and every reason is joined   *)
(* to its own event.  Last what is computed from the log of a finished     *)
(* game: the scores and metrics agree with each other, and the battle      *)
(* report with the game.                                                   *)
(***************************************************************************)
EXTENDS Projection, GameReport, TLAPS, WellFoundedInduction, FiniteSetTheorems, SequenceTheorems

(* The budget is overdrawn only by the turn that ends the game, and a shot *)
(* is only ever awaited from a player.                                     *)
Bounds == /\ pc # "over" => used <= MaxRequests
          /\ pc = "shot" => shooter \in Players
TypeInv == TypeOK /\ Bounds

LEMMA LeadersArePlayers == Leaders \subseteq Players
  BY DEF Leaders

LEMMA BallotType ==
  ASSUME TypeOK, NEW t \in Players \cup {NoOne}
  PROVE  Ballot(t) \in [Players -> Nat]
  BY DEF TypeOK, Ballot

LEMMA SettlementType ==
  ASSUME TypeOK PROVE Settlement \in [Causes -> Players \cup {NoOne}]
  BY DEF Settlement, Causes, TypeOK

LEMMA TakeTurnType ==
  ASSUME TypeInv, NEW p \in Players, TakeTurn(p), pc # "over"
  PROVE  cursor' \in Players \cup {0} /\ used' \in 0..(MaxRequests + 1)
         /\ used' <= MaxRequests
  BY BoardAssumption DEF TypeInv, TypeOK, Bounds, TakeTurn, Charge, CanAfford, Players

LEMMA InitType == Init => TypeInv
<1> SUFFICES ASSUME Init PROVE TypeInv OBVIOUS
<1>1. NoVotes \in [Players -> Nat]
  BY DEF NoVotes
<1>2. spent \in [Players \X Consumables -> Nat]
  BY DEF Init
<1>3. row \in RoundRecord
  BY DEF Init, BlankRow, RoundRecord
<1>4. deaths \in [Causes -> Players \cup {NoOne}]
  BY DEF Init, NoDeaths
<1>5. tally \in [Players -> Nat]
  BY <1>1 DEF Init
<1>6. rnd \in 1..MaxDayRounds /\ used \in 0..(MaxRequests + 1) /\ used <= MaxRequests
  BY BoardAssumption DEF Init
<1>7. QED
  BY <1>2, <1>3, <1>4, <1>5, <1>6 DEF Init, TypeInv, TypeOK, Bounds, Statuses

(* Die moves a player to the dead and the control to its trigger.          *)
LEMMA DieType ==
  ASSUME TypeInv, pc # "over", NEW p \in Players, NEW cause,
         NEW after \in {"deaths", "dusk"}, NEW r \in RoundRecord, Die(p, cause, after, r)
  PROVE  /\ pc' \in {"deaths", "dusk", "shot", "over"}
         /\ status' \in Statuses
         /\ alive' \subseteq Players /\ committed' \subseteq Players
         /\ shooter' \in Players \cup {NoOne}
         /\ pc' = "shot" => shooter' \in Players
         /\ row' \in RoundRecord
<1>1. [r EXCEPT !.died = @ \cup {p}] \in RoundRecord
  BY DEF RoundRecord
<1>2. QED
  BY <1>1 DEF Die, TypeInv, TypeOK, Statuses

LEMMA NextType == TypeInv /\ [Next]_vars => TypeInv'
<1> SUFFICES ASSUME TypeInv, [Next]_vars PROVE TypeInv' OBVIOUS
<1> USE DEF TypeInv
<1>1. CASE Setup
  BY <1>1 DEF Setup, TypeOK, Bounds
<1>2. CASE NextPhase
  BY <1>2 DEF NextPhase, Following, TypeOK, Bounds
<1>3. CASE SettleNight
  BY <1>3, SettlementType DEF SettleNight, TypeOK, Bounds
<1>4. ASSUME NEW c \in Causes, SkipDeath(c) PROVE TypeInv'
  BY <1>4 DEF SkipDeath, TypeOK, Bounds
<1>5. ASSUME NEW c \in Causes, CommitDeath(c) PROVE TypeInv'
  <2>1. deaths[c] \in Players
    BY <1>5 DEF CommitDeath, IsDue, Due, TypeOK
  <2>2. row \in RoundRecord /\ pc # "over"
    BY <1>5 DEF CommitDeath, TypeOK
  <2>3. Die(deaths[c], c, "deaths", row)
    BY <1>5 DEF CommitDeath
  <2>4. QED
    BY <1>5, <2>1, <2>2, <2>3, DieType DEF CommitDeath, TypeOK, Bounds
<1>6. ASSUME NEW p \in Players, SeerTurn(p) \/ SpeechTurn(p) \/ WitchPass(p)
      PROVE  TypeInv'
  <2>1. TakeTurn(p) /\ pc # "over"
    BY <1>6 DEF SeerTurn, SpeechTurn, WitchPass
  <2>2. QED
    BY <1>6, <2>1, TakeTurnType
    DEF SeerTurn, SpeechTurn, WitchPass, TakeTurn, TypeOK, Bounds
<1>7. ASSUME NEW p \in Players, WitchSave(p) PROVE TypeInv'
  <2>1. TakeTurn(p) /\ pc # "over"
    BY <1>7 DEF WitchSave
  <2>2. spent' \in [Players \X Consumables -> Nat]
    BY <1>7 DEF WitchSave, TypeOK, Consumables
  <2>3. row' \in RoundRecord
    BY <1>7 DEF WitchSave, TypeOK, RoundRecord
  <2>4. QED
    BY <1>7, <2>1, <2>2, <2>3, TakeTurnType DEF WitchSave, TakeTurn, TypeOK, Bounds
<1>8. ASSUME NEW p \in Players, NEW t \in Players, WitchPoison(p, t) PROVE TypeInv'
  <2>1. TakeTurn(p) /\ pc # "over"
    BY <1>8 DEF WitchPoison
  <2>2. spent' \in [Players \X Consumables -> Nat]
    BY <1>8 DEF WitchPoison, TypeOK, Consumables
  <2>3. row' \in RoundRecord
    BY <1>8 DEF WitchPoison, TypeOK, RoundRecord
  <2>4. QED
    BY <1>8, <2>1, <2>2, <2>3, TakeTurnType DEF WitchPoison, TakeTurn, TypeOK, Bounds
<1>9. ASSUME NEW p \in Players, NEW t \in Players \cup {NoOne}, GuardTurn(p, t)
      PROVE  TypeInv'
  <2>1. TakeTurn(p) /\ pc # "over"
    BY <1>9 DEF GuardTurn
  <2>2. row' \in RoundRecord
    BY <1>9 DEF GuardTurn, TypeOK, RoundRecord
  <2>3. QED
    BY <1>9, <2>1, <2>2, TakeTurnType DEF GuardTurn, TakeTurn, TypeOK, Bounds
<1>10. ASSUME NEW p \in Players, NEW t \in Players \cup {NoOne},
              WolfTurn(p, t) \/ VoteTurn(p, t)
       PROVE  TypeInv'
  <2>1. TakeTurn(p) /\ pc # "over"
    BY <1>10 DEF WolfTurn, VoteTurn
  <2>2. tally' \in [Players -> Nat]
    BY <1>10, BallotType DEF WolfTurn, VoteTurn
  <2>3. QED
    BY <1>10, <2>1, <2>2, TakeTurnType DEF WolfTurn, VoteTurn, TakeTurn, TypeOK, Bounds
<1>11. ASSUME NEW t \in Players \cup {NoOne}, WolfConsensus(t) PROVE TypeInv'
  <2>1. row' \in RoundRecord
    BY <1>11 DEF WolfConsensus, TypeOK, RoundRecord
  <2>2. tally' \in [Players -> Nat]
    BY <1>11 DEF WolfConsensus, NoVotes
  <2>3. QED
    BY <1>11, <2>1, <2>2 DEF WolfConsensus, TypeOK, Bounds
<1>12. ASSUME NEW t \in Players \cup {NoOne}, Elimination(t) PROVE TypeInv'
  <2>1. tally' \in [Players -> Nat]
    BY <1>12 DEF Elimination, NoVotes
  <2>2. CASE t = NoOne
    BY <1>12, <2>1, <2>2 DEF Elimination, TypeOK, Bounds
  <2>3. CASE t # NoOne
    <3> DEFINE r == [row EXCEPT !.voted = t]
    <3>1. r \in RoundRecord
      BY DEF TypeOK, RoundRecord
    <3>2. t \in Players /\ pc # "over" /\ Die(t, "vote", "dusk", r)
      BY <1>12, <2>3 DEF Elimination
    <3> HIDE DEF r
    <3>3. QED
      BY <1>12, <2>1, <2>3, <3>1, <3>2, DieType DEF Elimination, TypeOK, Bounds
  <2>4. QED
    BY <2>2, <2>3
<1>13. ASSUME NEW t \in Players, HunterShoot(t) PROVE TypeInv'
  <2> DEFINE r == [row EXCEPT !.asked = @ \cup {shooter}, !.shot = @ \cup {t}]
  <2>1. shooter \in Players
    BY <1>13 DEF HunterShoot, Bounds
  <2>2. r \in RoundRecord
    BY <2>1 DEF TypeOK, RoundRecord
  <2>3. pc # "over" /\ AfterDeaths \in {"deaths", "dusk"}
    BY <1>13 DEF HunterShoot, AfterDeaths
  <2>4. Die(t, "hunter_shoot", AfterDeaths, r)
    BY <1>13 DEF HunterShoot
  <2>5. spent' \in [Players \X Consumables -> Nat]
    BY <1>13, <2>1 DEF HunterShoot, TypeOK, Consumables
  <2>6. used' \in 0..(MaxRequests + 1) /\ used' <= MaxRequests
    BY <1>13, BoardAssumption DEF HunterShoot, Charge, CanAfford, TypeOK, Bounds
  <2> HIDE DEF r
  <2>7. QED
    BY <1>13, <2>2, <2>3, <2>4, <2>5, <2>6, DieType DEF HunterShoot, TypeOK, Bounds
<1>14. CASE HunterPass
  <2>1. row' \in RoundRecord
    BY <1>14 DEF HunterPass, TypeOK, Bounds, RoundRecord
  <2>2. used' \in 0..(MaxRequests + 1) /\ used' <= MaxRequests
    BY <1>14, BoardAssumption DEF HunterPass, Charge, CanAfford, TypeOK, Bounds
  <2>3. QED
    BY <1>14, <2>1, <2>2 DEF HunterPass, AfterDeaths, TypeOK, Bounds
<1>15. CASE Win
  BY <1>15 DEF Win, WinCheck, NightOver, DayOver, Statuses, TypeOK, Bounds
<1>16. CASE Daybreak
  BY <1>16 DEF Daybreak, NightOver, TypeOK, Bounds
<1>17. CASE ScribeTurn
  BY <1>17, BoardAssumption DEF ScribeTurn, TypeOK, Bounds
<1>18. CASE NextRound
  <2>1. row' \in RoundRecord
    BY <1>18 DEF NextRound, BlankRow, TypeOK, RoundRecord, NoOne
  <2>2. QED
    BY <1>18, <2>1, BoardAssumption DEF NextRound, DayOver, TypeOK, Bounds
<1>19. CASE RoundCap
  BY <1>19 DEF RoundCap, FailClosed, DayOver, Statuses, TypeOK, Bounds
<1>20. CASE BudgetExhausted
  <2>1. pc # "over"
    BY <1>20 DEF BudgetExhausted, Refused, Turn, Pending, PhaseActors
  <2>2. used' \in 0..(MaxRequests + 1)
    BY <1>20, <2>1, BoardAssumption DEF BudgetExhausted, TypeOK, Bounds
  <2>3. QED
    BY <1>20, <2>2 DEF BudgetExhausted, FailClosed, Statuses, TypeOK, Bounds
<1>21. CASE UNCHANGED vars
  BY <1>21 DEF vars, TypeOK, Bounds
<1>22. QED
  BY <1>1, <1>2, <1>3, <1>4, <1>5, <1>6, <1>7, <1>8, <1>9, <1>10, <1>11, <1>12, <1>13,
     <1>14, <1>15, <1>16, <1>17, <1>18, <1>19, <1>20, <1>21 DEF Next, Finished

(* Every reachable state of every board is well typed.                     *)
THEOREM TypeCorrect == Spec => []TypeOK
<1>1. TypeInv => TypeOK
  BY DEF TypeInv
<1>2. QED
  BY <1>1, InitType, NextType, PTL DEF Spec

---------------------------------------------------------------------------
(* Nobody dies twice.  A player who can still be killed is alive: the      *)
(* settled deaths are gated, shots are aimed at the living, and so are the *)
(* votes, which are all counted before anybody dies again.                 *)
DeathInv ==
  /\ status # "raised"
  /\ committed \cap alive = {}
  /\ \A p \in Players : tally[p] > 0 => p \in alive /\ pc \in {"wolf", "vote", "over"}

LEMMA DieOnce ==
  ASSUME TypeInv, DeathInv, NEW p \in Players, p \in alive, NEW cause, NEW after, NEW r,
         Die(p, cause, after, r)
  PROVE  /\ status' # "raised"
         /\ committed' \cap alive' = {}
  BY DEF Die, DeathInv, TypeInv, TypeOK

LEMMA NextDeath == TypeInv /\ DeathInv /\ [Next]_vars => DeathInv'
<1> SUFFICES ASSUME TypeInv, DeathInv, [Next]_vars PROVE DeathInv' OBVIOUS
<1>1. ASSUME NEW p \in Players, NEW t \in Players \cup {NoOne},
             WolfTurn(p, t) \/ VoteTurn(p, t)
      PROVE  DeathInv'
  <2>1. t \in alive \cup {NoOne}
    BY <1>1 DEF WolfTurn, VoteTurn, WolfTargets, OrNoOne
  <2>2. \A q \in Players : tally'[q] > 0 => q \in alive
    BY <1>1, <2>1 DEF WolfTurn, VoteTurn, Ballot, DeathInv, TypeInv, TypeOK
  <2>3. QED
    BY <1>1, <2>2 DEF WolfTurn, VoteTurn, TakeTurn, DeathInv
<1>2. ASSUME NEW t \in Players \cup {NoOne}, WolfConsensus(t) PROVE DeathInv'
  BY <1>2 DEF WolfConsensus, NoVotes, DeathInv
<1>3. ASSUME NEW t \in Players \cup {NoOne}, Elimination(t) PROVE DeathInv'
  <2>1. \A q \in Players : tally'[q] = 0
    BY <1>3 DEF Elimination, NoVotes
  <2>2. CASE t = NoOne
    BY <1>3, <2>1, <2>2 DEF Elimination, DeathInv
  <2>3. CASE t # NoOne
    <3>1. t \in Players
      BY <2>3
    <3>2. t \in alive
      BY <1>3, <2>3 DEF Elimination, OrNoOne, Leaders, DeathInv
    <3>3. Die(t, "vote", "dusk", [row EXCEPT !.voted = t])
      BY <1>3, <2>3 DEF Elimination
    <3>4. QED
      BY <2>1, <3>1, <3>2, <3>3, DieOnce DEF DeathInv
  <2>4. QED
    BY <2>2, <2>3
<1>4. ASSUME NEW c \in Causes, CommitDeath(c) PROVE DeathInv'
  <2>1. deaths[c] \in alive /\ deaths[c] \in Players
    BY <1>4 DEF CommitDeath, Overtaken, TypeInv, TypeOK
  <2>2. Die(deaths[c], c, "deaths", row)
    BY <1>4 DEF CommitDeath
  <2>3. \A q \in Players : ~(tally'[q] > 0)
    BY <1>4 DEF CommitDeath, DeathInv
  <2>4. QED
    BY <2>1, <2>2, <2>3, DieOnce DEF DeathInv
<1>5. ASSUME NEW t \in Players, HunterShoot(t) PROVE DeathInv'
  <2>1. t \in alive
    BY <1>5 DEF HunterShoot, ShotTargets
  <2>2. PICK r : Die(t, "hunter_shoot", AfterDeaths, r)
    BY <1>5 DEF HunterShoot
  <2>3. \A q \in Players : ~(tally'[q] > 0)
    BY <1>5 DEF HunterShoot, DeathInv
  <2>4. QED
    BY <2>1, <2>2, <2>3, DieOnce DEF DeathInv
<1>6. CASE BudgetExhausted \/ RoundCap \/ Win
  BY <1>6 DEF BudgetExhausted, RoundCap, FailClosed, Win, DeathInv
<1>7. CASE Setup \/ NextPhase \/ SettleNight \/ Daybreak \/ NextRound \/ ScribeTurn
           \/ HunterPass \/ UNCHANGED vars
  BY <1>7 DEF Setup, NextPhase, SettleNight, Daybreak, NextRound, ScribeTurn, HunterPass,
              NightOver, DayOver, AfterDeaths, DeathInv, vars
<1>8. ASSUME NEW c \in Causes, SkipDeath(c) PROVE DeathInv'
  BY <1>8 DEF SkipDeath, DeathInv
<1>9. ASSUME NEW p \in Players, SeerTurn(p) \/ SpeechTurn(p) \/ WitchPass(p) \/ WitchSave(p)
      PROVE  DeathInv'
  BY <1>9 DEF SeerTurn, SpeechTurn, WitchPass, WitchSave, TakeTurn, DeathInv
<1>10. ASSUME NEW p \in Players, NEW t \in Players, WitchPoison(p, t) PROVE DeathInv'
  BY <1>10 DEF WitchPoison, TakeTurn, DeathInv
<1>11. ASSUME NEW p \in Players, NEW t \in Players \cup {NoOne}, GuardTurn(p, t)
       PROVE  DeathInv'
  BY <1>11 DEF GuardTurn, TakeTurn, DeathInv
<1>12. QED
  BY <1>1, <1>2, <1>3, <1>4, <1>5, <1>6, <1>7, <1>8, <1>9, <1>10, <1>11
  DEF Next, Finished

(* assert_death_commit_once never raises: settlement, vote and cascading   *)
(* shots never commit a player dead twice, on any board.                   *)
THEOREM NoDoubleDeathHolds == Spec => []NoDoubleDeath
<1>1. Init => DeathInv
  BY DEF Init, NoVotes, DeathInv
<1>2. DeathInv => NoDoubleDeath
  BY DEF DeathInv, NoDoubleDeath
<1>3. QED
  BY <1>1, <1>2, InitType, NextType, NextDeath, PTL DEF Spec

---------------------------------------------------------------------------
(* The game stops once it is decided.  What is carried from the dawn, or   *)
(* from the round before, is that nobody dies between two win checks but   *)
(* in the settlement and in the vote.                                      *)
DecisionInv ==
  /\ pc = "setup" => rnd = 1
  /\ Playing => WinCheck(alive) = "none"

LEMMA DieEndsPlay ==
  ASSUME NEW p, NEW cause, NEW after \in {"deaths", "dusk"}, NEW r, Die(p, cause, after, r)
  PROVE  pc' \in {"deaths", "dusk", "shot", "over"}
  BY DEF Die

LEMMA NextDecision == TypeInv /\ DecisionInv /\ [Next]_vars => DecisionInv'
<1> SUFFICES ASSUME TypeInv, DecisionInv, [Next]_vars PROVE DecisionInv' OBVIOUS
<1>1. CASE NextRound
  <2>1. rnd' > 1 /\ WinCheck(alive') = "none"
    BY <1>1 DEF NextRound, TypeInv, TypeOK
  <2>2. pc' = "guard"
    BY <1>1 DEF NextRound
  <2>3. QED
    BY <2>1, <2>2 DEF DecisionInv, Playing, WinCheck
<1>2. CASE Daybreak
  BY <1>2 DEF Daybreak, DecisionInv, Playing, WinCheck
<1>3. CASE Setup \/ NextPhase \/ ScribeTurn
  <2>1. alive' = alive /\ rnd' = rnd /\ (Playing' => Playing \/ pc = "setup")
    BY <1>3 DEF Setup, NextPhase, ScribeTurn, Following, Playing
  <2>2. pc' # "setup"
    BY <1>3 DEF Setup, NextPhase, ScribeTurn, Following
  <2>3. CASE pc = "setup"
    BY <2>1, <2>2, <2>3, <1>3 DEF DecisionInv, Playing, Setup, NextPhase, ScribeTurn
  <2>4. CASE pc # "setup"
    BY <2>1, <2>2, <2>4 DEF DecisionInv, WinCheck
  <2>5. QED
    BY <2>3, <2>4
<1>4. ASSUME NEW t \in Players \cup {NoOne}, WolfConsensus(t) PROVE DecisionInv'
  <2>1. alive' = alive /\ rnd' = rnd /\ pc' # "setup" /\ (Playing' => Playing)
    BY <1>4 DEF WolfConsensus, Playing
  <2>2. QED
    BY <2>1 DEF DecisionInv, WinCheck
<1>5. ASSUME NEW p \in Players, TakeTurn(p), UNCHANGED alive PROVE DecisionInv'
  BY <1>5 DEF TakeTurn, DecisionInv, Playing, WinCheck
<1>6. ASSUME pc' \in {"deaths", "shot", "dusk", "over"} PROVE DecisionInv'
  BY <1>6 DEF DecisionInv, Playing
<1>7. CASE SettleNight \/ HunterPass \/ Win \/ RoundCap \/ BudgetExhausted
           \/ \E c \in Causes : SkipDeath(c)
  <2>1. pc' \in {"deaths", "shot", "dusk", "over"}
    BY <1>7 DEF SettleNight, HunterPass, AfterDeaths, Win, RoundCap, BudgetExhausted,
                FailClosed, SkipDeath
  <2>2. QED
    BY <2>1, <1>6
<1>8. ASSUME NEW c \in Causes, CommitDeath(c) PROVE DecisionInv'
  <2>1. Die(deaths[c], c, "deaths", row)
    BY <1>8 DEF CommitDeath
  <2>2. QED
    BY <2>1, <1>6, DieEndsPlay
<1>9. ASSUME NEW t \in Players, HunterShoot(t) PROVE DecisionInv'
  <2>1. PICK r : Die(t, "hunter_shoot", AfterDeaths, r)
    BY <1>9 DEF HunterShoot
  <2>2. AfterDeaths \in {"deaths", "dusk"}
    BY DEF AfterDeaths
  <2>3. QED
    BY <2>1, <2>2, <1>6, DieEndsPlay
<1>10. ASSUME NEW t \in Players \cup {NoOne}, Elimination(t) PROVE DecisionInv'
  <2>1. CASE t = NoOne
    BY <1>10, <2>1, <1>6 DEF Elimination
  <2>2. CASE t # NoOne
    <3>1. PICK r : Die(t, "vote", "dusk", r)
      BY <1>10, <2>2 DEF Elimination
    <3>2. QED
      BY <3>1, <1>6, DieEndsPlay
  <2>3. QED
    BY <2>1, <2>2
<1>11. CASE UNCHANGED vars
  BY <1>11 DEF vars, DecisionInv, Playing, WinCheck
<1>12. CASE \E p \in Players :
              \/ SeerTurn(p) \/ SpeechTurn(p) \/ WitchPass(p) \/ WitchSave(p)
              \/ \E t \in Players \cup {NoOne} :
                   GuardTurn(p, t) \/ WolfTurn(p, t) \/ VoteTurn(p, t)
              \/ \E t \in Players : WitchPoison(p, t)
  BY <1>12, <1>5 DEF SeerTurn, SpeechTurn, WitchPass, WitchSave, GuardTurn, WolfTurn,
                     VoteTurn, WitchPoison
<1>13. QED
  BY <1>1, <1>2, <1>3, <1>4, <1>7, <1>8, <1>9, <1>10, <1>11, <1>12 DEF Next, Finished

(* After the first dawn nobody is asked for a turn in a game that is       *)
(* decided, on any board: the two win checks of the loop are enough.       *)
THEOREM NoTurnAfterDecisionHolds == Spec => []NoTurnAfterDecision
<1>1. Init => DecisionInv
  BY DEF Init, DecisionInv, Playing
<1>2. DecisionInv => NoTurnAfterDecision
  BY DEF DecisionInv, NoTurnAfterDecision
<1>3. QED
  BY <1>1, <1>2, InitType, NextType, NextDecision, PTL DEF Spec

---------------------------------------------------------------------------
(* Fail-closed.  A game is running exactly until the loop is left, so each *)
(* status is set once, together with what belongs to it.                   *)
EndInv ==
  /\ status = "running" <=> pc # "over"
  /\ winner # "none" <=> status = "completed"
  /\ winner # "none" => winner = WinCheck(alive)
  /\ status \in Failures => ~partialLog
  /\ status # "budget_exhausted" => used <= MaxRequests

LEMMA DieEnd ==
  ASSUME TypeInv, EndInv, pc # "over", NEW p, NEW cause, NEW after \in {"deaths", "dusk"},
         NEW r, Die(p, cause, after, r), used' <= MaxRequests, UNCHANGED <<winner, partialLog>>
  PROVE  EndInv'
  BY DEF Die, EndInv, Failures

LEMMA NextEnd == TypeInv /\ EndInv /\ [Next]_vars => EndInv'
<1> SUFFICES ASSUME TypeInv, EndInv, [Next]_vars PROVE EndInv' OBVIOUS
<1>1. pc # "over" => used <= MaxRequests
  BY DEF TypeInv, Bounds
<1>2. ASSUME pc # "over", pc' # "over", used' <= MaxRequests, UNCHANGED <<status, winner>>
      PROVE  EndInv'
  BY <1>2 DEF EndInv, Failures
<1>3. ASSUME NEW p \in Players, TakeTurn(p), pc # "over" PROVE EndInv'
  <2>1. used' <= MaxRequests
    BY <1>3, TakeTurnType
  <2>2. QED
    BY <2>1, <1>2, <1>3 DEF TakeTurn
<1>4. CASE \E p \in Players :
             \/ SeerTurn(p) \/ SpeechTurn(p) \/ WitchPass(p) \/ WitchSave(p)
             \/ \E t \in Players \cup {NoOne} :
                  GuardTurn(p, t) \/ WolfTurn(p, t) \/ VoteTurn(p, t)
             \/ \E t \in Players : WitchPoison(p, t)
  BY <1>4, <1>3 DEF SeerTurn, SpeechTurn, WitchPass, WitchSave, GuardTurn, WolfTurn,
                    VoteTurn, WitchPoison
<1>5. CASE Setup \/ NextPhase \/ SettleNight \/ Daybreak \/ NextRound
           \/ \E c \in Causes : SkipDeath(c)
  BY <1>5, <1>1, <1>2
  DEF Setup, NextPhase, Following, SettleNight, Daybreak, NextRound, NightOver, DayOver,
      SkipDeath
<1>6. CASE ScribeTurn
  <2>1. used' <= MaxRequests
    BY <1>6, BoardAssumption DEF ScribeTurn, TypeInv, TypeOK
  <2>2. QED
    BY <2>1, <1>2, <1>6 DEF ScribeTurn
<1>7. ASSUME pc = "shot", Charge(shooter) PROVE used' <= MaxRequests
  BY <1>7, <1>1, BoardAssumption DEF Charge, CanAfford, TypeInv, TypeOK
<1>8. CASE HunterPass
  BY <1>8, <1>7, <1>2 DEF HunterPass, AfterDeaths
<1>9. ASSUME NEW t \in Players, HunterShoot(t) PROVE EndInv'
  <2>1. PICK r : Die(t, "hunter_shoot", AfterDeaths, r)
    BY <1>9 DEF HunterShoot
  <2>2. AfterDeaths \in {"deaths", "dusk"}
    BY DEF AfterDeaths
  <2>3. QED
    BY <2>1, <2>2, <1>7, <1>9, DieEnd DEF HunterShoot
<1>10. ASSUME NEW c \in Causes, CommitDeath(c) PROVE EndInv'
  <2>1. Die(deaths[c], c, "deaths", row)
    BY <1>10 DEF CommitDeath
  <2>2. pc # "over" /\ used' = used /\ UNCHANGED <<winner, partialLog>>
    BY <1>10 DEF CommitDeath
  <2>3. QED
    BY <2>1, <2>2, <1>1, DieEnd
<1>11. ASSUME NEW t \in Players \cup {NoOne}, Elimination(t) PROVE EndInv'
  <2>1. pc # "over" /\ used' = used /\ UNCHANGED <<winner, partialLog>>
    BY <1>11 DEF Elimination
  <2>2. CASE t = NoOne
    BY <1>11, <2>1, <2>2, <1>1, <1>2 DEF Elimination
  <2>3. CASE t # NoOne
    <3>1. PICK r : Die(t, "vote", "dusk", r)
      BY <1>11, <2>3 DEF Elimination
    <3>2. QED
      BY <2>1, <3>1, <1>1, DieEnd
  <2>4. QED
    BY <2>2, <2>3
<1>12. ASSUME NEW t \in Players \cup {NoOne}, WolfConsensus(t) PROVE EndInv'
  BY <1>12, <1>1, <1>2 DEF WolfConsensus
<1>13. CASE Win
  <2>1. pc # "over" /\ used' = used /\ alive' = alive
    BY <1>13 DEF Win, NightOver, DayOver
  <2>2. winner' = WinCheck(alive') /\ winner' # "none"
    BY <1>13, <2>1 DEF Win
  <2>3. status' = "completed" /\ pc' = "over"
    BY <1>13 DEF Win
  <2>4. QED
    BY <2>1, <2>2, <2>3, <1>1 DEF EndInv, Failures, WinCheck
<1>14. CASE RoundCap
  BY <1>14, <1>1 DEF RoundCap, FailClosed, DayOver, EndInv, Failures
<1>15. CASE BudgetExhausted
  <2>1. pc # "over"
    BY <1>15 DEF BudgetExhausted, Refused, Turn, Pending, PhaseActors
  <2>2. QED
    BY <1>15, <2>1 DEF BudgetExhausted, FailClosed, EndInv, Failures
<1>16. CASE UNCHANGED vars
  BY <1>16 DEF vars, EndInv, WinCheck
<1>17. QED
  BY <1>4, <1>5, <1>6, <1>8, <1>9, <1>10, <1>11, <1>12, <1>13, <1>14, <1>15, <1>16
  DEF Next, Finished

(* Only a completed game has a winner, which is the one its board shows;   *)
(* a game that fails leaves no partial log, whichever turn it fails in,    *)
(* and no turn makes a request beyond the budget.                          *)
THEOREM FailsClosedHolds == Spec => []FailsClosed
<1>1. Init => EndInv
  BY BoardAssumption DEF Init, EndInv, Failures
<1>2. EndInv => FailsClosed
  BY DEF EndInv, FailsClosed
<1>3. QED
  BY <1>1, <1>2, InitType, NextType, NextEnd, PTL DEF Spec

---------------------------------------------------------------------------
(* Consumables.  The flags of the loop remember the potions across rounds; *)
(* nothing remembers a hunter's shot but his death, so the shot is unspent *)
(* while he lives or is being asked.                                       *)
ShotsInv ==
  /\ pc = "shot" => shooter \notin alive
  /\ \A p \in Players : spent[<<p, "hunter_shoot">>] <= 1
  /\ \A p \in Players : p \in alive \/ (pc = "shot" /\ p = shooter)
                          => spent[<<p, "hunter_shoot">>] = 0
PotionsInv ==
  \A p \in Players :
    /\ spent[<<p, "witch_save">>] <= 1 /\ spent[<<p, "witch_poison">>] <= 1
    /\ saveUsed = FALSE => spent[<<p, "witch_save">>] = 0
    /\ poisonUsed = FALSE => spent[<<p, "witch_poison">>] = 0
SelfSaveInv == row.save # NoOne /\ Role[row.save] = "witch" => rnd = 1
ConsumableInv == ShotsInv /\ PotionsInv /\ SelfSaveInv

LEMMA SpendingIsCounted ==
  ASSUME TypeInv, NEW use \in Players \X Consumables,
         spent' = [spent EXCEPT ![use] = @ + 1]
  PROVE  /\ spent'[use] = spent[use] + 1
         /\ \A other \in Players \X Consumables : other # use => spent'[other] = spent[other]
  BY DEF TypeInv, TypeOK

(* A death keeps the shots right when the victim was alive.                *)
LEMMA DieShots ==
  ASSUME TypeInv, NEW p \in Players, p \in alive, NEW cause,
         NEW after \in {"deaths", "dusk"}, NEW r, Die(p, cause, after, r),
         \A q \in Players : spent'[<<q, "hunter_shoot">>] <= 1,
         \A q \in alive : spent'[<<q, "hunter_shoot">>] = 0
  PROVE  ShotsInv'
<1>1. pc' = "shot" => shooter' = p
  BY DEF Die
<1>2. p \notin alive' /\ alive' \subseteq alive
  BY DEF Die
<1>3. QED
  BY <1>1, <1>2 DEF ShotsInv

(* The record of a round keeps its save through a death.                   *)
LEMMA DieSave ==
  ASSUME NEW p, NEW cause, NEW after, NEW r \in RoundRecord, Die(p, cause, after, r)
  PROVE  row'.save = r.save
  BY DEF Die, RoundRecord

LEMMA NextConsumable == TypeInv /\ DeathInv /\ ConsumableInv /\ [Next]_vars => ConsumableInv'
<1> SUFFICES ASSUME TypeInv, DeathInv, ConsumableInv, [Next]_vars PROVE ConsumableInv' OBVIOUS
<1> USE DEF ConsumableInv
<1>1. ASSUME pc # "shot" \/ pc' # "shot", pc' # "shot", UNCHANGED <<alive, spent>>
      PROVE  ShotsInv'
  BY <1>1 DEF ShotsInv
<1>2. ASSUME UNCHANGED <<saveUsed, poisonUsed, spent>> PROVE PotionsInv'
  BY <1>2 DEF PotionsInv
<1>3. ASSUME row'.save = row.save, rnd' = rnd PROVE SelfSaveInv'
  BY <1>3 DEF SelfSaveInv
<1>4. CASE Setup \/ NextPhase \/ SettleNight \/ Win \/ Daybreak \/ ScribeTurn \/ RoundCap
           \/ BudgetExhausted \/ \E c \in Causes : SkipDeath(c)
  BY <1>4, <1>1, <1>2, <1>3
  DEF Setup, NextPhase, Following, SettleNight, Win, Daybreak, ScribeTurn, RoundCap,
      BudgetExhausted, FailClosed, SkipDeath
<1>5. ASSUME NEW p \in Players, TakeTurn(p), pc # "shot", UNCHANGED <<alive, spent>>,
             UNCHANGED <<saveUsed, poisonUsed>>, row'.save = row.save
      PROVE  ConsumableInv'
  BY <1>5, <1>1, <1>2, <1>3 DEF TakeTurn
<1>6. ASSUME NEW p \in Players, NEW t \in Players \cup {NoOne},
             \/ SeerTurn(p) \/ SpeechTurn(p) \/ WitchPass(p) \/ GuardTurn(p, t)
             \/ WolfTurn(p, t) \/ VoteTurn(p, t)
      PROVE  ConsumableInv'
  <2>1. row'.save = row.save
    BY <1>6 DEF SeerTurn, SpeechTurn, WitchPass, GuardTurn, WolfTurn, VoteTurn,
                TypeInv, TypeOK, RoundRecord
  <2>2. QED
    BY <1>6, <2>1, <1>5
    DEF SeerTurn, SpeechTurn, WitchPass, GuardTurn, WolfTurn, VoteTurn
<1>7. ASSUME NEW p \in Players, WitchSave(p) PROVE ConsumableInv'
  <2>1. <<p, "witch_save">> \in Players \X Consumables
    BY DEF Consumables
  <2>2. spent' = [spent EXCEPT ![<<p, "witch_save">>] = @ + 1]
    BY <1>7 DEF WitchSave
  <2>3. /\ spent'[<<p, "witch_save">>] = spent[<<p, "witch_save">>] + 1
        /\ \A q \in Players : q # p => spent'[<<q, "witch_save">>] = spent[<<q, "witch_save">>]
        /\ \A q \in Players : /\ spent'[<<q, "witch_poison">>] = spent[<<q, "witch_poison">>]
                              /\ spent'[<<q, "hunter_shoot">>] = spent[<<q, "hunter_shoot">>]
    BY <2>1, <2>2, SpendingIsCounted DEF Consumables
  <2>4. ~saveUsed /\ saveUsed' = TRUE /\ poisonUsed' = poisonUsed /\ pc # "shot"
        /\ pc' = pc /\ alive' = alive /\ rnd' = rnd
    BY <1>7 DEF WitchSave, MaySave, TakeTurn
  <2>5. saveUsed = FALSE
    BY <2>4 DEF TypeInv, TypeOK
  <2>6. \A q \in Players : spent[<<q, "witch_save">>] = 0
    BY <2>5 DEF PotionsInv
  <2>7. PotionsInv'
    <3>1. spent'[<<p, "witch_save">>] = 1
      BY <2>3, <2>6
    <3>2. ASSUME NEW q \in Players PROVE spent'[<<q, "witch_save">>] <= 1
      <4>1. CASE q = p
        BY <3>1, <4>1
      <4>2. CASE q # p
        <5>1. spent'[<<q, "witch_save">>] = 0
          BY <2>3, <2>6, <4>2
        <5>2. QED
          BY <5>1
      <4>3. QED
        BY <4>1, <4>2
    <3>3. QED
      BY <2>3, <2>4, <3>2 DEF PotionsInv
  <2>8. ShotsInv'
    BY <2>3, <2>4 DEF ShotsInv
  <2>9. row'.save = row.kill
    BY <1>7 DEF WitchSave, TypeInv, TypeOK, RoundRecord
  <2>10. p \in Players /\ Role[p] = "witch"
    BY <1>7 DEF WitchSave, TakeTurn, Turn, Pending, PhaseActors, AliveWith
  <2>11. row.kill \in Players /\ ~(row.kill = p /\ rnd # 1)
    BY <1>7 DEF WitchSave, MaySave, TypeInv, TypeOK, RoundRecord
  <2>12. Role[row.kill] = "witch" => row.kill = p
    BY <2>10, <2>11, BoardAssumption DEF Players
  <2>13. SelfSaveInv'
    BY <2>4, <2>9, <2>11, <2>12 DEF SelfSaveInv
  <2>14. QED
    BY <2>7, <2>8, <2>13
<1>8. ASSUME NEW p \in Players, NEW t \in Players, WitchPoison(p, t) PROVE ConsumableInv'
  <2>1. <<p, "witch_poison">> \in Players \X Consumables
    BY DEF Consumables
  <2>2. spent' = [spent EXCEPT ![<<p, "witch_poison">>] = @ + 1]
    BY <1>8 DEF WitchPoison
  <2>3. /\ spent'[<<p, "witch_poison">>] = spent[<<p, "witch_poison">>] + 1
        /\ \A q \in Players :
             q # p => spent'[<<q, "witch_poison">>] = spent[<<q, "witch_poison">>]
        /\ \A q \in Players : /\ spent'[<<q, "witch_save">>] = spent[<<q, "witch_save">>]
                              /\ spent'[<<q, "hunter_shoot">>] = spent[<<q, "hunter_shoot">>]
    BY <2>1, <2>2, SpendingIsCounted DEF Consumables
  <2>4. ~poisonUsed /\ poisonUsed' = TRUE /\ saveUsed' = saveUsed /\ pc # "shot"
        /\ pc' = pc /\ alive' = alive /\ rnd' = rnd
    BY <1>8 DEF WitchPoison, PoisonTargets, TakeTurn
  <2>5. poisonUsed = FALSE
    BY <2>4 DEF TypeInv, TypeOK
  <2>6. \A q \in Players : spent[<<q, "witch_poison">>] = 0
    BY <2>5 DEF PotionsInv
  <2>7. PotionsInv'
    <3>1. spent'[<<p, "witch_poison">>] = 1
      BY <2>3, <2>6
    <3>2. ASSUME NEW q \in Players PROVE spent'[<<q, "witch_poison">>] <= 1
      <4>1. CASE q = p
        BY <3>1, <4>1
      <4>2. CASE q # p
        <5>1. spent'[<<q, "witch_poison">>] = 0
          BY <2>3, <2>6, <4>2
        <5>2. QED
          BY <5>1
      <4>3. QED
        BY <4>1, <4>2
    <3>3. QED
      BY <2>3, <2>4, <3>2 DEF PotionsInv
  <2>8. ShotsInv'
    BY <2>3, <2>4 DEF ShotsInv
  <2>9. row'.save = row.save
    BY <1>8 DEF WitchPoison, TypeInv, TypeOK, RoundRecord
  <2>10. QED
    BY <2>4, <2>7, <2>8, <2>9, <1>3
<1>9. ASSUME NEW t \in Players \cup {NoOne}, WolfConsensus(t) PROVE ConsumableInv'
  <2>1. row'.save = row.save
    BY <1>9 DEF WolfConsensus, TypeInv, TypeOK, RoundRecord
  <2>2. QED
    BY <1>9, <2>1, <1>1, <1>2, <1>3 DEF WolfConsensus
<1>10. CASE NextRound
  <2>1. row'.save = NoOne
    BY <1>10 DEF NextRound, BlankRow
  <2>2. QED
    BY <1>10, <2>1, <1>1, <1>2 DEF NextRound, SelfSaveInv
<1>11. CASE HunterPass
  <2>1. row'.save = row.save
    BY <1>11 DEF HunterPass, TypeInv, TypeOK, RoundRecord
  <2>2. pc' # "shot"
    BY <1>11 DEF HunterPass, AfterDeaths
  <2>3. QED
    BY <1>11, <2>1, <2>2, <1>1, <1>2, <1>3 DEF HunterPass
<1>12. ASSUME NEW c \in Causes, CommitDeath(c) PROVE ConsumableInv'
  <2>1. deaths[c] \in alive /\ deaths[c] \in Players
    BY <1>12 DEF CommitDeath, Overtaken, TypeInv, TypeOK
  <2>2. Die(deaths[c], c, "deaths", row) /\ row \in RoundRecord
    BY <1>12 DEF CommitDeath, TypeInv, TypeOK
  <2>3. spent' = spent /\ saveUsed' = saveUsed /\ poisonUsed' = poisonUsed /\ rnd' = rnd
    BY <1>12 DEF CommitDeath
  <2>4. alive \subseteq Players
    BY DEF TypeInv, TypeOK
  <2>5. ShotsInv'
    BY <2>1, <2>2, <2>3, <2>4, DieShots DEF ShotsInv
  <2>6. QED
    BY <2>2, <2>3, <2>5, <1>2, <1>3, DieSave
<1>13. ASSUME NEW t \in Players \cup {NoOne}, Elimination(t) PROVE ConsumableInv'
  <2>1. spent' = spent /\ saveUsed' = saveUsed /\ poisonUsed' = poisonUsed /\ rnd' = rnd
    BY <1>13 DEF Elimination
  <2>2. CASE t = NoOne
    BY <1>13, <2>1, <2>2, <1>1, <1>2, <1>3 DEF Elimination
  <2>3. CASE t # NoOne
    <3> DEFINE r == [row EXCEPT !.voted = t]
    <3>1. r \in RoundRecord /\ r.save = row.save
      BY DEF TypeInv, TypeOK, RoundRecord
    <3>2. Die(t, "vote", "dusk", r)
      BY <1>13, <2>3 DEF Elimination
    <3>3. t \in alive /\ t \in Players /\ alive \subseteq Players
      BY <1>13, <2>3 DEF Elimination, OrNoOne, Leaders, DeathInv, TypeInv, TypeOK
    <3> HIDE DEF r
    <3>4. ShotsInv'
      BY <2>1, <3>2, <3>3, DieShots DEF ShotsInv
    <3>5. QED
      BY <2>1, <3>1, <3>2, <3>4, <1>2, <1>3, DieSave
  <2>4. QED
    BY <2>2, <2>3
<1>14. ASSUME NEW t \in Players, HunterShoot(t) PROVE ConsumableInv'
  <2> DEFINE r == [row EXCEPT !.asked = @ \cup {shooter}, !.shot = @ \cup {t}]
  <2>1. shooter \in Players /\ shooter \notin alive /\ pc = "shot"
    BY <1>14 DEF HunterShoot, TypeInv, Bounds, ShotsInv
  <2>2. r \in RoundRecord /\ r.save = row.save
    BY <2>1 DEF TypeInv, TypeOK, RoundRecord
  <2>3. Die(t, "hunter_shoot", AfterDeaths, r)
    BY <1>14 DEF HunterShoot
  <2>4. t \in alive /\ AfterDeaths \in {"deaths", "dusk"}
    BY <1>14 DEF HunterShoot, ShotTargets, AfterDeaths
  <2> HIDE DEF r
  <2>5. <<shooter, "hunter_shoot">> \in Players \X Consumables
    BY <2>1 DEF Consumables
  <2>6. spent' = [spent EXCEPT ![<<shooter, "hunter_shoot">>] = @ + 1]
    BY <1>14 DEF HunterShoot
  <2>7. /\ spent'[<<shooter, "hunter_shoot">>] = spent[<<shooter, "hunter_shoot">>] + 1
        /\ \A q \in Players :
             q # shooter => spent'[<<q, "hunter_shoot">>] = spent[<<q, "hunter_shoot">>]
        /\ \A q \in Players : /\ spent'[<<q, "witch_save">>] = spent[<<q, "witch_save">>]
                              /\ spent'[<<q, "witch_poison">>] = spent[<<q, "witch_poison">>]
    BY <2>5, <2>6, SpendingIsCounted DEF Consumables
  <2>8. spent[<<shooter, "hunter_shoot">>] = 0
    BY <2>1 DEF ShotsInv
  <2>9. /\ \A q \in Players : spent'[<<q, "hunter_shoot">>] <= 1
        /\ \A q \in alive : spent'[<<q, "hunter_shoot">>] = 0
    <3>1. spent'[<<shooter, "hunter_shoot">>] = 1
      BY <2>7, <2>8
    <3>2. alive \subseteq Players
      BY DEF TypeInv, TypeOK
    <3>3. QED
      BY <2>1, <2>7, <3>1, <3>2 DEF ShotsInv
  <2>10. ShotsInv'
    BY <2>3, <2>4, <2>9, DieShots
  <2>11. saveUsed' = saveUsed /\ poisonUsed' = poisonUsed /\ rnd' = rnd
    BY <1>14 DEF HunterShoot
  <2>12. PotionsInv'
    BY <2>7, <2>11 DEF PotionsInv
  <2>13. QED
    BY <2>2, <2>3, <2>10, <2>11, <2>12, <1>3, DieSave
<1>15. CASE UNCHANGED vars
  BY <1>15 DEF vars, ShotsInv, PotionsInv, SelfSaveInv
<1>16. QED
  BY <1>4, <1>6, <1>7, <1>8, <1>9, <1>10, <1>11, <1>12, <1>13, <1>14, <1>15
  DEF Next, Finished

(* Each potion and each hunter's shot is used at most once a game, and the *)
(* witch saves herself on the first night only.                            *)
THEOREM ConsumedOnceHolds == Spec => []ConsumedOnce
<1>1. Init => DeathInv /\ ConsumableInv
  BY DEF Init, NoVotes, DeathInv, BlankRow, Consumables, ConsumableInv, ShotsInv, PotionsInv,
         SelfSaveInv
<1>2. TypeInv /\ ConsumableInv => ConsumedOnce
  <2> SUFFICES ASSUME TypeInv, ConsumableInv PROVE ConsumedOnce OBVIOUS
  <2>1. DOMAIN spent = Players \X Consumables
    BY DEF TypeInv, TypeOK
  <2>2. \A p \in Players : \A c \in Consumables : spent[<<p, c>>] <= 1
    BY DEF ConsumableInv, ShotsInv, PotionsInv, Consumables, TypeInv, TypeOK
  <2>3. \A use \in DOMAIN spent : spent[use] <= 1
    BY <2>1, <2>2
  <2>4. QED
    BY <2>3 DEF ConsumedOnce, ConsumableInv, SelfSaveInv
<1>3. QED
  BY <1>1, <1>2, InitType, NextType, NextDeath, NextConsumable, PTL DEF Spec

---------------------------------------------------------------------------
(* The guard.  _last_guarded holds this round's choice once it is made and *)
(* the previous round's until then; the guard has one turn a night, so the *)
(* record is still blank when it is taken.                                 *)
GuardInv ==
  /\ row.guard # NoOne => row.guard # row.before /\ row.guard = lastGuarded
  /\ pc \in {"setup", "guard"} /\ row.guard = NoOne /\ row.before # NoOne
       => lastGuarded = row.before
  /\ pc = "setup" => row.guard = NoOne /\ row.before = NoOne
  /\ pc = "guard" /\ row.guard # NoOne
       => \A p \in Players : Role[p] = "guard" => p <= cursor

(* A death keeps what the record says of the guard.                        *)
LEMMA DieGuard ==
  ASSUME NEW p, NEW cause, NEW after, NEW r \in RoundRecord, Die(p, cause, after, r)
  PROVE  row'.guard = r.guard /\ row'.before = r.before
  BY DEF Die, RoundRecord

LEMMA NextGuard == TypeInv /\ GuardInv /\ [Next]_vars => GuardInv'
<1> SUFFICES ASSUME TypeInv, GuardInv, [Next]_vars PROVE GuardInv' OBVIOUS
<1>1. ASSUME row'.guard = row.guard, row'.before = row.before, lastGuarded' = lastGuarded,
             pc' \notin {"setup", "guard"}
      PROVE  GuardInv'
  BY <1>1 DEF GuardInv
<1>2. ASSUME NEW p \in Players, NEW t \in Players \cup {NoOne}, GuardTurn(p, t)
      PROVE  GuardInv'
  <2>1. pc = "guard" /\ pc' = pc /\ cursor' = p /\ cursor < p
    BY <1>2 DEF GuardTurn, TakeTurn, Turn, Pending, TypeInv, TypeOK, Players
  <2>2. p \in Players /\ Role[p] = "guard"
    BY <1>2, <2>1 DEF GuardTurn, TakeTurn, Turn, Pending, PhaseActors, AliveWith
  <2>3. \A q \in Players : Role[q] = "guard" => q = p
    BY <2>2, BoardAssumption DEF Players
  <2>4. row.guard = NoOne
    <3>1. ~(p <= cursor)
      BY <2>1 DEF TypeInv, TypeOK, Players
    <3>2. QED
      BY <2>1, <2>2, <3>1 DEF GuardInv
  <2>5. row'.guard = t /\ row'.before = row.before
    BY <1>2 DEF GuardTurn, TypeInv, TypeOK, RoundRecord
  <2>6. row.before # NoOne => lastGuarded = row.before
    BY <2>1, <2>4 DEF GuardInv
  <2>7. CASE t = NoOne
    BY <1>2, <2>1, <2>5, <2>6, <2>7 DEF GuardTurn, GuardInv
  <2>8. CASE t # NoOne
    <3>1. t # lastGuarded /\ lastGuarded' = t
      BY <1>2, <2>8 DEF GuardTurn, OrNoOne, GuardTargets
    <3>2. \A q \in Players : Role[q] = "guard" => q <= cursor'
      BY <2>1, <2>3 DEF Players
    <3>3. QED
      BY <2>1, <2>5, <2>6, <2>8, <3>1, <3>2 DEF GuardInv
  <2>9. QED
    BY <2>7, <2>8
<1>3. CASE Setup
  <2>1. row.guard = NoOne /\ row.before = NoOne
    BY <1>3 DEF Setup, GuardInv
  <2>2. QED
    BY <1>3, <2>1 DEF Setup, GuardInv
<1>4. CASE NextRound
  <2>1. row'.guard = NoOne /\ row'.before = row.guard /\ lastGuarded' = lastGuarded
        /\ pc' = "guard"
    BY <1>4 DEF NextRound, BlankRow
  <2>2. QED
    BY <2>1 DEF GuardInv
<1>5. CASE NextPhase \/ SettleNight \/ Win \/ Daybreak \/ ScribeTurn \/ RoundCap
           \/ BudgetExhausted \/ \E c \in Causes : SkipDeath(c)
  BY <1>5, <1>1
  DEF NextPhase, Following, SettleNight, Win, Daybreak, ScribeTurn, RoundCap,
      BudgetExhausted, FailClosed, SkipDeath
<1>6. ASSUME NEW p \in Players, NEW t \in Players \cup {NoOne},
             \/ SeerTurn(p) \/ SpeechTurn(p) \/ WitchPass(p) \/ WolfTurn(p, t)
             \/ VoteTurn(p, t)
      PROVE  GuardInv'
  BY <1>6, <1>1 DEF SeerTurn, SpeechTurn, WitchPass, WolfTurn, VoteTurn, TakeTurn
<1>7. ASSUME NEW p \in Players, NEW t \in Players, WitchSave(p) \/ WitchPoison(p, t)
      PROVE  GuardInv'
  <2>1. row'.guard = row.guard /\ row'.before = row.before
    BY <1>7 DEF WitchSave, WitchPoison, TypeInv, TypeOK, RoundRecord
  <2>2. QED
    BY <1>7, <2>1, <1>1 DEF WitchSave, WitchPoison, TakeTurn
<1>8. ASSUME NEW t \in Players \cup {NoOne}, WolfConsensus(t) PROVE GuardInv'
  <2>1. row'.guard = row.guard /\ row'.before = row.before
    BY <1>8 DEF WolfConsensus, TypeInv, TypeOK, RoundRecord
  <2>2. QED
    BY <1>8, <2>1, <1>1 DEF WolfConsensus
<1>9. CASE HunterPass
  <2>1. row'.guard = row.guard /\ row'.before = row.before
    BY <1>9 DEF HunterPass, TypeInv, TypeOK, RoundRecord
  <2>2. QED
    BY <1>9, <2>1, <1>1 DEF HunterPass, AfterDeaths
<1>10. ASSUME NEW p, NEW cause, NEW after \in {"deaths", "dusk"}, NEW r \in RoundRecord,
              Die(p, cause, after, r), r.guard = row.guard, r.before = row.before,
              lastGuarded' = lastGuarded
       PROVE  GuardInv'
  <2>1. pc' \notin {"setup", "guard"}
    BY <1>10, DieEndsPlay
  <2>2. row'.guard = row.guard /\ row'.before = row.before
    BY <1>10, DieGuard
  <2>3. QED
    BY <2>1, <2>2, <1>1, <1>10
<1>11. ASSUME NEW c \in Causes, CommitDeath(c) PROVE GuardInv'
  <2>1. Die(deaths[c], c, "deaths", row) /\ row \in RoundRecord /\ lastGuarded' = lastGuarded
    BY <1>11 DEF CommitDeath, TypeInv, TypeOK
  <2>2. QED
    BY <2>1, <1>10
<1>12. ASSUME NEW t \in Players \cup {NoOne}, Elimination(t) PROVE GuardInv'
  <2>1. CASE t = NoOne
    BY <1>12, <2>1, <1>1 DEF Elimination
  <2>2. CASE t # NoOne
    <3> DEFINE r == [row EXCEPT !.voted = t]
    <3>1. r \in RoundRecord /\ r.guard = row.guard /\ r.before = row.before
      BY DEF TypeInv, TypeOK, RoundRecord
    <3>2. Die(t, "vote", "dusk", r) /\ lastGuarded' = lastGuarded
      BY <1>12, <2>2 DEF Elimination
    <3> HIDE DEF r
    <3>3. QED
      BY <3>1, <3>2, <1>10
  <2>3. QED
    BY <2>1, <2>2
<1>13. ASSUME NEW t \in Players, HunterShoot(t) PROVE GuardInv'
  <2> DEFINE r == [row EXCEPT !.asked = @ \cup {shooter}, !.shot = @ \cup {t}]
  <2>1. shooter \in Players
    BY <1>13 DEF HunterShoot, TypeInv, Bounds
  <2>2. r \in RoundRecord /\ r.guard = row.guard /\ r.before = row.before
    BY <2>1 DEF TypeInv, TypeOK, RoundRecord
  <2>3. Die(t, "hunter_shoot", AfterDeaths, r) /\ lastGuarded' = lastGuarded
    BY <1>13 DEF HunterShoot
  <2>4. AfterDeaths \in {"deaths", "dusk"}
    BY DEF AfterDeaths
  <2> HIDE DEF r
  <2>5. QED
    BY <2>2, <2>3, <2>4, <1>10
<1>14. CASE UNCHANGED vars
  BY <1>14 DEF vars, GuardInv
<1>15. QED
  BY <1>2, <1>3, <1>4, <1>5, <1>6, <1>7, <1>8, <1>9, <1>11, <1>12, <1>13, <1>14
  DEF Next, Finished

(* The guard never protects one player on two consecutive nights, whether  *)
(* he chooses, or the loop draws for him.                                  *)
THEOREM NoConsecutiveGuardHolds == Spec => []NoConsecutiveGuard
<1>1. Init => GuardInv
  BY DEF Init, BlankRow, GuardInv
<1>2. GuardInv => NoConsecutiveGuard
  BY DEF GuardInv, NoConsecutiveGuard
<1>3. QED
  BY <1>1, <1>2, InitType, NextType, NextGuard, PTL DEF Spec

---------------------------------------------------------------------------
(* The rulings on a round's deaths.  Until the night is settled its record *)
(* names players who are alive; the settler owes the deaths that record    *)
(* calls for; from then on the round's dead and those still owed are, at   *)
(* every step, exactly the wolves' victim, the poisoned, the voted out and *)
(* the shot, and the hunters asked so far are those the ruling names.      *)
Night     == {"setup", "guard", "wolf", "seer", "witch"}
Doomed(p) == (KillLands /\ p = row.kill) \/ p = row.poison

Blank ==
  pc \in Night =>
    /\ row.voted = NoOne /\ row.shot = {} /\ row.asked = {} /\ row.died = {}
    /\ row.kill \in alive \cup {NoOne} /\ row.poison \in alive \cup {NoOne}
    /\ row.save \in {NoOne, row.kill}
    /\ pc \in {"setup", "guard", "wolf"} => row.save = NoOne
Calendar ==
  /\ pc \in {"deaths", "speech", "scribe", "vote"} => phase = "night"
  /\ pc = "dusk" => phase = "day"
  /\ phase = "night" => row.voted = NoOne
  /\ \A c \in Causes : deaths[c] # NoOne =>
       (pc \in {"deaths", "shot"} /\ phase = "night") \/ status \in Failures
Owed ==
  /\ \A c \in Causes : deaths[c] # NoOne => deaths[c] \in alive \cup row.died
  /\ deaths["werewolf_kill"] # NoOne => KillLands /\ deaths["werewolf_kill"] = row.kill
  /\ deaths["witch_poison"] # NoOne => /\ deaths["witch_poison"] = row.poison
                                       /\ ~(KillLands /\ row.poison = row.kill)
Gone == row.died \cap alive = {} /\ row.shot \cap alive = {}
Counts ==
  pc \notin Night /\ status \notin Failures =>
    \A p \in Players :
      /\ p \in row.died \/ (\E c \in Causes : deaths[c] = p)
           <=> Doomed(p) \/ p = row.voted \/ p \in row.shot
      /\ p \in row.asked \/ (pc = "shot" /\ p = shooter)
           <=> p \in row.died /\ p \in Hunters /\ ~OnlyPoisoned(p)
RulingInv == Blank /\ Calendar /\ Owed /\ Gone /\ Counts

LEMMA NotAPlayer == NoOne \notin Players
BY BoardAssumption DEF Players, NoOne

(* What the night's record says stands as long as nobody edits it.         *)
SameNight == /\ row'.guard = row.guard /\ row'.kill = row.kill
             /\ row'.save = row.save /\ row'.poison = row.poison
LEMMA SameNightKeeps ==
  ASSUME SameNight
  PROVE  (KillLands' <=> KillLands) /\ \A p : Doomed(p)' <=> Doomed(p)
BY DEF SameNight, KillLands, Doomed

(* Steps that leave record, settled deaths and the living alone.           *)
LEMMA QuietKeeps ==
  ASSUME RulingInv, UNCHANGED <<row, deaths, alive, shooter>>
  PROVE  /\ Owed' /\ Gone'
         /\ pc' = pc /\ phase' = phase /\ status' = status => RulingInv'
         /\ \/ pc \in Night /\ pc' \in Night
               /\ (pc' \in {"setup", "guard", "wolf"} => pc \in {"setup", "guard", "wolf"})
            \/ pc' \notin Night
            => Blank'
         /\ \/ status' \in Failures
            \/ pc' \in Night
            \/ pc \notin Night /\ status \notin Failures
               /\ (pc' = "shot" <=> pc = "shot")
            => Counts'
BY DEF RulingInv, Blank, Calendar, Owed, Gone, Counts, Doomed, KillLands, OnlyPoisoned

LEMMA QuietStep ==
  ASSUME TypeInv, EndInv, RulingInv,
         \/ Setup \/ NextPhase \/ Win \/ Daybreak \/ ScribeTurn \/ RoundCap \/ BudgetExhausted
         \/ \E p \in Players : \/ SeerTurn(p) \/ SpeechTurn(p) \/ WitchPass(p)
                               \/ \E t \in Players \cup {NoOne} : WolfTurn(p, t) \/ VoteTurn(p, t)
         \/ UNCHANGED vars
  PROVE  RulingInv'
<1>1. UNCHANGED <<row, deaths, alive, shooter>>
  BY DEF Setup, NextPhase, Win, Daybreak, ScribeTurn, RoundCap, FailClosed, BudgetExhausted,
     SeerTurn, SpeechTurn, WitchPass, WolfTurn, VoteTurn, TakeTurn, vars
<1>2. CASE \/ \E p \in Players : \/ SeerTurn(p) \/ SpeechTurn(p) \/ WitchPass(p)
                               \/ \E t \in Players \cup {NoOne} : WolfTurn(p, t) \/ VoteTurn(p, t)
           \/ UNCHANGED vars
  <2>1. pc' = pc /\ phase' = phase /\ status' = status
    BY <1>2 DEF SeerTurn, SpeechTurn, WitchPass, WolfTurn, VoteTurn, TakeTurn, vars
  <2>2. QED
    BY <1>1, <2>1, QuietKeeps
<1>3. CASE Setup \/ NextPhase \/ ScribeTurn
  <2>1. phase' = phase /\ status' = status /\ pc' # "shot" /\ pc # "shot" /\ status \notin Failures
    BY <1>3 DEF Setup, NextPhase, ScribeTurn, Following, EndInv, Failures
  <2>2. Calendar'
    BY <1>1, <1>3, <2>1 DEF RulingInv, Calendar, Setup, NextPhase, ScribeTurn, Following
  <2>3. Blank' /\ Counts'
    BY <1>1, <1>3, <2>1, QuietKeeps DEF Setup, NextPhase, ScribeTurn, Following, Night
  <2>4. QED
    BY <1>1, <2>2, <2>3, QuietKeeps DEF RulingInv
<1>4. CASE Win \/ Daybreak
  <2>1. phase' = phase /\ status' \notin Failures /\ status \notin Failures
        /\ pc \in {"deaths", "dusk"} /\ pc' \in {"over", "speech"}
    BY <1>4 DEF Win, Daybreak, NightOver, DayOver, EndInv, Failures
  <2>2. \A c \in Causes : deaths[c] = NoOne
    BY <1>4, <2>1 DEF Win, Daybreak, NightOver, DayOver, Due, RulingInv, Calendar
  <2>3. Calendar'
    BY <1>1, <1>4, <2>1, <2>2 DEF RulingInv, Calendar, Win, Daybreak, NightOver
  <2>4. Blank' /\ Counts'
    BY <1>1, <2>1, QuietKeeps DEF Night
  <2>5. QED
    BY <1>1, <2>3, <2>4, QuietKeeps DEF RulingInv
<1>5. CASE RoundCap \/ BudgetExhausted
  <2>1. pc' = "over" /\ status' \in Failures /\ phase' = phase
    BY <1>5 DEF RoundCap, BudgetExhausted, FailClosed, Failures
  <2>2. Calendar'
    BY <1>1, <2>1 DEF RulingInv, Calendar
  <2>3. QED
    BY <1>1, <2>1, <2>2, QuietKeeps DEF RulingInv, Night
<1>6. QED
  BY <1>2, <1>3, <1>4, <1>5

(* The night's entries in the record.                                      *)
LEMMA NightStep ==
  ASSUME TypeInv, DeathInv, EndInv, RulingInv,
         \/ \E p \in Players, t \in Players \cup {NoOne} : GuardTurn(p, t)
         \/ \E t \in Players \cup {NoOne} : WolfConsensus(t)
         \/ \E p \in Players : WitchSave(p) \/ \E t \in Players : WitchPoison(p, t)
  PROVE  RulingInv'
<1>1. /\ pc \in Night /\ pc' \in Night /\ phase' = phase
      /\ UNCHANGED <<deaths, alive, status>>
      /\ row'.voted = row.voted /\ row'.shot = row.shot /\ row'.asked = row.asked
      /\ row'.died = row.died
  BY DEF GuardTurn, WolfConsensus, WitchSave, WitchPoison, TakeTurn, Night, TypeInv, TypeOK,
     RoundRecord
<1>2. \A c \in Causes : deaths[c] = NoOne
  BY <1>1 DEF RulingInv, Calendar, Night, EndInv, Failures
<1>3. Calendar' /\ Owed' /\ Gone' /\ Counts'
  BY <1>1, <1>2 DEF RulingInv, Calendar, Owed, Gone, Counts, Night, Causes
<1>4. Blank'
  <2>1. CASE \E p \in Players, t \in Players \cup {NoOne} : GuardTurn(p, t)
    <3>1. pc' = pc /\ row'.kill = row.kill /\ row'.save = row.save /\ row'.poison = row.poison
      BY <2>1 DEF GuardTurn, TakeTurn, TypeInv, TypeOK, RoundRecord
    <3>2. QED
      BY <1>1, <3>1 DEF RulingInv, Blank
  <2>2. ASSUME NEW t \in Players \cup {NoOne}, WolfConsensus(t) PROVE Blank'
    <3>1. /\ pc = "wolf" /\ pc' = "seer" /\ row'.kill = t /\ row'.save = row.save
          /\ row'.poison = row.poison
      BY <2>2 DEF WolfConsensus, TypeInv, TypeOK, RoundRecord
    <3>2. t \in alive \cup {NoOne}
      BY <2>2 DEF WolfConsensus, Leaders, OrNoOne, WolfTargets, DeathInv
    <3>3. QED
      BY <1>1, <3>1, <3>2 DEF RulingInv, Blank, Night
  <2>3. ASSUME NEW p \in Players, WitchSave(p) PROVE Blank'
    <3>1. /\ pc = "witch" /\ pc' = pc /\ row'.kill = row.kill /\ row'.save = row.kill
          /\ row'.poison = row.poison
      BY <2>3 DEF WitchSave, TakeTurn, TypeInv, TypeOK, RoundRecord
    <3>2. QED
      BY <1>1, <3>1 DEF RulingInv, Blank
  <2>4. ASSUME NEW p \in Players, NEW t \in Players, WitchPoison(p, t) PROVE Blank'
    <3>1. /\ pc = "witch" /\ pc' = pc /\ row'.kill = row.kill /\ row'.save = row.save
          /\ row'.poison = t /\ t \in alive
      BY <2>4 DEF WitchPoison, PoisonTargets, TakeTurn, TypeInv, TypeOK, RoundRecord
    <3>2. QED
      BY <1>1, <3>1 DEF RulingInv, Blank
  <2>5. QED
    BY <2>1, <2>2, <2>3, <2>4
<1>5. QED
  BY <1>3, <1>4 DEF RulingInv

LEMMA NewRoundStep == ASSUME TypeInv, EndInv, RulingInv, NextRound PROVE RulingInv'
<1>1. /\ pc = "dusk" /\ pc' = "guard" /\ UNCHANGED <<deaths, alive, status, phase>>
      /\ row' = BlankRow(row.guard)
  BY DEF NextRound, DayOver
<1>2. \A c \in Causes : deaths[c] = NoOne
  BY <1>1 DEF RulingInv, Calendar, EndInv, Failures
<1>3. QED
  BY <1>1, <1>2 DEF RulingInv, Blank, Calendar, Owed, Gone, Counts, BlankRow, Night, Causes

(* JointSettler: what the night calls for is owed, and nothing else.       *)
LEMMA SettleStep == ASSUME TypeInv, EndInv, RulingInv, SettleNight PROVE RulingInv'
<1>1. /\ pc = "witch" /\ pc' = "deaths" /\ phase' = "night" /\ UNCHANGED <<row, alive, status>>
      /\ deaths' = Settlement
  BY DEF SettleNight
<1>2. /\ row.voted = NoOne /\ row.shot = {} /\ row.asked = {} /\ row.died = {}
      /\ row.kill \in alive \cup {NoOne} /\ row.poison \in alive \cup {NoOne}
      /\ row.save \in {NoOne, row.kill}
  BY <1>1 DEF RulingInv, Blank, Night
<1>3. NoOne \notin alive
  BY NotAPlayer DEF TypeInv, TypeOK
<1>4. row.kill # NoOne => (KillLands <=> ~Protected)
  BY <1>2 DEF KillLands, Protected
<1>5. /\ deaths'["werewolf_kill"] = IF KillLands THEN row.kill ELSE NoOne
      /\ deaths'["witch_poison"] = IF KillLands /\ row.poison = row.kill THEN NoOne ELSE row.poison
  BY <1>1, <1>2, <1>3, <1>4 DEF Settlement, Causes, KillLands
<1>6. KillLands' <=> KillLands
  BY <1>1 DEF KillLands
<1>7. Blank' /\ Calendar' /\ Owed' /\ Gone'
  BY <1>1, <1>2, <1>3, <1>5, <1>6 DEF Blank, Calendar, Owed, Gone, Night, Causes, KillLands
<1>8. ASSUME NEW p \in Players
      PROVE  (\E c \in Causes : deaths'[c] = p) <=> Doomed(p)'
  BY <1>1, <1>5, <1>6, NotAPlayer DEF Doomed, Causes
<1>9. Counts'
  BY <1>1, <1>2, <1>8, NotAPlayer DEF Counts
<1>10. QED
  BY <1>7, <1>9 DEF RulingInv

(* A death as Die commits it: the player was alive, and counts from now on.*)
LEMMA DieCommits ==
  ASSUME TypeInv, DeathInv, EndInv, pc # "over", NEW p \in Players, p \in alive, NEW cause,
         NEW after, NEW r \in RoundRecord, Die(p, cause, after, r)
  PROVE  /\ row' = [r EXCEPT !.died = @ \cup {p}] /\ row'.died = r.died \cup {p}
         /\ row'.guard = r.guard /\ row'.kill = r.kill /\ row'.save = r.save
         /\ row'.poison = r.poison /\ row'.voted = r.voted /\ row'.shot = r.shot
         /\ row'.asked = r.asked
         /\ alive' = alive \ {p} /\ status' = "running"
         /\ pc' = IF Triggers(p, cause) THEN "shot" ELSE after
         /\ Triggers(p, cause) => shooter' = p
<1>1. p \notin committed /\ status = "running"
  BY DEF DeathInv, EndInv
<1>2. QED
  BY <1>1 DEF Die, RoundRecord

LEMMA CommitStep ==
  ASSUME TypeInv, DeathInv, EndInv, RulingInv, NEW c \in Causes, CommitDeath(c)
  PROVE  RulingInv'
<1> DEFINE p == deaths[c]
<1>1. /\ p \in alive /\ p \in Players /\ pc = "deaths" /\ phase' = phase /\ p # NoOne
      /\ deaths' = [deaths EXCEPT ![c] = NoOne] /\ Die(p, c, "deaths", row)
      /\ row \in RoundRecord /\ status = "running"
  BY NotAPlayer DEF CommitDeath, Overtaken, TypeInv, TypeOK, EndInv
<1>2. PICK v \in Players : v = p
  BY <1>1
<1>3. /\ row'.died = row.died \cup {v} /\ SameNight /\ row'.voted = row.voted
      /\ row'.shot = row.shot /\ row'.asked = row.asked
      /\ alive' = alive \ {v} /\ status' = "running" /\ pc' \in {"shot", "deaths"}
      /\ pc' = "shot" <=> Triggers(v, c)
      /\ Triggers(v, c) => shooter' = v
  BY <1>1, <1>2, DieCommits DEF SameNight
<1>4. phase = "night" /\ row.voted = NoOne
  BY <1>1 DEF RulingInv, Calendar
<1>5. /\ deaths'[c] = NoOne /\ deaths[c] = v
      /\ \A d \in Causes \ {c} : deaths'[d] = deaths[d]
  BY <1>1, <1>2 DEF TypeInv, TypeOK
<1>6. Blank' /\ Calendar' /\ Gone'
  BY <1>1, <1>3, <1>4 DEF RulingInv, Blank, Calendar, Gone, Night
<1>7. Owed'
  BY <1>3, <1>5, SameNightKeeps DEF RulingInv, Owed, SameNight, Causes
<1>8. \A q \in Players : OnlyPoisoned(q)' <=> OnlyPoisoned(q)
  BY <1>3, SameNightKeeps DEF OnlyPoisoned, SameNight
<1>9. v \notin row.died /\ v \notin row.shot /\ v # row.voted
  BY <1>1, <1>2, <1>4 DEF RulingInv, Gone
<1>10. OnlyPoisoned(v) <=> c = "witch_poison"
  BY <1>1, <1>5, <1>9 DEF RulingInv, Owed, OnlyPoisoned, Causes
<1>11. Counts'
  <2>1. ASSUME NEW q \in Players
        PROVE  q \in row'.died \/ (\E d \in Causes : deaths'[d] = q)
                 <=> Doomed(q)' \/ q = row'.voted \/ q \in row'.shot
    <3>1. q \in row.died \/ (\E d \in Causes : deaths[d] = q)
            <=> Doomed(q) \/ q = row.voted \/ q \in row.shot
      BY <1>1 DEF RulingInv, Counts, Night, Failures
    <3>2. q \in row'.died \/ (\E d \in Causes : deaths'[d] = q)
            <=> q \in row.died \/ (\E d \in Causes : deaths[d] = q)
      BY <1>3, <1>5, NotAPlayer
    <3>3. QED
      BY <1>3, <3>1, <3>2, SameNightKeeps
  <2>2. ASSUME NEW q \in Players
        PROVE  q \in row'.asked \/ (pc' = "shot" /\ q = shooter')
                 <=> q \in row'.died /\ q \in Hunters /\ ~OnlyPoisoned(q)'
    <3>1. q \in row.asked <=> q \in row.died /\ q \in Hunters /\ ~OnlyPoisoned(q)
      BY <1>1 DEF RulingInv, Counts, Night, Failures
    <3>2. QED
      BY <1>3, <1>8, <1>9, <1>10, <3>1 DEF Triggers
  <2>3. QED
    BY <2>1, <2>2 DEF Counts
<1>12. QED
  BY <1>6, <1>7, <1>11 DEF RulingInv

(* A settled death that a shot came before is one of the shot.             *)
LEMMA SkipStep ==
  ASSUME TypeInv, EndInv, RulingInv, NEW c \in Causes, SkipDeath(c) PROVE RulingInv'
<1>1. /\ UNCHANGED <<pc, phase, status, row, alive, shooter>> /\ pc = "deaths"
      /\ deaths[c] # NoOne /\ deaths[c] \in row.died
      /\ deaths'[c] = NoOne /\ \A d \in Causes \ {c} : deaths'[d] = deaths[d]
  BY DEF SkipDeath, IsDue, Due, Overtaken, TypeInv, TypeOK, RulingInv, Owed
<1>2. Blank' /\ Calendar' /\ Gone' /\ Owed'
  BY <1>1 DEF RulingInv, Blank, Calendar, Gone, Owed, KillLands, Causes
<1>3. \A q \in Players :
        q \in row.died \/ (\E d \in Causes : deaths'[d] = q)
          <=> q \in row.died \/ (\E d \in Causes : deaths[d] = q)
  BY <1>1, NotAPlayer
<1>4. Counts'
  BY <1>1, <1>3 DEF RulingInv, Counts, Doomed, KillLands, OnlyPoisoned
<1>5. QED
  BY <1>2, <1>4 DEF RulingInv

LEMMA ShootStep ==
  ASSUME TypeInv, DeathInv, EndInv, RulingInv, NEW t \in Players, HunterShoot(t)
  PROVE  RulingInv'
<1> DEFINE r == [row EXCEPT !.asked = @ \cup {shooter}, !.shot = @ \cup {t}]
<1>1. /\ pc = "shot" /\ shooter \in Players /\ t \in alive /\ status = "running"
      /\ UNCHANGED <<phase, deaths>> /\ Die(t, "hunter_shoot", AfterDeaths, r)
  BY DEF HunterShoot, ShotTargets, TypeInv, Bounds, EndInv
<1>2. /\ r \in RoundRecord /\ r.guard = row.guard /\ r.kill = row.kill /\ r.save = row.save
      /\ r.poison = row.poison /\ r.voted = row.voted /\ r.died = row.died
      /\ r.asked = row.asked \cup {shooter} /\ r.shot = row.shot \cup {t}
  BY <1>1 DEF TypeInv, TypeOK, RoundRecord
<1> HIDE DEF r
<1>3. /\ SameNight /\ row'.voted = row.voted /\ row'.died = row.died \cup {t}
      /\ row'.asked = row.asked \cup {shooter} /\ row'.shot = row.shot \cup {t}
      /\ alive' = alive \ {t} /\ status' = "running"
      /\ pc' = (IF t \in Hunters THEN "shot" ELSE AfterDeaths)
      /\ t \in Hunters => shooter' = t
  BY <1>1, <1>2, DieCommits DEF SameNight, Triggers
<1>4. /\ pc' \in {"shot", "deaths", "dusk"}
      /\ pc' = "deaths" => phase = "night"
      /\ pc' = "dusk" => phase = "day"
  BY <1>3 DEF AfterDeaths, TypeInv, TypeOK
<1>5. Blank' /\ Calendar' /\ Gone'
  BY <1>1, <1>3, <1>4 DEF RulingInv, Blank, Calendar, Gone, Night, AfterDeaths, Failures
<1>6. Owed'
  BY <1>1, <1>3, SameNightKeeps DEF RulingInv, Owed, SameNight
<1>7. t \notin row.died /\ t \notin row.shot
  BY <1>1 DEF RulingInv, Gone
<1>8. Counts'
  <2>1. ASSUME NEW q \in Players
        PROVE  q \in row'.died \/ (\E d \in Causes : deaths'[d] = q)
                 <=> Doomed(q)' \/ q = row'.voted \/ q \in row'.shot
    BY <1>1, <1>3, SameNightKeeps DEF RulingInv, Counts, Night, Failures
  <2>2. ASSUME NEW q \in Players
        PROVE  q \in row'.asked \/ (pc' = "shot" /\ q = shooter')
                 <=> q \in row'.died /\ q \in Hunters /\ ~OnlyPoisoned(q)'
    <3>1. q \in row.asked \/ q = shooter
            <=> q \in row.died /\ q \in Hunters /\ ~OnlyPoisoned(q)
      BY <1>1 DEF RulingInv, Counts, Night, Failures
    <3>2. OnlyPoisoned(q)' <=> OnlyPoisoned(q) /\ q # t
      BY <1>3, SameNightKeeps DEF OnlyPoisoned, SameNight
    <3>3. QED
      BY <1>3, <1>4, <1>7, <3>1, <3>2 DEF AfterDeaths
  <2>3. QED
    BY <2>1, <2>2 DEF Counts
<1>9. QED
  BY <1>5, <1>6, <1>8 DEF RulingInv

LEMMA PassStep == ASSUME TypeInv, EndInv, RulingInv, HunterPass PROVE RulingInv'
<1>1. /\ pc = "shot" /\ shooter \in Players /\ status = "running" /\ status' = status
      /\ UNCHANGED <<phase, deaths, alive>>
      /\ SameNight /\ row'.voted = row.voted /\ row'.died = row.died
      /\ row'.asked = row.asked \cup {shooter} /\ row'.shot = row.shot
      /\ pc' = AfterDeaths
  BY DEF HunterPass, SameNight, TypeInv, TypeOK, Bounds, RoundRecord, EndInv
<1>2. /\ pc' \in {"deaths", "dusk"}
      /\ pc' = "deaths" <=> phase = "night"
      /\ pc' = "dusk" <=> phase = "day"
  BY <1>1 DEF AfterDeaths, TypeInv, TypeOK
<1>3. Blank' /\ Calendar' /\ Gone'
  BY <1>1, <1>2 DEF RulingInv, Blank, Calendar, Gone, Night, Failures
<1>4. Owed'
  BY <1>1, SameNightKeeps DEF RulingInv, Owed, SameNight
<1>5. \A q \in Players : OnlyPoisoned(q)' <=> OnlyPoisoned(q)
  BY <1>1, SameNightKeeps DEF OnlyPoisoned, SameNight
<1>6. Counts'
  BY <1>1, <1>2, <1>5, SameNightKeeps DEF RulingInv, Counts, Night, Failures
<1>7. QED
  BY <1>3, <1>4, <1>6 DEF RulingInv

LEMMA VotedStep ==
  ASSUME TypeInv, DeathInv, EndInv, RulingInv, NEW t \in Players \cup {NoOne}, Elimination(t)
  PROVE  RulingInv'
<1>1. /\ pc = "vote" /\ phase = "night" /\ phase' = "day" /\ row.voted = NoOne
      /\ status = "running" /\ deaths' = deaths /\ \A c \in Causes : deaths[c] = NoOne
  BY DEF Elimination, RulingInv, Calendar, EndInv, Failures
<1>2. CASE t = NoOne
  <2>1. pc' = "dusk" /\ UNCHANGED <<alive, row, status, shooter>>
    BY <1>2 DEF Elimination
  <2>2. QED
    BY <1>1, <2>1 DEF RulingInv, Blank, Calendar, Owed, Gone, Counts, Doomed, KillLands,
       OnlyPoisoned, Night, Failures
<1>3. CASE t # NoOne
  <2> DEFINE r == [row EXCEPT !.voted = t]
  <2>1. t \in Players /\ t \in alive /\ Die(t, "vote", "dusk", r)
    BY <1>3 DEF Elimination, OrNoOne, Leaders, DeathInv
  <2>2. /\ r \in RoundRecord /\ r.guard = row.guard /\ r.kill = row.kill /\ r.save = row.save
        /\ r.poison = row.poison /\ r.voted = t /\ r.died = row.died
        /\ r.asked = row.asked /\ r.shot = row.shot
    BY DEF TypeInv, TypeOK, RoundRecord
  <2> HIDE DEF r
  <2>3. /\ SameNight /\ row'.voted = t /\ row'.died = row.died \cup {t}
        /\ row'.asked = row.asked /\ row'.shot = row.shot
        /\ alive' = alive \ {t} /\ status' = "running"
        /\ pc' = (IF t \in Hunters THEN "shot" ELSE "dusk")
        /\ t \in Hunters => shooter' = t
    BY <1>1, <2>1, <2>2, DieCommits DEF SameNight, Triggers
  <2>4. Blank' /\ Calendar' /\ Gone'
    BY <1>1, <2>3 DEF RulingInv, Blank, Calendar, Gone, Night, Failures
  <2>5. Owed'
    BY <1>1, <2>3, SameNightKeeps DEF RulingInv, Owed, SameNight, Causes
  <2>6. t \notin row.died /\ t \notin row.shot
    BY <2>1 DEF RulingInv, Gone
  <2>7. Counts'
    <3>1. ASSUME NEW q \in Players
          PROVE  q \in row'.died \/ (\E d \in Causes : deaths'[d] = q)
                   <=> Doomed(q)' \/ q = row'.voted \/ q \in row'.shot
      BY <1>1, <2>3, SameNightKeeps, NotAPlayer DEF RulingInv, Counts, Night, Failures
    <3>2. ASSUME NEW q \in Players
          PROVE  q \in row'.asked \/ (pc' = "shot" /\ q = shooter')
                   <=> q \in row'.died /\ q \in Hunters /\ ~OnlyPoisoned(q)'
      <4>1. q \in row.asked <=> q \in row.died /\ q \in Hunters /\ ~OnlyPoisoned(q)
        BY <1>1 DEF RulingInv, Counts, Night, Failures
      <4>2. OnlyPoisoned(q)' <=> OnlyPoisoned(q) /\ q # t
        BY <1>1, <2>3, SameNightKeeps, NotAPlayer DEF OnlyPoisoned, SameNight
      <4>3. QED
        BY <2>3, <2>6, <4>1, <4>2
    <3>3. QED
      BY <3>1, <3>2 DEF Counts
  <2>8. QED
    BY <2>4, <2>5, <2>7 DEF RulingInv
<1>4. QED
  BY <1>2, <1>3

LEMMA NextRuling == TypeInv /\ DeathInv /\ EndInv /\ RulingInv /\ [Next]_vars => RulingInv'
BY QuietStep, NightStep, NewRoundStep, SettleStep, CommitStep, SkipStep, ShootStep, PassStep,
   VotedStep DEF Next, Finished

LEMMA InitRuling == Init => DeathInv /\ EndInv /\ RulingInv
BY BoardAssumption, NotAPlayer
DEF Init, NoVotes, NoDeaths, BlankRow, DeathInv, EndInv, RulingInv, Blank, Calendar, Owed, Gone,
    Counts, Night, Failures, Causes

THEOREM RulingInvHolds == Spec => [](TypeInv /\ DeathInv /\ EndInv /\ RulingInv)
BY InitType, NextType, NextDeath, NextEnd, InitRuling, NextRuling, PTL DEF Spec

(* Where the record is complete nothing is owed, and no shot awaited.      *)
LEMMA NothingOwed ==
  ASSUME TypeInv, EndInv, RulingInv, Settled
  PROVE  /\ \A c \in Causes : deaths[c] = NoOne
         /\ pc \notin Night /\ pc # "shot" /\ status \notin Failures
BY DEF Settled, NightOver, DayOver, Due, EndInv, RulingInv, Calendar, Night, Failures

(* Rulings I6, I8a and I8b: once its deaths are settled, a round's dead    *)
(* are exactly those its record calls for: the victim, unless either guard *)
(* or witch alone stood by it, the poisoned, the voted out and the shot.   *)
THEOREM RoundOutcomeHolds == Spec => []RoundOutcome
<1>1. ASSUME TypeInv, EndInv, RulingInv PROVE RoundOutcome
  <2>1. ASSUME Settled, NEW p \in Players
        PROVE  p \in row.died <=> Doomed(p) \/ p = row.voted \/ p \in row.shot
    BY <1>1, <2>1, NothingOwed, NotAPlayer DEF RulingInv, Counts
  <2>2. /\ row.died \subseteq Players /\ row.shot \subseteq Players
        /\ {row.kill, row.poison, row.voted} \subseteq Players \cup {NoOne}
    BY <1>1 DEF TypeInv, TypeOK, RoundRecord
  <2>3. QED
    BY <2>1, <2>2, NotAPlayer DEF RoundOutcome, Doomed, KillLands
<1>2. QED
  BY <1>1, RulingInvHolds, PTL

(* Ruling A-2: the hunters asked for a shot are those of the round's dead  *)
(* that something else than the poison killed.                             *)
THEOREM HunterRulingHolds == Spec => []HunterRuling
<1>1. ASSUME TypeInv, EndInv, RulingInv PROVE HunterRuling
  <2>1. ASSUME Settled, NEW p \in Players
        PROVE  p \in row.asked <=> p \in row.died /\ p \in Hunters /\ ~OnlyPoisoned(p)
    BY <1>1, <2>1, NothingOwed DEF RulingInv, Counts
  <2>2. row.died \subseteq Players /\ row.asked \subseteq Players
    BY <1>1 DEF TypeInv, TypeOK, RoundRecord
  <2>3. QED
    BY <2>1, <2>2 DEF HunterRuling
<1>2. QED
  BY <1>1, RulingInvHolds, PTL

---------------------------------------------------------------------------
(* A set of naturals that is not empty has a least element.                *)
LEMMA LeastExists ==
  ASSUME NEW numbers \in SUBSET Nat, numbers # {}
  PROVE  \E m \in numbers : \A n \in numbers : m <= n
<1>1. PICK m \in numbers : \A n \in numbers : <<n, m>> \notin OpToRel(<, Nat)
  <2>1. numbers \subseteq Nat /\ numbers # {}
    OBVIOUS
  <2>2. QED
    BY <2>1, NatLessThanWellFounded, WFMin
<1>2. ASSUME NEW n \in numbers PROVE m <= n
  <2>1. n \in Nat /\ m \in Nat
    OBVIOUS
  <2>2. ~(n < m)
    BY <1>1, <2>1 DEF OpToRel
  <2>3. QED
    BY <2>1, <2>2
<1>3. QED
  BY <1>2

(* Somebody with a proposal or a vote means that somebody has most.        *)
LEMMA SomebodyLeads ==
  ASSUME TypeInv, NEW p \in Players, tally[p] > 0 PROVE Leaders # {}
<1> DEFINE TopOf(k) == \E q \in 1..k : \A r \in 1..k : tally[r] <= tally[q]
           Without == {k \in 1..N : ~TopOf(k)}
<1>1. N \in Nat /\ N >= 1 /\ Players = 1..N /\ tally \in [1..N -> Nat]
  BY BoardAssumption DEF Players, TypeInv, TypeOK
<1>2. Without = {}
  <2>1. SUFFICES ASSUME Without # {} PROVE FALSE
    OBVIOUS
  <2>2. PICK m \in Without : \A n \in Without : m <= n
    <3>1. Without \in SUBSET Nat
      BY <1>1
    <3>2. QED
      BY <2>1, <3>1, LeastExists
  <2>3. m \in 1..N /\ m \in Nat /\ ~TopOf(m)
    BY <1>1, <2>2
  <2>4. CASE m = 1
    <3>1. \A r \in 1..1 : tally[r] <= tally[1]
      BY <1>1
    <3>2. QED
      BY <2>3, <2>4, <3>1
  <2>5. CASE m # 1
    <3>1. m - 1 \in 1..N /\ ~(m <= m - 1)
      BY <1>1, <2>3, <2>5
    <3>2. TopOf(m - 1)
      BY <2>2, <3>1
    <3>3. PICK q \in 1..(m - 1) : \A r \in 1..(m - 1) : tally[r] <= tally[q]
      BY <3>2
    <3>4. \A r \in 1..m : r \in 1..(m - 1) \/ r = m
      BY <2>3
    <3>5. tally[q] \in Nat /\ tally[m] \in Nat /\ q \in 1..m /\ m \in 1..m
      BY <1>1, <2>3
    <3>6. CASE tally[m] <= tally[q]
      <4>1. \A r \in 1..m : tally[r] <= tally[q]
        BY <3>3, <3>4, <3>6
      <4>2. QED
        BY <2>3, <3>5, <4>1
    <3>7. CASE ~(tally[m] <= tally[q])
      <4>1. \A r \in 1..(m - 1) : tally[r] \in Nat /\ tally[r] <= tally[m]
        BY <1>1, <2>3, <3>3, <3>5, <3>7
      <4>2. \A r \in 1..m : tally[r] <= tally[m]
        BY <3>4, <3>5, <4>1
      <4>3. QED
        BY <2>3, <3>5, <4>2
    <3>8. QED
      BY <3>6, <3>7
  <2>6. QED
    BY <2>4, <2>5
<1>3. TopOf(N)
  <2>1. N \in 1..N
    BY <1>1
  <2>2. N \notin Without
    BY <1>2
  <2>3. QED
    BY <2>1, <2>2
<1>4. PICK q \in Players : \A r \in Players : tally[r] <= tally[q]
  BY <1>1, <1>3
<1>5. tally[q] \in Nat /\ tally[p] \in Nat /\ tally[p] <= tally[q]
  BY <1>1, <1>4
<1>6. tally[q] > 0
  BY <1>5
<1>7. QED
  BY <1>4, <1>6 DEF Leaders

(* A set of one is counted as one.                                         *)
LEMMA OneIsOne == \A x : Cardinality({x}) = 1
BY FS_Singleton

---------------------------------------------------------------------------

(* What is known of the game itself.                                       *)
GameInv == TypeInv /\ DeathInv /\ EndInv /\ RulingInv /\ ConsumableInv /\ GuardInv

---------------------------------------------------------------------------
(* The events, by who acts in them and when.                               *)
Tags     == {"public", "all", "werewolf_team", "seer", "witch", "guard"}
EventSet == [round : 0..MaxDayRounds, phase : {"setup", "night", "day", "game_end"},
             type : DOMAIN Visibility, actor : Players \cup {System},
             target : Players \cup {NoOne} \cup {TeamOf[team] : team \in DOMAIN TeamOf},
             visibility : Tags]

WitchTypes  == {"witch_save", "witch_poison", "witch_pass"}
HunterTypes == {"hunter_shoot", "hunter_pass"}
TurnTypes   == {"guard_protect", "seer_check", "player_vote"} \cup WitchTypes

Proper(e) ==
  /\ e.visibility = Visibility[e.type]
  /\ e.type \in Decided => e.actor \in Players
  /\ e.type = "guard_protect" => Role[e.actor] = "guard" /\ e.target \in Players
  /\ e.type = "werewolf_kill" => e.actor \in Wolves /\ e.target \in Players
  /\ e.type = "seer_check" => Role[e.actor] = "seer"
  /\ e.type \in WitchTypes => Role[e.actor] = "witch"
  /\ e.type \in {"witch_save", "witch_poison"} \cup CommitTypes => e.target \in Players
  /\ e.type \in {"guard_protect", "werewolf_kill", "seer_check"} \cup WitchTypes
       => e.phase = "night"
  /\ e.type \in {"player_vote", "player_eliminated"} => e.phase = "day"
  /\ e.type \in HunterTypes \cup {"player_died"} => e.phase \in {"night", "day"}

LogTypes ==
  /\ log \in Seq(EventSet)
  /\ \A i \in DOMAIN log : Proper(log[i]) /\ log[i].round <= rnd

(* Whose events of the round are still to come: before its phase nobody's, *)
(* and within it those of the seats behind the cursor.                     *)
Dark == Night \cup {"deaths", "speech", "scribe"}
NotYet(type) ==
  \/ type = "guard_protect" /\ pc = "setup"
  \/ type \in {"werewolf_kill", "seer_check"} /\ pc \in {"setup", "guard", "wolf"}
  \/ type \in WitchTypes /\ pc \in {"setup", "guard", "wolf", "seer"}
  \/ type = "player_vote" /\ (pc \in Dark \/ (pc = "shot" /\ phase = "night"))
  \/ type = "player_died" /\ pc \in Night
Acting(type) ==
  \/ type = "guard_protect" /\ pc = "guard"
  \/ type = "seer_check" /\ pc = "seer"
  \/ type \in WitchTypes /\ pc = "witch"
  \/ type = "player_vote" /\ pc = "vote"
Turns ==
  \A i \in DOMAIN log : log[i].round = rnd =>
    /\ ~NotYet(log[i].type)
    /\ Acting(log[i].type) => log[i].actor <= cursor

(* What happens once: a turn in its round, a kill in its round, a potion   *)
(* and a hunter's last turn in the game.                                   *)
Alike(e, f) ==
  \/ e.type = f.type /\ e.type \in TurnTypes /\ e.actor = f.actor /\ e.round = f.round
  \/ e.type = f.type /\ e.type = "werewolf_kill" /\ e.round = f.round
  \/ e.type = f.type /\ e.type \in {"witch_save", "witch_poison"}
  \/ {e.type, f.type} \subseteq HunterTypes /\ e.actor = f.actor
  \/ {e.type, f.type} \subseteq CommitTypes /\ e.target = f.target
Once == \A i, j \in DOMAIN log : Alike(log[i], log[j]) => i = j
Done ==
  \A i \in DOMAIN log :
    /\ log[i].type = "witch_save" => saveUsed
    /\ log[i].type = "witch_poison" => poisonUsed
    /\ log[i].type \in HunterTypes =>
         log[i].actor \notin alive /\ ~(pc = "shot" /\ shooter = log[i].actor)
    /\ log[i].type \in CommitTypes => log[i].target \notin alive

(* The round's record and its events say the same.                         *)
Says(type, target) ==
  /\ target # NoOne => \E i \in At({type}) : log[i].round = rnd /\ log[i].target = target
  /\ \A i \in At({type}) : log[i].round = rnd => log[i].target = target
RowLogged ==
  /\ Says("guard_protect", row.guard) /\ Says("werewolf_kill", row.kill)
  /\ Says("witch_save", row.save) /\ Says("witch_poison", row.poison)
  /\ pc \in {"setup", "guard", "wolf"} => row.kill = NoOne
  /\ row.save \in {NoOne, row.kill}
  /\ \A i \in At({"guard_protect"}) : log[i].round + 1 = rnd => log[i].target = row.before

(* The night's dead, while it is night; and what the rulings made of past  *)
(* nights, by their events alone.                                          *)
Happened(r, type, target) == \E i \in At({type}) : log[i].round = r /\ log[i].target = target
DiedThen(r, target) == \E i \in At({"player_died"}) :
  log[i].round = r /\ log[i].phase = "night" /\ log[i].target = target
NightDead ==
  phase = "night" /\ pc \notin Night /\ status \notin Failures =>
    /\ \A p \in Players : p \in row.died <=> DiedThen(rnd, p)
    /\ ~KillLands => row.shot = {}
NightRuled(r) ==
  \A p \in Players : Happened(r, "werewolf_kill", p) /\ Happened(r, "guard_protect", p) =>
    IF Happened(r, "witch_save", p) THEN DiedThen(r, p)
    ELSE ~Happened(r, "witch_poison", p) => ~DiedThen(r, p)
PastRuled ==
  \A r \in 1..MaxDayRounds :
    r < rnd \/ (r = rnd /\ phase = "day" /\ pc \notin Night /\ status \notin Failures)
      => NightRuled(r)

(* The wolves that have proposed, and what the tally has of it.            *)
TeamInv ==
  /\ proposals \in Seq(Players \X Players)
  /\ pc \notin {"wolf", "over"} => proposals = <<>>
  /\ pc = "wolf" =>
       /\ \A k \in DOMAIN proposals : proposals[k][1] \in Wolves \cap alive
       /\ \A p \in Players : tally[p] > 0 <=> \E k \in DOMAIN proposals : proposals[k][2] = p

LogInv == /\ LogTypes /\ Turns /\ Once /\ Done /\ RowLogged
          /\ NightDead /\ PastRuled /\ TeamInv
          /\ CheckI2 /\ CheckI6 /\ CheckI8c

---------------------------------------------------------------------------
(* What a step adds to the log, and which action of the game is behind it. *)
New == DOMAIN log' \ DOMAIN log
Grown == /\ log' \in Seq(EventSet) /\ DOMAIN log \subseteq DOMAIN log'
         /\ \A i \in DOMAIN log : log'[i] = log[i] /\ \A j \in New : i < j
         /\ New \subseteq Int

Behind(e) ==
  /\ e.type = "guard_protect" => GuardTurn(e.actor, e.target)
  /\ e.type = "werewolf_kill" => WolfConsensus(e.target) /\ e.actor \in alive
  /\ e.type = "seer_check" => SeerTurn(e.actor)
  /\ e.type = "witch_pass" => WitchPass(e.actor)
  /\ e.type = "witch_save" => WitchSave(e.actor) /\ e.target = row.kill
  /\ e.type = "witch_poison" => WitchPoison(e.actor, e.target)
  /\ e.type = "player_speech" => SpeechTurn(e.actor)
  /\ e.type = "player_vote" => VoteTurn(e.actor, e.target)
  /\ e.type = "hunter_shoot" => HunterShoot(e.target) /\ e.actor = shooter
  /\ e.type = "hunter_pass" => HunterPass /\ e.actor = shooter
  /\ e.type = "player_died" => /\ e.target \in alive /\ alive' = alive \ {e.target}
                               /\ pc \in {"deaths", "shot"} /\ e.phase = phase
                               /\ row'.died = row.died \cup {e.target}
  /\ e.type = "player_eliminated" => /\ e.target \in alive /\ alive' = alive \ {e.target}
                                     /\ Elimination(e.target)
  /\ e.type \notin {"role_assignment"} => e.round = rnd
  /\ e.round \in {0, rnd}

(* A death has its cause in the log or in this step, before it.            *)
Caused(i) ==
  log'[i].type = "player_died" =>
    \/ \E c \in Causes : deaths[c] = log'[i].target
    \/ \E j \in New : j < i /\ log'[j].type = "hunter_shoot" /\ log'[j].target = log'[i].target

Told(type, target) == \E i \in New : log'[i].type = type /\ log'[i].target = target
                                     /\ log'[i].round = rnd
Traced ==
  /\ row'.guard \in {NoOne, row.guard} \/ Told("guard_protect", row'.guard)
  /\ row'.kill \in {NoOne, row.kill} \/ Told("werewolf_kill", row'.kill)
  /\ row'.save \in {NoOne, row.save} \/ Told("witch_save", row'.save)
  /\ row'.poison \in {NoOne, row.poison} \/ Told("witch_poison", row'.poison)
  /\ \A p \in row'.died \ row.died :
       phase' = "night" => \E i \in New : /\ log'[i].type = "player_died" /\ log'[i].target = p
                                          /\ log'[i].round = rnd /\ log'[i].phase = "night"

(* A step's events are of different types, and at most one is a death's.   *)
SameKind(e, f) == \/ e.type = f.type
                  \/ {e.type, f.type} \subseteq CommitTypes
                  \/ {e.type, f.type} \subseteq HunterTypes
Apart == \A i, j \in New : SameKind(log'[i], log'[j]) => i = j
Written == /\ Grown /\ Apart /\ Traced
           /\ \A i \in New : Proper(log'[i]) /\ Behind(log'[i]) /\ Caused(i)

LEMMA TypesAre == DOMAIN Visibility =
  {"role_assignment", "guard_protect", "werewolf_kill", "seer_check", "witch_save",
   "witch_poison", "witch_pass", "player_died", "hunter_shoot", "hunter_pass", "final_words",
   "day_announcement", "player_speech", "player_vote", "player_eliminated", "role_revealed",
   "game_over"}
BY DEF Visibility

LEMMA EventInIs ==
  ASSUME TypeOK, NEW ph \in {"setup", "night", "day", "game_end"},
         NEW type \in DOMAIN Visibility, NEW actor \in Players \cup {System},
         NEW target \in Players \cup {NoOne} \cup {TeamOf[team] : team \in DOMAIN TeamOf}
  PROVE  LET e == EventIn(ph, type, actor, target)
         IN /\ e \in EventSet /\ e.visibility = Visibility[type]
            /\ e.phase = ph /\ e.type = type /\ e.actor = actor /\ e.target = target
            /\ e.round = IF ph = "setup" THEN 0 ELSE rnd
<1>1. Visibility[type] \in Tags
  BY TypesAre DEF Visibility, Tags
<1>2. rnd \in 0..MaxDayRounds /\ 0 \in 0..MaxDayRounds
  BY BoardAssumption DEF TypeOK
<1>3. QED
  BY <1>1, <1>2 DEF EventIn, EventSet

LEMMA EmitGrows ==
  ASSUME log \in Seq(EventSet), NEW es \in Seq(EventSet), Emit(es)
  PROVE  /\ Grown
         /\ \A i \in New : i - Len(log) \in 1..Len(es) /\ log'[i] = es[i - Len(log)]
         /\ \A k \in 1..Len(es) : Len(log) + k \in New /\ log'[Len(log) + k] = es[k]
<1>1. /\ log' \in Seq(EventSet) /\ Len(log') = Len(log) + Len(es)
      /\ \A i \in 1..(Len(log) + Len(es)) :
           log'[i] = IF i <= Len(log) THEN log[i] ELSE es[i - Len(log)]
  BY ConcatProperties DEF Emit
<1>2. Len(log) \in Nat /\ Len(es) \in Nat /\ DOMAIN log = 1..Len(log)
      /\ DOMAIN log' = 1..(Len(log) + Len(es))
  BY <1>1
<1>3. New = (Len(log) + 1)..(Len(log) + Len(es))
  BY <1>2 DEF New
<1>4. Grown
  <2>1. DOMAIN log \subseteq DOMAIN log' /\ New \subseteq Int
    BY <1>2, <1>3
  <2>2. ASSUME NEW i \in DOMAIN log PROVE log'[i] = log[i] /\ \A j \in New : i < j
    BY <1>1, <1>2, <1>3
  <2>3. QED
    BY <1>1, <2>1, <2>2 DEF Grown
<1>5. ASSUME NEW i \in New PROVE i - Len(log) \in 1..Len(es) /\ log'[i] = es[i - Len(log)]
  BY <1>1, <1>2, <1>3
<1>6. ASSUME NEW k \in 1..Len(es) PROVE Len(log) + k \in New /\ log'[Len(log) + k] = es[k]
  <2>1. Len(log) + k \in New /\ Len(log) + k - Len(log) = k
    BY <1>2, <1>3
  <2>2. QED
    BY <1>5, <2>1
<1>7. QED
  BY <1>4, <1>5, <1>6

LEMMA NothingNew ==
  ASSUME LogTypes, log' = log PROVE Grown /\ New = {}
BY DEF Grown, New, LogTypes

LEMMA OneNew ==
  ASSUME LogTypes, NEW e \in EventSet, Emit(<<e>>)
  PROVE  /\ Grown /\ Len(log) + 1 \in New
         /\ \A i \in New : i = Len(log) + 1 /\ log'[i] = e
<1>1. <<e>> \in Seq(EventSet) /\ Len(<<e>>) = 1 /\ <<e>>[1] = e /\ Len(log) \in Nat
  BY DEF LogTypes
<1> DEFINE es == <<e>>
<1> HIDE DEF es
<1>2. /\ Grown
      /\ \A i \in New : i - Len(log) \in 1..Len(es) /\ log'[i] = es[i - Len(log)]
      /\ \A k \in 1..Len(es) : Len(log) + k \in New /\ log'[Len(log) + k] = es[k]
  <2>1. es \in Seq(EventSet) /\ Emit(es) /\ log \in Seq(EventSet)
    BY <1>1 DEF es, LogTypes
  <2>2. QED
    BY <2>1, EmitGrows
<1>3. Len(es) = 1 /\ es[1] = e
  BY <1>1 DEF es
<1>4. ASSUME NEW i \in New PROVE i = Len(log) + 1
  BY <1>1, <1>2, <1>3, <1>4 DEF Grown
<1>5. QED
  BY <1>1, <1>2, <1>3, <1>4

(* A death's events: what leads to it, and the last words that may follow. *)
LEMMA SomeNew ==
  ASSUME LogTypes, NEW es \in Seq(EventSet), Len(es) \in {1, 2},
         NEW ws \in {<<>>} \cup {<<w>> : w \in EventSet}, Emit(es \o ws)
  PROVE  /\ Grown
         /\ \A k \in 1..Len(es) : Len(log) + k \in New /\ log'[Len(log) + k] = es[k]
         /\ \A i \in New : \/ i - Len(log) \in 1..Len(es) /\ log'[i] = es[i - Len(log)]
                           \/ i = Len(log) + Len(es) + 1 /\ ws # <<>> /\ log'[i] = ws[1]
<1>1. ws \in Seq(EventSet) /\ Len(ws) \in {0, 1} /\ (Len(ws) = 1 => ws # <<>>)
  <2>1. CASE ws = <<>>
    BY <2>1
  <2>2. CASE ws # <<>>
    <3>1. PICK w \in EventSet : ws = <<w>>
      BY <2>2
    <3>2. QED
      BY <2>2, <3>1
  <2>3. QED
    BY <2>1, <2>2
<1>2. /\ es \o ws \in Seq(EventSet) /\ Len(es \o ws) = Len(es) + Len(ws)
      /\ \A k \in 1..(Len(es) + Len(ws)) :
           (es \o ws)[k] = IF k <= Len(es) THEN es[k] ELSE ws[k - Len(es)]
  BY <1>1, ConcatProperties
<1>3. /\ Grown
      /\ \A i \in New : i - Len(log) \in 1..Len(es \o ws) /\ log'[i] = (es \o ws)[i - Len(log)]
      /\ \A k \in 1..Len(es \o ws) : Len(log) + k \in New /\ log'[Len(log) + k] = (es \o ws)[k]
  BY <1>2, EmitGrows DEF LogTypes
<1>4. ASSUME NEW k \in 1..Len(es) PROVE Len(log) + k \in New /\ log'[Len(log) + k] = es[k]
  BY <1>1, <1>2, <1>3
<1>5. ASSUME NEW i \in New
      PROVE  \/ i - Len(log) \in 1..Len(es) /\ log'[i] = es[i - Len(log)]
             \/ i = Len(log) + Len(es) + 1 /\ ws # <<>> /\ log'[i] = ws[1]
  <2>1. i \in Int /\ Len(log) \in Nat
    BY <1>3 DEF Grown, LogTypes
  <2>2. i - Len(log) \in 1..(Len(es) + Len(ws)) /\ log'[i] = (es \o ws)[i - Len(log)]
    BY <1>2, <1>3
  <2>3. CASE i - Len(log) <= Len(es)
    BY <1>1, <1>2, <2>1, <2>2, <2>3
  <2>4. CASE ~(i - Len(log) <= Len(es))
    <3>1. Len(ws) = 1 /\ i = Len(log) + Len(es) + 1
      BY <1>1, <2>1, <2>2, <2>4
    <3>2. i - Len(log) - Len(es) = 1
      BY <2>1, <3>1
    <3>3. QED
      BY <1>1, <1>2, <2>2, <2>4, <3>1, <3>2
  <2>5. QED
    BY <2>3, <2>4
<1>6. QED
  BY <1>3, <1>4, <1>5

(* The record of the round, where a step may name in it what it tells.     *)
Kept(type, target) ==
  /\ row'.guard \in {NoOne, row.guard} \/ (type = "guard_protect" /\ target = row'.guard)
  /\ row'.kill \in {NoOne, row.kill} \/ (type = "werewolf_kill" /\ target = row'.kill)
  /\ row'.save \in {NoOne, row.save} \/ (type = "witch_save" /\ target = row'.save)
  /\ row'.poison \in {NoOne, row.poison} \/ (type = "witch_poison" /\ target = row'.poison)
  /\ row'.died \subseteq row.died

LEMMA NothingWritten == ASSUME LogTypes, log' = log, Kept("none", NoOne) PROVE Written
BY NothingNew DEF Written, Apart, Traced, Kept

LEMMA OneWritten ==
  ASSUME LogTypes, NEW e \in EventSet, Emit(<<e>>), Proper(e), Behind(e),
         e.type # "player_died", e.round = rnd \/ e.type = "role_assignment",
         Kept(e.type, e.target)
  PROVE  Written
<1>1. /\ Grown /\ Len(log) + 1 \in New
      /\ \A i \in New : i = Len(log) + 1 /\ log'[i] = e
  BY OneNew
<1>2. ASSUME NEW type, type # "role_assignment", e.type = type PROVE Told(type, e.target)
  BY <1>1, <1>2 DEF Told
<1>3. Traced
  <2>1. Told(e.type, e.target) \/ e.type = "role_assignment"
    BY <1>2
  <2>2. QED
    BY <2>1 DEF Kept, Traced
<1>4. QED
  BY <1>1, <1>3 DEF Written, Apart, Caused

LEMMA PlacesAreInts ==
  NoOne \in Int /\ System \in Int /\ NoOne \notin Players /\ System \notin Players
BY BoardAssumption DEF NoOne, System, Players

(* The setup, and what the moderator says.                                 *)
LEMMA ModeratorWrites ==
  ASSUME GameInv, LogTypes, SetupLogged \/ DaybreakLogged \/ WinLogged PROVE Written
<1>0. TypeOK /\ UNCHANGED row
  BY DEF GameInv, TypeInv, SetupLogged, Setup, DaybreakLogged, Daybreak, WinLogged, Win
<1>1. PICK ph \in {"setup", "day", "game_end"}, type \in {"role_assignment", "day_announcement", "game_over"},
           target \in {NoOne} \cup {TeamOf[team] : team \in DOMAIN TeamOf} :
        Emit(<<EventIn(ph, type, System, target)>>) /\ (ph = "setup" <=> type = "role_assignment")
  <2>1. WinLogged => WinCheck(alive) \in DOMAIN TeamOf
    BY DEF WinLogged, Win, WinCheck, TeamOf
  <2>2. QED
    BY <2>1 DEF SetupLogged, DaybreakLogged, WinLogged
<1> DEFINE e == EventIn(ph, type, System, target)
<1>2. /\ e \in EventSet /\ e.visibility = Visibility[type]
      /\ e.phase = ph /\ e.type = type /\ e.actor = System /\ e.target = target
      /\ e.round = IF ph = "setup" THEN 0 ELSE rnd
  BY <1>0, TypesAre, EventInIs
<1> HIDE DEF e
<1>3. Proper(e) /\ Behind(e)
  BY <1>1, <1>2 DEF Proper, Behind, Decided, ActiveTypes, WitchTypes, HunterTypes, CommitTypes
<1>4. Kept(e.type, e.target)
  BY <1>0 DEF Kept
<1>5. QED
  BY <1>1, <1>2, <1>3, <1>4, OneWritten DEF e

(* Who takes a turn.                                                       *)
LEMMA ActorIs ==
  ASSUME NEW p \in Players, Turn(p)
  PROVE  /\ p \in alive /\ p > cursor
         /\ pc = "guard" => Role[p] = "guard"
         /\ pc = "wolf"  => p \in Wolves
         /\ pc = "seer"  => Role[p] = "seer"
         /\ pc = "witch" => Role[p] = "witch"
BY DEF Turn, Pending, PhaseActors, AliveWith

(* A turn writes one event, or none when its resolver skipped.             *)
LEMMA TurnWrites ==
  ASSUME GameInv, LogTypes, NEW p \in Players, NEW target \in Players \cup {NoOne},
         NEW ph \in {"night", "day"},
         NEW type \in {"guard_protect", "seer_check", "witch_pass", "witch_save", "witch_poison",
                       "player_speech", "player_vote", "hunter_pass"},
         Emit(<<EventIn(ph, type, p, target)>>),
         type = "guard_protect" => Role[p] = "guard" /\ target # NoOne /\ GuardTurn(p, target),
         type = "seer_check" => Role[p] = "seer" /\ SeerTurn(p),
         type \in WitchTypes => Role[p] = "witch",
         type = "witch_pass" => WitchPass(p),
         type = "witch_save" => target # NoOne /\ target = row.kill /\ WitchSave(p),
         type = "witch_poison" => target # NoOne /\ WitchPoison(p, target),
         type = "player_speech" => SpeechTurn(p),
         type = "player_vote" => VoteTurn(p, target),
         type = "hunter_pass" => HunterPass /\ p = shooter,
         type = "player_vote" => ph = "day",
         type \notin {"player_speech", "player_vote", "hunter_pass"} => ph = "night",
         Kept(type, target)
  PROVE  Written
<1> DEFINE e == EventIn(ph, type, p, target)
<1>1. /\ e \in EventSet /\ e.visibility = Visibility[type]
      /\ e.phase = ph /\ e.type = type /\ e.actor = p /\ e.target = target /\ e.round = rnd
  <2>1. TypeOK /\ ph \in {"setup", "night", "day", "game_end"} /\ ph # "setup"
    BY DEF GameInv, TypeInv
  <2>2. type \in DOMAIN Visibility
    BY TypesAre
  <2>3. /\ p \in Players \cup {System}
        /\ target \in Players \cup {NoOne} \cup {TeamOf[team] : team \in DOMAIN TeamOf}
    OBVIOUS
  <2>4. QED
    BY <2>1, <2>2, <2>3, EventInIs
<1> HIDE DEF e
<1>2. Proper(e)
  BY <1>1 DEF Proper, CommitTypes, HunterTypes, WitchTypes
<1>3. Behind(e)
  BY <1>1 DEF Behind
<1>4. QED
  BY <1>1, <1>2, <1>3, OneWritten DEF e

LEMMA GuardWrites ==
  ASSUME GameInv, LogTypes, NEW p \in Players, NEW target \in Players \cup {NoOne},
         GuardLogged(p, target)
  PROVE  Written
<1>1. /\ GuardTurn(p, target) /\ Role[p] = "guard" /\ Acted("night", "guard_protect", p, target)
      /\ row' = [row EXCEPT !.guard = target]
  BY ActorIs DEF GuardLogged, GuardTurn, TakeTurn
<1>2. /\ row'.guard = target /\ row'.kill = row.kill /\ row'.save = row.save
      /\ row'.poison = row.poison /\ row'.died = row.died
  BY <1>1 DEF GameInv, TypeInv, TypeOK, RoundRecord
<1>3. CASE target = NoOne
  <2>1. log' = log
    BY <1>1, <1>3, ConcatEmptySeq DEF Acted, Emit, LogTypes
  <2>2. QED
    BY <1>2, <1>3, <2>1, NothingWritten DEF Kept
<1>4. CASE target # NoOne
  <2>1. Emit(<<EventIn("night", "guard_protect", p, target)>>)
    BY <1>1, <1>4 DEF Acted
  <2>2. Kept("guard_protect", target)
    BY <1>2 DEF Kept
  <2>3. QED
    BY <1>1, <1>4, <2>1, <2>2, TurnWrites DEF WitchTypes
<1>5. QED
  BY <1>3, <1>4

LEMMA SeerWrites ==
  ASSUME GameInv, LogTypes, NEW p \in Players, NEW target \in Players \cup {NoOne},
         SeerLogged(p, target)
  PROVE  Written
<1>1. /\ SeerTurn(p) /\ Role[p] = "seer" /\ Acted("night", "seer_check", p, target)
      /\ \A type : Kept(type, target)
  BY ActorIs DEF SeerLogged, SeerTurn, TakeTurn, Kept
<1>2. CASE target = NoOne
  <2>1. log' = log
    BY <1>1, <1>2, ConcatEmptySeq DEF Acted, Emit, LogTypes
  <2>2. QED
    BY <1>1, <1>2, <2>1, NothingWritten
<1>3. CASE target # NoOne
  <2>1. Emit(<<EventIn("night", "seer_check", p, target)>>)
    BY <1>1, <1>3 DEF Acted
  <2>2. QED
    BY <1>1, <2>1, TurnWrites DEF WitchTypes
<1>4. QED
  BY <1>2, <1>3

LEMMA WitchWrites == ASSUME GameInv, LogTypes, NEW p \in Players, WitchLogged(p) PROVE Written
<1>0. Role[p] = "witch"
  BY ActorIs DEF WitchLogged, WitchPass, WitchSave, WitchPoison, TakeTurn
<1>1. CASE WitchPass(p) /\ Emit(<<EventIn("night", "witch_pass", p, NoOne)>>)
  <2>1. Kept("witch_pass", NoOne)
    BY <1>1 DEF WitchPass, Kept
  <2>2. QED
    BY <1>0, <1>1, <2>1, TurnWrites
<1>2. CASE WitchSave(p) /\ Emit(<<EventIn("night", "witch_save", p, row.kill)>>)
  <2>1. row' = [row EXCEPT !.save = row.kill] /\ row.kill \in Players
    BY <1>2 DEF WitchSave, MaySave, GameInv, TypeInv, TypeOK, RoundRecord
  <2>2. Kept("witch_save", row.kill)
    BY <2>1 DEF Kept, GameInv, TypeInv, TypeOK, RoundRecord
  <2>3. QED
    BY <1>0, <1>2, <2>1, <2>2, PlacesAreInts, TurnWrites
<1>3. ASSUME NEW target \in Considers[p] \ {NoOne}, WitchPoison(p, target),
             Emit(<<EventIn("night", "witch_poison", p, target)>>)
      PROVE  Written
  <2>1. row' = [row EXCEPT !.poison = target] /\ target \in Players
    BY <1>3 DEF WitchPoison, PoisonTargets, GameInv, TypeInv, TypeOK
  <2>2. Kept("witch_poison", target)
    BY <2>1 DEF Kept, GameInv, TypeInv, TypeOK, RoundRecord
  <2>3. QED
    BY <1>0, <1>3, <2>1, <2>2, PlacesAreInts, TurnWrites
<1>4. QED
  BY <1>1, <1>2, <1>3 DEF WitchLogged

LEMMA SpeechWrites == ASSUME GameInv, LogTypes, NEW p \in Players, SpeechLogged(p) PROVE Written
<1>1. /\ SpeechTurn(p) /\ Emit(<<EventIn("day", "player_speech", p, NoOne)>>)
      /\ Kept("player_speech", NoOne)
  BY DEF SpeechLogged, SpeechTurn, Kept
<1>2. QED
  BY <1>1, TurnWrites DEF WitchTypes

LEMMA VoteWrites ==
  ASSUME GameInv, LogTypes, NEW p \in Players, NEW target \in Players \cup {NoOne},
         VoteLogged(p, target)
  PROVE  Written
<1>1. /\ VoteTurn(p, target) /\ Acted("day", "player_vote", p, target)
      /\ \A type : Kept(type, target)
  BY DEF VoteLogged, VoteTurn, Kept
<1>2. CASE target = NoOne
  <2>1. log' = log
    BY <1>1, <1>2, ConcatEmptySeq DEF Acted, Emit, LogTypes
  <2>2. QED
    BY <1>1, <1>2, <2>1, NothingWritten
<1>3. CASE target # NoOne
  <2>1. Emit(<<EventIn("day", "player_vote", p, target)>>)
    BY <1>1, <1>3 DEF Acted
  <2>2. QED
    BY <1>1, <2>1, TurnWrites DEF WitchTypes
<1>4. QED
  BY <1>2, <1>3

LEMMA PassWrites == ASSUME GameInv, LogTypes, PassLogged PROVE Written
<1>1. /\ HunterPass /\ Emit(<<EventIn(phase, "hunter_pass", shooter, NoOne)>>)
      /\ row' = [row EXCEPT !.asked = @ \cup {shooter}]
      /\ shooter \in Players /\ phase \in {"night", "day"}
  BY DEF PassLogged, HunterPass, GameInv, TypeInv, TypeOK, Bounds
<1>2. Kept("hunter_pass", NoOne)
  BY <1>1 DEF Kept, GameInv, TypeInv, TypeOK, RoundRecord
<1>3. QED
  BY <1>1, <1>2, TurnWrites DEF WitchTypes

---------------------------------------------------------------------------
LEMMA MinIsLeast ==
  ASSUME NEW places \in SUBSET Nat, places # {}
  PROVE  Min(places) \in places /\ \A k \in places : Min(places) <= k
BY LeastExists DEF Min

(* The primary of a kill is a living wolf: the first of those that         *)
(* proposed its target, or the first of the team when nobody proposed.     *)
LEMMA PrimaryIsWolf ==
  ASSUME GameInv, TeamInv, NEW target \in Players, WolfConsensus(target)
  PROVE  Primary(target) \in Wolves \cap alive
<1>0. pc = "wolf" /\ PhaseActors = Wolves \cap alive /\ TypeInv
  BY DEF WolfConsensus, PhaseActors, GameInv
<1>1. CASE proposals = <<>>
  <2>1. PhaseActors # {}
    BY NotAPlayer DEF WolfConsensus
  <2>2. PhaseActors \in SUBSET Nat
    BY <1>0, BoardAssumption DEF Wolves, Players
  <2>3. QED
    BY <1>0, <1>1, <2>1, <2>2, MinIsLeast DEF Primary
<1>2. CASE proposals # <<>>
  <2> DEFINE for == {k \in DOMAIN proposals : proposals[k][2] = target}
  <2>1. proposals \in Seq(Players \X Players) /\ 1 \in DOMAIN proposals
    BY <1>2 DEF TeamInv
  <2>2. proposals[1][2] \in Players
    BY <2>1
  <2>3. tally[proposals[1][2]] > 0
    BY <1>0, <2>1, <2>2 DEF TeamInv
  <2>4. target \in Leaders
    <3>1. Leaders # {} /\ PhaseActors # {}
      BY <1>0, <2>2, <2>3, SomebodyLeads, NotAPlayer DEF WolfConsensus
    <3>2. QED
      BY <3>1 DEF WolfConsensus
  <2>5. for # {}
    BY <1>0, <2>4 DEF TeamInv, Leaders
  <2>6. for \in SUBSET Nat
    BY <2>1
  <2>7. Min(for) \in for
    BY <2>5, <2>6, MinIsLeast
  <2>8. QED
    BY <1>0, <1>2, <2>7 DEF TeamInv, Primary
<1>3. QED
  BY <1>1, <1>2

LEMMA KillWrites ==
  ASSUME GameInv, LogTypes, TeamInv, NEW target \in Players \cup {NoOne}, KillLogged(target)
  PROVE  Written
<1>1. WolfConsensus(target) /\ row' = [row EXCEPT !.kill = target] /\ row \in RoundRecord
  BY DEF KillLogged, WolfConsensus, GameInv, TypeInv, TypeOK
<1>2. /\ row'.guard = row.guard /\ row'.kill = target /\ row'.save = row.save
      /\ row'.poison = row.poison /\ row'.died = row.died
  BY <1>1 DEF RoundRecord
<1>3. CASE target = NoOne
  BY <1>2, <1>3, NothingWritten DEF KillLogged, Kept
<1>4. CASE target # NoOne
  <2> DEFINE e == EventIn("night", "werewolf_kill", Primary(target), target)
  <2>1. target \in Players /\ Primary(target) \in Wolves \cap alive /\ Primary(target) \in Players
    BY <1>1, <1>4, PrimaryIsWolf DEF Wolves
  <2>2. TypeOK /\ "werewolf_kill" \in DOMAIN Visibility
    BY TypesAre DEF GameInv, TypeInv
  <2>3. /\ e \in EventSet /\ e.visibility = Visibility["werewolf_kill"] /\ e.phase = "night"
        /\ e.type = "werewolf_kill" /\ e.actor = Primary(target) /\ e.target = target
        /\ e.round = rnd
    BY <2>1, <2>2, EventInIs
  <2>4. Emit(<<e>>)
    BY <1>4 DEF KillLogged
  <2> HIDE DEF e
  <2>5. Proper(e)
    BY <2>1, <2>3 DEF Proper, CommitTypes, HunterTypes, WitchTypes
  <2>6. Behind(e)
    BY <1>1, <2>1, <2>3 DEF Behind
  <2>7. Kept(e.type, e.target)
    BY <1>2, <2>3 DEF Kept
  <2>8. QED
    BY <2>3, <2>4, <2>5, <2>6, <2>7, OneWritten
<1>5. QED
  BY <1>3, <1>4

(* A death's last words.                                                   *)
LEMMA WordsAre ==
  ASSUME GameInv, NEW ph \in {"night", "day"}, NEW p \in Players, NEW words \in Words(ph, p)
  PROVE  \/ words = <<>>
         \/ \E w \in EventSet : /\ words = <<w>> /\ w.type = "final_words" /\ w.round = rnd
                                /\ Proper(w) /\ Behind(w)
<1> DEFINE w == EventIn(ph, "final_words", p, NoOne)
<1>1. TypeOK /\ "final_words" \in DOMAIN Visibility
      /\ ph \in {"setup", "night", "day", "game_end"} /\ ph # "setup"
  BY TypesAre DEF GameInv, TypeInv
<1>2. w \in EventSet /\ w.visibility = Visibility["final_words"] /\ w.type = "final_words"
      /\ w.round = rnd
  BY <1>1, EventInIs
<1>3. words = <<>> \/ words = <<w>>
  BY DEF Words
<1> HIDE DEF w
<1>4. Proper(w) /\ Behind(w)
  BY <1>2 DEF Proper, Behind, Decided, ActiveTypes, CommitTypes, HunterTypes, WitchTypes
<1>5. QED
  BY <1>2, <1>3, <1>4

(* What is written of a death: one or two events that differ, the last     *)
(* words after them.                                                       *)
Decease(es) ==
  /\ \A k \in 1..Len(es) : /\ Proper(es[k]) /\ Behind(es[k]) /\ es[k].round = rnd
                           /\ es[k].type # "final_words"
  /\ Len(es) = 2 => \/ es[1].type = "hunter_shoot" /\ es[2].type = "player_died"
                       /\ es[1].target = es[2].target
                    \/ es[1].type = "player_eliminated" /\ es[2].type = "role_revealed"
  /\ Len(es) = 1 => es[1].type = "player_died" /\ \E c \in Causes : deaths[c] = es[1].target
  /\ \A p \in row'.died \ row.died :
       phase' = "night" => \E k \in 1..Len(es) : /\ es[k].type = "player_died"
                                                 /\ es[k].target = p /\ es[k].phase = "night"
  /\ row'.guard = row.guard /\ row'.kill = row.kill
  /\ row'.save = row.save /\ row'.poison = row.poison

LEMMA DeceaseWritten ==
  ASSUME GameInv, LogTypes, NEW es \in Seq(EventSet), Len(es) \in {1, 2}, Decease(es),
         NEW ph \in {"night", "day"}, NEW p \in Players, NEW words \in Words(ph, p),
         Emit(es \o words)
  PROVE  Written
<1> DEFINE n == Len(log)
<1>0. n \in Nat
  BY DEF LogTypes
<1>1. words = <<>> \/ \E w \in EventSet : words = <<w>>
  BY WordsAre
<1>2. /\ Grown
      /\ \A k \in 1..Len(es) : n + k \in New /\ log'[n + k] = es[k]
      /\ \A i \in New : \/ i - n \in 1..Len(es) /\ log'[i] = es[i - n]
                        \/ i = n + Len(es) + 1 /\ words # <<>> /\ log'[i] = words[1]
  <2>1. words \in {<<>>} \cup {<<w>> : w \in EventSet}
    BY <1>1
  <2>2. QED
    BY <2>1, SomeNew
<1>3. words # <<>> =>
        words[1].type = "final_words" /\ words[1].round = rnd /\ Proper(words[1]) /\ Behind(words[1])
  BY WordsAre
<1> HIDE DEF n
<1>4. ASSUME NEW i \in New
      PROVE  \/ i = n + 1 /\ log'[i] = es[1]
             \/ i = n + 2 /\ Len(es) = 2 /\ log'[i] = es[2]
             \/ i = n + Len(es) + 1 /\ log'[i].type = "final_words"
                /\ Proper(log'[i]) /\ Behind(log'[i])
  <2>1. i \in Int
    BY <1>2 DEF Grown
  <2>2. CASE i - n \in 1..Len(es) /\ log'[i] = es[i - n]
    <3>1. i - n = 1 \/ (i - n = 2 /\ Len(es) = 2)
      BY <1>0, <2>1, <2>2
    <3>2. i - n = 1 => i = n + 1
      BY <1>0, <2>1
    <3>3. i - n = 2 => i = n + 2
      BY <1>0, <2>1
    <3>4. QED
      BY <2>2, <3>1, <3>2, <3>3
  <2>3. QED
    BY <1>2, <1>3, <2>2
<1>5. ASSUME NEW i \in New PROVE Proper(log'[i]) /\ Behind(log'[i]) /\ Caused(i)
  <2>1. 1 \in 1..Len(es) /\ (Len(es) = 2 => 2 \in 1..Len(es))
    OBVIOUS
  <2>2. Proper(log'[i]) /\ Behind(log'[i])
    BY <1>4, <2>1 DEF Decease
  <2>3. ASSUME log'[i].type = "player_died" PROVE Caused(i)
    <3>1. CASE i = n + 1 /\ log'[i] = es[1]
      BY <2>3, <3>1 DEF Caused, Decease
    <3>2. CASE i = n + 2 /\ Len(es) = 2 /\ log'[i] = es[2]
      <4>1. n + 1 \in New /\ log'[n + 1] = es[1] /\ n + 1 < n + 2
        BY <1>0, <1>2, <2>1
      <4>2. es[1].type = "hunter_shoot" /\ es[1].target = es[2].target
        BY <2>3, <3>2 DEF Decease
      <4>3. QED
        BY <3>2, <4>1, <4>2 DEF Caused
    <3>3. QED
      BY <1>4, <2>3, <3>1, <3>2
  <2>4. QED
    BY <2>2, <2>3 DEF Caused
<1>6. Apart
  <2>1. es[1].type # "final_words"
    BY DEF Decease
  <2>2. Len(es) = 2 =>
          /\ es[2].type # "final_words" /\ es[1].type # es[2].type
          /\ ~({es[1].type, es[2].type} \subseteq CommitTypes)
          /\ ~({es[1].type, es[2].type} \subseteq HunterTypes)
    BY DEF Decease, CommitTypes, HunterTypes
  <2>3. "final_words" \notin CommitTypes \cup HunterTypes
    BY DEF CommitTypes, HunterTypes
  <2>4. QED
    BY <1>4, <2>1, <2>2, <2>3 DEF Apart, SameKind
<1>7. Traced
  <2>1. ASSUME NEW q \in row'.died \ row.died, phase' = "night"
        PROVE  \E i \in New : /\ log'[i].type = "player_died" /\ log'[i].target = q
                              /\ log'[i].round = rnd /\ log'[i].phase = "night"
    <3>1. PICK k \in 1..Len(es) : /\ es[k].type = "player_died" /\ es[k].target = q
                                  /\ es[k].phase = "night" /\ es[k].round = rnd
      BY <2>1 DEF Decease
    <3>2. QED
      BY <1>2, <3>1
  <2>2. QED
    BY <2>1 DEF Decease, Traced
<1>8. QED
  BY <1>2, <1>5, <1>6, <1>7 DEF Written

LEMMA DeathWrites == ASSUME GameInv, LogTypes, NEW c \in Causes, DeathLogged(c) PROVE Written
<1> DEFINE e == EventIn("night", "player_died", System, deaths[c])
           es == <<e>>
<1>1. PICK words \in Words("night", deaths[c]) : Emit(es \o words)
  BY DEF DeathLogged
<1>2. CommitDeath(c) /\ TypeInv /\ DeathInv /\ EndInv /\ RulingInv
  BY DEF DeathLogged, GameInv
<1>3. /\ deaths[c] \in Players /\ deaths[c] \in alive /\ pc = "deaths" /\ phase' = phase
      /\ Die(deaths[c], c, "deaths", row) /\ row \in RoundRecord /\ phase = "night"
  BY <1>2, NotAPlayer DEF CommitDeath, Overtaken, TypeInv, TypeOK, RulingInv, Calendar
<1>4. PICK p \in Players : p = deaths[c]
  BY <1>3
<1>5. /\ row'.died = row.died \cup {p} /\ alive' = alive \ {p} /\ row'.guard = row.guard
      /\ row'.kill = row.kill /\ row'.save = row.save /\ row'.poison = row.poison
  BY <1>2, <1>3, <1>4, DieCommits
<1>6. /\ e \in EventSet /\ e.visibility = Visibility["player_died"] /\ e.phase = "night"
      /\ e.type = "player_died" /\ e.actor = System /\ e.target = p /\ e.round = rnd
  <2>1. TypeOK /\ "player_died" \in DOMAIN Visibility
    BY <1>2, TypesAre DEF TypeInv
  <2>2. System \in Players \cup {System} /\ "night" \in {"setup", "night", "day", "game_end"}
        /\ p \in Players \cup {NoOne} \cup {TeamOf[team] : team \in DOMAIN TeamOf}
    OBVIOUS
  <2>3. QED
    BY <1>4, <2>1, <2>2, EventInIs
<1> HIDE DEF e
<1>7. Proper(e)
  BY <1>6 DEF Proper, Decided, ActiveTypes, CommitTypes, HunterTypes, WitchTypes
<1>8. Behind(e)
  BY <1>3, <1>4, <1>5, <1>6 DEF Behind
<1>9. es \in Seq(EventSet) /\ Len(es) = 1 /\ es[1] = e
  BY <1>6
<1> HIDE DEF es
<1>10. Decease(es)
  BY <1>4, <1>5, <1>6, <1>7, <1>8, <1>9 DEF Decease
<1>11. QED
  BY <1>1, <1>3, <1>9, <1>10, DeceaseWritten

LEMMA ShotWrites == ASSUME GameInv, LogTypes, NEW t \in Players, ShotLogged(t) PROVE Written
<1> DEFINE e == EventIn(phase, "hunter_shoot", shooter, t)
           f == EventIn(phase, "player_died", System, t)
           es == <<e, f>>
           r == [row EXCEPT !.asked = @ \cup {shooter}, !.shot = @ \cup {t}]
<1>1. PICK words \in Words(phase, t) : Emit(es \o words)
  BY DEF ShotLogged
<1>2. HunterShoot(t) /\ TypeInv /\ DeathInv /\ EndInv /\ RulingInv /\ TypeOK
  BY DEF ShotLogged, GameInv, TypeInv
<1>3. /\ t \in alive /\ pc = "shot" /\ phase' = phase /\ shooter \in Players
      /\ phase \in {"night", "day"} /\ Die(t, "hunter_shoot", AfterDeaths, r)
  BY <1>2 DEF HunterShoot, ShotTargets, TypeInv, TypeOK, Bounds
<1>4. /\ r \in RoundRecord /\ r.guard = row.guard /\ r.kill = row.kill /\ r.save = row.save
      /\ r.poison = row.poison /\ r.died = row.died
  BY <1>2, <1>3 DEF TypeOK, RoundRecord
<1> HIDE DEF r
<1>5. /\ row'.died = row.died \cup {t} /\ alive' = alive \ {t} /\ row'.guard = row.guard
      /\ row'.kill = row.kill /\ row'.save = row.save /\ row'.poison = row.poison
  BY <1>2, <1>3, <1>4, DieCommits
<1>6. /\ e \in EventSet /\ e.visibility = Visibility["hunter_shoot"] /\ e.phase = phase
      /\ e.type = "hunter_shoot" /\ e.actor = shooter /\ e.target = t /\ e.round = rnd
      /\ f \in EventSet /\ f.visibility = Visibility["player_died"] /\ f.phase = phase
      /\ f.type = "player_died" /\ f.actor = System /\ f.target = t /\ f.round = rnd
  <2>1. "hunter_shoot" \in DOMAIN Visibility /\ "player_died" \in DOMAIN Visibility
    BY TypesAre
  <2>2. /\ System \in Players \cup {System}
        /\ t \in Players \cup {NoOne} \cup {TeamOf[team] : team \in DOMAIN TeamOf}
    OBVIOUS
  <2>3. PICK ph \in {"night", "day"}, hunter \in Players : ph = phase /\ hunter = shooter
    BY <1>3
  <2>4. ph \in {"setup", "night", "day", "game_end"} /\ ph # "setup"
    OBVIOUS
  <2> HIDE DEF e, f, es
  <2>5. ASSUME NEW type \in {"hunter_shoot", "player_died"}, NEW actor \in {System, hunter},
               NEW event, event = EventIn(ph, type, actor, t)
        PROVE  /\ event \in EventSet /\ event.visibility = Visibility[type] /\ event.phase = ph
               /\ event.type = type /\ event.actor = actor /\ event.target = t
               /\ event.round = rnd
    <3>1. type \in DOMAIN Visibility /\ actor \in Players \cup {System}
      BY <2>1
    <3>2. /\ EventIn(ph, type, actor, t) \in EventSet
          /\ EventIn(ph, type, actor, t).visibility = Visibility[type]
          /\ EventIn(ph, type, actor, t).phase = ph /\ EventIn(ph, type, actor, t).type = type
          /\ EventIn(ph, type, actor, t).actor = actor
          /\ EventIn(ph, type, actor, t).target = t
          /\ EventIn(ph, type, actor, t).round = rnd
      <4>1. TypeOK
        BY <1>2
      <4>2. ph \in {"setup", "night", "day", "game_end"} /\ ph # "setup"
        BY <2>4
      <4>3. t \in Players \cup {NoOne} \cup {TeamOf[team] : team \in DOMAIN TeamOf}
        BY <2>2
      <4>4. QED
        BY ONLY <3>1, <4>1, <4>2, <4>3, EventInIs
    <3>3. QED
      BY <2>5, <3>2
  <2>6. /\ e = EventIn(ph, "hunter_shoot", hunter, t)
        /\ f = EventIn(ph, "player_died", System, t)
    BY <2>3 DEF e, f
  <2>7. QED
    BY <2>3, <2>5, <2>6
<1> HIDE DEF e, f
<1>7. Proper(e) /\ Proper(f)
  BY <1>3, <1>6 DEF Proper, Decided, ActiveTypes, CommitTypes, HunterTypes, WitchTypes
<1>8. Behind(e) /\ Behind(f)
  BY <1>2, <1>3, <1>5, <1>6 DEF Behind
<1>9. es \in Seq(EventSet) /\ Len(es) = 2 /\ es[1] = e /\ es[2] = f
  BY <1>6
<1> HIDE DEF es
<1>10. Decease(es)
  <2>1. \A k \in 1..Len(es) : es[k] \in {e, f}
    BY <1>9
  <2>2. ASSUME NEW q \in row'.died \ row.died, phase' = "night"
        PROVE  \E k \in 1..Len(es) : /\ es[k].type = "player_died"
                                     /\ es[k].target = q /\ es[k].phase = "night"
    <3>1. q = t /\ 2 \in 1..Len(es) /\ phase = "night"
      BY <1>3, <1>5, <1>9, <2>2
    <3>2. QED
      BY <1>6, <1>9, <3>1
  <2>3. QED
    BY <1>5, <1>6, <1>7, <1>8, <1>9, <2>1, <2>2 DEF Decease
<1>11. QED
  BY <1>1, <1>3, <1>9, <1>10, DeceaseWritten

LEMMA EliminationWrites ==
  ASSUME GameInv, LogTypes, NEW t \in Players \cup {NoOne}, EliminationLogged(t) PROVE Written
<1>1. Elimination(t) /\ TypeInv /\ DeathInv /\ EndInv /\ RulingInv /\ TypeOK
  BY DEF EliminationLogged, GameInv, TypeInv
<1>2. CASE t = NoOne
  BY <1>1, <1>2, NothingWritten DEF EliminationLogged, Elimination, Kept
<1>3. CASE t # NoOne
  <2> DEFINE e == EventIn("day", "player_eliminated", System, t)
             f == EventIn("day", "role_revealed", System, t)
             es == <<e, f>>
             r == [row EXCEPT !.voted = t]
  <2>1. PICK words \in Words("day", t) : Emit(es \o words)
    BY <1>3 DEF EliminationLogged
  <2>2. /\ t \in Players /\ t \in alive /\ pc = "vote" /\ phase' = "day"
        /\ Die(t, "vote", "dusk", r)
    BY <1>1, <1>3 DEF Elimination, OrNoOne, Leaders, DeathInv
  <2>3. /\ r \in RoundRecord /\ r.guard = row.guard /\ r.kill = row.kill /\ r.save = row.save
        /\ r.poison = row.poison /\ r.died = row.died
    BY <1>1 DEF TypeOK, RoundRecord
  <2> HIDE DEF r
  <2>4. /\ row'.died = row.died \cup {t} /\ alive' = alive \ {t} /\ row'.guard = row.guard
        /\ row'.kill = row.kill /\ row'.save = row.save /\ row'.poison = row.poison
    BY <1>1, <2>2, <2>3, DieCommits
  <2>5. /\ e \in EventSet /\ e.visibility = Visibility["player_eliminated"] /\ e.phase = "day"
        /\ e.type = "player_eliminated" /\ e.actor = System /\ e.target = t /\ e.round = rnd
        /\ f \in EventSet /\ f.visibility = Visibility["role_revealed"] /\ f.phase = "day"
        /\ f.type = "role_revealed" /\ f.actor = System /\ f.target = t /\ f.round = rnd
    <3>1. {"player_eliminated", "role_revealed"} \subseteq DOMAIN Visibility
      BY TypesAre
    <3>2. /\ System \in Players \cup {System}
          /\ "day" \in {"setup", "night", "day", "game_end"}
          /\ t \in Players \cup {NoOne} \cup {TeamOf[team] : team \in DOMAIN TeamOf}
      BY <2>2
    <3>3. QED
      BY <1>1, <3>1, <3>2, EventInIs
  <2> HIDE DEF e, f
  <2>6. Proper(e) /\ Proper(f)
    BY <2>2, <2>5 DEF Proper, Decided, ActiveTypes, CommitTypes, HunterTypes, WitchTypes
  <2>7. Behind(e) /\ Behind(f)
    BY <1>1, <2>2, <2>4, <2>5 DEF Behind
  <2>8. es \in Seq(EventSet) /\ Len(es) = 2 /\ es[1] = e /\ es[2] = f
    BY <2>5
  <2> HIDE DEF es
  <2>9. Decease(es)
    <3>1. \A k \in 1..Len(es) : es[k] \in {e, f}
      BY <2>8
    <3>2. QED
      BY <2>2, <2>4, <2>5, <2>6, <2>7, <2>8, <3>1 DEF Decease
  <2>10. QED
    BY <2>1, <2>2, <2>8, <2>9, DeceaseWritten
<1>4. QED
  BY <1>2, <1>3

(* The steps that write no event.                                          *)
LEMMA QuietWrites ==
  ASSUME GameInv, LogTypes,
         \/ DayClosed \/ Unlogged \/ UNCHANGED auditVars
         \/ \E p \in Players, t \in Players \cup {NoOne} : Proposed(p, t)
  PROVE  Written
<1>1. log' = log
  BY DEF DayClosed, Unlogged, auditVars, Proposed
<1>2. Kept("none", NoOne)
  <2>1. CASE NextRound
    BY <2>1 DEF NextRound, BlankRow, Kept
  <2>2. CASE ~NextRound
    <3>1. row' = row
      BY <2>2 DEF DayClosed, RoundCap, Unlogged, NextPhase, SettleNight, ScribeTurn,
         BudgetExhausted, Finished, SkipDeath, auditVars, vars, Proposed, WolfTurn
    <3>2. QED
      BY <3>1 DEF Kept
  <2>3. QED
    BY <2>1, <2>2
<1>3. QED
  BY <1>1, <1>2, NothingWritten

LEMMA StepsWrite == ASSUME GameInv, LogTypes, TeamInv, [AuditNext]_auditVars PROVE Written
BY ModeratorWrites, GuardWrites, SeerWrites, WitchWrites, SpeechWrites, VoteWrites, PassWrites,
   KillWrites, DeathWrites, ShotWrites, EliminationWrites, QuietWrites DEF AuditNext

(* Every step of the log is a step of the game.                            *)
LEMMA AuditIsGame == ASSUME GameInv, [AuditNext]_auditVars PROVE [Next]_vars
<1>1. CASE UNCHANGED auditVars
  BY <1>1 DEF auditVars
<1>2. CASE SetupLogged \/ PassLogged \/ DaybreakLogged \/ WinLogged \/ DayClosed \/ Unlogged
  BY <1>2 DEF SetupLogged, PassLogged, DaybreakLogged, WinLogged, DayClosed, Unlogged, Next
<1>3. CASE \E c \in Causes : DeathLogged(c)
  BY <1>3 DEF DeathLogged, Next
<1>4. ASSUME NEW p \in Players, WitchLogged(p) \/ SpeechLogged(p) \/ ShotLogged(p)
      PROVE  Next
  <2>1. ASSUME NEW t \in Considers[p], WitchPoison(p, t) PROVE t \in Players
    BY <2>1 DEF WitchPoison, PoisonTargets, GameInv, TypeInv, TypeOK
  <2>2. QED
    BY <1>4, <2>1 DEF WitchLogged, SpeechLogged, ShotLogged, Next
<1>5. ASSUME NEW p \in Players, NEW t \in Players \cup {NoOne},
             GuardLogged(p, t) \/ Proposed(p, t) \/ SeerLogged(p, t) \/ VoteLogged(p, t)
      PROVE  Next
  BY <1>5 DEF GuardLogged, Proposed, SeerLogged, VoteLogged, Next
<1>6. ASSUME NEW t \in Players \cup {NoOne}, KillLogged(t) \/ EliminationLogged(t) PROVE Next
  BY <1>6 DEF KillLogged, EliminationLogged, Next
<1>7. QED
  BY <1>1, <1>2, <1>3, <1>4, <1>5, <1>6 DEF AuditNext

LEMMA GameGoesOn == ASSUME GameInv, [AuditNext]_auditVars PROVE GameInv'
BY AuditIsGame, NextType, NextDeath, NextEnd, NextRuling, NextConsumable, NextGuard DEF GameInv

---------------------------------------------------------------------------
(* What the game's steps do to what the log is held against.               *)
Stepped == GameInv /\ GameInv' /\ LogInv /\ Written /\ [AuditNext]_auditVars /\ [Next]_vars

(* The round changes at its end only, when the record is blanked.          *)
LEMMA RoundsGoOn ==
  ASSUME GameInv, [Next]_vars
  PROVE  \/ NextRound /\ rnd' = rnd + 1
         \/ rnd' = rnd /\ ~NextRound /\ row'.before = row.before
<1>0. TypeInv /\ TypeOK /\ row \in RoundRecord /\ rnd \in Nat
  BY BoardAssumption DEF GameInv, TypeInv, TypeOK
<1>1. CASE NextRound
  BY <1>1 DEF NextRound
<1>2. CASE ~NextRound
  <2>1. ASSUME rnd' = rnd PROVE ~NextRound
    BY <1>0, <2>1 DEF NextRound
  <2>2. CASE rnd' = rnd /\ UNCHANGED row
    BY <1>2, <2>2
  <2>3. CASE \/ \E p \in Players, t \in Players \cup {NoOne} : GuardTurn(p, t)
             \/ \E t \in Players \cup {NoOne} : WolfConsensus(t)
             \/ \E p \in Players : WitchSave(p) \/ \E t \in Players : WitchPoison(p, t)
             \/ HunterPass
    <3>1. rnd' = rnd
      BY <2>3 DEF GuardTurn, WolfConsensus, WitchSave, WitchPoison, TakeTurn, HunterPass
    <3>2. row'.before = row.before
      BY <1>0, <2>3 DEF GuardTurn, WolfConsensus, WitchSave, WitchPoison, HunterPass, RoundRecord
    <3>3. QED
      BY <1>2, <3>1, <3>2
  <2>4. ASSUME NEW p, NEW cause, NEW after, NEW r \in RoundRecord, Die(p, cause, after, r),
               r.before = row.before
        PROVE  row'.before = row.before
    BY <2>4 DEF Die, RoundRecord
  <2>5. CASE \/ \E c \in Causes : CommitDeath(c)
             \/ \E t \in Players : HunterShoot(t)
             \/ \E t \in Players \cup {NoOne} : Elimination(t)
    <3>1. rnd' = rnd
      BY <2>5 DEF CommitDeath, HunterShoot, Elimination
    <3>2. CASE \E c \in Causes : CommitDeath(c)
      BY <1>0, <1>2, <2>4, <3>1, <3>2 DEF CommitDeath
    <3>3. ASSUME NEW t \in Players, HunterShoot(t) PROVE row'.before = row.before
      <4> DEFINE r == [row EXCEPT !.asked = @ \cup {shooter}, !.shot = @ \cup {t}]
      <4>1. shooter \in Players /\ Die(t, "hunter_shoot", AfterDeaths, r)
        BY <1>0, <3>3 DEF HunterShoot, TypeInv, Bounds
      <4>2. r \in RoundRecord /\ r.before = row.before
        BY <1>0, <4>1 DEF RoundRecord
      <4> HIDE DEF r
      <4>3. QED
        BY <2>4, <4>1, <4>2
    <3>4. ASSUME NEW t \in Players \cup {NoOne}, Elimination(t) PROVE row'.before = row.before
      <4>1. CASE t = NoOne
        BY <3>4, <4>1 DEF Elimination
      <4>2. CASE t # NoOne
        <5> DEFINE r == [row EXCEPT !.voted = t]
        <5>1. Die(t, "vote", "dusk", r)
          BY <3>4, <4>2 DEF Elimination
        <5>2. r \in RoundRecord /\ r.before = row.before
          BY <1>0 DEF RoundRecord
        <5> HIDE DEF r
        <5>3. QED
          BY <2>4, <5>1, <5>2
      <4>3. QED
        BY <4>1, <4>2
    <3>5. QED
      BY <1>2, <2>5, <3>1, <3>2, <3>3, <3>4
  <2>6. CASE \/ Setup \/ NextPhase \/ SettleNight \/ Win \/ Daybreak \/ ScribeTurn \/ RoundCap
             \/ BudgetExhausted \/ UNCHANGED vars
             \/ \E c \in Causes : SkipDeath(c)
             \/ \E p \in Players :
                  \/ SeerTurn(p) \/ SpeechTurn(p) \/ WitchPass(p)
                  \/ \E t \in Players \cup {NoOne} : WolfTurn(p, t) \/ VoteTurn(p, t)
    <3>1. rnd' = rnd /\ UNCHANGED row
      BY <2>6 DEF Setup, NextPhase, SettleNight, Win, Daybreak, ScribeTurn, RoundCap, FailClosed,
         BudgetExhausted, vars, SkipDeath, SeerTurn, SpeechTurn, WitchPass, WolfTurn, VoteTurn,
         TakeTurn
    <3>2. QED
      BY <1>2, <3>1
  <2>7. QED
    BY <1>2, <2>3, <2>5, <2>6 DEF Next, Finished
<1>3. QED
  BY <1>1, <1>2

(* Within a round the phases follow each other: nobody's turn comes back,  *)
(* and a phase that begins was to come.                                    *)
LEMMA PhasesGoOn ==
  ASSUME GameInv, [Next]_vars, rnd' = rnd, NEW type
  PROVE  /\ NotYet(type)' => NotYet(type)
         /\ Acting(type)' => NotYet(type) \/ (Acting(type) /\ cursor <= cursor')
<1>0. TypeInv /\ TypeOK /\ rnd \in Nat /\ cursor \in Nat /\ RulingInv
  <2>1. TypeInv /\ TypeOK /\ RulingInv
    BY DEF GameInv, TypeInv
  <2>2. rnd \in Nat /\ cursor \in Nat
    BY <2>1, BoardAssumption DEF TypeOK, Players
  <2>3. QED
    BY <2>1, <2>2
<1>1. CASE \E p \in Players : TakeTurn(p)
  <2>1. PICK p \in Players : TakeTurn(p)
    BY <1>1
  <2>2. pc' = pc /\ phase' = phase /\ cursor' = p /\ cursor < p /\ p \in Nat
    BY <2>1, BoardAssumption DEF TakeTurn, Turn, Pending, Players
  <2>3. QED
    BY <1>0, <2>2 DEF NotYet, Acting
<1>2. CASE UNCHANGED vars \/ Finished
  BY <1>0, <1>2 DEF vars, Finished, NotYet, Acting
<1>3. CASE Setup \/ NextPhase \/ \E t \in Players \cup {NoOne} : WolfConsensus(t)
  <2>1. phase' = phase /\ <<pc, pc'>> \in {<<"setup", "guard">>, <<"guard", "wolf">>, <<"wolf", "seer">>,
                                          <<"seer", "witch">>, <<"speech", "scribe">>,
                                          <<"speech", "vote">>}
    BY <1>3 DEF Setup, NextPhase, Following, WolfConsensus
  <2>2. QED
    BY <2>1 DEF NotYet, Acting, Dark, Night
<1>4. CASE SettleNight \/ ScribeTurn \/ Daybreak \/ \E c \in Causes : SkipDeath(c)
  <2>1. <<pc, pc'>> \in {<<"witch", "deaths">>, <<"scribe", "vote">>, <<"deaths", "speech">>,
                        <<"deaths", "deaths">>}
    BY <1>4 DEF SettleNight, ScribeTurn, Daybreak, SkipDeath, NightOver
  <2>2. QED
    BY <2>1 DEF NotYet, Acting, Dark, Night
<1>5. CASE Win \/ RoundCap \/ BudgetExhausted
  <2>1. pc' = "over"
    BY <1>5 DEF Win, RoundCap, BudgetExhausted, FailClosed
  <2>2. QED
    BY <2>1 DEF NotYet, Acting, Dark, Night
<1>6. CASE \/ \E c \in Causes : CommitDeath(c)
           \/ \E t \in Players : HunterShoot(t)
           \/ HunterPass
  <2>1. /\ pc \in {"deaths", "shot"} /\ pc' \in {"deaths", "shot", "dusk", "over"}
        /\ phase' = phase /\ (pc' = "deaths" => pc = "deaths" \/ phase = "night")
    BY <1>6 DEF CommitDeath, HunterShoot, HunterPass, Die, AfterDeaths
  <2>2. pc = "deaths" => phase = "night"
    BY <1>0 DEF RulingInv, Calendar
  <2>3. QED
    BY <2>1, <2>2 DEF NotYet, Acting, Dark, Night
<1>7. CASE \E t \in Players \cup {NoOne} : Elimination(t)
  <2>1. phase' = "day" /\ pc' \in {"shot", "dusk", "over"}
    BY <1>7 DEF Elimination, Die
  <2>2. QED
    BY <2>1 DEF NotYet, Acting, Dark, Night
<1>8. CASE NextRound
  BY <1>0, <1>8 DEF NextRound
<1>9. QED
  BY <1>1, <1>2, <1>3, <1>4, <1>5, <1>6, <1>7, <1>8
  DEF Next, SeerTurn, SpeechTurn, WitchPass, WitchSave, GuardTurn, WolfTurn, VoteTurn, WitchPoison

(* Nobody comes back to life, potions stay used, and a hunter's turn comes *)
(* with his death.                                                         *)
LEMMA DeathsLast ==
  ASSUME GameInv, [Next]_vars
  PROVE  /\ alive' \subseteq alive /\ (saveUsed => saveUsed') /\ (poisonUsed => poisonUsed')
         /\ pc' = "shot" => \/ shooter' \in alive
                            \/ pc = "shot" /\ shooter' = shooter
<1>1. ASSUME NEW p \in alive, NEW cause, NEW after \in {"deaths", "dusk"}, NEW r,
             Die(p, cause, after, r)
      PROVE  alive' \subseteq alive /\ (pc' = "shot" => shooter' \in alive)
  BY <1>1 DEF Die
<1>2. CASE \E c \in Causes : CommitDeath(c)
  BY <1>1, <1>2 DEF CommitDeath, Overtaken
<1>3. CASE \E t \in Players : HunterShoot(t)
  BY <1>1, <1>3 DEF HunterShoot, ShotTargets, AfterDeaths
<1>4. ASSUME NEW t \in Players \cup {NoOne}, Elimination(t)
      PROVE  /\ alive' \subseteq alive /\ (saveUsed => saveUsed') /\ (poisonUsed => poisonUsed')
             /\ pc' = "shot" => shooter' \in alive
  <2>1. t # NoOne => t \in alive
    BY <1>4 DEF Elimination, OrNoOne, Leaders, GameInv, DeathInv
  <2>2. UNCHANGED <<saveUsed, poisonUsed>>
    BY <1>4 DEF Elimination
  <2>3. CASE t = NoOne
    BY <1>4, <2>2, <2>3 DEF Elimination
  <2>4. CASE t # NoOne
    BY <1>1, <1>4, <2>1, <2>2, <2>4 DEF Elimination
  <2>5. QED
    BY <2>3, <2>4
<1>5. ASSUME NEW p \in Players,
             \/ SeerTurn(p) \/ SpeechTurn(p) \/ WitchPass(p) \/ WitchSave(p)
             \/ \E t \in Players \cup {NoOne} : GuardTurn(p, t) \/ WolfTurn(p, t) \/ VoteTurn(p, t)
             \/ \E t \in Players : WitchPoison(p, t)
      PROVE  /\ alive' = alive /\ (saveUsed => saveUsed') /\ (poisonUsed => poisonUsed')
             /\ pc' # "shot"
  BY <1>5 DEF SeerTurn, SpeechTurn, WitchPass, WitchSave, GuardTurn, WolfTurn, VoteTurn,
     WitchPoison, TakeTurn
<1>6. CASE \/ Setup \/ NextPhase \/ SettleNight \/ Win \/ Daybreak \/ ScribeTurn \/ NextRound
           \/ RoundCap \/ BudgetExhausted \/ HunterPass
           \/ \E c \in Causes : SkipDeath(c)
           \/ \E t \in Players \cup {NoOne} : WolfConsensus(t)
  BY <1>6 DEF Setup, NextPhase, Following, SettleNight, Win, Daybreak, ScribeTurn, NextRound,
     RoundCap, BudgetExhausted, FailClosed, HunterPass, AfterDeaths, SkipDeath, WolfConsensus
<1>7. CASE UNCHANGED vars
  BY <1>7 DEF vars
<1>8. QED
  BY <1>2, <1>3, <1>4, <1>5, <1>6, <1>7 DEF Next, Finished, CommitDeath, HunterShoot

---------------------------------------------------------------------------
(* Every step keeps what is known of the log.                              *)

(* An event of the log was there before the step or is one of its own.     *)
LEMMA OldOrNew ==
  ASSUME Written, NEW i \in DOMAIN log'
  PROVE  \/ i \in DOMAIN log /\ log'[i] = log[i]
         \/ i \in New /\ Proper(log'[i]) /\ Behind(log'[i]) /\ Caused(i)
BY DEF Written, Grown, New

LEMMA EventsAre ==
  ASSUME LogTypes, NEW i \in DOMAIN log
  PROVE  log[i] \in EventSet /\ Proper(log[i]) /\ log[i].round \in Nat /\ log[i].round <= rnd
<1>1. log[i] \in EventSet /\ Proper(log[i]) /\ log[i].round <= rnd
  BY DEF LogTypes
<1>2. log[i].round \in 0..MaxDayRounds /\ MaxDayRounds \in Nat
  BY <1>1, BoardAssumption DEF EventSet
<1>3. QED
  BY <1>1, <1>2

LEMMA AlikeBothWays == ASSUME NEW e, NEW f, Alike(e, f) PROVE Alike(f, e)
<1>1. \A types : {e.type, f.type} \subseteq types => {f.type, e.type} \subseteq types
  OBVIOUS
<1>2. QED
  BY <1>1 DEF Alike

LEMMA KeepsTypes == ASSUME Stepped PROVE LogTypes'
<1>1. rnd \in Nat /\ rnd' \in Nat /\ rnd <= rnd'
  BY RoundsGoOn, BoardAssumption DEF Stepped, GameInv, TypeInv, TypeOK
<1>2. ASSUME NEW i \in DOMAIN log' PROVE Proper(log'[i]) /\ log'[i].round <= rnd'
  <2>1. CASE i \in DOMAIN log /\ log'[i] = log[i]
    <3>1. Proper(log[i]) /\ log[i].round \in Nat /\ log[i].round <= rnd
      BY <2>1, EventsAre DEF Stepped, LogInv
    <3>2. QED
      BY <1>1, <2>1, <3>1
  <2>2. CASE i \in New /\ Proper(log'[i]) /\ Behind(log'[i])
    <3>1. log'[i].round \in {0, rnd}
      BY <2>2 DEF Behind
    <3>2. QED
      BY <1>1, <2>2, <3>1
  <2>3. QED
    BY <2>1, <2>2, OldOrNew DEF Stepped
<1>3. log' \in Seq(EventSet)
  BY DEF Stepped, Written, Grown
<1>4. QED
  BY <1>2, <1>3 DEF LogTypes, Proper

(* The turn behind an event is still to come before it, and over after it. *)
LEMMA TurnBehind ==
  ASSUME GameInv, NEW e, Proper(e), Behind(e), e.type \in TurnTypes
  PROVE  /\ e.actor \in Players /\ e.actor \in alive /\ e.actor > cursor /\ cursor' = e.actor
         /\ pc' = pc /\ phase' = phase /\ rnd' = rnd /\ e.round = rnd
         /\ Acting(e.type) /\ ~NotYet(e.type)
         /\ alive' = alive
<1>1. /\ e.actor \in Players /\ e.round = rnd
  BY DEF Proper, Behind, TurnTypes, WitchTypes, Decided, ActiveTypes
<1>2. TakeTurn(e.actor) /\ Acting(e.type) /\ alive' = alive
  BY DEF Behind, TurnTypes, WitchTypes, GuardTurn, SeerTurn, WitchPass, WitchSave, WitchPoison,
     VoteTurn, Acting
<1>3. /\ e.actor \in alive /\ e.actor > cursor /\ cursor' = e.actor
      /\ pc' = pc /\ phase' = phase /\ rnd' = rnd
  BY <1>1, <1>2, ActorIs DEF TakeTurn
<1>4. ~NotYet(e.type)
  BY <1>2 DEF Acting, NotYet, TurnTypes, WitchTypes, Dark, Night
<1>5. QED
  BY <1>1, <1>2, <1>3, <1>4

LEMMA KeepsTurns == ASSUME Stepped PROVE Turns'
<1> SUFFICES ASSUME NEW i \in DOMAIN log', NEW e, e = log'[i], e.round = rnd'
             PROVE  /\ ~NotYet(e.type)'
                    /\ Acting(e.type)' => e.actor <= cursor'
  BY DEF Turns, NotYet, Acting
<1>0. /\ GameInv /\ LogTypes /\ Turns /\ TypeOK /\ [Next]_vars
      /\ rnd \in Nat \ {0} /\ cursor \in Nat /\ cursor' \in Nat
  <2>1. GameInv /\ LogTypes /\ Turns /\ TypeOK /\ TypeOK' /\ [Next]_vars
    BY DEF Stepped, LogInv, GameInv, TypeInv
  <2>2. rnd \in Nat \ {0} /\ cursor \in Nat /\ cursor' \in Nat
    BY <2>1, BoardAssumption DEF TypeOK, Players
  <2>3. QED
    BY <2>1, <2>2
<1>1. CASE i \in DOMAIN log /\ e = log[i]
  <2>1. e.round \in Nat /\ e.round <= rnd /\ e \in EventSet
    BY <1>0, <1>1, EventsAre
  <2>2. rnd' = rnd
    BY <1>0, <2>1, RoundsGoOn
  <2>3. ~NotYet(e.type) /\ (Acting(e.type) => e.actor <= cursor)
    BY <1>0, <1>1, <2>2 DEF Turns
  <2>4. e.actor \in Int
    BY <2>1, BoardAssumption DEF EventSet, Players, System
  <2>5. ~NotYet(e.type)' /\ (Acting(e.type)' => e.actor <= cursor')
    BY <1>0, <2>2, <2>3, <2>4, PhasesGoOn
  <2>6. QED
    BY <2>5
<1>2. CASE i \in New /\ Proper(e) /\ Behind(e)
  <2>1. CASE e.type \in TurnTypes
    <3>1. /\ cursor' = e.actor /\ pc' = pc /\ phase' = phase /\ ~NotYet(e.type)
      BY <1>0, <1>2, <2>1, TurnBehind
    <3>2. ~NotYet(e.type)'
      BY <3>1 DEF NotYet
    <3>3. QED
      BY <1>0, <3>1, <3>2
  <2>2. CASE e.type = "werewolf_kill"
    <3>1. pc' = "seer"
      BY <1>2, <2>2 DEF Behind, WolfConsensus
    <3>2. QED
      BY <2>2, <3>1 DEF NotYet, Acting, WitchTypes
  <2>3. CASE e.type = "player_died"
    <3>1. pc \in {"deaths", "shot"}
      BY <1>2, <2>3 DEF Behind
    <3>2. ~NotYet(e.type)
      BY <2>3, <3>1 DEF NotYet, WitchTypes, Night
    <3>3. rnd' = rnd
      BY <1>0, <3>1, RoundsGoOn DEF NextRound, DayOver
    <3>4. ~NotYet(e.type)'
      BY <1>0, <3>2, <3>3, PhasesGoOn
    <3>5. ~Acting(e.type)'
      BY <2>3 DEF Acting, WitchTypes
    <3>6. QED
      BY <3>4, <3>5
  <2>4. CASE e.type \notin TurnTypes \cup {"werewolf_kill", "player_died"}
    BY <2>4 DEF NotYet, Acting, TurnTypes, WitchTypes
  <2>5. QED
    BY <2>1, <2>2, <2>3, <2>4
<1>3. QED
  BY <1>1, <1>2, OldOrNew DEF Stepped

(* An event the step adds is like none before it.                          *)
LEMMA NewIsFirst ==
  ASSUME Stepped, NEW i \in DOMAIN log, NEW j \in New, Alike(log[i], log'[j]) PROVE FALSE
<1> DEFINE e == log[i]
           f == log'[j]
<1>0. /\ GameInv /\ Turns /\ Done /\ Proper(e) /\ Proper(f) /\ Behind(f)
      /\ e \in EventSet /\ cursor \in Int
  <2>1. GameInv /\ Turns /\ Done /\ LogTypes /\ Proper(f) /\ Behind(f) /\ TypeOK
    BY DEF Stepped, LogInv, Written, GameInv, TypeInv
  <2>2. Proper(e) /\ e \in EventSet
    BY <2>1, EventsAre
  <2>3. cursor \in Int
    BY <2>1, BoardAssumption DEF TypeOK, Players
  <2>4. QED
    BY <2>1, <2>2, <2>3
<1>1. CASE e.type = f.type /\ e.type \in TurnTypes /\ e.actor = f.actor /\ e.round = f.round
  <2>1. /\ f.actor \in Players /\ f.actor > cursor /\ f.round = rnd /\ Acting(f.type)
    BY <1>0, <1>1, TurnBehind
  <2>2. e.actor <= cursor
    BY <1>0, <1>1, <2>1 DEF Turns
  <2>3. QED
    BY <1>0, <1>1, <2>1, <2>2, BoardAssumption DEF Players
<1>2. CASE e.type = f.type /\ e.type = "werewolf_kill" /\ e.round = f.round
  <2>1. pc = "wolf" /\ f.round = rnd
    BY <1>0, <1>2 DEF Behind, WolfConsensus
  <2>2. QED
    BY <1>0, <1>2, <2>1 DEF Turns, NotYet
<1>3. CASE e.type = f.type /\ e.type \in {"witch_save", "witch_poison"}
  <2>1. CASE e.type = "witch_save"
    BY <1>0, <1>3, <2>1 DEF Behind, Done, WitchSave, MaySave
  <2>2. CASE e.type = "witch_poison"
    BY <1>0, <1>3, <2>2 DEF Behind, Done, WitchPoison, PoisonTargets
  <2>3. QED
    BY <1>3, <2>1, <2>2
<1>4. CASE {e.type, f.type} \subseteq HunterTypes /\ e.actor = f.actor
  <2>1. pc = "shot" /\ f.actor = shooter
    BY <1>0, <1>4 DEF Behind, HunterTypes, HunterShoot, HunterPass
  <2>2. QED
    BY <1>0, <1>4, <2>1 DEF Done
<1>5. CASE {e.type, f.type} \subseteq CommitTypes /\ e.target = f.target
  <2>1. f.target \in alive
    BY <1>0, <1>5 DEF Behind, CommitTypes
  <2>2. QED
    BY <1>0, <1>5, <2>1 DEF Done
<1>6. QED
  BY <1>1, <1>2, <1>3, <1>4, <1>5 DEF Alike

LEMMA KeepsOnce == ASSUME Stepped PROVE Once'
<1> SUFFICES ASSUME NEW i \in DOMAIN log', NEW j \in DOMAIN log', Alike(log'[i], log'[j])
             PROVE  i = j
  BY DEF Once, Alike
<1>1. Alike(log'[j], log'[i])
  BY AlikeBothWays
<1>2. CASE i \in DOMAIN log /\ j \in DOMAIN log /\ log'[i] = log[i] /\ log'[j] = log[j]
  BY <1>2 DEF Stepped, LogInv, Once
<1>3. CASE i \in New /\ j \in New
  <2>1. Apart
    BY DEF Stepped, Written
  <2>2. SameKind(log'[i], log'[j])
    BY DEF Alike, SameKind
  <2>3. QED
    BY <1>3, <2>1, <2>2 DEF Apart
<1>4. CASE i \in DOMAIN log /\ log'[i] = log[i] /\ j \in New
  BY <1>4, NewIsFirst
<1>5. CASE j \in DOMAIN log /\ log'[j] = log[j] /\ i \in New
  BY <1>1, <1>5, NewIsFirst
<1>6. QED
  BY <1>2, <1>3, <1>4, <1>5, OldOrNew DEF Stepped

LEMMA KeepsDone == ASSUME Stepped PROVE Done'
<1> SUFFICES ASSUME NEW i \in DOMAIN log'
             PROVE  /\ log'[i].type = "witch_save" => saveUsed'
                    /\ log'[i].type = "witch_poison" => poisonUsed'
                    /\ log'[i].type \in HunterTypes =>
                         log'[i].actor \notin alive' /\ ~(pc' = "shot" /\ shooter' = log'[i].actor)
                    /\ log'[i].type \in CommitTypes => log'[i].target \notin alive'
  BY DEF Done
<1>0. /\ GameInv /\ Done /\ alive' \subseteq alive /\ (saveUsed => saveUsed')
      /\ (poisonUsed => poisonUsed')
      /\ pc' = "shot" => (shooter' \in alive \/ (pc = "shot" /\ shooter' = shooter))
  BY DeathsLast DEF Stepped, LogInv
<1>1. CASE i \in DOMAIN log /\ log'[i] = log[i]
  BY <1>0, <1>1 DEF Done
<1>2. CASE i \in New /\ Proper(log'[i]) /\ Behind(log'[i])
  <2>1. log'[i].type = "witch_save" => saveUsed'
    BY <1>2 DEF Behind, WitchSave
  <2>2. log'[i].type = "witch_poison" => poisonUsed'
    BY <1>2 DEF Behind, WitchPoison
  <2>3. log'[i].type \in CommitTypes => log'[i].target \notin alive'
    BY <1>2 DEF Behind, CommitTypes
  <2>4. ASSUME log'[i].type \in HunterTypes
        PROVE  log'[i].actor \notin alive' /\ ~(pc' = "shot" /\ shooter' = log'[i].actor)
    <3>1. pc = "shot" /\ log'[i].actor = shooter
          /\ (HunterPass \/ \E t \in Players : HunterShoot(t))
      <4>1. log'[i].target \in Players \/ log'[i].type # "hunter_shoot"
        BY <1>2 DEF Behind, HunterShoot, ShotTargets, Stepped, GameInv, TypeInv, TypeOK
      <4>2. QED
        BY <1>2, <2>4, <4>1 DEF Behind, HunterTypes, HunterShoot, HunterPass
    <3>2. shooter \notin alive
      BY <1>0, <3>1 DEF GameInv, ConsumableInv, ShotsInv
    <3>3. pc' = "shot" => shooter' \in alive
      BY <3>1 DEF HunterShoot, HunterPass, Die, ShotTargets, AfterDeaths
    <3>4. QED
      BY <1>0, <3>1, <3>2, <3>3
  <2>5. QED
    BY <2>1, <2>2, <2>3, <2>4
<1>3. QED
  BY <1>1, <1>2, OldOrNew DEF Stepped

(* What the record of the round has of its night changes in four turns.    *)
LEMMA RowChanges ==
  ASSUME GameInv, [Next]_vars, ~NextRound
  PROVE  \/ SameNight
         \/ \E p \in Players, t \in Players \cup {NoOne} : GuardTurn(p, t)
         \/ \E t \in Players \cup {NoOne} : WolfConsensus(t)
         \/ \E p \in Players : WitchSave(p) \/ \E t \in Players : WitchPoison(p, t)
<1>0. TypeInv /\ row \in RoundRecord
  BY DEF GameInv, TypeInv, TypeOK
<1>1. ASSUME UNCHANGED row PROVE SameNight
  BY <1>1 DEF SameNight
<1>2. ASSUME NEW p, NEW cause, NEW after, NEW r \in RoundRecord, Die(p, cause, after, r),
             r.guard = row.guard, r.kill = row.kill, r.save = row.save, r.poison = row.poison
      PROVE  SameNight
  BY <1>2 DEF Die, SameNight, RoundRecord
<1>3. ASSUME NEW c \in Causes, CommitDeath(c) PROVE SameNight
  BY <1>0, <1>2, <1>3 DEF CommitDeath
<1>4. ASSUME NEW t \in Players, HunterShoot(t) PROVE SameNight
  <2> DEFINE r == [row EXCEPT !.asked = @ \cup {shooter}, !.shot = @ \cup {t}]
  <2>1. shooter \in Players /\ Die(t, "hunter_shoot", AfterDeaths, r)
    BY <1>0, <1>4 DEF HunterShoot, TypeInv, Bounds
  <2>2. /\ r \in RoundRecord /\ r.guard = row.guard /\ r.kill = row.kill
        /\ r.save = row.save /\ r.poison = row.poison
    BY <1>0, <2>1 DEF RoundRecord
  <2> HIDE DEF r
  <2>3. QED
    BY <1>2, <2>1, <2>2
<1>5. ASSUME NEW t \in Players \cup {NoOne}, Elimination(t) PROVE SameNight
  <2>1. CASE t = NoOne
    BY <1>1, <1>5, <2>1 DEF Elimination
  <2>2. CASE t # NoOne
    <3> DEFINE r == [row EXCEPT !.voted = t]
    <3>1. Die(t, "vote", "dusk", r)
      BY <1>5, <2>2 DEF Elimination
    <3>2. /\ r \in RoundRecord /\ r.guard = row.guard /\ r.kill = row.kill
          /\ r.save = row.save /\ r.poison = row.poison
      BY <1>0 DEF RoundRecord
    <3> HIDE DEF r
    <3>3. QED
      BY <1>2, <3>1, <3>2
  <2>3. QED
    BY <2>1, <2>2
<1>6. CASE HunterPass
  BY <1>0, <1>6 DEF HunterPass, SameNight, RoundRecord
<1>7. CASE \/ Setup \/ NextPhase \/ SettleNight \/ Win \/ Daybreak \/ ScribeTurn \/ RoundCap
           \/ BudgetExhausted \/ UNCHANGED vars
           \/ \E c \in Causes : SkipDeath(c)
           \/ \E p \in Players :
                \/ SeerTurn(p) \/ SpeechTurn(p) \/ WitchPass(p)
                \/ \E t \in Players \cup {NoOne} : WolfTurn(p, t) \/ VoteTurn(p, t)
  <2>1. UNCHANGED row
    BY <1>7 DEF Setup, NextPhase, SettleNight, Win, Daybreak, ScribeTurn, RoundCap,
       BudgetExhausted, vars, SkipDeath, SeerTurn, SpeechTurn, WitchPass, WolfTurn, VoteTurn
  <2>2. QED
    BY <1>1, <2>1
<1>8. QED
  BY <1>3, <1>4, <1>5, <1>6, <1>7 DEF Next, Finished

(* After a step, the record and the events agree on one of its entries.    *)
SaysThen(type, target) ==
  /\ target # NoOne =>
       \E i \in DOMAIN log' : /\ log'[i].type = type /\ log'[i].round = rnd'
                              /\ log'[i].target = target
  /\ \A i \in DOMAIN log' : log'[i].type = type /\ log'[i].round = rnd' => log'[i].target = target

LEMMA SaysOn ==
  ASSUME Stepped, rnd' = rnd, NEW type, NEW old, NEW new, Says(type, old),
         new # old => \A i \in DOMAIN log : log[i].type = type => log[i].round # rnd,
         new \in {NoOne, old} \/ Told(type, new),
         \A i \in New : log'[i].type = type => log'[i].target = new
  PROVE  SaysThen(type, new)
<1>1. \A i \in DOMAIN log : i \in DOMAIN log' /\ log'[i] = log[i]
  BY DEF Stepped, Written, Grown
<1>2. ASSUME new # NoOne
      PROVE  \E i \in DOMAIN log' : /\ log'[i].type = type /\ log'[i].round = rnd'
                                    /\ log'[i].target = new
  <2>1. CASE new = old
    BY <1>1, <1>2, <2>1 DEF Says, At
  <2>2. CASE Told(type, new)
    BY <2>2 DEF Told, New
  <2>3. QED
    BY <1>2, <2>1, <2>2
<1>3. ASSUME NEW i \in DOMAIN log', log'[i].type = type, log'[i].round = rnd'
      PROVE  log'[i].target = new
  <2>1. CASE i \in DOMAIN log /\ log'[i] = log[i]
    BY <1>3, <2>1 DEF Says, At
  <2>2. CASE i \in New
    BY <1>3, <2>2
  <2>3. QED
    BY <2>1, <2>2, OldOrNew DEF Stepped
<1>4. QED
  BY <1>2, <1>3 DEF SaysThen

(* The entry a new event makes.                                            *)
LEMMA NewEntries ==
  ASSUME Stepped, NEW e, Proper(e), Behind(e)
  PROVE  /\ e.type = "guard_protect" => row'.guard = e.target
         /\ e.type = "werewolf_kill" => row'.kill = e.target
         /\ e.type = "witch_save" => row'.save = e.target
         /\ e.type = "witch_poison" => row'.poison = e.target
<1>1. row \in RoundRecord
  BY DEF Stepped, GameInv, TypeInv, TypeOK
<1>2. QED
  BY <1>1 DEF Behind, GuardTurn, WolfConsensus, WitchSave, WitchPoison, RoundRecord

(* A turn that makes an entry is the first of its kind in the round.       *)
LEMMA FirstEntries ==
  ASSUME GameInv, LogInv, NEW i \in DOMAIN log, log[i].round = rnd
  PROVE  /\ log[i].type = "guard_protect" =>
              \A p \in Players, t \in Players \cup {NoOne} : ~GuardTurn(p, t)
         /\ log[i].type = "werewolf_kill" => \A t \in Players \cup {NoOne} : ~WolfConsensus(t)
         /\ log[i].type = "witch_save" => \A p \in Players : ~WitchSave(p)
         /\ log[i].type = "witch_poison" => \A p, t \in Players : ~WitchPoison(p, t)
<1>0. Turns /\ Done /\ Proper(log[i]) /\ TypeOK
  BY EventsAre DEF LogInv, GameInv, TypeInv
<1>1. ASSUME log[i].type = "guard_protect", NEW p \in Players, NEW t \in Players \cup {NoOne},
             GuardTurn(p, t)
      PROVE  FALSE
  <2>1. pc = "guard" /\ Role[p] = "guard" /\ p > cursor
    BY <1>1, ActorIs DEF GuardTurn, TakeTurn
  <2>2. log[i].actor \in Players /\ Role[log[i].actor] = "guard" /\ log[i].actor <= cursor
    BY <1>0, <1>1, <2>1 DEF Turns, Acting, Proper, Decided, ActiveTypes
  <2>3. log[i].actor = p
    BY <2>1, <2>2, BoardAssumption DEF Players
  <2>4. p \in Int /\ cursor \in Int
    BY <1>0, BoardAssumption DEF TypeOK, Players
  <2>5. QED
    BY <2>1, <2>2, <2>3, <2>4
<1>2. log[i].type = "werewolf_kill" => \A t \in Players \cup {NoOne} : ~WolfConsensus(t)
  BY <1>0 DEF Turns, NotYet, WolfConsensus
<1>3. log[i].type = "witch_save" => \A p \in Players : ~WitchSave(p)
  BY <1>0 DEF Done, WitchSave, MaySave
<1>4. log[i].type = "witch_poison" => \A p, t \in Players : ~WitchPoison(p, t)
  BY <1>0 DEF Done, WitchPoison, PoisonTargets
<1>5. QED
  BY <1>1, <1>2, <1>3, <1>4

LEMMA KeepsRow == ASSUME Stepped PROVE RowLogged'
<1>0. /\ GameInv /\ LogInv /\ Written /\ [Next]_vars /\ RowLogged /\ LogTypes /\ TypeOK
      /\ row \in RoundRecord /\ rnd \in Nat \ {0} /\ Traced
      /\ \A i \in New : Proper(log'[i]) /\ Behind(log'[i])
      /\ \A i \in DOMAIN log : log[i].round \in Nat /\ log[i].round <= rnd
  <2>1. /\ GameInv /\ LogInv /\ Written /\ [Next]_vars /\ RowLogged /\ LogTypes /\ TypeOK /\ Traced
        /\ \A i \in New : Proper(log'[i]) /\ Behind(log'[i])
    BY DEF Stepped, LogInv, GameInv, TypeInv, Written
  <2>2. row \in RoundRecord /\ rnd \in Nat \ {0}
    BY <2>1, BoardAssumption DEF TypeOK
  <2>3. QED
    BY <2>1, <2>2, EventsAre
<1>1. CASE NextRound
  <2>1. /\ rnd' = rnd + 1 /\ row' = BlankRow(row.guard) /\ pc' = "guard"
    BY <1>1 DEF NextRound
  <2>2. /\ row'.guard = NoOne /\ row'.kill = NoOne /\ row'.save = NoOne /\ row'.poison = NoOne
        /\ row'.before = row.guard
    BY <2>1 DEF BlankRow
  <2>3. ASSUME NEW i \in DOMAIN log', log'[i].round \in {rnd', rnd}, log'[i].type # "role_assignment"
        PROVE  i \in DOMAIN log /\ log'[i] = log[i] /\ log[i].round = rnd
    <3>1. pc = "dusk" /\ cursor' = cursor
      BY <1>1 DEF NextRound, DayOver
    <3>2. ASSUME i \in New PROVE FALSE
      <4>1. log'[i].round = rnd /\ Behind(log'[i]) /\ Proper(log'[i])
        BY <1>0, <2>3, <3>2 DEF Behind
      <4>2. log' # log
        BY <3>2 DEF New
      <4>3. DayClosed
        <5>1. \A p \in Players, t \in Players \cup {NoOne} :
                ~GuardLogged(p, t) /\ ~Proposed(p, t) /\ ~SeerLogged(p, t) /\ ~VoteLogged(p, t)
          BY <3>1 DEF GuardLogged, GuardTurn, Proposed, WolfTurn, SeerLogged, SeerTurn, VoteLogged,
             VoteTurn
        <5>2. \A p \in Players : ~WitchLogged(p) /\ ~SpeechLogged(p) /\ ~ShotLogged(p)
          BY <3>1 DEF WitchLogged, WitchPass, WitchSave, WitchPoison, SpeechLogged, SpeechTurn,
             ShotLogged, HunterShoot
        <5>3. \A t \in Players \cup {NoOne} : ~KillLogged(t) /\ ~EliminationLogged(t)
          BY <3>1 DEF KillLogged, WolfConsensus, EliminationLogged, Elimination
        <5>4. \A c \in Causes : ~DeathLogged(c)
          BY <3>1 DEF DeathLogged, CommitDeath
        <5>5. ~SetupLogged /\ ~PassLogged /\ ~DaybreakLogged
          BY <3>1 DEF SetupLogged, Setup, PassLogged, HunterPass, DaybreakLogged, Daybreak, NightOver
        <5>6. ~WinLogged
          BY <1>1 DEF WinLogged, Win, NextRound
        <5>7. ~Unlogged /\ log' # log
          BY <4>2 DEF Unlogged
        <5>8. QED
          BY <4>2, <5>1, <5>2, <5>3, <5>4, <5>5, <5>6, <5>7 DEF Stepped, AuditNext, auditVars
      <4>4. QED
        BY <4>2, <4>3 DEF DayClosed
    <3>3. i \in DOMAIN log /\ log'[i] = log[i]
      BY <1>0, <3>2, OldOrNew
    <3>4. log[i].round # rnd + 1
      BY <1>0, <3>3
    <3>5. QED
      BY <2>1, <2>3, <3>3, <3>4
  <2>4. rnd' # rnd /\ rnd + 1 = rnd'
    BY <1>0, <2>1
  <2>5. ASSUME NEW i \in DOMAIN log', log'[i].round = rnd' PROVE log'[i].type = "role_assignment"
    BY <2>3, <2>4, <2>5
  <2>6. ASSUME NEW i \in DOMAIN log', log'[i].type = "guard_protect", log'[i].round + 1 = rnd'
        PROVE  log'[i].target = row'.before
    <3>1. log'[i].round \in Nat
      <4>1. log'[i] \in EventSet
        BY <1>0 DEF Written, Grown
      <4>2. log'[i].round \in 0..MaxDayRounds /\ MaxDayRounds \in Nat
        BY <4>1, BoardAssumption DEF EventSet
      <4>3. QED
        BY <4>2
    <3>2. log'[i].round = rnd
      BY <1>0, <2>1, <2>6, <3>1
    <3>3. i \in DOMAIN log /\ log'[i] = log[i] /\ log[i].round = rnd
      BY <2>3, <2>6, <3>2
    <3>4. log[i].target = row.guard
      BY <1>0, <2>6, <3>3 DEF RowLogged, Says, At
    <3>5. QED
      BY <2>2, <3>3, <3>4
  <2>7. QED
    BY <2>2, <2>5, <2>6 DEF RowLogged, Says, At
<1>2. CASE ~NextRound
  <2>1. rnd' = rnd /\ row'.before = row.before
    BY <1>0, <1>2, RoundsGoOn
  <2>2. \/ SameNight
        \/ \E p \in Players, t \in Players \cup {NoOne} : GuardTurn(p, t)
        \/ \E t \in Players \cup {NoOne} : WolfConsensus(t)
        \/ \E p \in Players : WitchSave(p) \/ \E t \in Players : WitchPoison(p, t)
    BY <1>0, <1>2, RowChanges
  <2>3. /\ row'.guard # row.guard => \E p \in Players, t \in Players \cup {NoOne} : GuardTurn(p, t)
        /\ row'.kill # row.kill => \E t \in Players \cup {NoOne} : WolfConsensus(t)
        /\ row'.save # row.save => \E p \in Players : WitchSave(p) /\ row'.save = row.kill
        /\ row'.poison # row.poison => \E p, t \in Players : WitchPoison(p, t)
    BY <1>0, <2>2 DEF SameNight, GuardTurn, WolfConsensus, WitchSave, WitchPoison, RoundRecord
  <2>4. SaysThen("guard_protect", row'.guard)
    <3>1. PICK old, new : old = row.guard /\ new = row'.guard
      OBVIOUS
    <3>2. new # old => \A i \in DOMAIN log : log[i].type = "guard_protect" => log[i].round # rnd
      BY <1>0, <2>3, <3>1, FirstEntries
    <3>3. new \in {NoOne, old} \/ Told("guard_protect", new)
      BY <1>0, <3>1 DEF Traced
    <3>4. \A i \in New : log'[i].type = "guard_protect" => log'[i].target = new
      BY <1>0, <3>1, NewEntries
    <3>5. Says("guard_protect", old)
      BY <1>0, <3>1 DEF RowLogged
    <3>6. QED
      BY <2>1, <3>1, <3>2, <3>3, <3>4, <3>5, SaysOn
  <2>5. SaysThen("werewolf_kill", row'.kill)
    <3>1. PICK old, new : old = row.kill /\ new = row'.kill
      OBVIOUS
    <3>2. new # old => \A i \in DOMAIN log : log[i].type = "werewolf_kill" => log[i].round # rnd
      BY <1>0, <2>3, <3>1, FirstEntries
    <3>3. new \in {NoOne, old} \/ Told("werewolf_kill", new)
      BY <1>0, <3>1 DEF Traced
    <3>4. \A i \in New : log'[i].type = "werewolf_kill" => log'[i].target = new
      BY <1>0, <3>1, NewEntries
    <3>5. Says("werewolf_kill", old)
      BY <1>0, <3>1 DEF RowLogged
    <3>6. QED
      BY <2>1, <3>1, <3>2, <3>3, <3>4, <3>5, SaysOn
  <2>6. SaysThen("witch_save", row'.save)
    <3>1. PICK old, new : old = row.save /\ new = row'.save
      OBVIOUS
    <3>2. new # old => \A i \in DOMAIN log : log[i].type = "witch_save" => log[i].round # rnd
      BY <1>0, <2>3, <3>1, FirstEntries
    <3>3. new \in {NoOne, old} \/ Told("witch_save", new)
      BY <1>0, <3>1 DEF Traced
    <3>4. \A i \in New : log'[i].type = "witch_save" => log'[i].target = new
      BY <1>0, <3>1, NewEntries
    <3>5. Says("witch_save", old)
      BY <1>0, <3>1 DEF RowLogged
    <3>6. QED
      BY <2>1, <3>1, <3>2, <3>3, <3>4, <3>5, SaysOn
  <2>7. SaysThen("witch_poison", row'.poison)
    <3>1. PICK old, new : old = row.poison /\ new = row'.poison
      OBVIOUS
    <3>2. new # old => \A i \in DOMAIN log : log[i].type = "witch_poison" => log[i].round # rnd
      BY <1>0, <2>3, <3>1, FirstEntries
    <3>3. new \in {NoOne, old} \/ Told("witch_poison", new)
      BY <1>0, <3>1 DEF Traced
    <3>4. \A i \in New : log'[i].type = "witch_poison" => log'[i].target = new
      BY <1>0, <3>1, NewEntries
    <3>5. Says("witch_poison", old)
      BY <1>0, <3>1 DEF RowLogged
    <3>6. QED
      BY <2>1, <3>1, <3>2, <3>3, <3>4, <3>5, SaysOn
  <2>8. pc' \in {"setup", "guard", "wolf"} => row'.kill = NoOne
    <3>1. ASSUME pc' \in {"setup", "guard", "wolf"} PROVE pc \in {"setup", "guard", "wolf"}
      <4>1. NotYet("werewolf_kill")'
        BY <3>1 DEF NotYet
      <4>2. NotYet("werewolf_kill")
        BY <1>0, <2>1, <4>1, PhasesGoOn
      <4>3. QED
        BY <4>2 DEF NotYet, WitchTypes
    <3>2. (\E t \in Players \cup {NoOne} : WolfConsensus(t)) => pc' = "seer"
      BY DEF WolfConsensus
    <3>3. QED
      BY <1>0, <2>3, <3>1, <3>2 DEF RowLogged
  <2>9. row'.save \in {NoOne, row'.kill}
    <3>1. CASE \E t \in Players \cup {NoOne} : WolfConsensus(t)
      <4>1. pc = "wolf" /\ row'.save = row.save
        BY <1>0, <3>1 DEF WolfConsensus, RoundRecord
      <4>2. row.save = NoOne
        BY <1>0, <4>1 DEF GameInv, RulingInv, Blank, Night
      <4>3. QED
        BY <4>1, <4>2
    <3>2. CASE row'.kill = row.kill
      BY <1>0, <2>3, <3>2 DEF RowLogged
    <3>3. QED
      BY <2>3, <3>1, <3>2
  <2>10. ASSUME NEW i \in DOMAIN log', log'[i].type = "guard_protect", log'[i].round + 1 = rnd'
         PROVE  log'[i].target = row'.before
    <3>1. CASE i \in DOMAIN log /\ log'[i] = log[i]
      <4>1. log[i].type = "guard_protect" /\ log[i].round + 1 = rnd
        BY <2>1, <2>10, <3>1
      <4>2. log[i].target = row.before
        BY <1>0, <3>1, <4>1 DEF RowLogged, At
      <4>3. QED
        BY <2>1, <3>1, <4>2
    <3>2. CASE i \in New
      <4>1. log'[i].round = rnd
        BY <1>0, <2>10, <3>2 DEF Behind
      <4>2. QED
        BY <1>0, <2>1, <2>10, <4>1
    <3>3. QED
      BY <1>0, <3>1, <3>2, OldOrNew
  <2>11. QED
    BY <2>4, <2>5, <2>6, <2>7, <2>8, <2>9, <2>10 DEF RowLogged, Says, SaysThen, At
<1>3. QED
  BY <1>1, <1>2

(* When night falls and when it turns to day.                              *)
LEMMA NightsAndDays ==
  ASSUME GameInv, [Next]_vars, pc' \notin Night, status' \notin Failures
  PROVE  /\ rnd' = rnd /\ status \notin Failures
         /\ phase' = "night" => \/ SettleNight
                                \/ phase = "night" /\ pc \notin Night /\ SameNight
         /\ phase' = "day" =>
              \/ phase = "day" /\ pc \notin Night
              \/ \E t \in Players \cup {NoOne} : Elimination(t)
<1>0. TypeOK /\ EndInv /\ RulingInv
  BY DEF GameInv, TypeInv
<1>1. ~NextRound
  BY DEF NextRound, Night
<1>2. rnd' = rnd
  BY <1>1, RoundsGoOn
<1>3. SettleNight \/ pc \notin Night
  <2>1. CASE \E p \in Players : TakeTurn(p)
    BY <2>1 DEF TakeTurn
  <2>2. CASE Setup \/ NextPhase \/ \E t \in Players \cup {NoOne} : WolfConsensus(t)
    BY <2>2 DEF Setup, NextPhase, Following, WolfConsensus, Night
  <2>3. CASE BudgetExhausted
    BY <2>3 DEF BudgetExhausted, FailClosed, Failures
  <2>4. CASE \/ ScribeTurn \/ Daybreak \/ Win \/ RoundCap \/ HunterPass
             \/ \E c \in Causes : SkipDeath(c) \/ CommitDeath(c)
             \/ \E t \in Players : HunterShoot(t)
             \/ \E t \in Players \cup {NoOne} : Elimination(t)
    BY <2>4 DEF ScribeTurn, Daybreak, Win, RoundCap, HunterPass, SkipDeath, CommitDeath,
       HunterShoot, Elimination, NightOver, DayOver, Night
  <2>5. CASE UNCHANGED vars \/ Finished
    BY <2>5 DEF vars, Finished
  <2>6. QED
    BY <1>1, <2>1, <2>2, <2>3, <2>4, <2>5
    DEF Next, SeerTurn, SpeechTurn, WitchPass, WitchSave, GuardTurn, WolfTurn, VoteTurn, WitchPoison
<1>4. \/ SettleNight /\ phase' = "night"
      \/ (\E t \in Players \cup {NoOne} : Elimination(t)) /\ phase' = "day"
      \/ phase' = phase
  <2>1. CASE \E p \in Players : TakeTurn(p)
    BY <2>1 DEF TakeTurn
  <2>2. CASE UNCHANGED phase
    BY <2>2
  <2>3. CASE SettleNight \/ \E t \in Players \cup {NoOne} : Elimination(t)
    BY <2>3 DEF SettleNight, Elimination
  <2>4. CASE \/ Setup \/ NextPhase \/ ScribeTurn \/ Daybreak \/ Win \/ RoundCap \/ HunterPass
             \/ BudgetExhausted \/ UNCHANGED vars \/ Finished
             \/ \E c \in Causes : SkipDeath(c) \/ CommitDeath(c)
             \/ \E t \in Players : HunterShoot(t)
             \/ \E t \in Players \cup {NoOne} : WolfConsensus(t)
    BY <2>4 DEF Setup, NextPhase, ScribeTurn, Daybreak, Win, RoundCap, HunterPass,
       BudgetExhausted, vars, Finished, SkipDeath, CommitDeath, HunterShoot, WolfConsensus
  <2>5. QED
    BY <1>1, <2>1, <2>3, <2>4
    DEF Next, SeerTurn, SpeechTurn, WitchPass, WitchSave, GuardTurn, WolfTurn, VoteTurn, WitchPoison
<1>5. pc \notin Night => SameNight
  <2>1. \A p, t : pc \notin Night =>
          ~GuardTurn(p, t) /\ ~WolfConsensus(t) /\ ~WitchSave(p) /\ ~WitchPoison(p, t)
    BY DEF GuardTurn, WolfConsensus, WitchSave, WitchPoison, Night
  <2>2. QED
    BY <1>1, <2>1, RowChanges
<1>6. status \notin Failures
  <2>1. SUFFICES ASSUME status \in Failures PROVE FALSE
    OBVIOUS
  <2>2. pc = "over"
    BY <1>0, <2>1 DEF EndInv, Failures, TypeOK, Statuses
  <2>3. UNCHANGED vars
    BY <2>2 DEF Next, Setup, NextPhase, SettleNight, SkipDeath, CommitDeath, SeerTurn, SpeechTurn,
       WitchPass, WitchSave, GuardTurn, WolfTurn, VoteTurn, WitchPoison, WolfConsensus, Elimination,
       HunterShoot, HunterPass, Win, NightOver, DayOver, Daybreak, ScribeTurn, NextRound, RoundCap,
       BudgetExhausted, Refused, Turn, Pending, PhaseActors, Finished
  <2>4. QED
    BY <2>1, <2>3 DEF vars
<1>7. SettleNight => phase' = "night"
  BY DEF SettleNight
<1>8. QED
  BY <1>2, <1>3, <1>4, <1>5, <1>6, <1>7

(* A hunter is asked at night only when the wolves' kill went through.     *)
LEMMA ShotsFollowKill ==
  ASSUME GameInv, NightDead, phase = "night", NEW t \in Players, HunterShoot(t) PROVE KillLands
<1>1. /\ TypeInv /\ pc = "shot" /\ shooter \in Players /\ status \notin Failures
      /\ RulingInv /\ pc \notin Night /\ row.voted = NoOne
  BY DEF GameInv, TypeInv, Bounds, HunterShoot, EndInv, Failures, Night, RulingInv, Calendar
<1>2. shooter \in row.died /\ ~OnlyPoisoned(shooter)
  BY <1>1 DEF RulingInv, Counts
<1>3. Doomed(shooter) \/ shooter \in row.shot
  BY <1>1, <1>2, NotAPlayer DEF RulingInv, Counts
<1>4. ~KillLands => row.shot = {}
  BY <1>1 DEF NightDead
<1>5. QED
  BY <1>1, <1>2, <1>3, <1>4, NotAPlayer DEF Doomed, OnlyPoisoned

LEMMA DeadAndShot ==
  ASSUME GameInv, [Next]_vars, rnd' = rnd, pc \notin Night
  PROVE  /\ row.died \subseteq row'.died
         /\ row'.shot = row.shot \/ \E t \in Players : HunterShoot(t)
<1>0. TypeInv /\ row \in RoundRecord /\ rnd \in Nat
  BY BoardAssumption DEF GameInv, TypeInv, TypeOK
<1>1. ASSUME UNCHANGED row PROVE row.died \subseteq row'.died /\ row'.shot = row.shot
  BY <1>1
<1>2. ASSUME NEW p, NEW cause, NEW after, NEW r \in RoundRecord, Die(p, cause, after, r),
             r.died = row.died
      PROVE  row.died \subseteq row'.died /\ row'.shot = r.shot
  BY <1>2 DEF Die, RoundRecord
<1>3. ASSUME NEW c \in Causes, CommitDeath(c)
      PROVE  row.died \subseteq row'.died /\ row'.shot = row.shot
  BY <1>0, <1>2, <1>3 DEF CommitDeath
<1>4. ASSUME NEW t \in Players, HunterShoot(t) PROVE row.died \subseteq row'.died
  <2> DEFINE r == [row EXCEPT !.asked = @ \cup {shooter}, !.shot = @ \cup {t}]
  <2>1. shooter \in Players /\ Die(t, "hunter_shoot", AfterDeaths, r)
    BY <1>0, <1>4 DEF HunterShoot, TypeInv, Bounds
  <2>2. r \in RoundRecord /\ r.died = row.died
    BY <1>0, <2>1 DEF RoundRecord
  <2> HIDE DEF r
  <2>3. QED
    BY <1>2, <2>1, <2>2
<1>5. ASSUME NEW t \in Players \cup {NoOne}, Elimination(t)
      PROVE  row.died \subseteq row'.died /\ row'.shot = row.shot
  <2>1. CASE t = NoOne
    BY <1>5, <2>1 DEF Elimination
  <2>2. CASE t # NoOne
    <3> DEFINE r == [row EXCEPT !.voted = t]
    <3>1. Die(t, "vote", "dusk", r)
      BY <1>5, <2>2 DEF Elimination
    <3>2. r \in RoundRecord /\ r.died = row.died /\ r.shot = row.shot
      BY <1>0 DEF RoundRecord
    <3> HIDE DEF r
    <3>3. QED
      BY <1>2, <3>1, <3>2
  <2>3. QED
    BY <2>1, <2>2
<1>6. CASE HunterPass
  BY <1>0, <1>6 DEF HunterPass, RoundRecord
<1>7. CASE \/ Setup \/ NextPhase \/ SettleNight \/ Win \/ Daybreak \/ ScribeTurn \/ RoundCap
           \/ BudgetExhausted \/ UNCHANGED vars
           \/ \E c \in Causes : SkipDeath(c)
           \/ \E p \in Players :
                \/ SeerTurn(p) \/ SpeechTurn(p) \/ WitchPass(p)
                \/ \E t \in Players \cup {NoOne} : WolfTurn(p, t) \/ VoteTurn(p, t)
  <2>1. UNCHANGED row
    BY <1>7 DEF Setup, NextPhase, SettleNight, Win, Daybreak, ScribeTurn, RoundCap,
       BudgetExhausted, vars, SkipDeath, SeerTurn, SpeechTurn, WitchPass, WolfTurn, VoteTurn
  <2>2. QED
    BY <1>1, <2>1
<1>8. CASE NextRound
  BY <1>0, <1>8 DEF NextRound
<1>9. \A p, t :
        ~GuardTurn(p, t) /\ ~WolfConsensus(t) /\ ~WitchSave(p) /\ ~WitchPoison(p, t)
  BY DEF GuardTurn, WolfConsensus, WitchSave, WitchPoison, Night
<1>10. QED
  BY <1>3, <1>4, <1>5, <1>6, <1>7, <1>8, <1>9 DEF Next, Finished

LEMMA KeepsNight == ASSUME Stepped PROVE NightDead'
<1> SUFFICES ASSUME phase' = "night", pc' \notin Night, status' \notin Failures
             PROVE  /\ \A p \in Players : p \in row'.died <=> DiedThen(rnd, p)'
                    /\ ~KillLands' => row'.shot = {}
  <2>1. pc' \notin Night /\ status' \notin Failures => rnd' = rnd
    BY NightsAndDays DEF Stepped
  <2>2. QED
    BY <2>1 DEF NightDead, DiedThen
<1>0. /\ GameInv /\ LogInv /\ Written /\ [Next]_vars /\ NightDead /\ Turns /\ Traced
      /\ rnd' = rnd /\ (SettleNight \/ (phase = "night" /\ pc \notin Night /\ SameNight))
      /\ status \notin Failures
  BY NightsAndDays DEF Stepped, LogInv, Written
<1>1. \A i \in DOMAIN log : i \in DOMAIN log' /\ log'[i] = log[i]
  BY <1>0 DEF Written, Grown
<1>2. CASE SettleNight
  <2>1. /\ pc = "witch" /\ row' = row /\ pc' = "deaths" /\ phase' = "night"
        /\ row.died = {} /\ row.shot = {}
    BY <1>0, <1>2 DEF SettleNight, GameInv, RulingInv, Blank, Night
  <2>2. ASSUME NEW i \in DOMAIN log', log'[i].type = "player_died", log'[i].round = rnd
        PROVE  FALSE
    <3>1. CASE i \in DOMAIN log /\ log'[i] = log[i]
      BY <1>0, <2>1, <2>2, <3>1 DEF Turns, NotYet, Night
    <3>2. CASE Behind(log'[i])
      BY <2>1, <2>2, <3>2 DEF Behind
    <3>3. QED
      BY <3>1, <3>2, OldOrNew DEF Stepped
  <2>3. QED
    BY <1>0, <2>1, <2>2 DEF DiedThen, At
<1>3. CASE phase = "night" /\ pc \notin Night /\ SameNight
  <2>1. /\ \A p \in Players : p \in row.died <=> DiedThen(rnd, p)
        /\ ~KillLands => row.shot = {}
    BY <1>0, <1>3 DEF NightDead
  <2>2. /\ row.died \subseteq row'.died
        /\ row'.shot = row.shot \/ \E t \in Players : HunterShoot(t)
    BY <1>0, <1>3, DeadAndShot
  <2>3. KillLands' <=> KillLands
    BY <1>3, SameNightKeeps
  <2>4. ~KillLands' => row'.shot = {}
    BY <1>0, <1>3, <2>1, <2>2, <2>3, ShotsFollowKill
  <2>5. ASSUME NEW p \in Players, p \in row'.died PROVE DiedThen(rnd, p)'
    <3>1. CASE p \in row.died
      <4>1. PICK i \in DOMAIN log : /\ log[i].type = "player_died" /\ log[i].round = rnd
                                    /\ log[i].phase = "night" /\ log[i].target = p
        BY <2>1, <3>1 DEF DiedThen, At
      <4>2. QED
        BY <1>0, <1>1, <4>1 DEF DiedThen, At
    <3>2. CASE p \notin row.died
      <4>1. PICK i \in New : /\ log'[i].type = "player_died" /\ log'[i].target = p
                             /\ log'[i].round = rnd /\ log'[i].phase = "night"
        BY <1>0, <2>5, <3>2 DEF Traced
      <4>2. QED
        BY <1>0, <4>1 DEF DiedThen, At, New
    <3>3. QED
      BY <3>1, <3>2
  <2>6. ASSUME NEW p \in Players, DiedThen(rnd, p)' PROVE p \in row'.died
    <3>1. PICK i \in DOMAIN log' : /\ log'[i].type = "player_died" /\ log'[i].round = rnd
                                   /\ log'[i].phase = "night" /\ log'[i].target = p
      BY <1>0, <2>6 DEF DiedThen, At
    <3>2. CASE i \in DOMAIN log /\ log'[i] = log[i]
      BY <2>1, <2>2, <3>1, <3>2 DEF DiedThen, At
    <3>3. CASE Behind(log'[i])
      BY <3>1, <3>3 DEF Behind
    <3>4. QED
      BY <3>2, <3>3, OldOrNew DEF Stepped
  <2>7. QED
    BY <2>4, <2>5, <2>6
<1>4. QED
  BY <1>0, <1>2, <1>3

(* Once the night's deaths are settled, its events obey the rulings.       *)
LEMMA NightIsRuled ==
  ASSUME GameInv, LogInv, phase = "night", pc \notin Night, status \notin Failures,
         \A c \in Causes : deaths[c] = NoOne
  PROVE  NightRuled(rnd)
<1> SUFFICES ASSUME NEW p \in Players, Happened(rnd, "werewolf_kill", p),
                    Happened(rnd, "guard_protect", p)
             PROVE  IF Happened(rnd, "witch_save", p) THEN DiedThen(rnd, p)
                    ELSE ~Happened(rnd, "witch_poison", p) => ~DiedThen(rnd, p)
  BY DEF NightRuled
<1>0. RowLogged /\ NightDead /\ RulingInv
  BY DEF LogInv, GameInv
<1>1. row.kill = p /\ row.guard = p
  BY <1>0 DEF RowLogged, Says, Happened
<1>2. Happened(rnd, "witch_save", p) <=> row.save = p
  BY <1>0, NotAPlayer DEF RowLogged, Says, Happened
<1>3. Happened(rnd, "witch_poison", p) <=> row.poison = p
  BY <1>0, NotAPlayer DEF RowLogged, Says, Happened
<1>4. KillLands <=> row.save = p
  BY <1>1, NotAPlayer DEF KillLands
<1>5. p \in row.died <=> Doomed(p) \/ p \in row.shot
  BY <1>0, NotAPlayer DEF RulingInv, Counts, Calendar
<1>6. /\ p \in row.died <=> DiedThen(rnd, p)
      /\ ~KillLands => row.shot = {}
  BY <1>0 DEF NightDead
<1>7. QED
  BY <1>1, <1>2, <1>3, <1>4, <1>5, <1>6 DEF Doomed

(* A night that is past is not added to.                                   *)
LEMMA PastStays ==
  ASSUME Stepped, NEW r \in 1..MaxDayRounds, NightRuled(r),
         r < rnd \/ (r = rnd /\ pc \notin Night /\
                       (phase = "day" \/ \E t \in Players \cup {NoOne} : Elimination(t)))
  PROVE  NightRuled(r)'
<1>0. \A i \in DOMAIN log : i \in DOMAIN log' /\ log'[i] = log[i]
  BY DEF Stepped, Written, Grown
<1>1. ASSUME NEW i \in New, log'[i].round = r
      PROVE  /\ log'[i].type \notin {"werewolf_kill", "guard_protect", "witch_save", "witch_poison"}
             /\ ~(log'[i].type = "player_died" /\ log'[i].phase = "night")
  <2>1. r \in Nat \ {0} /\ rnd \in Nat
    BY BoardAssumption DEF Stepped, GameInv, TypeInv, TypeOK
  <2>2. Behind(log'[i])
    BY DEF Stepped, Written
  <2>3. log'[i].round \in {0, rnd}
    BY <2>2 DEF Behind
  <2>4. pc \notin Night /\ (phase = "day" \/ \E t \in Players \cup {NoOne} : Elimination(t))
    BY <1>1, <2>1, <2>3
  <2>5. (\E t \in Players \cup {NoOne} : Elimination(t)) => pc = "vote"
    BY DEF Elimination
  <2>6. log'[i].type \notin {"werewolf_kill", "guard_protect", "witch_save", "witch_poison"}
    BY <2>2, <2>4 DEF Behind, GuardTurn, WolfConsensus, WitchSave, WitchPoison, Night
  <2>7. ~(log'[i].type = "player_died" /\ log'[i].phase = "night")
    BY <2>2, <2>4, <2>5 DEF Behind
  <2>8. QED
    BY <2>6, <2>7
<1>2. ASSUME NEW type \in {"werewolf_kill", "guard_protect", "witch_save", "witch_poison"}, NEW p
      PROVE  Happened(r, type, p)' <=> Happened(r, type, p)
  BY <1>0, <1>1, OldOrNew DEF Stepped, Happened, At
<1>3. ASSUME NEW p PROVE DiedThen(r, p)' <=> DiedThen(r, p)
  BY <1>0, <1>1, OldOrNew DEF Stepped, DiedThen, At
<1>4. QED
  BY <1>2, <1>3 DEF NightRuled

LEMMA KeepsPast == ASSUME Stepped PROVE PastRuled'
<1> SUFFICES ASSUME NEW r \in 1..MaxDayRounds,
                    r < rnd' \/ (r = rnd' /\ phase' = "day" /\ pc' \notin Night
                                   /\ status' \notin Failures)
             PROVE  NightRuled(r)'
  BY DEF PastRuled
<1>0. /\ GameInv /\ LogInv /\ PastRuled /\ [Next]_vars /\ rnd \in Nat /\ r \in Nat
  <2>1. GameInv /\ LogInv /\ PastRuled /\ [Next]_vars
    BY DEF Stepped, LogInv
  <2>2. rnd \in Nat /\ r \in Nat
    BY <2>1, BoardAssumption DEF GameInv, TypeInv, TypeOK
  <2>3. QED
    BY <2>1, <2>2
<1>1. CASE r < rnd
  BY <1>0, <1>1, PastStays DEF PastRuled
<1>2. CASE NextRound /\ r = rnd
  <2>1. pc = "dusk" /\ phase = "day" /\ status \notin Failures /\ pc \notin Night
    BY <1>0, <1>2 DEF NextRound, DayOver, GameInv, RulingInv, Calendar, EndInv, Failures, Night
  <2>2. NightRuled(r)
    BY <1>0, <1>2, <2>1 DEF PastRuled
  <2>3. QED
    BY <1>2, <2>1, <2>2, PastStays
<1>3. CASE ~NextRound /\ r = rnd
  <2>1. phase' = "day" /\ pc' \notin Night /\ status' \notin Failures
    BY <1>0, <1>3, RoundsGoOn
  <2>2. /\ status \notin Failures
        /\ (phase = "day" /\ pc \notin Night) \/ \E t \in Players \cup {NoOne} : Elimination(t)
    BY <1>0, <2>1, NightsAndDays
  <2>3. CASE phase = "day" /\ pc \notin Night
    BY <1>0, <1>3, <2>2, <2>3, PastStays DEF PastRuled
  <2>4. CASE \E t \in Players \cup {NoOne} : Elimination(t)
    <3>1. /\ pc = "vote" /\ pc \notin Night /\ phase = "night"
          /\ \A c \in Causes : deaths[c] = NoOne
      BY <1>0, <2>2, <2>4 DEF Elimination, Night, GameInv, RulingInv, Calendar
    <3>2. NightRuled(r)
      BY <1>0, <1>3, <2>2, <3>1, NightIsRuled
    <3>3. QED
      BY <1>3, <2>4, <3>1, <3>2, PastStays
  <2>5. QED
    BY <2>2, <2>3, <2>4
<1>4. r < rnd \/ r = rnd
  <2>1. NextRound => pc' = "guard" /\ pc' \in Night
    BY DEF NextRound, Night
  <2>2. CASE NextRound /\ rnd' = rnd + 1
    BY <1>0, <2>1, <2>2
  <2>3. CASE rnd' = rnd
    BY <2>3
  <2>4. QED
    BY <1>0, <2>2, <2>3, RoundsGoOn
<1>5. QED
  BY <1>1, <1>2, <1>3, <1>4

(* The team's proposals are dropped with its kill.                         *)
LEMMA KeepsTeam == ASSUME Stepped PROVE TeamInv'
<1>0. /\ GameInv /\ TeamInv /\ [AuditNext]_auditVars /\ [Next]_vars /\ TypeInv /\ DeathInv
      /\ tally \in [Players -> Nat] /\ proposals \in Seq(Players \X Players)
  BY DEF Stepped, LogInv, GameInv, TypeInv, TypeOK, TeamInv
<1>1. ASSUME NEW p \in Players, NEW t \in Players \cup {NoOne}, Proposed(p, t) PROVE TeamInv'
  <2>1. /\ pc = "wolf" /\ pc' = "wolf" /\ alive' = alive /\ p \in Wolves \cap alive
        /\ tally' = Ballot(t)
    BY <1>1, ActorIs DEF Proposed, WolfTurn, TakeTurn
  <2>2. CASE t = NoOne
    BY <1>0, <1>1, <2>1, <2>2 DEF Proposed, Ballot, TeamInv
  <2>3. CASE t # NoOne
    <3>1. /\ proposals' = Append(proposals, <<p, t>>) /\ t \in Players
          /\ tally' = [tally EXCEPT ![t] = @ + 1]
      BY <1>1, <2>1, <2>3 DEF Proposed, Ballot
    <3>2. /\ proposals' \in Seq(Players \X Players) /\ Len(proposals') = Len(proposals) + 1
          /\ \A k \in 1..Len(proposals) : proposals'[k] = proposals[k]
          /\ proposals'[Len(proposals) + 1] = <<p, t>>
          /\ DOMAIN proposals = 1..Len(proposals) /\ DOMAIN proposals' = 1..(Len(proposals) + 1)
          /\ Len(proposals) \in Nat
      BY <1>0, <3>1, AppendProperties
    <3>3. \A k \in DOMAIN proposals' :
            (k \in DOMAIN proposals /\ proposals'[k] = proposals[k])
              \/ (k = Len(proposals) + 1 /\ proposals'[k] = <<p, t>>)
      BY <3>2
    <3>4. \A k \in DOMAIN proposals' : proposals'[k][1] \in Wolves \cap alive'
      BY <1>0, <2>1, <3>3 DEF TeamInv
    <3>5. ASSUME NEW q \in Players
          PROVE  tally'[q] > 0 <=> \E k \in DOMAIN proposals' : proposals'[k][2] = q
      <4>1. tally[q] > 0 <=> \E k \in DOMAIN proposals : proposals[k][2] = q
        BY <1>0, <2>1 DEF TeamInv
      <4>2. tally'[q] = IF q = t THEN tally[q] + 1 ELSE tally[q]
        BY <1>0, <3>1
      <4>3. tally[q] \in Nat
        BY <1>0
      <4>4. CASE q = t
        <5>1. Len(proposals) + 1 \in DOMAIN proposals' /\ proposals'[Len(proposals) + 1][2] = q
          BY <3>2, <4>4
        <5>2. QED
          BY <4>2, <4>3, <4>4, <5>1
      <4>5. CASE q # t
        BY <3>2, <3>3, <4>1, <4>2, <4>5
      <4>6. QED
        BY <4>4, <4>5
    <3>6. QED
      BY <2>1, <3>2, <3>4, <3>5 DEF TeamInv
  <2>4. QED
    BY <2>2, <2>3
<1>2. ASSUME NEW t \in Players \cup {NoOne}, KillLogged(t) PROVE TeamInv'
  BY <1>2 DEF KillLogged, WolfConsensus, TeamInv
<1>3. ASSUME proposals' = proposals, proposals = <<>>, pc' = "wolf", tally' = tally, pc # "wolf",
             pc # "over", pc # "vote"
      PROVE  TeamInv'
  <2>1. \A p \in Players : ~(tally'[p] > 0)
    BY <1>0, <1>3 DEF DeathInv
  <2>2. QED
    BY <1>0, <1>3, <2>1 DEF TeamInv
<1>4. ASSUME proposals' = proposals, pc' # "wolf", pc = "wolf" => pc' = "over", pc = "over" => pc' = "over"
      PROVE  TeamInv'
  BY <1>0, <1>4 DEF TeamInv
<1>5. ASSUME proposals' = proposals, pc # "wolf", NextPhase PROVE TeamInv'
  <2>1. pc' = "wolf" => pc = "guard" /\ tally' = tally
    BY <1>5 DEF NextPhase, Following
  <2>2. pc # "over"
    BY <1>5 DEF NextPhase
  <2>3. QED
    BY <1>0, <1>3, <1>4, <1>5, <2>1, <2>2 DEF TeamInv
<1>6. CASE UNCHANGED auditVars
  BY <1>0, <1>6 DEF auditVars, vars, TeamInv
<1>7. CASE SetupLogged \/ PassLogged \/ DaybreakLogged \/ WinLogged \/ DayClosed
  <2>1. proposals' = proposals /\ pc' # "wolf" /\ pc # "wolf" /\ pc # "over"
    BY <1>7 DEF SetupLogged, Setup, PassLogged, HunterPass, AfterDeaths, DaybreakLogged, Daybreak,
       WinLogged, Win, DayClosed, NextRound, RoundCap, FailClosed, NightOver, DayOver
  <2>2. QED
    BY <1>4, <2>1
<1>8. CASE Unlogged
  <2>1. proposals' = proposals
    BY <1>8 DEF Unlogged
  <2>2. CASE NextPhase
    BY <1>5, <2>1, <2>2 DEF NextPhase
  <2>3. CASE BudgetExhausted
    BY <1>4, <2>1, <2>3 DEF BudgetExhausted, FailClosed
  <2>4. CASE Finished
    BY <1>0, <2>1, <2>4 DEF Finished, vars, TeamInv
  <2>5. CASE SettleNight \/ ScribeTurn \/ \E c \in Causes : SkipDeath(c)
    <3>1. pc' # "wolf" /\ pc # "wolf" /\ pc # "over"
      BY <2>5 DEF SettleNight, ScribeTurn, SkipDeath
    <3>2. QED
      BY <1>4, <2>1, <3>1
  <2>6. QED
    BY <1>8, <2>2, <2>3, <2>4, <2>5 DEF Unlogged
<1>9. CASE \/ \E c \in Causes : DeathLogged(c)
           \/ \E p \in Players : WitchLogged(p) \/ SpeechLogged(p) \/ ShotLogged(p)
           \/ \E t \in Players \cup {NoOne} : EliminationLogged(t)
           \/ \E p \in Players, t \in Players \cup {NoOne} :
                GuardLogged(p, t) \/ SeerLogged(p, t) \/ VoteLogged(p, t)
  <2>1. proposals' = proposals /\ pc' # "wolf" /\ pc # "wolf" /\ pc # "over"
    BY <1>9 DEF DeathLogged, CommitDeath, WitchLogged, WitchPass, WitchSave, WitchPoison, TakeTurn,
       SpeechLogged, SpeechTurn, ShotLogged, HunterShoot, EliminationLogged, Elimination, Die,
       AfterDeaths, GuardLogged, GuardTurn, SeerLogged, SeerTurn, VoteLogged, VoteTurn
  <2>2. QED
    BY <1>4, <2>1
<1>10. QED
  BY <1>0, <1>1, <1>2, <1>6, <1>7, <1>8, <1>9 DEF AuditNext

(* Who acts is alive, and nobody dies of it at once.                       *)
LEMMA ActiveLives ==
  ASSUME GameInv, NEW e, Proper(e), Behind(e), e.type \in ActiveTypes
  PROVE  e.actor \in alive /\ alive' = alive
<1>1. CASE e.type \in TurnTypes
  BY <1>1, TurnBehind
<1>2. CASE e.type = "werewolf_kill"
  BY <1>2 DEF Behind, WolfConsensus
<1>3. CASE e.type = "player_speech"
  BY <1>3 DEF Behind, SpeechTurn, TakeTurn, Turn, Pending, PhaseActors
<1>4. QED
  BY <1>1, <1>2, <1>3 DEF ActiveTypes, TurnTypes, WitchTypes

LEMMA KeepsI2 == ASSUME Stepped PROVE CheckI2'
<1> SUFFICES ASSUME NEW i \in DOMAIN log', NEW j \in DOMAIN log',
                    log'[i].type \in ActiveTypes, log'[j].type \in CommitTypes,
                    log'[i].actor = log'[j].target
             PROVE  i < j
  BY DEF CheckI2, At
<1>0. /\ GameInv /\ Done /\ CheckI2 /\ Grown
  BY DEF Stepped, LogInv, Written
<1>1. CASE i \in DOMAIN log /\ j \in DOMAIN log /\ log'[i] = log[i] /\ log'[j] = log[j]
  BY <1>0, <1>1 DEF CheckI2, At
<1>2. CASE i \in DOMAIN log /\ j \in New
  BY <1>0, <1>2 DEF Grown
<1>3. CASE i \in New /\ Proper(log'[i]) /\ Behind(log'[i])
  <2>1. log'[i].actor \in alive /\ alive' = alive
    BY <1>0, <1>3, ActiveLives
  <2>2. CASE j \in DOMAIN log /\ log'[j] = log[j]
    BY <1>0, <2>1, <2>2 DEF Done
  <2>3. CASE j \in New /\ Behind(log'[j])
    BY <2>1, <2>3 DEF Behind, CommitTypes
  <2>4. QED
    BY <2>2, <2>3, OldOrNew DEF Stepped
<1>4. QED
  BY <1>1, <1>2, <1>3, OldOrNew DEF Stepped

LEMMA KeepsI6 == ASSUME Stepped PROVE CheckI6'
<1> SUFFICES ASSUME NEW i \in DOMAIN log', log'[i].type = "player_died"
             PROVE  \E j \in DOMAIN log' : /\ log'[j].type \in CauseTypes
                                           /\ j < i /\ log'[j].target = log'[i].target
  BY DEF CheckI6, At
<1>0. /\ GameInv /\ RowLogged /\ CheckI6 /\ Grown
      /\ \A j \in DOMAIN log : j \in DOMAIN log' /\ log'[j] = log[j]
  BY DEF Stepped, LogInv, Written, Grown
<1>1. CASE i \in DOMAIN log /\ log'[i] = log[i]
  BY <1>0, <1>1 DEF CheckI6, At
<1>2. CASE i \in New /\ Proper(log'[i]) /\ Caused(i)
  <2>1. log'[i].target # NoOne
    BY <1>2, NotAPlayer DEF Proper, CommitTypes
  <2>2. ASSUME NEW j \in DOMAIN log, log[j].type \in CauseTypes, log[j].target = log'[i].target
        PROVE  \E k \in DOMAIN log' : /\ log'[k].type \in CauseTypes
                                      /\ k < i /\ log'[k].target = log'[i].target
    <3>1. j < i
      BY <1>0, <1>2 DEF Grown
    <3>2. QED
      BY <1>0, <2>2, <3>1
  <2>3. ASSUME NEW c \in Causes, deaths[c] = log'[i].target
        PROVE  \E j \in DOMAIN log : log[j].type \in CauseTypes /\ log[j].target = log'[i].target
    <3>1. CASE c = "werewolf_kill"
      <4>1. row.kill = log'[i].target
        BY <1>0, <2>1, <2>3, <3>1 DEF GameInv, RulingInv, Owed
      <4>2. QED
        BY <1>0, <2>1, <4>1 DEF RowLogged, Says, At, CauseTypes
    <3>2. CASE c = "witch_poison"
      <4>1. row.poison = log'[i].target
        BY <1>0, <2>1, <2>3, <3>2 DEF GameInv, RulingInv, Owed
      <4>2. QED
        BY <1>0, <2>1, <4>1 DEF RowLogged, Says, At, CauseTypes
    <3>3. QED
      BY <2>3, <3>1, <3>2 DEF Causes
  <2>4. CASE \E j \in New : /\ j < i /\ log'[j].type = "hunter_shoot"
                            /\ log'[j].target = log'[i].target
    BY <2>4 DEF New, CauseTypes
  <2>5. QED
    BY <1>2, <2>2, <2>3, <2>4 DEF Caused
<1>3. QED
  BY <1>1, <1>2, OldOrNew DEF Stepped

LEMMA KeepsI8c == ASSUME Stepped PROVE CheckI8c'
<1> SUFFICES ASSUME NEW i \in DOMAIN log', NEW j \in DOMAIN log',
                    log'[i].type = "guard_protect", log'[j].type = "guard_protect",
                    log'[j].round = log'[i].round + 1
             PROVE  log'[i].target # log'[j].target
  BY DEF CheckI8c, At
<1>0. /\ GameInv /\ GameInv' /\ LogTypes /\ RowLogged /\ CheckI8c /\ [Next]_vars /\ rnd \in Nat
  <2>1. GameInv /\ GameInv' /\ LogTypes /\ RowLogged /\ CheckI8c /\ [Next]_vars /\ TypeOK
    BY DEF Stepped, LogInv, GameInv, TypeInv
  <2>2. QED
    BY <2>1, BoardAssumption DEF TypeOK
<1>1. CASE i \in DOMAIN log /\ j \in DOMAIN log /\ log'[i] = log[i] /\ log'[j] = log[j]
  BY <1>0, <1>1 DEF CheckI8c, At
<1>2. CASE j \in New /\ Proper(log'[j]) /\ Behind(log'[j])
  <2>1. /\ log'[j].round = rnd /\ GuardTurn(log'[j].actor, log'[j].target)
        /\ log'[j].target \in Players
    BY <1>2 DEF Behind, Proper
  <2>2. ~NextRound
    BY <2>1 DEF GuardTurn, NextRound, DayOver
  <2>3. row'.guard = log'[j].target /\ row'.before = row.before
    BY <1>0, <1>2, <2>2, RoundsGoOn, NewEntries
  <2>4. row'.guard # row'.before
    BY <1>0, <2>1, <2>3, NotAPlayer DEF GameInv, GuardInv
  <2>5. CASE i \in DOMAIN log /\ log'[i] = log[i]
    BY <1>0, <2>1, <2>3, <2>4, <2>5 DEF RowLogged, At
  <2>6. CASE i \in New /\ Behind(log'[i])
    BY <1>0, <2>1, <2>6 DEF Behind
  <2>7. QED
    BY <2>5, <2>6, OldOrNew DEF Stepped
<1>3. CASE j \in DOMAIN log /\ log'[j] = log[j] /\ i \in New /\ Behind(log'[i])
  <2>1. log'[i].round = rnd /\ log[j].round \in Nat /\ log[j].round <= rnd
    BY <1>0, <1>3, EventsAre DEF Behind
  <2>2. QED
    BY <1>0, <1>3, <2>1
<1>4. QED
  BY <1>1, <1>2, <1>3, OldOrNew DEF Stepped

(* What is known of the game and its log is known at every step.           *)
LEMMA LogGoesOn == ASSUME GameInv, LogInv, [AuditNext]_auditVars PROVE GameInv' /\ LogInv'
<1>1. Stepped
  BY StepsWrite, AuditIsGame, GameGoesOn DEF Stepped, LogInv
<1>2. LogTypes' /\ Turns' /\ Once' /\ Done' /\ RowLogged'
  BY <1>1, KeepsTypes, KeepsTurns, KeepsOnce, KeepsDone, KeepsRow
<1>3. NightDead' /\ PastRuled' /\ TeamInv' /\ CheckI2' /\ CheckI6' /\ CheckI8c'
  BY <1>1, KeepsNight, KeepsPast, KeepsTeam, KeepsI2, KeepsI6, KeepsI8c
<1>4. QED
  BY <1>1, <1>2, <1>3 DEF LogInv, Stepped

LEMMA AuditInitHolds == AuditInit => GameInv /\ LogInv
<1> SUFFICES ASSUME AuditInit PROVE GameInv /\ LogInv OBVIOUS
<1>0. Init /\ log = <<>> /\ proposals = <<>> /\ DOMAIN log = {} /\ pc = "setup"
  BY DEF AuditInit, Init
<1>1. GameInv
  <2>1. ConsumableInv
    BY <1>0 DEF Init, BlankRow, Consumables, ConsumableInv, ShotsInv, PotionsInv, SelfSaveInv
  <2>2. GuardInv
    BY <1>0 DEF Init, BlankRow, GuardInv
  <2>3. QED
    BY <1>0, <2>1, <2>2, InitType, InitRuling DEF GameInv
<1>2. LogTypes /\ Turns /\ Once /\ Done /\ CheckI2 /\ CheckI6 /\ CheckI8c
  BY <1>0 DEF LogTypes, Turns, Once, Done, CheckI2, CheckI6, CheckI8c, At
<1>3. RowLogged /\ NightDead
  BY <1>0 DEF Init, BlankRow, RowLogged, Says, At, NightDead, Night
<1>4. PastRuled
  <2>1. \A r : NightRuled(r)
    BY <1>0 DEF NightRuled, Happened, At
  <2>2. QED
    BY <2>1 DEF PastRuled
<1>5. TeamInv
  BY <1>0 DEF TeamInv
<1>6. QED
  BY <1>1, <1>2, <1>3, <1>4, <1>5 DEF LogInv

LEMMA LogHolds == AuditSpec => [](GameInv /\ LogInv)
BY AuditInitHolds, LogGoesOn, PTL DEF AuditSpec

---------------------------------------------------------------------------
(* What its readers make of the log.                                       *)
NightTypes == {"werewolf_kill", "guard_protect", "witch_save", "witch_poison"}

(* A night has one event of each kind, and its target is the night's.      *)
LEMMA OneOfNight ==
  ASSUME LogInv, NEW r, NEW type \in NightTypes, NEW i \in OfNight(r, type),
         NEW j \in OfNight(r, type)
  PROVE  i = j
<1>0. /\ Once /\ i \in DOMAIN log /\ j \in DOMAIN log
      /\ Proper(log[i]) /\ Proper(log[j])
      /\ log[i].type = type /\ log[j].type = type /\ log[i].round = r /\ log[j].round = r
  BY EventsAre DEF LogInv, OfNight, At
<1>1. CASE type = "guard_protect"
  <2>1. log[i].actor = log[j].actor
    BY <1>0, <1>1, BoardAssumption DEF Proper, Decided, ActiveTypes, Players
  <2>2. QED
    BY <1>0, <1>1, <2>1 DEF Once, Alike, TurnTypes
<1>2. CASE type # "guard_protect"
  BY <1>0, <1>2 DEF Once, Alike, NightTypes
<1>3. QED
  BY <1>1, <1>2

LEMMA LastOfOne == ASSUME NEW i \in Int PROVE Max({i}) = i
BY DEF Max

LEMMA NightTargetIs ==
  ASSUME LogInv, NEW r, NEW type \in NightTypes, NEW p \in Players
  PROVE  NightTarget(r, type) = p <=> Happened(r, type, p)
<1>1. \A i \in At({type}) : i \in Int /\ (log[i].round = r => i \in OfNight(r, type))
  <2> SUFFICES ASSUME NEW i \in At({type})
               PROVE  i \in Int /\ (log[i].round = r => i \in OfNight(r, type))
    OBVIOUS
  <2>1. i \in DOMAIN log /\ log[i].type = type /\ Proper(log[i])
    BY EventsAre DEF LogInv, At
  <2>2. log[i].phase = "night"
    BY <2>1 DEF Proper, NightTypes, WitchTypes
  <2>3. DOMAIN log \subseteq Int
    BY DEF LogInv, LogTypes
  <2>4. QED
    BY <2>1, <2>2, <2>3 DEF OfNight
<1>2. CASE OfNight(r, type) = {}
  BY <1>1, <1>2, NotAPlayer DEF NightTarget, Happened
<1>3. CASE OfNight(r, type) # {}
  <2>1. PICK i \in OfNight(r, type) : TRUE
    BY <1>3
  <2>2. OfNight(r, type) = {i}
    BY <2>1, OneOfNight
  <2>3. i \in Int
    BY <1>1 DEF OfNight
  <2>4. NightTarget(r, type) = log[i].target
    BY <1>3, <2>2, <2>3, LastOfOne DEF NightTarget
  <2>5. \A j \in At({type}) : log[j].round = r => j = i
    BY <1>1, <2>2
  <2>6. i \in At({type}) /\ log[i].round = r
    BY DEF OfNight
  <2>7. QED
    BY <2>4, <2>5, <2>6 DEF Happened
<1>4. QED
  BY <1>2, <1>3

(* Every night of a finished game obeys the rulings, the last one too.     *)
LEMMA AllRuled ==
  ASSUME GameInv, LogInv, Over, NEW r \in 1..MaxDayRounds PROVE NightRuled(r)
<1>0. /\ TypeOK /\ EndInv /\ RulingInv /\ PastRuled /\ LogTypes /\ r \in Nat /\ rnd \in Nat
      /\ pc = "over" /\ pc \notin Night /\ status \notin Failures
  <2>1. TypeOK /\ EndInv /\ RulingInv /\ PastRuled /\ LogTypes
    BY DEF GameInv, TypeInv, LogInv
  <2>2. r \in Nat /\ rnd \in Nat
    BY <2>1, BoardAssumption DEF TypeOK
  <2>3. pc = "over" /\ pc \notin Night /\ status \notin Failures
    BY <2>1 DEF Over, EndInv, Night, Failures
  <2>4. QED
    BY <2>1, <2>2, <2>3
<1>1. CASE r < rnd \/ (r = rnd /\ phase = "day")
  BY <1>0, <1>1 DEF PastRuled
<1>2. CASE r = rnd /\ phase = "night"
  <2>1. \A c \in Causes : deaths[c] = NoOne
    BY <1>0 DEF RulingInv, Calendar
  <2>2. QED
    BY <1>0, <1>2, <2>1, NightIsRuled
<1>3. CASE r > rnd
  <2>1. \A i \in DOMAIN log : log[i].round # r
    BY <1>0, <1>3, EventsAre
  <2>2. \A type, p : ~Happened(r, type, p)
    BY <2>1 DEF Happened, At
  <2>3. QED
    BY <2>2 DEF NightRuled
<1>4. phase \in {"night", "day"}
  BY <1>0 DEF TypeOK
<1>5. QED
  BY <1>0, <1>1, <1>2, <1>3, <1>4

LEMMA PassesI8 == ASSUME GameInv, LogInv, Over PROVE CheckI8
<1> SUFFICES ASSUME NEW r \in 1..MaxDayRounds, NEW p, p = NightTarget(r, "werewolf_kill"),
                    p # NoOne, NightTarget(r, "guard_protect") = p
             PROVE  /\ NightTarget(r, "witch_save") # p /\ NightTarget(r, "witch_poison") # p
                         => p \notin DiedAtNight(r)
                    /\ NightTarget(r, "witch_save") = p => p \in DiedAtNight(r)
  BY DEF CheckI8
<1>1. p \in Players
  <2>1. OfNight(r, "werewolf_kill") # {}
    BY DEF NightTarget
  <2>2. PICK i \in OfNight(r, "werewolf_kill") : TRUE
    BY <2>1
  <2>3. /\ OfNight(r, "werewolf_kill") = {i} /\ i \in DOMAIN log /\ Proper(log[i])
        /\ log[i].type = "werewolf_kill"
    BY <2>2, OneOfNight, EventsAre DEF NightTypes, LogInv, OfNight, At
  <2>4. i \in Int
    BY <2>3 DEF LogInv, LogTypes
  <2>5. p = log[i].target
    BY <2>1, <2>3, <2>4, LastOfOne DEF NightTarget
  <2>6. QED
    BY <2>3, <2>5 DEF Proper
<1>2. \A type \in NightTypes : NightTarget(r, type) = p <=> Happened(r, type, p)
  BY <1>1, NightTargetIs
<1>3. p \in DiedAtNight(r) <=> DiedThen(r, p)
  BY DEF DiedAtNight, OfNight, DiedThen
<1>4. NightRuled(r)
  BY AllRuled
<1>5. Happened(r, "werewolf_kill", p) /\ Happened(r, "guard_protect", p)
  BY <1>2 DEF NightTypes
<1>6. IF Happened(r, "witch_save", p) THEN DiedThen(r, p)
      ELSE ~Happened(r, "witch_poison", p) => ~DiedThen(r, p)
  BY <1>1, <1>4, <1>5 DEF NightRuled
<1>7. QED
  BY <1>2, <1>3, <1>6 DEF NightTypes

(* A seat is rendered what it is entitled to.                              *)
LEMMA SeesIsEntitled ==
  ASSUME LogInv, NEW p \in Players, NEW i \in DOMAIN log
  PROVE  i \in EngineSees(p) <=> Entitled(p, log[i])
<1>1. log[i].visibility \in Tags
  BY EventsAre DEF LogInv, EventSet
<1>2. Role[p] \in Roles
  BY BoardAssumption DEF Players
<1>3. i \in EngineSees(p) <=> \/ log[i].visibility \in {"public", "all", Role[p]}
                              \/ log[i].visibility = "werewolf_team" /\ p \in Wolves
  BY DEF EngineSees, PublicRefs, PrivateRefs
<1>4. QED
  BY <1>1, <1>2, <1>3 DEF Tags, Roles, Entitled

(* The invariant checker and the validators find nothing in the log of a   *)
(* finished game: no second death or potion, no act of the dead, no night  *)
(* death without a cause, no ruling broken, no prompt that saw too much.   *)
THEOREM AuditPassesHolds == AuditSpec => []AuditPasses
<1>1. ASSUME GameInv, LogInv, Over
      PROVE  /\ CheckI1 /\ CheckI2 /\ CheckI3 /\ CheckI4b /\ CheckI6 /\ CheckI7
             /\ CheckI8 /\ CheckI8c
             /\ \A i \in DOMAIN log : ValidEvent(log[i])
             /\ \A k \in Decisions : ValidDecision(log[k])
  <2>0. /\ Once /\ CheckI2 /\ CheckI6 /\ CheckI8c /\ CheckI8
        /\ \A i \in DOMAIN log : log[i] \in EventSet /\ Proper(log[i])
    BY <1>1, PassesI8, EventsAre DEF LogInv
  <2>1. CheckI1
    BY <2>0 DEF CheckI1, At, Once, Alike
  <2>2. CheckI3
    BY <2>0 DEF CheckI3, At, Consumables, Once, Alike, HunterTypes
  <2>3. CheckI4b
    BY <1>1, SeesIsEntitled DEF CheckI4b, EngineSees, PublicRefs, PrivateRefs
  <2>4. CheckI7
    BY <2>0 DEF CheckI7, At, Proper
  <2>5. \A i \in DOMAIN log : ValidEvent(log[i])
    BY <2>0 DEF ValidEvent, EventSet, Tags
  <2>6. \A k \in Decisions : ValidDecision(log[k])
    <3> SUFFICES ASSUME NEW k \in DOMAIN log, log[k].type \in Decided
                 PROVE  log[k].actor \in Players /\ log[k].phase \in {"night", "day"}
      BY DEF Decisions, At, ValidDecision
    <3>1. QED
      BY <2>0 DEF Proper, Decided, ActiveTypes, WitchTypes, HunterTypes
  <2>7. QED
    BY <2>0, <2>1, <2>2, <2>3, <2>4, <2>5, <2>6
<1>2. GameInv /\ LogInv => AuditPasses
  BY <1>1 DEF AuditPasses
<1>3. QED
  BY <1>2, LogHolds, PTL

LEMMA ViewsApart == /\ God \notin Players /\ Public \notin Players /\ Team \notin Players
                    /\ God # Public /\ God # Team /\ Public # Team
BY BoardAssumption DEF God, Public, Team, Players

LEMMA SeatsProjection ==
  ASSUME NEW p \in Players, NEW e PROVE Projected(p, e) <=> Entitled(p, e)
BY ViewsApart DEF Projected

(* Who acted in the dark is known to himself, or to his team.              *)
LEMMA NightIsSecret ==
  ASSUME LogInv, NEW p \in Players, NEW i \in EngineSees(p), log[i].type \in Decided,
         log[i].phase = "night", log[i].actor # p
  PROVE  \/ log[i].type = "werewolf_kill" /\ p \in Wolves
         \/ log[i].type \in {"hunter_shoot", "hunter_pass"}
<1>0. /\ i \in DOMAIN log /\ Proper(log[i]) /\ Entitled(p, log[i]) /\ log[i].actor \in Players
  <2>1. i \in DOMAIN log
    BY DEF EngineSees, PublicRefs, PrivateRefs
  <2>2. QED
    BY <2>1, SeesIsEntitled, EventsAre DEF LogInv, Proper
<1>1. ASSUME NEW special \in {"seer", "witch", "guard"}, log[i].visibility = special,
             Role[log[i].actor] = special
      PROVE  FALSE
  <2>1. Role[p] = special
    BY <1>0, <1>1 DEF Entitled
  <2>2. QED
    BY <1>0, <1>1, <2>1, BoardAssumption DEF Players
<1>2. CASE log[i].type = "werewolf_kill"
  BY <1>0, <1>2 DEF Proper, Visibility, Entitled
<1>3. CASE log[i].type \in {"seer_check", "guard_protect"} \cup WitchTypes
  BY <1>0, <1>1, <1>3 DEF Proper, Visibility, WitchTypes
<1>4. log[i].type # "player_vote"
  BY <1>0 DEF Proper
<1>5. QED
  BY <1>2, <1>3, <1>4 DEF Decided, ActiveTypes, WitchTypes

(* What a perspective may read of the seats' own projections.              *)
LEMMA ViewsAgree ==
  ASSUME NEW view \in Views
  PROVE  LET known == UNION {KnownRoles(p) : p \in Listed(view)}
         IN /\ \A e : Streamed(view, e) => Projected(view, e)
            /\ \A p \in Players : p \in Listed(view) <=> Served(view, p)
            /\ RolesShown(view) \subseteq known
            /\ view \in {God, Team} \cup Wolves \/ known \cap Wolves = {}
<1>0. \A p \in Players : p \in KnownRoles(p) /\ (p \notin Wolves => KnownRoles(p) = {p})
  BY DEF KnownRoles
<1>1. CASE view = God
  BY <1>0, <1>1, ViewsApart DEF Streamed, Projected, Listed, Served, RolesShown
<1>2. CASE view = Public
  BY <1>2, ViewsApart DEF Streamed, Projected, Listed, Served, RolesShown, Wolves
<1>3. CASE view = Team
  BY <1>0, <1>3, ViewsApart DEF Streamed, Projected, Listed, Served, RolesShown, Wolves
<1>4. CASE view \in Players
  <2>1. \A e : Streamed(view, e) => Projected(view, e)
    BY <1>4, ViewsApart DEF Streamed, Projected, Entitled
  <2>2. Listed(view) = {view} /\ RolesShown(view) = {view} \cup (KnownRoles(view) \ Wolves)
    BY <1>4, ViewsApart DEF Listed, RolesShown
  <2>3. \A p \in Players : p \in Listed(view) <=> Served(view, p)
    BY <1>4, <2>2, ViewsApart DEF Served
  <2>4. UNION {KnownRoles(p) : p \in Listed(view)} = KnownRoles(view)
    BY <2>2
  <2>5. QED
    BY <1>0, <1>4, <2>1, <2>2, <2>3, <2>4
<1>5. QED
  BY <1>1, <1>2, <1>3, <1>4 DEF Views

(* Nobody sees more than he may: the engine's prompts, the observer's      *)
(* projection and the scorer agree on every event for every seat, a night's*)
(* action stays with the one who took it or with his team, and streams and *)
(* snapshots keep to the same.                                             *)
THEOREM NoLeakHolds == AuditSpec => []NoLeak
<1>1. ASSUME LogInv, NEW p \in Players
      PROVE  LET sees == EngineSees(p)
             IN /\ \A i \in DOMAIN log : /\ i \in sees <=> Projected(p, log[i])
                                         /\ i \in sees <=> VisibleToActor(p, log[i])
                /\ \A i \in sees :
                     log[i].type \in Decided /\ log[i].phase = "night" /\ log[i].actor # p =>
                       \/ log[i].type = "werewolf_kill" /\ p \in Wolves
                       \/ log[i].type \in {"hunter_shoot", "hunter_pass"}
  <2>1. ASSUME NEW i \in DOMAIN log
        PROVE  Entitled(p, log[i]) <=> VisibleToActor(p, log[i])
    <3>1. log[i].visibility \in Tags
      BY <1>1, EventsAre DEF LogInv, EventSet
    <3>2. Role[p] \in Roles
      BY BoardAssumption DEF Players
    <3>3. QED
      BY <3>1, <3>2 DEF Tags, Roles, Entitled, VisibleToActor
  <2>2. QED
    BY <1>1, <2>1, SeesIsEntitled, SeatsProjection, NightIsSecret
<1>2. LogInv => NoLeak
  BY <1>1, ViewsAgree DEF NoLeak
<1>3. QED
  BY <1>2, LogHolds, PTL

(* Every decision's reason is joined to its own event and no other, and is *)
(* shown to the seat that decided and no other.                            *)
THEOREM ReasonsJoinHolds == AuditSpec => []ReasonsJoin
<1>1. ASSUME LogInv, NEW i \in At(Decided)
      PROVE  /\ Cardinality(Joined(i)) = 1
             /\ \A p \in Players : ReasonShown(p, i) <=> p = log[i].actor
  <2>0. /\ i \in DOMAIN log /\ log[i].type \in Decided /\ Proper(log[i]) /\ Once
    BY <1>1, EventsAre DEF LogInv, At
  <2>1. Joined(i) = {i}
    <3>1. i \in Joined(i)
      BY DEF Joined, Decisions
    <3>2. ASSUME NEW k \in Joined(i) PROVE k = i
      <4>1. /\ k \in DOMAIN log /\ log[k].round = log[i].round /\ log[k].actor = log[i].actor
            /\ log[k].type = log[i].type
        BY DEF Joined, Decisions, JoinKey, At
      <4>2. Alike(log[k], log[i])
        BY <2>0, <4>1 DEF Alike, Decided, ActiveTypes, TurnTypes, WitchTypes, HunterTypes
      <4>3. QED
        BY <2>0, <4>1, <4>2 DEF Once
    <3>3. QED
      BY <3>1, <3>2
  <2>2. Cardinality(Joined(i)) = 1
    BY <2>1, OneIsOne
  <2>3. Entitled(log[i].actor, log[i])
    BY <2>0 DEF Proper, Decided, ActiveTypes, WitchTypes, Visibility, Entitled
  <2>4. \A p \in Players : ReasonShown(p, i) <=> p = log[i].actor
    BY <2>3, SeatsProjection, ViewsApart DEF ReasonShown
  <2>5. QED
    BY <2>2, <2>4
<1>2. LogInv => ReasonsJoin
  BY <1>1 DEF ReasonsJoin
<1>3. QED
  BY <1>2, LogHolds, PTL

---------------------------------------------------------------------------
(* The seats shown alive.  Each snapshot is written after all the others,  *)
(* by round and phase, and shows who lives at that moment: whose death it  *)
(* does not show died since, in the part of the round the game is in.      *)
Parts == {"setup", "night", "day", "game_end"}
SnapshotSet == [round : 0..MaxDayRounds, phase : Parts, alive : SUBSET Players]
Latest(S, s) == \A t \in S : t = s \/ Before(t, s)

Dawned == pc \in {"speech", "scribe", "vote", "dusk"} \/ (pc = "shot" /\ phase = "day")
Now == IF Dawned THEN "day" ELSE "night"

SnapshotInv ==
  /\ snapshots \subseteq SnapshotSet
  /\ pc = "setup" => snapshots = {}
  /\ snapshots # {} => \E s \in snapshots : Latest(snapshots, s)
  /\ \A s \in snapshots : alive \subseteq s.alive
  /\ pc # "over" => \A s \in snapshots :
       s.round < rnd \/ (s.round = rnd /\ s.phase = "night" /\ Dawned)
LagInv ==
  \A i \in At(CommitTypes) : log[i].target \in AliveShown =>
    /\ \A j \in DOMAIN log : j >= i => log[j].round = log[i].round /\ log[j].phase = log[i].phase
    /\ pc # "over" => log[i].round = rnd /\ log[i].phase = Now
ShownInv == SnapshotInv /\ LagInv /\ (Over => AliveShown = alive)

LEMMA LatestIsOne ==
  ASSUME NEW S \in SUBSET SnapshotSet, NEW s \in S, Latest(S, s)
  PROVE  (CHOOSE t \in S : \A u \in S : u = t \/ Before(u, t)) = s
<1>1. \A u \in S : u = s \/ Before(u, s)
  BY DEF Latest
<1>2. ASSUME NEW t \in S, \A u \in S : u = t \/ Before(u, t) PROVE t = s
  <2>1. SUFFICES ASSUME Before(s, t), Before(t, s) PROVE FALSE
    BY <1>1, <1>2
  <2>2. s.round \in 0..MaxDayRounds /\ t.round \in 0..MaxDayRounds /\ s.phase \in Parts /\ t.phase \in Parts
    BY DEF SnapshotSet
  <2>3. s.round \in Int /\ t.round \in Int
    BY <2>2, BoardAssumption
  <2>4. Rank[s.phase] \in Int /\ Rank[t.phase] \in Int
    BY <2>2 DEF Rank, Parts
  <2>5. QED
    BY <2>1, <2>3, <2>4 DEF Before
<1>3. QED
  BY <1>1, <1>2

LEMMA ShownIs ==
  ASSUME snapshots \subseteq SnapshotSet, NEW s \in snapshots, Latest(snapshots, s)
  PROVE  AliveShown = s.alive
BY LatestIsOne DEF AliveShown

LEMMA ShownThen ==
  ASSUME snapshots' \subseteq SnapshotSet, NEW s \in snapshots', Latest(snapshots', s)
  PROVE  AliveShown' = s.alive
<1>1. (CHOOSE t \in snapshots' : \A u \in snapshots' : u = t \/ Before(u, t)) = s
  BY LatestIsOne
<1>2. QED
  BY <1>1 DEF AliveShown

LEMMA LivingAreShown ==
  ASSUME GameInv, SnapshotInv PROVE alive \subseteq AliveShown
<1>1. alive \subseteq Players
  BY DEF GameInv, TypeInv, TypeOK
<1>2. CASE snapshots = {}
  BY <1>1, <1>2 DEF AliveShown
<1>3. CASE snapshots # {}
  BY <1>3, ShownIs DEF SnapshotInv
<1>4. QED
  BY <1>2, <1>3

(* A snapshot above all others is shown from then on.                      *)
LEMMA SnapshotTaken ==
  ASSUME GameInv, SnapshotInv, pc # "over", NEW r \in 0..MaxDayRounds,
         NEW phases \in SUBSET Parts, NEW top \in phases, Snapshot(r, phases), alive' = alive,
         \A ph \in phases : ph = top \/ Rank[ph] < Rank[top],
         \A t \in snapshots : t.round < r \/ (t.round = r /\ Rank[t.phase] < Rank[top])
  PROVE  /\ snapshots' \subseteq SnapshotSet
         /\ \E s \in snapshots' : Latest(snapshots', s)
         /\ \A s \in snapshots' : alive' \subseteq s.alive
         /\ AliveShown' = alive'
         /\ \A s \in snapshots' : s \in snapshots \/ (s.round = r /\ s.phase \in phases)
<1> DEFINE s == [round |-> r, phase |-> top, alive |-> alive]
<1>1. alive \subseteq Players
  BY DEF GameInv, TypeInv, TypeOK
<1>2. \A t \in snapshots' : \/ t \in snapshots
                            \/ \E ph \in phases : t = [round |-> r, phase |-> ph, alive |-> alive]
  BY DEF Snapshot
<1>3. s \in snapshots' /\ s.round = r /\ s.phase = top /\ s.alive = alive
  BY DEF Snapshot
<1>4. snapshots' \subseteq SnapshotSet
  BY <1>1, <1>2 DEF SnapshotInv, SnapshotSet
<1> HIDE DEF s
<1>5. Latest(snapshots', s)
  <2> SUFFICES ASSUME NEW t \in snapshots' PROVE t = s \/ Before(t, s)
    BY DEF Latest
  <2>1. CASE t \in snapshots
    BY <1>3, <2>1 DEF Before
  <2>2. ASSUME NEW ph \in phases, t = [round |-> r, phase |-> ph, alive |-> alive]
        PROVE  t = s \/ Before(t, s)
    BY <1>3, <2>2 DEF Before, s
  <2>3. QED
    BY <1>2, <2>1, <2>2
<1>6. AliveShown' = alive'
  BY <1>3, <1>4, <1>5, ShownThen
<1>7. \A t \in snapshots' : alive' \subseteq t.alive
  BY <1>2 DEF SnapshotInv
<1>8. QED
  BY <1>2, <1>3, <1>4, <1>5, <1>6, <1>7

(* The other steps leave the snapshots alone, the round and its part.      *)
Calm == /\ status' = "completed" => status = "completed" /\ alive' = alive
        /\ pc' # "over" => pc # "over" /\ rnd' = rnd /\ (Dawned' <=> Dawned)
        /\ pc' = "setup" => pc = "setup"
Timely == \A i \in New : log'[i].round = rnd /\ log'[i].phase = Now

LEMMA GameCalm ==
  ASSUME GameInv,
         \/ NextPhase \/ SettleNight \/ ScribeTurn \/ BudgetExhausted \/ Finished \/ HunterPass
         \/ \E c \in Causes : SkipDeath(c) \/ CommitDeath(c)
         \/ \E p \in Players :
              \/ SeerTurn(p) \/ SpeechTurn(p) \/ WitchPass(p) \/ WitchSave(p)
              \/ \E t \in Players \cup {NoOne} : GuardTurn(p, t) \/ WolfTurn(p, t) \/ VoteTurn(p, t)
              \/ \E t \in Players : WitchPoison(p, t)
         \/ \E t \in Players \cup {NoOne} : WolfConsensus(t) \/ Elimination(t)
         \/ \E t \in Players : HunterShoot(t)
         \/ UNCHANGED vars
  PROVE  Calm
<1>0. /\ phase \in {"night", "day"} /\ (pc = "deaths" => phase = "night")
      /\ status = "completed" => pc = "over"
  BY DEF GameInv, TypeInv, TypeOK, RulingInv, Calendar, EndInv
<1>1. ASSUME pc # "over", rnd' = rnd, NEW p, NEW cause, NEW after \in {"deaths", "dusk"}, NEW r,
             Die(p, cause, after, r), \/ after = "dusk" /\ phase' = "day" /\ Dawned
                                      \/ after = "deaths" /\ phase' = "night" /\ ~Dawned
      PROVE  Calm
  BY <1>0, <1>1 DEF Die, Calm, Dawned
<1>2. CASE \E c \in Causes : CommitDeath(c)
  BY <1>0, <1>1, <1>2 DEF CommitDeath, Dawned
<1>3. CASE \E t \in Players : HunterShoot(t)
  BY <1>0, <1>1, <1>3 DEF HunterShoot, AfterDeaths, Dawned
<1>4. ASSUME NEW t \in Players \cup {NoOne}, Elimination(t) PROVE Calm
  <2>1. pc = "vote" /\ rnd' = rnd /\ phase' = "day"
    BY <1>4 DEF Elimination
  <2>2. CASE t = NoOne
    BY <1>0, <1>4, <2>1, <2>2 DEF Elimination, Calm, Dawned
  <2>3. CASE t # NoOne
    BY <1>1, <1>4, <2>1, <2>3 DEF Elimination, Dawned
  <2>4. QED
    BY <2>2, <2>3
<1>5. CASE \/ \E p \in Players :
                \/ SeerTurn(p) \/ SpeechTurn(p) \/ WitchPass(p) \/ WitchSave(p)
                \/ \E t \in Players \cup {NoOne} :
                     GuardTurn(p, t) \/ WolfTurn(p, t) \/ VoteTurn(p, t)
                \/ \E t \in Players : WitchPoison(p, t)
  <2>1. /\ pc' = pc /\ pc # "over" /\ rnd' = rnd /\ phase' = phase /\ status' = status
        /\ pc # "setup"
    BY <1>5 DEF SeerTurn, SpeechTurn, WitchPass, WitchSave, GuardTurn, WolfTurn, VoteTurn,
       WitchPoison, TakeTurn
  <2>2. QED
    BY <1>0, <2>1 DEF Calm, Dawned
<1>6. CASE \/ NextPhase \/ SettleNight \/ ScribeTurn \/ HunterPass
           \/ \E c \in Causes : SkipDeath(c)
           \/ \E t \in Players \cup {NoOne} : WolfConsensus(t)
  BY <1>0, <1>6 DEF NextPhase, Following, SettleNight, ScribeTurn, HunterPass, AfterDeaths,
     SkipDeath, WolfConsensus, Calm, Dawned
<1>7. CASE BudgetExhausted
  BY <1>7 DEF BudgetExhausted, FailClosed, Calm
<1>8. CASE Finished \/ UNCHANGED vars
  BY <1>0, <1>8 DEF Finished, vars, Calm, Dawned
<1>9. QED
  BY <1>2, <1>3, <1>4, <1>5, <1>6, <1>7, <1>8

(* What a sequence emitted holds is what is new.                           *)
LEMMA NewAreThese ==
  ASSUME LogTypes, NEW X, NEW es \in Seq(X), Emit(es) PROVE \A i \in New : log'[i] \in X
<1> DEFINE U == EventSet \cup X
<1>1. log \in Seq(U) /\ es \in Seq(U)
  BY SeqMonotonic DEF LogTypes
<1> HIDE DEF U
<1>2. /\ log' \in Seq(U) /\ Len(log') = Len(log) + Len(es)
      /\ \A i \in 1..(Len(log) + Len(es)) :
           log'[i] = IF i <= Len(log) THEN log[i] ELSE es[i - Len(log)]
  BY <1>1, ConcatProperties DEF Emit
<1>3. /\ Len(log) \in Nat /\ Len(es) \in Nat /\ DOMAIN log = 1..Len(log)
      /\ DOMAIN log' = 1..(Len(log) + Len(es))
  BY <1>1, <1>2
<1>4. ASSUME NEW i \in New PROVE log'[i] \in X
  <2>1. i \in 1..(Len(log) + Len(es)) /\ ~(i <= Len(log))
    BY <1>3 DEF New
  <2>2. i - Len(log) \in 1..Len(es) /\ log'[i] = es[i - Len(log)]
    BY <1>2, <1>3, <2>1
  <2>3. QED
    BY <2>2, ElementOfSeq
<1>5. QED
  BY <1>4

Moment(e) == e.round = rnd /\ e.phase = Now
LEMMA EventNow ==
  ASSUME NEW type, NEW actor, NEW target PROVE Moment(EventIn(Now, type, actor, target))
BY DEF Moment, EventIn, Now

LEMMA OneTimely ==
  ASSUME LogTypes, NEW e, Moment(e), Emit(<<e>>) PROVE Timely
<1>1. <<e>> \in Seq({e})
  OBVIOUS
<1>2. \A i \in New : log'[i] \in {e}
  BY <1>1, NewAreThese
<1>3. QED
  BY <1>2 DEF Timely, Moment

LEMMA DeathTimely ==
  ASSUME LogTypes, NEW a, NEW b, Moment(a), Moment(b), NEW es \in {<<a>>, <<a, b>>}, NEW p,
         NEW words \in Words(Now, p), Emit(es \o words)
  PROVE  Timely
<1> DEFINE w == EventIn(Now, "final_words", p, NoOne)
           X == {a, b, w}
<1>1. words \in {<<>>, <<w>>}
  BY DEF Words
<1>2. Moment(w)
  BY EventNow
<1> HIDE DEF w
<1>3. es \in Seq(X) /\ words \in Seq(X)
  <2>1. a \in X /\ b \in X /\ w \in X
    OBVIOUS
  <2> HIDE DEF X
  <2>2. <<a>> \in Seq(X) /\ <<a, b>> \in Seq(X) /\ <<w>> \in Seq(X) /\ <<>> \in Seq(X)
    BY <2>1
  <2>3. QED
    BY <1>1, <2>2
<1>4. \A e \in X : Moment(e)
  BY <1>2
<1> HIDE DEF X
<1>5. es \o words \in Seq(X)
  BY <1>3, ConcatProperties
<1>6. \A i \in New : log'[i] \in X
  BY <1>5, NewAreThese
<1>7. QED
  BY <1>4, <1>6 DEF Timely, Moment

LEMMA StepsAreTimely ==
  ASSUME GameInv, LogTypes, [AuditNext]_auditVars
  PROVE  \/ SetupLogged \/ DaybreakLogged \/ WinLogged \/ DayClosed
         \/ Calm /\ Timely /\ snapshots' = snapshots /\ (New # {} => pc # "over")
<1> DEFINE Fits == Calm /\ Timely /\ snapshots' = snapshots /\ (New # {} => pc # "over")
<1>0. \A type, actor, target : Moment(EventIn(Now, type, actor, target))
  BY EventNow
<1>1. ASSUME log' = log PROVE Timely /\ New = {}
  BY <1>1 DEF Timely, New
<1>2. ASSUME Emit(<<>>) PROVE log' = log
  BY <1>2, ConcatEmptySeq DEF Emit, LogTypes
<1>3. CASE Unlogged \/ UNCHANGED auditVars
           \/ \E p \in Players, t \in Players \cup {NoOne} : Proposed(p, t)
  <2>1. log' = log /\ snapshots' = snapshots
    BY <1>3 DEF Unlogged, auditVars, Proposed
  <2>2. Calm
    BY <1>3, GameCalm DEF Unlogged, auditVars, Proposed
  <2>3. QED
    BY <1>1, <2>1, <2>2
<1>4. CASE PassLogged
  <2>1. pc = "shot" /\ phase = Now
    BY <1>4 DEF PassLogged, HunterPass, Now, Dawned, GameInv, TypeInv, TypeOK
  <2>2. Timely
    BY <1>0, <1>4, <2>1, OneTimely DEF PassLogged
  <2>3. Calm /\ snapshots' = snapshots
    BY <1>4, GameCalm DEF PassLogged
  <2>4. QED
    BY <2>1, <2>2, <2>3
<1>5. ASSUME NEW c \in Causes, DeathLogged(c) PROVE Fits
  <2>1. pc = "deaths" /\ Now = "night"
    BY <1>5 DEF DeathLogged, CommitDeath, Now, Dawned
  <2>2. Calm /\ snapshots' = snapshots
    BY <1>5, GameCalm DEF DeathLogged
  <2>3. Timely
    BY <1>0, <1>5, <2>1, DeathTimely DEF DeathLogged
  <2>4. QED
    BY <2>1, <2>2, <2>3
<1>6. ASSUME NEW t \in Players, ShotLogged(t) PROVE Fits
  <2>1. pc = "shot" /\ phase = Now
    BY <1>6 DEF ShotLogged, HunterShoot, Now, Dawned, GameInv, TypeInv, TypeOK
  <2>2. Calm /\ snapshots' = snapshots
    BY <1>6, GameCalm DEF ShotLogged
  <2>3. Timely
    BY <1>0, <1>6, <2>1, DeathTimely DEF ShotLogged
  <2>4. QED
    BY <2>1, <2>2, <2>3
<1>7. ASSUME NEW t \in Players \cup {NoOne}, EliminationLogged(t) PROVE Fits
  <2>1. pc = "vote" /\ Now = "day"
    BY <1>7 DEF EliminationLogged, Elimination, Now, Dawned
  <2>2. Calm /\ snapshots' = snapshots
    BY <1>7, GameCalm DEF EliminationLogged
  <2>3. CASE t = NoOne
    BY <1>1, <1>7, <2>1, <2>2, <2>3 DEF EliminationLogged
  <2>4. CASE t # NoOne
    <3>1. Timely
      BY <1>0, <1>7, <2>1, <2>4, DeathTimely DEF EliminationLogged
    <3>2. QED
      BY <2>1, <2>2, <3>1
  <2>5. QED
    BY <2>3, <2>4
<1>8. ASSUME NEW t \in Players \cup {NoOne}, KillLogged(t) PROVE Fits
  <2>1. pc = "wolf" /\ Now = "night"
    BY <1>8 DEF KillLogged, WolfConsensus, Now, Dawned
  <2>2. Calm /\ snapshots' = snapshots
    BY <1>8, GameCalm DEF KillLogged
  <2>3. CASE t = NoOne
    BY <1>1, <1>8, <2>1, <2>2, <2>3 DEF KillLogged
  <2>4. CASE t # NoOne
    <3>1. Timely
      BY <1>0, <1>8, <2>1, <2>4, OneTimely DEF KillLogged
    <3>2. QED
      BY <2>1, <2>2, <3>1
  <2>5. QED
    BY <2>3, <2>4
<1>9. ASSUME NEW p \in Players, WitchLogged(p) \/ SpeechLogged(p) PROVE Fits
  <2>1. \/ SpeechLogged(p) /\ pc = "speech" /\ Now = "day"
        \/ WitchLogged(p) /\ pc = "witch" /\ Now = "night"
    BY <1>9 DEF WitchLogged, SpeechLogged, WitchPass, WitchSave, WitchPoison, SpeechTurn, Now, Dawned
  <2>2. ASSUME NEW t, WitchPoison(p, t) PROVE t \in Players
    BY <2>2 DEF WitchPoison, PoisonTargets, GameInv, TypeInv, TypeOK
  <2>3. Calm /\ snapshots' = snapshots
    BY <1>9, <2>2, GameCalm DEF WitchLogged, SpeechLogged
  <2>4. Timely
    BY <1>0, <1>9, <2>1, OneTimely DEF WitchLogged, SpeechLogged
  <2>5. QED
    BY <2>1, <2>3, <2>4
<1>10. ASSUME NEW p \in Players, NEW t \in Players \cup {NoOne},
              GuardLogged(p, t) \/ SeerLogged(p, t) \/ VoteLogged(p, t)
       PROVE  Fits
  <2>1. \/ VoteLogged(p, t) /\ pc = "vote" /\ Now = "day"
        \/ GuardLogged(p, t) /\ pc = "guard" /\ Now = "night"
        \/ SeerLogged(p, t) /\ pc = "seer" /\ Now = "night"
    BY <1>10 DEF GuardLogged, SeerLogged, VoteLogged, GuardTurn, SeerTurn, VoteTurn, Now, Dawned
  <2>2. Calm /\ snapshots' = snapshots
    BY <1>10, GameCalm DEF GuardLogged, SeerLogged, VoteLogged
  <2>3. \E type : Acted(Now, type, p, t)
    BY <2>1 DEF GuardLogged, SeerLogged, VoteLogged
  <2>4. CASE t = NoOne
    BY <1>1, <1>2, <2>1, <2>2, <2>3, <2>4 DEF Acted
  <2>5. CASE t # NoOne
    <3>1. Timely
      BY <1>0, <2>3, <2>5, OneTimely DEF Acted
    <3>2. QED
      BY <2>1, <2>2, <3>1
  <2>6. QED
    BY <2>4, <2>5
<1>11. QED
  BY <1>3, <1>4, <1>5, <1>6, <1>7, <1>8, <1>9, <1>10 DEF AuditNext

LEMMA KeepsShown == ASSUME Stepped, ShownInv PROVE ShownInv'
<1>0. /\ GameInv /\ LogTypes /\ SnapshotInv /\ LagInv /\ [AuditNext]_auditVars /\ [Next]_vars
      /\ Written /\ Done' /\ TypeOK /\ EndInv /\ RulingInv
      /\ rnd \in Nat \ {0} /\ rnd \in 0..MaxDayRounds
      /\ phase \in {"night", "day"}
  <2>1. /\ GameInv /\ LogTypes /\ SnapshotInv /\ LagInv /\ [AuditNext]_auditVars /\ [Next]_vars
        /\ Written /\ TypeOK /\ EndInv /\ RulingInv
    BY DEF Stepped, ShownInv, LogInv, GameInv, TypeInv
  <2>2. rnd \in Nat \ {0} /\ rnd \in 0..MaxDayRounds /\ phase \in {"night", "day"}
    BY <2>1, BoardAssumption DEF TypeOK
  <2>3. QED
    BY <2>1, <2>2, KeepsDone
<1>1. ASSUME AliveShown' = alive', SnapshotInv' PROVE ShownInv'
  <2>1. LagInv'
    BY <1>0, <1>1 DEF LagInv, Done, At
  <2>2. QED
    BY <1>1, <2>1 DEF ShownInv
<1>2. \A t \in snapshots : t.round \in Nat /\ t.phase \in Parts
  BY <1>0, BoardAssumption DEF SnapshotInv, SnapshotSet
<1>3. CASE SetupLogged
  <2>1. /\ pc = "setup" /\ pc' = "guard" /\ alive' = alive /\ rnd' = rnd /\ snapshots = {}
        /\ Snapshot(0, {"setup"})
    BY <1>0, <1>3 DEF SetupLogged, Setup, SnapshotInv
  <2>2. 0 \in 0..MaxDayRounds /\ {"setup"} \in SUBSET Parts
    BY BoardAssumption DEF Parts
  <2>3. /\ snapshots' \subseteq SnapshotSet /\ \E s \in snapshots' : Latest(snapshots', s)
        /\ \A s \in snapshots' : alive' \subseteq s.alive
        /\ AliveShown' = alive' /\ \A s \in snapshots' : s.round = 0
    BY <1>0, <2>1, <2>2, SnapshotTaken
  <2>4. QED
    BY <1>0, <1>1, <2>1, <2>3 DEF SnapshotInv
<1>4. CASE DaybreakLogged
  <2>1. /\ pc = "deaths" /\ pc' = "speech" /\ alive' = alive /\ rnd' = rnd
        /\ Snapshot(rnd, {"night"}) /\ ~Dawned /\ Dawned'
    BY <1>4 DEF DaybreakLogged, Daybreak, NightOver, Dawned
  <2>2. /\ \A t \in snapshots : t.round < rnd
        /\ {"night"} \in SUBSET Parts
    BY <1>0, <2>1 DEF SnapshotInv, Parts
  <2>3. /\ snapshots' \subseteq SnapshotSet /\ \E s \in snapshots' : Latest(snapshots', s)
        /\ \A s \in snapshots' : alive' \subseteq s.alive
        /\ AliveShown' = alive'
        /\ \A s \in snapshots' : s \in snapshots \/ (s.round = rnd /\ s.phase \in {"night"})
    BY <1>0, <2>1, <2>2, SnapshotTaken
  <2>4. QED
    BY <1>1, <2>1, <2>2, <2>3 DEF SnapshotInv
<1>5. CASE WinLogged
  <2>1. /\ pc # "over" /\ pc' = "over" /\ alive' = alive
        /\ Snapshot(rnd, {phase, "game_end"})
    BY <1>5 DEF WinLogged, Win, NightOver, DayOver
  <2>2. /\ {phase, "game_end"} \in SUBSET Parts /\ Rank[phase] < Rank["game_end"]
        /\ Rank["night"] < Rank["game_end"]
    BY <1>0 DEF Parts, Rank
  <2>3. \A t \in snapshots : t.round < rnd \/ (t.round = rnd /\ Rank[t.phase] < Rank["game_end"])
    BY <1>0, <2>1, <2>2 DEF SnapshotInv
  <2>4. /\ snapshots' \subseteq SnapshotSet /\ \E s \in snapshots' : Latest(snapshots', s)
        /\ \A s \in snapshots' : alive' \subseteq s.alive
        /\ AliveShown' = alive'
    BY <1>0, <2>1, <2>2, <2>3, SnapshotTaken
  <2>5. QED
    BY <1>1, <2>1, <2>4 DEF SnapshotInv
<1>6. CASE DayClosed
  <2>1. /\ pc # "over" /\ alive' = alive /\ Snapshot(rnd, {"day"})
        /\ pc' # "setup" /\ (pc' # "over" => rnd' = rnd + 1)
    BY <1>6 DEF DayClosed, NextRound, RoundCap, DayOver, FailClosed
  <2>2. {"day"} \in SUBSET Parts /\ Rank["night"] < Rank["day"]
    BY DEF Parts, Rank
  <2>3. \A t \in snapshots : t.round < rnd \/ (t.round = rnd /\ Rank[t.phase] < Rank["day"])
    BY <1>0, <2>1, <2>2 DEF SnapshotInv
  <2>4. /\ snapshots' \subseteq SnapshotSet /\ \E s \in snapshots' : Latest(snapshots', s)
        /\ \A s \in snapshots' : alive' \subseteq s.alive
        /\ AliveShown' = alive'
        /\ \A s \in snapshots' : s \in snapshots \/ (s.round = rnd /\ s.phase \in {"day"})
    BY <1>0, <2>1, <2>2, <2>3, SnapshotTaken
  <2>5. pc' # "over" => \A s \in snapshots' : s.round < rnd'
    BY <1>0, <1>2, <2>1, <2>3, <2>4
  <2>6. QED
    BY <1>1, <2>1, <2>4, <2>5 DEF SnapshotInv
<1>7. CASE Calm /\ Timely /\ snapshots' = snapshots /\ (New # {} => pc # "over")
  <2>1. AliveShown' = AliveShown /\ alive' \subseteq alive
    BY <1>0, <1>7, DeathsLast DEF AliveShown
  <2>2. SnapshotInv'
    BY <1>0, <1>7, <2>1 DEF SnapshotInv, Calm
  <2>3. LagInv'
    <3> SUFFICES ASSUME NEW i \in DOMAIN log', log'[i].type \in CommitTypes,
                        log'[i].target \in AliveShown
                 PROVE  /\ \A j \in DOMAIN log' : j >= i =>
                             log'[j].round = log'[i].round /\ log'[j].phase = log'[i].phase
                        /\ pc' # "over" => log'[i].round = rnd' /\ log'[i].phase = Now'
      BY <2>1 DEF LagInv, At
    <3>1. pc' # "over" => pc # "over" /\ rnd' = rnd /\ Now' = Now
      BY <1>7 DEF Calm, Now
    <3>2. \A j \in New : log'[j].round = rnd /\ log'[j].phase = Now
      BY <1>7 DEF Timely
    <3>3. CASE i \in DOMAIN log /\ log'[i] = log[i]
      <4>1. /\ \A j \in DOMAIN log : j >= i =>
                 log[j].round = log[i].round /\ log[j].phase = log[i].phase
            /\ pc # "over" => log[i].round = rnd /\ log[i].phase = Now
        BY <1>0, <3>3 DEF LagInv, At
      <4>2. ASSUME NEW j \in DOMAIN log', j >= i
            PROVE  log'[j].round = log'[i].round /\ log'[j].phase = log'[i].phase
        <5>1. CASE j \in DOMAIN log /\ log'[j] = log[j]
          BY <3>3, <4>1, <4>2, <5>1
        <5>2. CASE j \in New
          BY <1>7, <3>2, <3>3, <4>1, <5>2
        <5>3. QED
          BY <1>0, <5>1, <5>2, OldOrNew
      <4>3. QED
        BY <3>1, <3>3, <4>1, <4>2
    <3>4. CASE i \in New
      <4>1. ASSUME NEW j \in DOMAIN log', j >= i PROVE j \in New
        <5>1. j \in DOMAIN log => j < i
          BY <1>0, <3>4 DEF Written, Grown
        <5>2. i \in Int /\ j \in Int
          BY <1>0, <3>4 DEF Written, Grown
        <5>3. QED
          BY <4>1, <5>1, <5>2 DEF New
      <4>2. QED
        BY <3>1, <3>2, <3>4, <4>1
    <3>5. QED
      BY <1>0, <3>3, <3>4, OldOrNew
  <2>4. Over' => AliveShown' = alive'
    BY <1>7, <2>1 DEF ShownInv, Over, Calm
  <2>5. QED
    BY <2>2, <2>3, <2>4 DEF ShownInv
<1>8. QED
  BY <1>0, <1>3, <1>4, <1>5, <1>6, <1>7, StepsAreTimely

LEMMA ShownGoesOn ==
  ASSUME GameInv, LogInv, ShownInv, [AuditNext]_auditVars PROVE ShownInv'
<1>1. Stepped
  BY StepsWrite, AuditIsGame, GameGoesOn DEF Stepped, LogInv
<1>2. QED
  BY <1>1, KeepsShown

(* Who is shown alive never contradicts the game: no living seat is shown  *)
(* dead, a death of an earlier round or phase than the last event's is     *)
(* shown, and a finished game shows its survivors.                         *)
THEOREM AliveFollowsHolds == AuditSpec => []AliveFollows
<1>1. AuditInit => ShownInv
  BY DEF AuditInit, Init, ShownInv, SnapshotInv, LagInv, At, Over, AliveShown
<1>2. ASSUME GameInv, LogInv, ShownInv PROVE AliveFollows
  <2>1. alive \subseteq AliveShown
    BY <1>2, LivingAreShown DEF ShownInv
  <2>2. ASSUME NEW i \in At(CommitTypes), log[i].target \in AliveShown, NEW j \in i..Len(log)
        PROVE  log[j].round = log[i].round /\ log[j].phase = log[i].phase
    <3>1. i \in DOMAIN log /\ DOMAIN log = 1..Len(log) /\ Len(log) \in Nat
      BY <1>2 DEF At, LogInv, LogTypes
    <3>2. j \in DOMAIN log /\ j >= i
      BY <3>1
    <3>3. QED
      BY <1>2, <2>2, <3>2 DEF ShownInv, LagInv
  <2>3. QED
    BY <1>2, <2>1, <2>2 DEF AliveFollows, ShownInv
<1>3. GameInv /\ LogInv /\ ShownInv => AliveFollows
  BY <1>2
<1>4. GameInv /\ LogInv /\ ShownInv /\ [AuditNext]_auditVars => ShownInv'
  BY ShownGoesOn
<1>5. QED
  BY <1>1, <1>3, <1>4, LogHolds, PTL DEF AuditSpec

---------------------------------------------------------------------------
(* Sums over finite sets.  What the library's fold computes is shown by    *)
(* the least counterexample: of the sets that break a claim, one with the  *)
(* fewest elements.                                                        *)
LEMMA SmallestExists ==
  ASSUME NEW sets, sets # {}, \A s \in sets : IsFiniteSet(s)
  PROVE  \E s \in sets : \A t \in sets : IsFiniteSet(t) /\ Cardinality(s) <= Cardinality(t)
<1> DEFINE sizes == {Cardinality(s) : s \in sets}
<1>1. sizes \in SUBSET Nat /\ sizes # {}
  BY FS_CardinalityType
<1>2. PICK m \in sizes : \A n \in sizes : m <= n
  <2> HIDE DEF sizes
  <2> QED
    BY <1>1, LeastExists
<1>3. QED
  BY <1>2

(* A set is larger than the same without one of its elements.              *)
LEMMA OneLess ==
  ASSUME NEW S, IsFiniteSet(S), NEW x \in S
  PROVE  /\ IsFiniteSet(S \ {x}) /\ Cardinality(S \ {x}) < Cardinality(S)
         /\ Cardinality(S \ {x}) \in Nat /\ Cardinality(S) \in Nat
         /\ Cardinality(S \ {x}) = Cardinality(S) - 1
<1> DEFINE T == S \ {x}
<1>1. IsFiniteSet(T) /\ Cardinality(T) = Cardinality(S) - 1
  BY FS_RemoveElement
<1> HIDE DEF T
<1>2. Cardinality(T) \in Nat /\ Cardinality(S) \in Nat
  BY <1>1, FS_CardinalityType
<1>3. Cardinality(T) < Cardinality(S)
  BY <1>1, <1>2
<1>4. QED
  BY <1>1, <1>2, <1>3 DEF T

Sum(w, S)  == SumFunctionOnSet(w, S)
First(s)   == CHOOSE x \in s : TRUE
Unfolded(f, w, s) == IF s = {} THEN 0 ELSE w[First(s)] + f[s \ {First(s)}]
Adds(f, w, S) == f = [s \in SUBSET S |-> IF s = {} THEN 0 ELSE w[First(s)] + f[s \ {First(s)}]]

(* The element the fold takes is one of the set.                           *)
LEMMA FirstIsIn == ASSUME NEW s, s # {} PROVE First(s) \in s
BY DEF First

(* The library sums by a function on the subsets, chosen by its equation.  *)
LEMMA SumIs == ASSUME NEW w, NEW S PROVE Sum(w, S) = (CHOOSE f : Adds(f, w, S))[S]
BY DEF Sum, SumFunctionOnSet, FoldFunctionOnSet, MapThenFoldSet, Adds, First

(* There is such a function: the equation is met by ever larger sets.      *)
LEMMA AddsExists ==
  ASSUME NEW S, IsFiniteSet(S), NEW w, \A x \in S : w[x] \in Int
  PROVE  \E f \in [SUBSET S -> Int] : Adds(f, w, S)
<1> DEFINE Good(n) == \E f \in [SUBSET S -> Int] : \A s \in SUBSET S :
                        Cardinality(s) <= n => f[s] = Unfolded(f, w, s)
           bad == {n \in Nat : ~Good(n)}
<1>1. \A s \in SUBSET S : IsFiniteSet(s) /\ Cardinality(s) \in Nat
  BY FS_Subset, FS_CardinalityType
<1>2. bad = {}
  <2> SUFFICES ASSUME bad # {} PROVE FALSE OBVIOUS
  <2>1. bad \in SUBSET Nat
    OBVIOUS
  <2>2. PICK n \in bad : \A m \in bad : n <= m
    <3> HIDE DEF bad
    <3> QED
      BY <2>1, LeastExists
  <2>3. n \in Nat /\ ~Good(n)
    OBVIOUS
  <2>4. CASE n = 0
    <3> DEFINE f == [s \in SUBSET S |-> 0]
    <3>1. f \in [SUBSET S -> Int]
      OBVIOUS
    <3>2. ASSUME NEW s \in SUBSET S, Cardinality(s) <= 0 PROVE f[s] = Unfolded(f, w, s)
      <4>1. s = {}
        BY <1>1, <3>2, FS_EmptySet
      <4>2. QED
        BY <4>1 DEF Unfolded
    <3> HIDE DEF f
    <3>3. Good(0)
      BY <3>1, <3>2
    <3>4. QED
      BY <2>3, <2>4, <3>3
  <2>5. CASE n # 0
    <3>1. n - 1 \in Nat /\ ~(n <= n - 1)
      BY <2>3, <2>5
    <3>2. Good(n - 1)
      <4>1. n - 1 \notin bad
        <5> HIDE DEF bad
        <5> QED
          BY <2>2, <3>1
      <4> HIDE DEF Good
      <4>2. QED
        BY <3>1, <4>1
    <3>3. PICK f \in [SUBSET S -> Int] : \A s \in SUBSET S :
            Cardinality(s) <= n - 1 => f[s] = Unfolded(f, w, s)
      BY <3>2
    <3> DEFINE g == [s \in SUBSET S |-> Unfolded(f, w, s)]
    <3>4. ASSUME NEW s \in SUBSET S PROVE Unfolded(f, w, s) \in Int
      <4>1. CASE s = {}
        BY <4>1 DEF Unfolded
      <4>2. CASE s # {}
        <5>1. First(s) \in S /\ s \ {First(s)} \in SUBSET S
          BY <4>2, FirstIsIn
        <5>2. w[First(s)] \in Int /\ f[s \ {First(s)}] \in Int
          BY <5>1
        <5>3. QED
          BY <4>2, <5>2 DEF Unfolded
      <4>3. QED
        BY <4>1, <4>2
    <3>5. g \in [SUBSET S -> Int]
      BY <3>4
    <3>6. \A s \in SUBSET S : g[s] = Unfolded(f, w, s)
      OBVIOUS
    <3> HIDE DEF g
    <3>7. ASSUME NEW s \in SUBSET S, Cardinality(s) <= n PROVE g[s] = Unfolded(g, w, s)
      <4>1. CASE s = {}
        BY <3>6, <4>1 DEF Unfolded
      <4>2. CASE s # {}
        <5> DEFINE t == s \ {First(s)}
        <5>1. t \in SUBSET S /\ Cardinality(t) < Cardinality(s) /\ Cardinality(t) \in Nat
          BY <1>1, <4>2, FirstIsIn, OneLess
        <5>2. Cardinality(t) <= n - 1
          BY <1>1, <2>3, <3>7, <5>1
        <5> HIDE DEF t
        <5>3. f[t] = g[t]
          BY <3>3, <3>6, <5>1, <5>2
        <5>4. QED
          BY <3>6, <4>2, <5>3 DEF Unfolded, t
      <4>3. QED
        BY <4>1, <4>2
    <3>8. Good(n)
      BY <3>5, <3>7
    <3>9. QED
      BY <2>3, <3>8
  <2>6. QED
    BY <2>4, <2>5
<1>3. Cardinality(S) \in Nat /\ Good(Cardinality(S))
  BY <1>1, <1>2
<1>4. PICK f \in [SUBSET S -> Int] : \A s \in SUBSET S :
        Cardinality(s) <= Cardinality(S) => f[s] = Unfolded(f, w, s)
  BY <1>3
<1>5. \A s \in SUBSET S : f[s] = Unfolded(f, w, s)
  BY <1>4, FS_Subset
<1>6. f = [s \in SUBSET S |-> f[s]]
  OBVIOUS
<1>7. f = [s \in SUBSET S |-> Unfolded(f, w, s)]
  BY <1>5, <1>6
<1>8. Adds(f, w, S)
  BY <1>7 DEF Adds, Unfolded
<1>9. QED
  BY <1>8

(* Two such functions agree where both are defined.                        *)
LEMMA AddsAgree ==
  ASSUME NEW S, IsFiniteSet(S), NEW T \in SUBSET S, NEW w,
         NEW f, NEW g, Adds(f, w, S), Adds(g, w, T)
  PROVE  \A s \in SUBSET T : f[s] = g[s]
<1> DEFINE bad == {s \in SUBSET T : f[s] # g[s]}
<1>1. /\ \A s \in SUBSET S : f[s] = Unfolded(f, w, s)
      /\ \A s \in SUBSET T : g[s] = Unfolded(g, w, s)
  BY Zenon DEF Adds, Unfolded
<1>2. bad = {}
  <2> SUFFICES ASSUME bad # {} PROVE FALSE OBVIOUS
  <2>1. \A s \in bad : IsFiniteSet(s) /\ s \in SUBSET S
    BY FS_Subset
  <2>2. PICK s \in bad : \A t \in bad : Cardinality(s) <= Cardinality(t)
    <3> HIDE DEF bad
    <3> QED
      BY <2>1, SmallestExists
  <2>3. s # {}
    BY <1>1, <2>1 DEF Unfolded
  <2>4. First(s) \in s /\ IsFiniteSet(s)
    BY <2>1, <2>3, FirstIsIn
  <2>5. s \ {First(s)} \notin bad
    <3>1. /\ Cardinality(s \ {First(s)}) < Cardinality(s)
          /\ Cardinality(s \ {First(s)}) \in Nat /\ Cardinality(s) \in Nat
      BY <2>4, OneLess
    <3> HIDE DEF bad
    <3>2. QED
      BY <2>2, <3>1
  <2>6. f[s \ {First(s)}] = g[s \ {First(s)}]
    BY <2>5
  <2>7. QED
    BY <1>1, <2>1, <2>3, <2>6 DEF Unfolded
<1>3. QED
  BY <1>2

(* The sum of nothing, and of a set by its first element.                  *)
LEMMA SumByFirst ==
  ASSUME NEW S, IsFiniteSet(S), NEW w, \A x \in S : w[x] \in Int
  PROVE  /\ Sum(w, S) \in Int
         /\ S = {} => Sum(w, S) = 0
         /\ S # {} => Sum(w, S) = w[First(S)] + Sum(w, S \ {First(S)})
<1> DEFINE f == CHOOSE g : Adds(g, w, S)
<1>1. PICK h \in [SUBSET S -> Int] : Adds(h, w, S)
  BY AddsExists
<1>2. Adds(f, w, S)
  BY <1>1
<1>3. Sum(w, S) = f[S]
  BY SumIs
<1> HIDE DEF f
<1>4. f[S] = h[S]
  BY <1>1, <1>2, AddsAgree
<1>5. f[S] = Unfolded(f, w, S)
  BY <1>2, Zenon DEF Adds, Unfolded
<1>6. ASSUME S # {} PROVE f[S \ {First(S)}] = Sum(w, S \ {First(S)})
  <2> DEFINE T == S \ {First(S)}
             e == CHOOSE g : Adds(g, w, T)
  <2>1. T \in SUBSET S /\ IsFiniteSet(T) /\ \A x \in T : w[x] \in Int
    BY FS_Subset
  <2>2. Sum(w, T) = e[T]
    BY SumIs
  <2> HIDE DEF T
  <2>3. Adds(e, w, T)
    BY <2>1, AddsExists
  <2> HIDE DEF e
  <2>4. f[T] = e[T]
    BY <1>2, <2>1, <2>3, AddsAgree
  <2>5. QED
    BY <2>2, <2>4 DEF T
<1>7. QED
  BY <1>1, <1>3, <1>4, <1>5, <1>6 DEF Unfolded

(* ... or by any other.                                                    *)
LEMMA SumByAny ==
  ASSUME NEW S, IsFiniteSet(S), NEW w, \A x \in S : w[x] \in Int, NEW x \in S
  PROVE  Sum(w, S) = w[x] + Sum(w, S \ {x})
<1> DEFINE bad == {s \in SUBSET S : \E y \in s : Sum(w, s) # w[y] + Sum(w, s \ {y})}
<1>1. bad = {}
  <2> SUFFICES ASSUME bad # {} PROVE FALSE OBVIOUS
  <2>1. \A s \in SUBSET S : IsFiniteSet(s)
    BY FS_Subset
  <2>2. PICK s \in bad : \A t \in bad : Cardinality(s) <= Cardinality(t)
    <3>1. \A t \in bad : IsFiniteSet(t)
      BY <2>1
    <3> HIDE DEF bad
    <3> QED
      BY <3>1, SmallestExists
  <2>3. /\ s \in SUBSET S /\ \E y \in s : Sum(w, s) # w[y] + Sum(w, s \ {y})
    OBVIOUS
  <2>4. PICK y \in s : Sum(w, s) # w[y] + Sum(w, s \ {y})
    BY <2>3
  <2> DEFINE z == First(s)
  <2>5. z \in s /\ IsFiniteSet(s)
    BY <2>1, <2>3, <2>4, FirstIsIn
  <2>6. Sum(w, s) = w[z] + Sum(w, s \ {z})
    BY <2>1, <2>3, <2>4, SumByFirst
  <2> HIDE DEF z
  <2>7. y # z
    BY <2>4, <2>6
  <2>8. ASSUME NEW u \in s, NEW v \in s \ {u} PROVE Sum(w, s \ {u}) = w[v] + Sum(w, (s \ {u}) \ {v})
    <3>1. /\ Cardinality(s \ {u}) < Cardinality(s)
          /\ Cardinality(s \ {u}) \in Nat /\ Cardinality(s) \in Nat
      BY <2>5, OneLess
    <3>2. s \ {u} \notin bad
      <4> HIDE DEF bad
      <4> QED
        BY <2>2, <3>1
    <3>3. s \ {u} \in SUBSET S
      BY <2>3
    <3>4. QED
      BY <3>2, <3>3
  <2> DEFINE rest == s \ {y, z}
  <2>9. Sum(w, s \ {z}) = w[y] + Sum(w, rest) /\ Sum(w, s \ {y}) = w[z] + Sum(w, rest)
    <3>1. (s \ {z}) \ {y} = rest /\ (s \ {y}) \ {z} = rest /\ z \in s \ {y} /\ y \in s \ {z}
      BY <2>5, <2>7
    <3> HIDE DEF rest
    <3>2. QED
      BY <2>5, <2>8, <3>1
  <2>10. Sum(w, rest) \in Int /\ w[y] \in Int /\ w[z] \in Int
    <3>1. rest \in SUBSET S
      BY <2>3
    <3>2. QED
      BY <2>1, <2>3, <2>5, <3>1, SumByFirst
  <2> HIDE DEF rest
  <2>11. w[z] + (w[y] + Sum(w, rest)) = w[y] + (w[z] + Sum(w, rest))
    BY <2>10
  <2>12. QED
    BY <2>4, <2>6, <2>9, <2>11
<1>2. S \notin bad
  BY <1>1
<1>3. QED
  BY <1>2

(* The sum over two sets that have nothing in common.                      *)
LEMMA SumOfBoth ==
  ASSUME NEW S, IsFiniteSet(S), NEW w, \A x \in S : w[x] \in Int,
         NEW A \in SUBSET S, NEW B \in SUBSET S, A \cap B = {}
  PROVE  Sum(w, A \cup B) = Sum(w, A) + Sum(w, B)
<1> DEFINE bad == {s \in SUBSET A : Sum(w, s \cup B) # Sum(w, s) + Sum(w, B)}
<1>0. \A s \in SUBSET S : IsFiniteSet(s) /\ Sum(w, s) \in Int /\ \A x \in s : w[x] \in Int
  BY FS_Subset, SumByFirst
<1>1. bad = {}
  <2> SUFFICES ASSUME bad # {} PROVE FALSE OBVIOUS
  <2>1. \A s \in bad : IsFiniteSet(s)
    BY <1>0
  <2>2. PICK s \in bad : \A t \in bad : Cardinality(s) <= Cardinality(t)
    <3> HIDE DEF bad
    <3> QED
      BY <2>1, SmallestExists
  <2>3. s \in SUBSET A /\ Sum(w, s \cup B) # Sum(w, s) + Sum(w, B)
    OBVIOUS
  <2>4. Sum(w, {}) = 0
    BY SumByFirst, FS_EmptySet
  <2>5. s # {}
    <3>1. {} \cup B = B /\ Sum(w, B) \in Int /\ Sum(w, B) = 0 + Sum(w, B)
      BY <1>0
    <3>2. QED
      BY <2>3, <2>4, <3>1
  <2>6. PICK x \in s : TRUE
    BY <2>5
  <2>7. s \ {x} \notin bad
    <3>1. /\ Cardinality(s \ {x}) < Cardinality(s)
          /\ Cardinality(s \ {x}) \in Nat /\ Cardinality(s) \in Nat
      BY <2>1, OneLess
    <3> HIDE DEF bad
    <3>2. QED
      BY <2>2, <3>1
  <2>8. Sum(w, (s \ {x}) \cup B) = Sum(w, s \ {x}) + Sum(w, B)
    BY <2>3, <2>7
  <2>9. s \cup B \in SUBSET S /\ s \in SUBSET S /\ s \ {x} \in SUBSET S /\ x \in s \cup B
    BY <2>3
  <2>10. Sum(w, s) = w[x] + Sum(w, s \ {x})
    BY <1>0, <2>9, SumByAny
  <2>11. Sum(w, s \cup B) = w[x] + Sum(w, (s \cup B) \ {x})
    BY <1>0, <2>9, SumByAny
  <2>12. (s \cup B) \ {x} = (s \ {x}) \cup B
    BY <2>3
  <2>13. w[x] \in Int /\ Sum(w, s \ {x}) \in Int /\ Sum(w, B) \in Int
    BY <1>0, <2>9
  <2>14. w[x] + (Sum(w, s \ {x}) + Sum(w, B)) = (w[x] + Sum(w, s \ {x})) + Sum(w, B)
    BY <2>13
  <2>15. QED
    BY <2>3, <2>8, <2>10, <2>11, <2>12, <2>14
<1>2. A \notin bad
  BY <1>1
<1>3. QED
  BY <1>2

(* Nothing is lost and nothing counted twice when a set is divided, each   *)
(* part is summed and the sums are added.                                  *)
LEMMA SumOfParts ==
  ASSUME NEW S, IsFiniteSet(S), NEW w, \A x \in S : w[x] \in Int,
         NEW P, IsFiniteSet(P), NEW part \in [P -> SUBSET S],
         \A p, q \in P : p # q => part[p] \cap part[q] = {}
  PROVE  Sum([p \in P |-> Sum(w, part[p])], P) = Sum(w, UNION {part[p] : p \in P})
<1> DEFINE v == [p \in P |-> Sum(w, part[p])]
           All(Q) == UNION {part[p] : p \in Q}
           bad == {Q \in SUBSET P : Sum(v, Q) # Sum(w, All(Q))}
<1>0. \A s \in SUBSET S : IsFiniteSet(s) /\ Sum(w, s) \in Int /\ \A x \in s : w[x] \in Int
  BY FS_Subset, SumByFirst
<1>1. \A Q \in SUBSET P : IsFiniteSet(Q) /\ All(Q) \in SUBSET S
  BY FS_Subset
<1>2. \A p \in P : v[p] = Sum(w, part[p]) /\ v[p] \in Int
  BY <1>0
<1> HIDE DEF v
<1>3. bad = {}
  <2> SUFFICES ASSUME bad # {} PROVE FALSE OBVIOUS
  <2>1. \A Q \in bad : IsFiniteSet(Q)
    BY <1>1
  <2>2. PICK Q \in bad : \A R \in bad : Cardinality(Q) <= Cardinality(R)
    <3> HIDE DEF bad
    <3> QED
      BY <2>1, SmallestExists
  <2>3. Q \in SUBSET P /\ Sum(v, Q) # Sum(w, All(Q))
    OBVIOUS
  <2>4. CASE Q = {}
    <3>1. Sum(v, {}) = 0 /\ Sum(w, {}) = 0
      BY SumByFirst, FS_EmptySet
    <3>2. All({}) = {}
      OBVIOUS
    <3>3. QED
      BY <2>3, <2>4, <3>1, <3>2
  <2>5. CASE Q # {}
    <3>1. PICK p \in Q : TRUE
      BY <2>5
    <3>2. Q \ {p} \notin bad
      <4>1. /\ Cardinality(Q \ {p}) < Cardinality(Q)
            /\ Cardinality(Q \ {p}) \in Nat /\ Cardinality(Q) \in Nat
        BY <2>1, OneLess
      <4> HIDE DEF bad
      <4>2. QED
        BY <2>2, <4>1
    <3>3. Sum(v, Q \ {p}) = Sum(w, All(Q \ {p}))
      BY <2>3, <3>2
    <3>4. Sum(v, Q) = v[p] + Sum(v, Q \ {p})
      BY <1>1, <1>2, <2>3, SumByAny
    <3>5. /\ part[p] \in SUBSET S /\ All(Q \ {p}) \in SUBSET S
          /\ part[p] \cap All(Q \ {p}) = {} /\ All(Q) = part[p] \cup All(Q \ {p})
      BY <1>1, <2>3
    <3>6. Sum(w, All(Q)) = Sum(w, part[p]) + Sum(w, All(Q \ {p}))
      <4> DEFINE rest == All(Q \ {p})
      <4> HIDE DEF rest, All
      <4>1. part[p] \in SUBSET S /\ rest \in SUBSET S /\ part[p] \cap rest = {}
        BY <3>5 DEF rest
      <4>2. Sum(w, part[p] \cup rest) = Sum(w, part[p]) + Sum(w, rest)
        BY <4>1, SumOfBoth
      <4>3. QED
        BY <3>5, <4>2 DEF rest
    <3>7. v[p] = Sum(w, part[p])
      BY <1>2, <2>3
    <3>8. QED
      BY <2>3, <3>3, <3>4, <3>6, <3>7
  <2>6. QED
    BY <2>4, <2>5
<1>4. P \notin bad
  BY <1>3
<1>5. QED
  BY <1>4 DEF v

---------------------------------------------------------------------------
(* What the report of a game rests on: its events are in the order of its  *)
(* rounds and their parts, up to the moment the game is at; a kill comes   *)
(* before what answers it; every death was told; and there were three      *)
(* players, and the board undecided, when there was a vote.                *)
NoLater(e, f) == e.round < f.round \/ (e.round = f.round /\ Rank[e.phase] <= Rank[f.phase])
Present == [round |-> rnd, phase |-> Now]
InOrder ==
  /\ pc = "setup" <=> log = <<>>
  /\ \A i, j \in DOMAIN log : i <= j => NoLater(log[i], log[j])
  /\ pc # "over" => \A i \in DOMAIN log : NoLater(log[i], Present)
KillFirst ==
  \A i \in At({"werewolf_kill"}), j \in At({"player_died", "witch_save"}) :
    log[j].round = log[i].round => i < j
DeathsTold == \A p \in Players \ alive : \E i \in At(CommitTypes) : log[i].target = p
Others == \A p, q \in Players : \E t \in Players : t \notin {p, q}
OthersLeft == At({"player_vote", "player_eliminated"}) # {} => Others
ReportInv == InOrder /\ KillFirst /\ DeathsTold /\ OthersLeft /\ DecisionInv

(* A moment is a round and a part, and the parts are in order.             *)
LEMMA RanksAre == \A ph \in Parts : Rank[ph] \in Int
BY DEF Rank, Parts

(* Every event is of a moment.                                             *)
LEMMA EventMoments ==
  ASSUME LogTypes, NEW i \in DOMAIN log
  PROVE  log[i].round \in Int /\ log[i].phase \in Parts /\ Rank[log[i].phase] \in Int
<1>1. log[i].round \in Int /\ log[i].phase \in Parts
  BY EventsAre DEF EventSet, Parts
<1>2. QED
  BY <1>1, RanksAre

(* What is not before the later of two is not before the earlier.          *)
LEMMA LaterStill ==
  ASSUME NEW e, NEW f, NEW g, e.round \in Int, f.round \in Int, g.round \in Int,
         Rank[e.phase] \in Int, Rank[f.phase] \in Int, Rank[g.phase] \in Int,
         NoLater(e, f), NoLater(f, g)
  PROVE  NoLater(e, g)
BY DEF NoLater

(* Nothing comes before the setup.                                         *)
LEMMA SetupIsFirst ==
  ASSUME GameInv, [AuditNext]_auditVars, pc = "setup"
  PROVE  SetupLogged \/ (UNCHANGED <<pc, rnd, phase>> /\ log' = log)
<1>1. \A p : ~Turn(p)
  BY DEF Turn, Pending, PhaseActors
<1>2. CASE UNCHANGED auditVars
  BY <1>2 DEF auditVars, vars
<1>3. ~(PassLogged \/ DaybreakLogged \/ WinLogged \/ DayClosed \/ \E c \in Causes : DeathLogged(c))
  BY DEF PassLogged, HunterPass, DaybreakLogged, Daybreak, NightOver, WinLogged, Win, DayOver,
     DayClosed, NextRound, RoundCap, DeathLogged, CommitDeath
<1>4. ~Unlogged
  BY <1>1 DEF Unlogged, NextPhase, SettleNight, ScribeTurn, BudgetExhausted, Refused, Finished,
     SkipDeath
<1>5. ASSUME NEW p \in Players PROVE ~(WitchLogged(p) \/ SpeechLogged(p) \/ ShotLogged(p))
  BY DEF WitchLogged, WitchPass, WitchSave, WitchPoison, SpeechLogged, SpeechTurn, ShotLogged,
     HunterShoot
<1>6. ASSUME NEW p \in Players, NEW t \in Players \cup {NoOne}
      PROVE  ~(\/ GuardLogged(p, t) \/ Proposed(p, t) \/ SeerLogged(p, t) \/ VoteLogged(p, t)
               \/ KillLogged(t) \/ EliminationLogged(t))
  BY DEF GuardLogged, GuardTurn, Proposed, WolfTurn, SeerLogged, SeerTurn, VoteLogged, VoteTurn,
     KillLogged, WolfConsensus, EliminationLogged, Elimination
<1>7. ASSUME NEW t \in Players \cup {NoOne} PROVE ~(KillLogged(t) \/ EliminationLogged(t))
  BY DEF KillLogged, WolfConsensus, EliminationLogged, Elimination
<1>8. QED
  BY <1>2, <1>3, <1>4, <1>5, <1>6, <1>7 DEF AuditNext

(* A step's events are of the moment it is taken at.                       *)
LEMMA KeepsOrder == ASSUME Stepped, InOrder PROVE InOrder'
<1>0. /\ GameInv /\ LogTypes /\ Written /\ [AuditNext]_auditVars /\ [Next]_vars /\ Grown
      /\ rnd \in Int /\ DOMAIN log \subseteq Int /\ Now \in Parts /\ Rank[Now] \in Int
      /\ DOMAIN log' \subseteq Int
  <2>1. /\ GameInv /\ LogTypes /\ Written /\ [AuditNext]_auditVars /\ [Next]_vars /\ Grown /\ TypeOK
    BY DEF Stepped, LogInv, Written, GameInv, TypeInv
  <2>2. rnd \in Int /\ Now \in Parts
    BY <2>1 DEF TypeOK, Now, Parts
  <2>3. DOMAIN log \subseteq Int /\ DOMAIN log' \subseteq Int
    BY <2>1 DEF LogTypes, Grown
  <2>4. QED
    BY <2>1, <2>2, <2>3, RanksAre
<1>1. \A i \in DOMAIN log' : i \in DOMAIN log \/ i \in New
  BY DEF New
<1>2. \A i \in DOMAIN log : /\ log'[i] = log[i] /\ \A j \in New : i < j
                            /\ log[i].round \in Int /\ Rank[log[i].phase] \in Int
  BY <1>0, EventMoments DEF Grown
<1>3. ASSUME NEW at, at.round \in Int, Rank[at.phase] \in Int,
             \A i \in DOMAIN log : NoLater(log[i], at),
             \A i \in New : log'[i].round = at.round /\ log'[i].phase = at.phase
      PROVE  \A i, j \in DOMAIN log' : i <= j => NoLater(log'[i], log'[j])
  <2> SUFFICES ASSUME NEW i \in DOMAIN log', NEW j \in DOMAIN log', i <= j
               PROVE  NoLater(log'[i], log'[j])
    OBVIOUS
  <2>1. CASE i \in DOMAIN log /\ j \in DOMAIN log
    BY <1>2, <2>1 DEF InOrder
  <2>2. CASE i \in DOMAIN log /\ j \in New
    BY <1>2, <1>3, <2>2 DEF NoLater
  <2>3. CASE i \in New /\ j \in New
    BY <1>3, <2>3 DEF NoLater
  <2>4. CASE i \in New /\ j \in DOMAIN log
    BY <1>0, <1>2, <2>4
  <2>5. QED
    BY <1>1, <2>1, <2>2, <2>3, <2>4
<1>4. ASSUME New = {}, pc # "setup", pc' # "setup",
             pc' # "over" => /\ pc # "over" /\ Present'.round \in Int
                             /\ Rank[Present'.phase] \in Int /\ NoLater(Present, Present')
      PROVE  InOrder'
  <2>1. \A i, j \in DOMAIN log' : i <= j => NoLater(log'[i], log'[j])
    BY <1>1, <1>2, <1>4 DEF InOrder
  <2>2. pc' # "over" => \A i \in DOMAIN log' : NoLater(log'[i], Present')
    <3> SUFFICES ASSUME pc' # "over", NEW i \in DOMAIN log' PROVE NoLater(log'[i], Present')
      OBVIOUS
    <3>1. i \in DOMAIN log /\ log'[i] = log[i] /\ NoLater(log[i], Present)
      BY <1>1, <1>2, <1>4 DEF InOrder
    <3>2. Present.round \in Int /\ Rank[Present.phase] \in Int
      BY <1>0 DEF Present
    <3>3. QED
      BY <1>2, <1>4, <3>1, <3>2, LaterStill
  <2>3. log # <<>> /\ log' # <<>>
    BY <1>0, <1>4 DEF InOrder, Grown, LogTypes
  <2>4. QED
    BY <1>4, <2>1, <2>2, <2>3 DEF InOrder, NoLater
<1>5. CASE SetupLogged
  <2> DEFINE e == EventIn("setup", "role_assignment", System, NoOne)
  <2>1. /\ pc = "setup" /\ pc' = "guard" /\ rnd' = rnd /\ log' = <<>> \o <<e>> /\ log = <<>>
    BY <1>5 DEF SetupLogged, Setup, Emit, InOrder
  <2>2. e.round = 0 /\ e.phase = "setup"
    BY DEF EventIn
  <2> HIDE DEF e
  <2>3. log' = <<e>>
    BY <2>1
  <2>4. Now' = "night"
    BY <2>1 DEF Now, Dawned
  <2>5. Rank["setup"] <= Rank["night"] /\ 0 <= rnd /\ Rank["setup"] \in Int
    BY <1>0, BoardAssumption DEF Rank, GameInv, TypeInv, TypeOK
  <2>6. Present'.round = rnd /\ Present'.phase = "night"
    BY <2>1, <2>4 DEF Present
  <2>7. log' # <<>> /\ \A i \in DOMAIN log' : log'[i] = e
    BY <2>3
  <2>8. \A i \in DOMAIN log' : NoLater(log'[i], Present')
    BY <1>0, <2>2, <2>5, <2>6, <2>7 DEF NoLater
  <2>9. \A i, j \in DOMAIN log' : NoLater(log'[i], log'[j])
    BY <2>2, <2>5, <2>7 DEF NoLater
  <2>10. QED
    BY <2>1, <2>7, <2>8, <2>9 DEF InOrder, NoLater
<1>6. CASE DaybreakLogged
  <2> DEFINE e == EventIn("day", "day_announcement", System, NoOne)
             at == [round |-> rnd, phase |-> "day"]
  <2>1. pc = "deaths" /\ pc' = "speech" /\ rnd' = rnd /\ Emit(<<e>>)
    BY <1>6 DEF DaybreakLogged, Daybreak, NightOver
  <2>2. e \in EventSet /\ e.round = rnd /\ e.phase = "day"
    <3>1. e.round = rnd /\ e.phase = "day"
      BY DEF EventIn
    <3>2. TypeOK /\ "day_announcement" \in DOMAIN Visibility
      BY <1>0, TypesAre DEF GameInv, TypeInv
    <3>3. e \in EventSet
      BY <3>2, EventInIs
    <3>4. QED
      BY <3>1, <3>3
  <2> HIDE DEF e
  <2>3. \A i \in New : log'[i] = e
    BY <1>0, <2>1, <2>2, OneNew
  <2>4. Now = "night" /\ Now' = "day" /\ Present' = at
    BY <2>1 DEF Now, Dawned, Present
  <2>5. Rank["night"] <= Rank["day"] /\ Rank["day"] \in Int
    BY DEF Rank
  <2>6. \A i \in DOMAIN log : NoLater(log[i], Present)
    BY <2>1 DEF InOrder
  <2>7. NoLater(Present, at) /\ Present.round \in Int /\ Rank[Present.phase] \in Int
    BY <1>0, <2>4, <2>5 DEF NoLater, Present
  <2>8. \A i \in DOMAIN log : NoLater(log[i], at)
    BY <1>0, <1>2, <2>5, <2>6, <2>7, LaterStill
  <2>9. \A i, j \in DOMAIN log' : i <= j => NoLater(log'[i], log'[j])
    BY <1>0, <1>3, <2>2, <2>3, <2>5, <2>8
  <2>10. \A i \in DOMAIN log' : NoLater(log'[i], at)
    BY <1>0, <1>1, <1>2, <2>2, <2>3, <2>5, <2>8 DEF NoLater
  <2>11. log' # <<>>
    <3>1. log # <<>>
      BY <2>1 DEF InOrder
    <3>2. QED
      BY <1>0, <3>1 DEF Grown, LogTypes
  <2>12. QED
    BY <2>1, <2>4, <2>9, <2>10, <2>11 DEF InOrder, NoLater
<1>7. CASE WinLogged
  <2> DEFINE e == EventIn("game_end", "game_over", System, TeamOf[WinCheck(alive)])
             at == [round |-> rnd, phase |-> "game_end"]
  <2>1. pc \notin {"setup", "over"} /\ pc' = "over" /\ Emit(<<e>>) /\ WinCheck(alive) # "none"
    BY <1>7 DEF WinLogged, Win, NightOver, DayOver
  <2>2. e \in EventSet /\ e.round = rnd /\ e.phase = "game_end"
    <3>1. e.round = rnd /\ e.phase = "game_end"
      BY DEF EventIn
    <3>2. TypeOK /\ "game_over" \in DOMAIN Visibility
      BY <1>0, TypesAre DEF GameInv, TypeInv
    <3>3. WinCheck(alive) \in DOMAIN TeamOf
      BY <2>1 DEF WinCheck, TeamOf
    <3>4. e \in EventSet
      BY <3>2, <3>3, EventInIs
    <3>5. QED
      BY <3>1, <3>4
  <2> HIDE DEF e
  <2>3. \A i \in New : log'[i] = e
    BY <1>0, <2>1, <2>2, OneNew
  <2>4. Rank[Now] <= Rank["game_end"] /\ Rank["game_end"] \in Int
    BY DEF Rank, Now
  <2>5. NoLater(Present, at) /\ Present.round \in Int /\ Rank[Present.phase] \in Int
    BY <1>0, <2>4 DEF NoLater, Present
  <2>6. \A i \in DOMAIN log : NoLater(log[i], Present)
    BY <2>1 DEF InOrder
  <2>7. \A i \in DOMAIN log : NoLater(log[i], at)
    BY <1>0, <1>2, <2>4, <2>5, <2>6, LaterStill
  <2>8. \A i, j \in DOMAIN log' : i <= j => NoLater(log'[i], log'[j])
    BY <1>0, <1>3, <2>2, <2>3, <2>4, <2>7
  <2>9. log' # <<>>
    <3>1. log # <<>>
      BY <2>1 DEF InOrder
    <3>2. QED
      BY <1>0, <3>1 DEF Grown, LogTypes
  <2>10. QED
    BY <2>1, <2>8, <2>9 DEF InOrder, NoLater
<1>8. CASE DayClosed
  <2>1. pc \notin {"over", "setup"} /\ pc' # "setup" /\ log' = log
        /\ (pc' # "over" => rnd' = rnd + 1)
    BY <1>8 DEF DayClosed, NextRound, RoundCap, DayOver, FailClosed
  <2>2. New = {}
    BY <2>1 DEF New
  <2>3. Now' \in Parts
    BY DEF Now, Parts
  <2>4. pc' # "over" => /\ Present'.round \in Int /\ Rank[Present'.phase] \in Int
                        /\ NoLater(Present, Present')
    BY <1>0, <2>1, <2>3, RanksAre DEF Present, NoLater
  <2>5. QED
    BY <1>4, <2>1, <2>2, <2>4
<1>9. CASE Calm /\ Timely /\ snapshots' = snapshots /\ (New # {} => pc # "over")
  <2>1. pc' # "over" => pc # "over" /\ Present' = Present
    BY <1>9 DEF Calm, Present, Now
  <2>2. CASE pc = "setup" /\ ~SetupLogged
    <3>1. UNCHANGED <<pc, rnd, phase>> /\ log' = log
      BY <1>0, <2>2, SetupIsFirst
    <3>2. QED
      BY <2>1, <2>2, <3>1 DEF InOrder, NoLater
  <2>3. CASE pc # "setup"
    <3>1. pc' # "setup"
      BY <1>9, <2>3 DEF Calm
    <3>2. CASE New = {}
      <4>1. Present.round \in Int /\ Rank[Present.phase] \in Int /\ NoLater(Present, Present)
        BY <1>0 DEF Present, NoLater
      <4>2. QED
        BY <1>4, <2>1, <2>3, <3>1, <3>2, <4>1
    <3>3. CASE New # {}
      <4>1. pc # "over" /\ \A i \in DOMAIN log : NoLater(log[i], Present)
        BY <1>9, <3>3 DEF InOrder
      <4>2. /\ Present.round = rnd /\ Present.phase = Now
            /\ \A i \in New : log'[i].round = rnd /\ log'[i].phase = Now
        BY <1>9 DEF Timely, Present
      <4>3. \A i, j \in DOMAIN log' : i <= j => NoLater(log'[i], log'[j])
        BY <1>0, <1>3, <4>1, <4>2
      <4>4. \A i \in DOMAIN log' : NoLater(log'[i], Present)
        BY <1>0, <1>1, <1>2, <4>1, <4>2 DEF NoLater
      <4>5. log' # <<>>
        BY <3>3 DEF New
      <4>6. QED
        BY <2>1, <3>1, <4>3, <4>4, <4>5 DEF InOrder, NoLater
    <3>4. QED
      BY <3>2, <3>3
  <2>4. QED
    BY <1>5, <2>2, <2>3
<1>10. QED
  BY <1>0, <1>5, <1>6, <1>7, <1>8, <1>9, StepsAreTimely

(* A kill is the first of its round to be answered.                        *)
LEMMA KeepsKillFirst == ASSUME Stepped, KillFirst PROVE KillFirst'
<1> SUFFICES ASSUME NEW i \in DOMAIN log', NEW j \in DOMAIN log', log'[i].type = "werewolf_kill",
                    log'[j].type \in {"player_died", "witch_save"}, log'[j].round = log'[i].round
             PROVE  i < j
  BY DEF KillFirst, At
<1>0. Turns /\ Grown
  BY DEF Stepped, LogInv, Written
<1>1. CASE i \in DOMAIN log /\ j \in DOMAIN log /\ log'[i] = log[i] /\ log'[j] = log[j]
  BY <1>1 DEF KillFirst, At
<1>2. CASE i \in DOMAIN log /\ j \in New
  BY <1>0, <1>2 DEF Grown
<1>3. CASE i \in New /\ Behind(log'[i])
  <2>1. pc = "wolf" /\ log'[i].round = rnd
    BY <1>3 DEF Behind, WolfConsensus
  <2>2. j \in DOMAIN log /\ log'[j] = log[j] => FALSE
    BY <1>0, <2>1 DEF Turns, NotYet, WitchTypes, Night
  <2>3. j \in New /\ Behind(log'[j]) => FALSE
    BY <2>1 DEF Behind, WitchSave
  <2>4. QED
    BY <2>2, <2>3, OldOrNew DEF Stepped
<1>4. QED
  BY <1>1, <1>2, <1>3, OldOrNew DEF Stepped

(* What is emitted is found in the log.                                    *)
LEMMA EmittedIsTold ==
  ASSUME LogTypes, NEW X, NEW es \in Seq(X), NEW words \in Seq(X), Emit(es \o words),
         NEW k \in 1..Len(es)
  PROVE  \E i \in DOMAIN log' : log'[i] = es[k]
<1> DEFINE U == EventSet \cup X
<1>1. log \in Seq(U) /\ es \in Seq(U) /\ words \in Seq(U)
  BY SeqMonotonic DEF LogTypes
<1> HIDE DEF U
<1>2. /\ es \o words \in Seq(U) /\ Len(es \o words) = Len(es) + Len(words)
      /\ \A m \in 1..(Len(es) + Len(words)) :
           (es \o words)[m] = IF m <= Len(es) THEN es[m] ELSE words[m - Len(es)]
  BY <1>1, ConcatProperties
<1>3. /\ log' \in Seq(U) /\ Len(log') = Len(log) + Len(es \o words)
      /\ \A m \in 1..(Len(log) + Len(es \o words)) :
           log'[m] = IF m <= Len(log) THEN log[m] ELSE (es \o words)[m - Len(log)]
  BY <1>1, <1>2, ConcatProperties DEF Emit
<1>4. /\ Len(log) \in Nat /\ Len(es) \in Nat /\ Len(words) \in Nat
      /\ DOMAIN log' = 1..Len(log')
  BY <1>1, <1>3
<1>5. k \in Int /\ k \in 1..(Len(es) + Len(words)) /\ Len(log) + k \in 1..Len(log')
      /\ Len(log) + k - Len(log) = k /\ ~(Len(log) + k <= Len(log))
  BY <1>2, <1>3, <1>4
<1>6. log'[Len(log) + k] = es[k]
  <2>1. (es \o words)[k] = es[k]
    BY <1>2, <1>5
  <2> DEFINE m == Len(log) + k
  <2>2. m \in 1..(Len(log) + Len(es \o words)) /\ ~(m <= Len(log)) /\ m - Len(log) = k
    BY <1>3, <1>5
  <2> HIDE DEF m
  <2>3. log'[m] = (es \o words)[k]
    BY <1>3, <2>2
  <2>4. QED
    BY <2>1, <2>3 DEF m
<1>7. QED
  BY <1>4, <1>5, <1>6

(* The last words of a death are none or one event.                        *)
LEMMA WordsThen ==
  ASSUME NEW ph, NEW p, NEW words \in Words(ph, p),
         NEW X, EventIn(ph, "final_words", p, NoOne) \in X
  PROVE  words \in Seq(X)
<1> DEFINE w == EventIn(ph, "final_words", p, NoOne)
<1>1. words = <<>> \/ words = <<w>>
  BY DEF Words
<1> HIDE DEF w
<1>2. w \in X
  BY DEF w
<1>3. <<w>> \in Seq(X) /\ <<>> \in Seq(X)
  BY <1>2
<1>4. QED
  BY <1>1, <1>3

(* Only the steps of a death take anybody off the board.                   *)
LEMMA OnlyDeaths ==
  ASSUME GameInv, [AuditNext]_auditVars,
         \A c \in Causes : ~DeathLogged(c), \A t \in Players : ~ShotLogged(t),
         \A t \in Players : ~EliminationLogged(t)
  PROVE  alive' = alive
<1>1. CASE UNCHANGED auditVars
  BY <1>1 DEF auditVars, vars
<1>2. CASE SetupLogged \/ PassLogged \/ DaybreakLogged \/ WinLogged \/ DayClosed \/ Unlogged
  BY <1>2 DEF SetupLogged, Setup, PassLogged, HunterPass, DaybreakLogged, Daybreak, WinLogged, Win,
     DayClosed, NextRound, RoundCap, Unlogged, NextPhase, SettleNight, ScribeTurn,
     BudgetExhausted, Finished, SkipDeath, vars
<1>3. CASE \E p \in Players : WitchLogged(p) \/ SpeechLogged(p)
  BY <1>3 DEF WitchLogged, WitchPass, WitchSave, WitchPoison, SpeechLogged, SpeechTurn
<1>4. CASE \E p \in Players, t \in Players \cup {NoOne} :
             GuardLogged(p, t) \/ Proposed(p, t) \/ SeerLogged(p, t) \/ VoteLogged(p, t)
  BY <1>4 DEF GuardLogged, GuardTurn, Proposed, WolfTurn, SeerLogged, SeerTurn, VoteLogged,
     VoteTurn
<1>5. CASE \E t \in Players \cup {NoOne} : KillLogged(t)
  BY <1>5 DEF KillLogged, WolfConsensus
<1>6. CASE \E t \in Players \cup {NoOne} : EliminationLogged(t)
  <2>1. EliminationLogged(NoOne)
    BY <1>6
  <2>2. QED
    BY <2>1 DEF EliminationLogged, Elimination
<1>7. QED
  BY <1>1, <1>2, <1>3, <1>4, <1>5, <1>6 DEF AuditNext

(* A step that takes somebody off the board tells of it.                   *)
LEMMA DeathIsTold ==
  ASSUME GameInv, LogTypes, [AuditNext]_auditVars, NEW p \in alive, p \notin alive'
  PROVE  \E i \in DOMAIN log' : log'[i].type \in CommitTypes /\ log'[i].target = p
<1>0. \A ph, type, actor, target : /\ EventIn(ph, type, actor, target).type = type
                                   /\ EventIn(ph, type, actor, target).target = target
  BY DEF EventIn
<1>1. ASSUME NEW c \in Causes, DeathLogged(c)
      PROVE  \E i \in DOMAIN log' : log'[i].type \in CommitTypes /\ log'[i].target = p
  <2> DEFINE e == EventIn("night", "player_died", System, deaths[c])
             w == EventIn("night", "final_words", deaths[c], NoOne)
             es == <<e>>
             X == {e, w}
  <2>1. PICK words \in Words("night", deaths[c]) : Emit(es \o words)
    BY <1>1 DEF DeathLogged
  <2>2. deaths[c] = p
    BY <1>1 DEF DeathLogged, CommitDeath, Die
  <2>3. words \in Seq(X)
    BY WordsThen
  <2>4. e \in X
    OBVIOUS
  <2>5. e.type = "player_died" /\ e.target = p
    BY <1>0, <2>2
  <2> HIDE DEF e, X
  <2>6. es \in Seq(X) /\ 1 \in 1..Len(es) /\ es[1] = e
    BY <2>4
  <2> HIDE DEF es
  <2>7. \E i \in DOMAIN log' : log'[i] = es[1]
    BY <2>1, <2>3, <2>6, EmittedIsTold
  <2>8. QED
    BY <2>5, <2>6, <2>7 DEF CommitTypes
<1>2. ASSUME NEW t \in Players, ShotLogged(t)
      PROVE  \E i \in DOMAIN log' : log'[i].type \in CommitTypes /\ log'[i].target = p
  <2> DEFINE e == EventIn(phase, "hunter_shoot", shooter, t)
             f == EventIn(phase, "player_died", System, t)
             w == EventIn(phase, "final_words", t, NoOne)
             es == <<e, f>>
             X == {e, f, w}
  <2>1. PICK words \in Words(phase, t) : Emit(es \o words)
    BY <1>2 DEF ShotLogged
  <2>2. t = p
    BY <1>2 DEF ShotLogged, HunterShoot, Die
  <2>3. words \in Seq(X)
    BY WordsThen
  <2>4. e \in X /\ f \in X
    OBVIOUS
  <2>5. f.type = "player_died" /\ f.target = p
    BY <1>0, <2>2
  <2> HIDE DEF e, f, X
  <2>6. es \in Seq(X) /\ 2 \in 1..Len(es) /\ es[2] = f
    BY <2>4
  <2> HIDE DEF es
  <2>7. \E i \in DOMAIN log' : log'[i] = es[2]
    BY <2>1, <2>3, <2>6, EmittedIsTold
  <2>8. QED
    BY <2>5, <2>6, <2>7 DEF CommitTypes
<1>3. ASSUME NEW t \in Players, EliminationLogged(t)
      PROVE  \E i \in DOMAIN log' : log'[i].type \in CommitTypes /\ log'[i].target = p
  <2> DEFINE e == EventIn("day", "player_eliminated", System, t)
             f == EventIn("day", "role_revealed", System, t)
             w == EventIn("day", "final_words", t, NoOne)
             es == <<e, f>>
             X == {e, f, w}
  <2>0. t # NoOne
    BY NotAPlayer
  <2>1. PICK words \in Words("day", t) : Emit(es \o words)
    BY <1>3, <2>0 DEF EliminationLogged
  <2>2. t = p
    BY <1>3, <2>0 DEF EliminationLogged, Elimination, Die
  <2>3. words \in Seq(X)
    BY WordsThen
  <2>4. e \in X /\ f \in X
    OBVIOUS
  <2>5. e.type = "player_eliminated" /\ e.target = p
    BY <1>0, <2>2
  <2> HIDE DEF e, f, X
  <2>6. es \in Seq(X) /\ 1 \in 1..Len(es) /\ es[1] = e
    BY <2>4
  <2> HIDE DEF es
  <2>7. \E i \in DOMAIN log' : log'[i] = es[1]
    BY <2>1, <2>3, <2>6, EmittedIsTold
  <2>8. QED
    BY <2>5, <2>6, <2>7 DEF CommitTypes
<1>4. QED
  BY <1>1, <1>2, <1>3, OnlyDeaths

(* So every death stays told.                                              *)
LEMMA KeepsTold == ASSUME Stepped, DeathsTold PROVE DeathsTold'
<1> SUFFICES ASSUME NEW p \in Players, p \notin alive'
             PROVE  \E i \in DOMAIN log' : log'[i].type \in CommitTypes /\ log'[i].target = p
  BY DEF DeathsTold, At
<1>1. CASE p \in alive
  BY <1>1, DeathIsTold DEF Stepped, LogInv
<1>2. CASE p \notin alive
  <2>1. PICK i \in DOMAIN log : log[i].type \in CommitTypes /\ log[i].target = p
    BY <1>2 DEF DeathsTold, At
  <2>2. i \in DOMAIN log' /\ log'[i] = log[i]
    BY DEF Stepped, Written, Grown
  <2>3. QED
    BY <2>1, <2>2
<1>3. QED
  BY <1>1, <1>2

(* An undecided board has a wolf, and more of the others: three at least.  *)
LEMMA UndecidedHasOthers ==
  ASSUME TypeOK, WinCheck(alive) = "none" PROVE Others
<1> DEFINE W == alive \cap Wolves
           V == alive \ Wolves
<1>1. W # {} /\ ~(Cardinality(W) >= Cardinality(V))
  BY DEF WinCheck
<1>2. IsFiniteSet(Players) /\ alive \subseteq Players
  BY FS_Interval, BoardAssumption DEF Players, TypeOK
<1>3. /\ IsFiniteSet(W) /\ IsFiniteSet(V)
      /\ W \subseteq Players /\ V \subseteq Players /\ W \cap V = {}
  BY <1>2, FS_Subset
<1> HIDE DEF W, V
<1>4. PICK w \in W : TRUE
  BY <1>1
<1>5. Cardinality(W) \in Nat /\ Cardinality(W) # 0 /\ Cardinality(V) \in Nat
  BY <1>1, <1>3, FS_CardinalityType, FS_EmptySet
<1>6. Cardinality(V) >= 2
  BY <1>1, <1>5
<1>7. V # {}
  BY <1>6, FS_EmptySet
<1>8. PICK u \in V : TRUE
  BY <1>7
<1>9. V # {u}
  <2>1. Cardinality({u}) = 1
    BY OneIsOne
  <2>2. QED
    BY <1>6, <2>1
<1>10. PICK v \in V : v # u
  BY <1>8, <1>9
<1>11. u \in Players /\ v \in Players /\ w \in Players /\ w # u /\ w # v /\ u # v
  BY <1>3, <1>4, <1>8, <1>10
<1>12. QED
  BY <1>11 DEF Others

(* A vote is held on an undecided board.                                   *)
LEMMA KeepsOthers == ASSUME Stepped, OthersLeft, DecisionInv PROVE OthersLeft'
<1> SUFFICES ASSUME NEW i \in DOMAIN log', log'[i].type \in {"player_vote", "player_eliminated"}
             PROVE  Others
  BY DEF OthersLeft, At, Others
<1>1. CASE i \in DOMAIN log /\ log'[i] = log[i]
  BY <1>1 DEF OthersLeft, At
<1>2. CASE i \in New /\ Behind(log'[i])
  <2>1. pc = "vote"
    BY <1>2 DEF Behind, VoteTurn, Elimination
  <2>2. WinCheck(alive) = "none"
    BY <2>1 DEF DecisionInv, Playing
  <2>3. QED
    BY <2>2, UndecidedHasOthers DEF Stepped, GameInv, TypeInv
<1>3. QED
  BY <1>1, <1>2, OldOrNew DEF Stepped

(* Every step keeps what the report rests on,                              *)
LEMMA KeepsReport == ASSUME Stepped, ReportInv PROVE ReportInv'
BY KeepsOrder, KeepsKillFirst, KeepsTold, KeepsOthers, NextDecision DEF ReportInv, Stepped, GameInv

LEMMA ReportGoesOn ==
  ASSUME GameInv, LogInv, ReportInv, [AuditNext]_auditVars PROVE ReportInv'
<1>1. Stepped
  BY StepsWrite, AuditIsGame, GameGoesOn DEF Stepped, LogInv
<1>2. QED
  BY <1>1, KeepsReport

(* which therefore holds throughout.                                       *)
LEMMA ReportHolds == AuditSpec => [](GameInv /\ LogInv /\ ReportInv)
<1>1. AuditInit => ReportInv
  <2> SUFFICES ASSUME AuditInit PROVE ReportInv OBVIOUS
  <2>1. Init /\ log = <<>> /\ DOMAIN log = {} /\ pc = "setup" /\ rnd = 1 /\ alive = Players
    BY DEF AuditInit, Init
  <2>2. InOrder /\ KillFirst /\ DeathsTold /\ OthersLeft
    BY <2>1 DEF InOrder, KillFirst, DeathsTold, OthersLeft, At
  <2>3. DecisionInv
    BY <2>1 DEF DecisionInv, Playing
  <2>4. QED
    BY <2>2, <2>3 DEF ReportInv
<1>2. GameInv /\ LogInv /\ ReportInv /\ [AuditNext]_auditVars => ReportInv'
  BY ReportGoesOn
<1>3. QED
  BY <1>1, <1>2, LogHolds, PTL DEF AuditSpec

---------------------------------------------------------------------------
(* The scores and the metrics.                                             *)

(* The events at the places of a type are of it, and those of a decision   *)
(* have a player for their actor.                                          *)
LEMMA AtIs ==
  ASSUME LogInv, NEW types, NEW i \in At(types)
  PROVE  /\ i \in DOMAIN log /\ log[i].type \in types /\ Proper(log[i]) /\ log[i].round \in Nat
         /\ log[i].type \in Scored => log[i].actor \in Players
BY EventsAre DEF At, LogInv, Proper, Scored, Decided, ActiveTypes

(* The gaps the score log leaves are those the metrics know.               *)
LEMMA GapsAgree ==
  ASSUME LogInv
  PROVE  \A gap \in DOMAIN KnownGaps :
           KnownGaps[gap] = {i \in At({"player_vote"}) : VoteGap(log[i]) = gap}
<1> DEFINE without == "werewolf_day_vote_without_elimination"
           witch   == "witch_day_vote_outcome_not_explicit"
<1>1. DOMAIN KnownGaps = {without, witch}
  BY DEF KnownGaps
<1>2. ASSUME NEW i \in At({"player_vote"})
      PROVE  /\ VoteGap(log[i]) = without <=>
                  log[i].actor \in Wolves
                    /\ Hits(log[i].round, "player_eliminated", log[i].target) = {}
             /\ VoteGap(log[i]) = witch <=> Role[log[i].actor] = "witch"
  BY DEF VoteGap, Took, Wolves
<1>3. /\ KnownGaps[without] =
           {i \in At({"player_vote"}) :
              log[i].actor \in Wolves
                /\ Hits(log[i].round, "player_eliminated", log[i].target) = {}}
      /\ KnownGaps[witch] = {i \in At({"player_vote"}) : Role[log[i].actor] = "witch"}
  BY DEF KnownGaps
<1>4. KnownGaps[without] = {i \in At({"player_vote"}) : VoteGap(log[i]) = without}
  BY <1>2, <1>3
<1>5. KnownGaps[witch] = {i \in At({"player_vote"}) : VoteGap(log[i]) = witch}
  BY <1>2, <1>3
<1>6. QED
  BY <1>1, <1>4, <1>5

(* A vote that scores is accurate exactly when it scores above zero.       *)
LEMMA VotesAgree ==
  ASSUME LogInv, NEW i \in At({"player_vote"})
  PROVE  /\ Outcome(log[i]) # 0 => (Outcome(log[i]) > 0 <=> Accurate(log[i]))
         /\ Integrity(log[i]) = 0
<1>1. Outcome(log[i]) = VoteOutcome(log[i])
  BY AtIs DEF Outcome
<1>2. VoteOutcome(log[i]) # 0 => (VoteOutcome(log[i]) > 0 <=> Accurate(log[i]))
  <2> DEFINE out == VoteOutcome(log[i])
  <2>1. CASE VoteGap(log[i]) # "none"
    BY <2>1 DEF VoteOutcome
  <2>2. CASE VoteGap(log[i]) = "none" /\ log[i].actor \in Wolves
    <3>1. out = IF log[i].target \in Wolves THEN -2 ELSE IF Key(log[i].target) THEN 2 ELSE 1
      BY <2>2 DEF VoteOutcome
    <3>2. out > 0 <=> log[i].target \notin Wolves
      BY <3>1
    <3>3. QED
      BY <2>2, <3>2 DEF Accurate
  <2>3. CASE VoteGap(log[i]) = "none" /\ log[i].actor \notin Wolves
    <3>1. out = IF log[i].target \in Wolves THEN 2
                ELSE IF Role[log[i].actor] = "villager" /\ Key(log[i].target) THEN -2 ELSE -1
      BY <2>3 DEF VoteOutcome
    <3>2. out > 0 <=> log[i].target \in Wolves
      BY <3>1
    <3>3. QED
      BY <2>3, <3>2 DEF Accurate
  <2>4. QED
    BY <2>1, <2>2, <2>3
<1>3. \A j \in VoteRefs(log[i]) : VisibleToActor(log[i].actor, log[j])
  BY DEF VoteRefs, PublicRefs, VisibleToActor
<1>4. QED
  BY <1>1, <1>2, <1>3 DEF Integrity

(* A potion is drunk once, so the first of its kind is the one.            *)
LEMMA PotionIsOne ==
  ASSUME LogInv, NEW type \in {"witch_save", "witch_poison"}, NEW i \in At({type})
  PROVE  ByActor(type, log[i].actor) # {} /\ Min(ByActor(type, log[i].actor)) = i
<1>1. ByActor(type, log[i].actor) = {i}
  BY AtIs DEF ByActor, At, LogInv, Once, Alike
<1>2. i \in Nat
  BY AtIs DEF LogInv, LogTypes
<1>3. Min({i}) = i
  BY <1>2 DEF Min
<1>4. QED
  BY <1>1, <1>3

(* So are a save, a poison and a check.                                    *)
LEMMA PotionsAgree ==
  ASSUME LogInv
  PROVE  /\ \A i \in At({"witch_save"}) : SaveAccurate(log[i].actor) <=> Outcome(log[i]) > 0
         /\ \A i \in At({"witch_poison"}) :
              /\ PoisonAccurate(log[i].actor) <=> Outcome(log[i]) > 0
              /\ i \in Misfires <=> Outcome(log[i]) < 0
         /\ \A i \in At({"seer_check"}) :
              i \in FoundWolves(log[i].actor) <=> Outcome(log[i]) > 0
<1>1. ASSUME NEW i \in At({"witch_save"})
      PROVE  SaveAccurate(log[i].actor) <=> Outcome(log[i]) > 0
  <2>1. log[i].type = "witch_save"
    BY AtIs
  <2>2. Outcome(log[i]) > 0 <=> log[i].target \notin Wolves
    BY <2>1 DEF Outcome
  <2>3. QED
    BY <2>2, PotionIsOne DEF SaveAccurate
<1>2. ASSUME NEW i \in At({"witch_poison"})
      PROVE  /\ PoisonAccurate(log[i].actor) <=> Outcome(log[i]) > 0
             /\ i \in Misfires <=> Outcome(log[i]) < 0
  <2>1. log[i].type = "witch_poison"
    BY AtIs
  <2>2. /\ Outcome(log[i]) > 0 <=> log[i].target \in Wolves
        /\ Outcome(log[i]) < 0 <=> log[i].target \notin Wolves
    BY <2>1 DEF Outcome
  <2>3. QED
    BY <2>2, PotionIsOne DEF PoisonAccurate, Misfires
<1>3. ASSUME NEW i \in At({"seer_check"})
      PROVE  i \in FoundWolves(log[i].actor) <=> Outcome(log[i]) > 0
  <2>1. log[i].type = "seer_check"
    BY AtIs
  <2>2. Outcome(log[i]) > 0 <=> log[i].target \in Wolves
    BY <2>1 DEF Outcome
  <2>3. QED
    BY <2>2 DEF FoundWolves, ByActor
<1>4. QED
  BY <1>1, <1>2, <1>3

(* The places of the log, and those of any types, are finitely many.       *)
LEMMA PlacesAreFinite ==
  ASSUME LogInv, NEW types
  PROVE  DOMAIN log = 1..Len(log) /\ Len(log) \in Nat /\ IsFiniteSet(At(types))
         /\ At(types) \in SUBSET Nat
<1>1. DOMAIN log = 1..Len(log) /\ Len(log) \in Nat
  BY DEF LogInv, LogTypes
<1>2. IsFiniteSet(1..Len(log)) /\ At(types) \subseteq 1..Len(log)
  BY <1>1, FS_Interval DEF At
<1>3. QED
  BY <1>1, <1>2, FS_Subset

(* Every outcome is a number of points.                                    *)
LEMMA OutcomesAreInts == ASSUME LogInv PROVE \A i \in At(Scored) : Outcome(log[i]) \in Int
<1> SUFFICES ASSUME NEW i \in At(Scored) PROVE Outcome(log[i]) \in Int
  OBVIOUS
<1>1. log[i].type \in Scored
  BY AtIs
<1>2. VoteOutcome(log[i]) \in Int
  BY DEF VoteOutcome
<1>3. QED
  BY <1>1, <1>2 DEF Outcome, Scored

(* Each scored event is some one player's: no record is lost or counted    *)
(* twice between the log and the seats' sums.                              *)
LEMMA SumsAgree ==
  ASSUME LogInv
  PROVE  SumFunction([p \in Players |-> PlayerScore(p)]) = SumFunction(Outcomes)
<1> DEFINE S == At(Scored)
           part == [p \in Players |-> UNION {ByActor(type, p) : type \in Scored}]
           w == Outcomes
<1>1. IsFiniteSet(S) /\ DOMAIN w = S /\ \A i \in S : w[i] \in Int
  BY PlacesAreFinite, OutcomesAreInts DEF Outcomes
<1>2. IsFiniteSet(Players)
  BY BoardAssumption, FS_Interval DEF Players
<1>3. ASSUME NEW p \in Players PROVE part[p] = {i \in S : log[i].actor = p}
  BY DEF ByActor, At
<1>4. part \in [Players -> SUBSET S]
  BY <1>3
<1>5. \A p, q \in Players : p # q => part[p] \cap part[q] = {}
  BY <1>3
<1>6. UNION {part[p] : p \in Players} = S
  <2>1. \A i \in S : log[i].actor \in Players
    BY AtIs
  <2>2. QED
    BY <1>3, <2>1
<1> HIDE DEF S, part, w
<1>7. Sum([p \in Players |-> Sum(w, part[p])], Players) = Sum(w, S)
  BY <1>1, <1>2, <1>4, <1>5, <1>6, SumOfParts
<1>8. [p \in Players |-> PlayerScore(p)] = [p \in Players |-> Sum(w, part[p])]
  BY DEF PlayerScore, Sum, part, w
<1>9. SumFunction([p \in Players |-> PlayerScore(p)])
        = Sum([p \in Players |-> PlayerScore(p)], Players)
  BY DEF SumFunction, Sum
<1>10. SumFunction(w) = Sum(w, S)
  BY <1>1 DEF SumFunction, Sum
<1>11. QED
  BY <1>7, <1>8, <1>9, <1>10 DEF w

(* Who acts was not dead yet: its rounds are not after its death's.        *)
LEMMA ActsInLife ==
  ASSUME GameInv, LogInv, ReportInv, NEW p \in Players, NEW i \in At(ActiveTypes), log[i].actor = p
  PROVE  log[i].round <= SurvivalRounds(p)
<1> DEFINE ends == {EndRound}
             \cup {log[k].round : k \in {j \in At(CommitTypes) : log[j].target = p}}
<1>1. /\ i \in 1..Len(log) /\ Len(log) \in Nat /\ DOMAIN log = 1..Len(log)
      /\ \A j \in DOMAIN log : log[j].round \in Nat
  BY PlacesAreFinite, AtIs, EventsAre DEF LogInv
<1>2. Len(log) \in DOMAIN log
  BY <1>1
<1>3. EndRound \in Nat /\ log[i].round <= EndRound
  BY <1>1, <1>2 DEF EndRound, ReportInv, InOrder, NoLater
<1>4. ASSUME NEW j \in At(CommitTypes), log[j].target = p
      PROVE  log[j].round \in Nat /\ log[i].round <= log[j].round
  <2>1. i < j
    BY <1>4 DEF LogInv, CheckI2
  <2>2. j \in DOMAIN log /\ i \in DOMAIN log
    BY DEF At
  <2>3. QED
    BY <1>1, <2>1, <2>2 DEF ReportInv, InOrder, NoLater
<1>5. ends \in SUBSET Nat /\ ends # {} /\ \A n \in ends : log[i].round <= n
  BY <1>3, <1>4
<1> HIDE DEF ends
<1>6. Min(ends) \in ends
  BY <1>5, MinIsLeast
<1>7. QED
  BY <1>5, <1>6 DEF SurvivalRounds, ends

(* What backs the record of a kill came after it.                          *)
LEMMA EvidenceFollows ==
  ASSUME LogInv, ReportInv, NEW i \in At({"werewolf_kill"}), NEW j \in KillEvidence(log[i])
  PROVE  j > i
<1> DEFINE died == Hits(log[i].round, "player_died", log[i].target)
           save == Hits(log[i].round, "witch_save", log[i].target)
<1>1. died \in SUBSET Nat /\ save \in SUBSET Nat /\ i \in Nat
  BY PlacesAreFinite DEF Hits, In
<1>2. \A k \in died \cup save : i < k
  BY DEF Hits, In, At, ReportInv, KillFirst
<1>3. KillEvidence(log[i]) =
        IF died # {} THEN {Min(died)} ELSE IF save # {} THEN {Min(save)} ELSE {}
  BY DEF KillEvidence
<1> HIDE DEF died, save
<1>4. j \in died \/ j \in save
  BY <1>1, <1>3, MinIsLeast
<1>5. j \in Nat /\ i < j
  BY <1>1, <1>2, <1>4
<1>6. QED
  BY <1>1, <1>5

(* The score log and the metrics agree, whatever the game.                 *)
THEOREM ScoresAgreeHolds == AuditSpec => []ScoresAgree
<1>1. ASSUME GameInv, LogInv, ReportInv PROVE ScoresAgree
  <2>1. \A p \in Players :
          LET survived == SurvivalRounds(p)
          IN \A i \in At(ActiveTypes) : log[i].actor = p => log[i].round <= survived
    BY <1>1, ActsInLife
  <2>2. \A i \in At({"werewolf_kill"}) : \A j \in KillEvidence(log[i]) : j > i
    BY <1>1, EvidenceFollows
  <2>3. \A i \in At({"player_vote"}) :
          /\ Outcome(log[i]) # 0 => (Outcome(log[i]) > 0 <=> Accurate(log[i]))
          /\ Integrity(log[i]) = 0
    BY <1>1, VotesAgree
  <2>4. QED
    BY <1>1, <2>1, <2>2, <2>3, GapsAgree, PotionsAgree, SumsAgree DEF ScoresAgree
<1>2. QED
  BY <1>1, ReportHolds, PTL

---------------------------------------------------------------------------
(* The timeline, the result and its attribution.                           *)

(* A bounded set of naturals has a greatest element.                       *)
LEMMA MaxIsGreatest ==
  ASSUME NEW S \in SUBSET Nat, S # {}, NEW b \in Nat, \A x \in S : x <= b
  PROVE  Max(S) \in S /\ \A x \in S : x <= Max(S)
<1> DEFINE gaps == {b - x : x \in S}
<1>1. gaps \in SUBSET Nat /\ gaps # {}
  <2>1. \A x \in S : b - x \in Nat
    OBVIOUS
  <2>2. QED
    BY <2>1
<1>2. PICK g \in gaps : \A h \in gaps : g <= h
  <2> HIDE DEF gaps
  <2> QED
    BY <1>1, LeastExists
<1>3. PICK m \in S : g = b - m
  BY <1>2
<1>4. ASSUME NEW x \in S PROVE m >= x
  <2>1. g <= b - x
    BY <1>2
  <2>2. QED
    BY <1>3, <2>1
<1> HIDE DEF gaps
<1>5. Max(S) \in S /\ \A x \in S : Max(S) >= x
  BY <1>4 DEF Max
<1>6. QED
  BY <1>5

(* A finished game has events: what is known of its report at its end.     *)
Reported == GameInv /\ LogInv /\ ReportInv /\ log # <<>>

(* The places and nodes of its log.                                        *)
LEMMA LogIs ==
  ASSUME Reported
  PROVE  /\ DOMAIN log = 1..Len(log) /\ Len(log) \in Nat /\ Len(log) >= 1
         /\ 1 \in Nodes /\ Nodes \subseteq 1..Len(log)
<1>1. DOMAIN log = 1..Len(log) /\ Len(log) \in Nat
  BY DEF Reported, LogInv, LogTypes
<1>2. Len(log) # 0
  BY DEF Reported, LogInv, LogTypes
<1>3. QED
  BY <1>1, <1>2 DEF Nodes

(* A node's events are those from its first to the next node, or the last. *)
LEMMA OfNodeIs ==
  ASSUME Reported, NEW i \in Nodes
  PROVE  \E last \in i..Len(log) :
           /\ OfNode(i) = i..last /\ Max(OfNode(i)) = last
           /\ \A k \in Nodes : k > i => k > last
           /\ last # Len(log) => last + 1 \in Nodes
<1> DEFINE later == {k \in Nodes : k > i}
           last  == IF later = {} THEN Len(log) ELSE Min(later) - 1
<1>1. /\ Len(log) \in Nat /\ i \in 1..Len(log) /\ i \in Nat
      /\ \A k \in Nodes : k \in Nat /\ k <= Len(log)
  BY LogIs
<1>2. OfNode(i) = i..last
  BY DEF OfNode
<1>3. /\ later \in SUBSET Nat
      /\ \A k \in later : k \in Nodes /\ k > i /\ k \in Nat /\ k <= Len(log)
      /\ \A k \in Nodes : k > i => k \in later
  BY <1>1
<1> HIDE DEF later
<1>4. later # {} => Min(later) \in later /\ \A k \in later : Min(later) <= k
  BY <1>3, MinIsLeast
<1>5. last \in i..Len(log)
  <2>1. CASE later = {}
    BY <1>1, <2>1
  <2>2. CASE later # {}
    <3>1. last = Min(later) - 1 /\ Min(later) \in Nat /\ Min(later) > i /\ Min(later) <= Len(log)
      BY <1>3, <1>4, <2>2
    <3>2. QED
      BY <1>1, <3>1
  <2>3. QED
    BY <2>1, <2>2
<1>6. ASSUME NEW k \in Nodes, k > i PROVE k > last
  <2>1. Min(later) \in Nat /\ Min(later) <= k /\ last = Min(later) - 1 /\ k \in Nat
    BY <1>3, <1>4, <1>6
  <2>2. QED
    BY <2>1
<1>7. ASSUME last # Len(log) PROVE last + 1 \in Nodes
  <2>1. Min(later) \in Nat /\ Min(later) \in Nodes /\ last = Min(later) - 1
    BY <1>3, <1>4, <1>7
  <2>2. QED
    BY <2>1
<1> HIDE DEF last
<1>8. Max(i..last) = last
  <2>1. (i..last) \in SUBSET Nat /\ last \in i..last /\ last \in Nat /\ \A x \in i..last : x <= last
    BY <1>1, <1>5
  <2>2. Max(i..last) \in i..last /\ last <= Max(i..last)
    BY <2>1, MaxIsGreatest
  <2>3. QED
    BY <2>1, <2>2
<1>9. QED
  BY <1>2, <1>5, <1>6, <1>7, <1>8

(* They are all of its round and phase.                                    *)
LEMMA NodeIsAMoment ==
  ASSUME Reported, NEW i \in Nodes, NEW j \in OfNode(i)
  PROVE  j \in DOMAIN log /\ log[j].round = log[i].round /\ log[j].phase = log[i].phase
<1>1. PICK last \in i..Len(log) : OfNode(i) = i..last /\ \A k \in Nodes : k > i => k > last
  BY OfNodeIs
<1>2. Len(log) \in Nat /\ i \in 1..Len(log) /\ DOMAIN log = 1..Len(log)
  BY LogIs
<1>3. OfNode(i) \subseteq DOMAIN log /\ OfNode(i) \subseteq Nat
  BY <1>1, <1>2
<1> DEFINE Same(k) == log[k].round = log[i].round /\ log[k].phase = log[i].phase
           bad == {k \in OfNode(i) : ~Same(k)}
<1>4. bad = {}
  <2> SUFFICES ASSUME bad # {} PROVE FALSE
    OBVIOUS
  <2>1. bad \in SUBSET Nat
    BY <1>3
  <2>2. PICK m \in bad : \A k \in bad : m <= k
    <3> HIDE DEF bad
    <3> QED
      BY <2>1, LeastExists
  <2>3. m \in i..last /\ m # i /\ ~Same(m)
    BY <1>1
  <2>4. m - 1 \in i..last /\ m - 1 \notin bad /\ m # 1 /\ m \in DOMAIN log /\ m > i /\ ~(m > last)
    BY <1>1, <1>2, <2>2, <2>3
  <2>5. Same(m - 1)
    BY <1>1, <2>4
  <2>6. m \in Nodes
    BY <2>3, <2>4, <2>5 DEF Nodes
  <2>7. QED
    BY <1>1, <2>4, <2>6
<1>5. QED
  BY <1>3, <1>4

(* Every event is some node's.                                             *)
LEMMA SomeNode ==
  ASSUME Reported, NEW j \in DOMAIN log
  PROVE  \E i \in Nodes : j \in OfNode(i)
<1> DEFINE upto == {k \in Nodes : k <= j}
<1>1. /\ Len(log) \in Nat /\ j \in 1..Len(log) /\ Nodes \subseteq 1..Len(log) /\ 1 \in Nodes
  BY LogIs
<1>2. PICK i \in upto : \A k \in upto : k <= i
  <2>0. \A k \in Nodes : k \in Nat
    BY <1>1
  <2>1. 1 \in upto /\ j \in Nat /\ \A k \in upto : k \in Nat /\ k <= j
    BY <1>1, <2>0
  <2> HIDE DEF upto
  <2>2. QED
    BY <2>1, MaxIsGreatest
<1>3. PICK last \in i..Len(log) : OfNode(i) = i..last /\ (last # Len(log) => last + 1 \in Nodes)
  BY <1>2, OfNodeIs
<1>4. j <= last
  BY <1>1, <1>2, <1>3
<1>5. QED
  BY <1>1, <1>2, <1>3, <1>4

(* There is one node for a round and phase.                                *)
LEMMA RanksApart == \A p, q \in Parts : Rank[p] = Rank[q] => p = q
BY DEF Rank, Parts

LEMMA NodeIsOne ==
  ASSUME Reported, NEW i \in Nodes, NEW j \in Nodes,
         log[i].round = log[j].round, log[i].phase = log[j].phase
  PROVE  i = j
<1>1. ASSUME NEW m \in Nodes, NEW n \in Nodes, m < n,
             log[m].round = log[n].round, log[m].phase = log[n].phase
      PROVE  FALSE
  <2> DEFINE k == n - 1
  <2>1. /\ DOMAIN log = 1..Len(log) /\ Len(log) \in Nat /\ m \in DOMAIN log /\ n \in DOMAIN log
        /\ k \in DOMAIN log /\ m <= k /\ k <= n /\ n # 1
    BY <1>1, LogIs
  <2>2. NoLater(log[m], log[k]) /\ NoLater(log[k], log[n])
    BY <2>1 DEF Reported, ReportInv, InOrder
  <2>3. \A x \in DOMAIN log : /\ log[x].round \in Int /\ log[x].phase \in Parts
                              /\ Rank[log[x].phase] \in Int
    BY EventMoments DEF Reported, LogInv
  <2>4. log[k].round = log[n].round /\ Rank[log[k].phase] = Rank[log[n].phase]
    BY <1>1, <2>1, <2>2, <2>3 DEF NoLater
  <2>5. log[k].phase = log[n].phase
    BY <2>1, <2>3, <2>4, RanksApart
  <2>6. QED
    BY <2>1, <2>4, <2>5 DEF Nodes
<1>2. i \in Int /\ j \in Int
  BY LogIs
<1>3. QED
  BY <1>1, <1>2

(* The board after the last event is the game's.                           *)
LEMMA AliveAfterIs == ASSUME Reported PROVE AliveAfterGame = alive
BY DEF Reported, GameInv, TypeInv, TypeOK, LogInv, Done, ReportInv, DeathsTold, AliveAfterGame, At

(* The last node ends with the survivors.                                  *)
LEMMA TimelineEnds == ASSUME Reported PROVE AliveAt(Max(Nodes)) = alive
<1>1. /\ Nodes \in SUBSET Nat /\ Nodes # {} /\ Len(log) \in Nat /\ \A k \in Nodes : k <= Len(log)
      /\ DOMAIN log = 1..Len(log)
  BY LogIs
<1>2. Max(Nodes) \in Nodes /\ \A k \in Nodes : k <= Max(Nodes)
  BY <1>1, MaxIsGreatest
<1> DEFINE m == Max(Nodes)
<1> HIDE DEF m
<1>3. m \in Nodes /\ \A k \in Nodes : k <= m
  BY <1>2 DEF m
<1>4. PICK last \in m..Len(log) : Max(OfNode(m)) = last /\ (last # Len(log) => last + 1 \in Nodes)
  BY <1>3, OfNodeIs
<1>5. last = Len(log)
  <2>1. m \in Nat
    BY <1>1, <1>3
  <2>2. last \in Int /\ m <= last
    BY <1>4, <2>1
  <2>3. ~(last + 1 <= m)
    BY <2>1, <2>2
  <2>4. last + 1 \notin Nodes
    BY <1>3, <2>3
  <2>5. QED
    BY <1>4, <2>4
<1>6. {k \in At(CommitTypes) : k <= Max(OfNode(m))} = At(CommitTypes)
  BY <1>1, <1>4, <1>5 DEF At
<1>7. AliveAt(m) = AliveAfterGame
  BY <1>6 DEF AliveAt, AliveAfterGame
<1>8. QED
  BY <1>7, AliveAfterIs DEF m

(* Who a node spotlights for dying is off its board.                       *)
LEMMA SpotlitIsDead ==
  ASSUME Reported, NEW i \in Nodes, DeathsOf(i) # {}
  PROVE  log[Spotlight(i)].target \notin AliveAt(i)
<1>1. PICK last \in i..Len(log) : OfNode(i) = i..last /\ Max(OfNode(i)) = last
  BY OfNodeIs
<1>2. i \in Nat /\ Len(log) \in Nat /\ last \in Nat
  BY <1>1, LogIs
<1>3. DeathsOf(i) \in SUBSET Nat /\ \A x \in DeathsOf(i) : x <= last
  BY <1>1, <1>2 DEF DeathsOf
<1>4. Max(DeathsOf(i)) \in DeathsOf(i)
  BY <1>2, <1>3, MaxIsGreatest
<1>5. Spotlight(i) \in At(CommitTypes) /\ Spotlight(i) <= Max(OfNode(i))
  BY <1>1, <1>3, <1>4 DEF Spotlight, DeathsOf
<1>6. QED
  BY <1>5 DEF AliveAt

(* The winner does not end behind.                                         *)
LEMMA WinnerLeads ==
  ASSUME Reported, Over
  PROVE  Margin >= 0 /\ (winner = "villager" => WolfDeaths = Wolves)
<1> DEFINE W == alive \cap Wolves
           V == alive \ Wolves
           w == Cardinality(W)
           v == Cardinality(V)
<1>1. winner # "none" /\ winner = WinCheck(alive)
  BY DEF Reported, GameInv, EndInv, Over
<1>2. \/ winner = "villager" /\ W = {}
      \/ winner = "werewolf" /\ w >= v
  BY <1>1 DEF WinCheck
<1>3. IsFiniteSet(W) /\ IsFiniteSet(V)
  <2>0. alive \subseteq Players /\ IsFiniteSet(Players)
    BY FS_Interval, BoardAssumption DEF Players, Reported, GameInv, TypeInv, TypeOK
  <2>1. W \subseteq Players /\ V \subseteq Players
    BY <2>0
  <2> HIDE DEF W, V
  <2>2. QED
    BY <2>0, <2>1, FS_Subset
<1>4. Margin = IF winner = "villager" THEN v - w ELSE w - v
  BY AliveAfterIs DEF Margin
<1>5. WolfDeaths = Wolves \ AliveAfterGame
  BY DEF WolfDeaths, AliveAfterGame, Wolves
<1>6. winner = "villager" => WolfDeaths = Wolves
  BY <1>2, <1>5, AliveAfterIs
<1> HIDE DEF W, V
<1>7. w \in Nat /\ v \in Nat /\ (W = {} => w = 0)
  BY <1>3, FS_CardinalityType, FS_EmptySet
<1> HIDE DEF w, v
<1>8. Margin >= 0
  BY <1>2, <1>4, <1>7
<1>9. QED
  BY <1>6, <1>8

(* A seat's votes of a round, counted.                                     *)
LEMMA VotesAreCounted ==
  ASSUME Reported, NEW r, NEW t
  PROVE  /\ IsFiniteSet(VotesFor(r, t)) /\ VotesFor(r, t) \subseteq DOMAIN log
         /\ Cardinality(VotesFor(r, t)) \in Nat /\ Cardinality(VotesFor(r, t)) <= Len(log)
         /\ \A i \in VotesFor(r, t) : /\ i \in At({"player_vote"}) /\ log[i].round = r
                                       /\ log[i].target = t /\ log[i].actor \in Players
<1>1. DOMAIN log = 1..Len(log) /\ Len(log) \in Nat
  BY LogIs
<1>2. \A i \in VotesFor(r, t) : /\ i \in At({"player_vote"}) /\ log[i].round = r
                                /\ log[i].target = t /\ i \in DOMAIN log
  BY DEF VotesFor, Hits, In, At
<1>3. \A i \in At({"player_vote"}) : log[i].actor \in Players
  BY AtIs DEF Reported, Scored
<1>4. IsFiniteSet(1..Len(log)) /\ Cardinality(1..Len(log)) = Len(log)
  <2> DEFINE n == Len(log)
  <2>1. n \in Nat /\ n >= 1
    BY LogIs
  <2> HIDE DEF n
  <2>2. IsFiniteSet(1..n) /\ Cardinality(1..n) = n - 1 + 1
    BY <2>1, FS_Interval
  <2>3. QED
    BY <2>1, <2>2 DEF n
<1>5. VotesFor(r, t) \subseteq 1..Len(log)
  BY <1>1, <1>2
<1>6. IsFiniteSet(VotesFor(r, t)) /\ Cardinality(VotesFor(r, t)) <= Len(log)
  BY <1>4, <1>5, FS_Subset
<1>7. QED
  BY <1>1, <1>2, <1>3, <1>5, <1>6, FS_CardinalityType

(* Who was eliminated in a round, and at which place.                      *)
LEMMA EliminatedIs ==
  ASSUME Reported, NEW r, In(r, "player_eliminated") # {}
  PROVE  \E k \in At({"player_eliminated"}) :
           /\ log[k].round = r /\ log[k].phase = "day"
           /\ log[k].target = Eliminated(r) /\ Eliminated(r) \in Players
<1> DEFINE k == Min(In(r, "player_eliminated"))
<1>1. In(r, "player_eliminated") \in SUBSET Nat
  BY PlacesAreFinite DEF In, Reported
<1>2. k \in In(r, "player_eliminated")
  BY <1>1, MinIsLeast
<1>3. k \in At({"player_eliminated"}) /\ log[k].round = r /\ log[k].target = Eliminated(r)
  BY <1>2 DEF In, Eliminated
<1> HIDE DEF k
<1>4. Proper(log[k]) /\ log[k].type = "player_eliminated"
  BY <1>3, AtIs DEF Reported
<1>5. log[k].phase = "day" /\ log[k].target \in Players
  BY <1>4 DEF Proper, CommitTypes
<1>6. QED
  BY <1>3, <1>5

(* A critical round had somebody eliminated with one vote more than the    *)
(* runner-up, who has as many as the others at most.                       *)
LEMMA CriticalIs ==
  ASSUME Reported, NEW r \in CriticalRounds
  PROVE  \E u \in Players \ {Eliminated(r)}, c \in Nat :
           /\ Cardinality(VotesFor(r, u)) = c
           /\ Cardinality(VotesFor(r, Eliminated(r))) = c + 1
           /\ \A t \in Players \ {Eliminated(r)} : Cardinality(VotesFor(r, t)) <= c
<1> DEFINE rest == Players \ {Eliminated(r)}
           Votes(t) == Cardinality(VotesFor(r, t))
           counts == {Votes(t) : t \in rest}
<1>1. In(r, "player_eliminated") # {} /\ Lead(r) = 1
  BY DEF CriticalRounds
<1>2. rest # {}
  <2>1. Others /\ Eliminated(r) \in Players
    BY <1>1, EliminatedIs DEF Reported, ReportInv, OthersLeft, At
  <2>2. QED
    BY <2>1 DEF Others
<1>3. \A t : Votes(t) \in Nat /\ Votes(t) <= Len(log)
  BY VotesAreCounted
<1>4. RunnerUp(r) = Max(counts)
  BY DEF RunnerUp
<1>5. Votes(Eliminated(r)) - RunnerUp(r) = 1
  BY <1>1 DEF Lead
<1> HIDE DEF Votes
<1>6. counts \in SUBSET Nat /\ counts # {} /\ \A c \in counts : c <= Len(log)
  BY <1>2, <1>3
<1>7. Max(counts) \in counts /\ \A c \in counts : c <= Max(counts)
  <2> HIDE DEF counts
  <2>1. Len(log) \in Nat
    BY LogIs
  <2>2. QED
    BY <1>6, <2>1, MaxIsGreatest
<1>8. PICK u \in rest : Votes(u) = Max(counts)
  BY <1>7
<1>9. /\ Votes(u) \in Nat /\ Votes(Eliminated(r)) = Votes(u) + 1
      /\ \A t \in rest : Votes(t) <= Votes(u)
  BY <1>3, <1>4, <1>5, <1>7, <1>8
<1>10. QED
  BY <1>8, <1>9 DEF Votes

(* One of its votes, given to another player than its voter, would have    *)
(* put that player ahead.                                                  *)
LEMMA CriticalVote ==
  ASSUME Reported, NEW r \in CriticalRounds
  PROVE  \E i \in VotesFor(r, Eliminated(r)), t \in Players :
           /\ t # log[i].actor /\ t # Eliminated(r)
           /\ \A s \in Players \ {t} :
                Cardinality(VotesFor(r, t)) + 1 > Cardinality(VotesFor(r, s) \ {i})
<1> DEFINE e == Eliminated(r)
           E == VotesFor(r, e)
           Votes(t) == Cardinality(VotesFor(r, t))
<1>1. PICK u \in Players \ {e}, c \in Nat :
        Votes(u) = c /\ Votes(e) = c + 1 /\ \A t \in Players \ {e} : Votes(t) <= c
  BY CriticalIs
<1>2. e \in Players /\ Others
  BY EliminatedIs DEF CriticalRounds, Reported, ReportInv, OthersLeft, At
<1>3. /\ IsFiniteSet(E)
      /\ \A i \in E : /\ i \in DOMAIN log /\ log[i].type = "player_vote" /\ log[i].round = r
                      /\ log[i].actor \in Players
  BY VotesAreCounted DEF At
<1>4. \A i, j \in E : log[i].actor = log[j].actor => i = j
  BY <1>3 DEF Reported, LogInv, Once, Alike, TurnTypes
<1>5. \E i \in E, t \in Players \ {e} : t # log[i].actor /\ Votes(t) = c
  <2>1. E # {}
    <3>1. Votes(e) # 0
      BY <1>1
    <3>2. QED
      BY <3>1, FS_EmptySet
  <2>2. PICK i \in E : TRUE
    BY <2>1
  <2>3. CASE c = 0
    <3>1. PICK t \in Players : t \notin {e, log[i].actor}
      BY <1>2, <1>3 DEF Others
    <3>2. Votes(t) \in Nat /\ Votes(t) <= 0
      BY <1>1, <2>3, <3>1, VotesAreCounted
    <3>3. Votes(t) = c
      BY <2>3, <3>2
    <3>4. QED
      BY <3>1, <3>3
  <2>4. CASE c # 0
    <3>1. E # {i}
      <4>1. Cardinality({i}) = 1 /\ Votes(e) # 1
        BY <1>1, <2>4, OneIsOne
      <4>2. QED
        BY <4>1
    <3>2. PICK j \in E : j # i
      BY <2>2, <3>1
    <3>3. log[i].actor # log[j].actor
      BY <1>4, <3>2
    <3>4. u # log[i].actor \/ u # log[j].actor
      BY <3>3
    <3>5. QED
      BY <1>1, <3>4
  <2>5. QED
    BY <2>3, <2>4
<1>6. PICK i \in E, t \in Players \ {e} : t # log[i].actor /\ Votes(t) = c
  BY <1>5
<1>7. ASSUME NEW s \in Players \ {t}
      PROVE  Votes(t) + 1 > Cardinality(VotesFor(r, s) \ {i})
  <2>1. CASE s = e
    <3>1. Cardinality(E \ {i}) = Cardinality(E) - 1
      BY <1>3, <1>6, OneLess
    <3>2. Cardinality(E \ {i}) = c
      BY <1>1, <3>1
    <3>3. QED
      BY <1>6, <2>1, <3>2
  <2>2. CASE s # e
    <3> DEFINE S == VotesFor(r, s)
               T == S \ {i}
    <3>1. IsFiniteSet(S) /\ Cardinality(S) \in Nat /\ Cardinality(S) <= c
      BY <1>1, <2>2, VotesAreCounted
    <3>2. T \subseteq S
      OBVIOUS
    <3> HIDE DEF S, T
    <3>3. IsFiniteSet(T) /\ Cardinality(T) <= Cardinality(S) /\ Cardinality(T) \in Nat
      BY <3>1, <3>2, FS_Subset, FS_CardinalityType
    <3>4. c + 1 > Cardinality(T)
      BY <3>1, <3>3
    <3>5. QED
      BY <1>6, <3>4 DEF S, T
  <2>3. QED
    BY <2>1, <2>2
<1>8. QED
  BY <1>6, <1>7

(* Its cursor is at the node of its elimination.                           *)
LEMMA CursorShowsIt ==
  ASSUME Reported, NEW r \in CriticalRounds
  PROVE  \E j \in DeathsOf(CursorFor(r)) : log[j].target = Eliminated(r)
<1>1. PICK k \in At({"player_eliminated"}) :
        log[k].round = r /\ log[k].phase = "day" /\ log[k].target = Eliminated(r)
  BY EliminatedIs DEF CriticalRounds
<1>2. k \in DOMAIN log /\ k \in At(CommitTypes)
  BY DEF At, CommitTypes
<1>3. PICK n \in Nodes : k \in OfNode(n)
  BY <1>2, SomeNode
<1>4. log[n].round = r /\ log[n].phase = "day"
  BY <1>1, <1>3, NodeIsAMoment
<1> DEFINE v == Min(In(r, "player_vote"))
<1>5. v \in In(r, "player_vote")
  <2>1. PICK i \in VotesFor(r, Eliminated(r)) : TRUE
    BY CriticalVote
  <2>2. In(r, "player_vote") # {}
    BY <2>1 DEF VotesFor, Hits
  <2>3. In(r, "player_vote") \in SUBSET Nat
    BY PlacesAreFinite DEF In, Reported
  <2>4. QED
    BY <2>2, <2>3, MinIsLeast
<1>6. log[v].phase = "day"
  <2>1. v \in At({"player_vote"})
    BY <1>5 DEF In
  <2> HIDE DEF v
  <2>2. Proper(log[v]) /\ log[v].type = "player_vote"
    BY <2>1, AtIs DEF Reported
  <2>3. QED
    BY <2>2 DEF Proper
<1> DEFINE nodes == {i \in Nodes : log[i].round = r /\ log[i].phase = log[v].phase}
<1>7. nodes = {n}
  BY <1>3, <1>4, <1>6, NodeIsOne
<1>8. CursorFor(r) = Min(nodes)
  BY DEF CursorFor
<1>9. n \in Int
  BY LogIs
<1>10. Min({n}) = n
  BY <1>9 DEF Min
<1>11. CursorFor(r) = n
  BY <1>7, <1>8, <1>10
<1>12. QED
  BY <1>1, <1>2, <1>3, <1>11 DEF DeathsOf

(* One critical round is of most impact, and the last of its equals.       *)
LEMMA TopRoundIs ==
  ASSUME CriticalRounds # {}
  PROVE  Impact(TopRound) = Max({Impact(r) : r \in CriticalRounds})
<1> DEFINE C == CriticalRounds
           D == {r \in C : Impact(r) = 2}
           Tops(r) == \A s \in C : Impact(s) < Impact(r) \/ (Impact(s) = Impact(r) /\ s <= r)
<1>1. \A r : Impact(r) \in {1, 2}
  BY DEF Impact
<1>2. C \in SUBSET Nat /\ MaxDayRounds \in Nat /\ \A r \in C : r <= MaxDayRounds
  BY BoardAssumption DEF CriticalRounds
<1>3. C # {}
  OBVIOUS
<1>4. TopRound = CHOOSE r \in C : Tops(r)
  BY DEF TopRound
<1> HIDE DEF C
<1>5. \E r \in C : Tops(r)
  <2>1. CASE D # {}
    <3>1. D \in SUBSET Nat /\ \A r \in D : r <= MaxDayRounds
      BY <1>2
    <3>2. PICK r \in D : \A s \in D : s <= r
      <4> HIDE DEF D
      <4> QED
        BY <1>2, <2>1, <3>1, MaxIsGreatest
    <3>3. \A s \in C : Impact(s) < Impact(r) \/ (Impact(s) = Impact(r) /\ s <= r)
      BY <1>1, <3>2
    <3>4. QED
      BY <3>2, <3>3
  <2>2. CASE D = {}
    <3>1. PICK r \in C : \A s \in C : s <= r
      BY <1>2, <1>3, MaxIsGreatest
    <3>2. \A s \in C : Impact(s) = 1
      BY <1>1, <2>2
    <3>3. QED
      BY <3>1, <3>2
  <2>3. QED
    BY <2>1, <2>2
<1>6. TopRound \in C /\ Tops(TopRound)
  BY <1>4, <1>5
<1> DEFINE impacts == {Impact(r) : r \in C}
<1>7. impacts \in SUBSET Nat /\ \A m \in impacts : m <= 2
  BY <1>1
<1>8. Impact(TopRound) \in impacts
  BY <1>6
<1>9. \A m \in impacts : m <= Impact(TopRound)
  BY <1>1, <1>6
<1> HIDE DEF impacts
<1>10. Max(impacts) \in impacts /\ \A m \in impacts : m <= Max(impacts)
  BY <1>7, <1>8, MaxIsGreatest
<1>11. Impact(TopRound) = Max(impacts)
  <2>1. Impact(TopRound) <= Max(impacts) /\ Max(impacts) <= Impact(TopRound)
    BY <1>8, <1>9, <1>10
  <2>2. Impact(TopRound) \in Nat /\ Max(impacts) \in Nat
    BY <1>7, <1>8, <1>10
  <2>3. QED
    BY <2>1, <2>2
<1>12. QED
  BY <1>11 DEF impacts, C

(* The battle report agrees with the game, whatever the game.              *)
THEOREM ReportAgreesHolds == AuditSpec => []ReportAgrees
<1>1. ASSUME GameInv, LogInv, ReportInv PROVE ReportAgrees
  <2> SUFFICES ASSUME Over PROVE ReportAgrees
    BY DEF ReportAgrees
  <2>1. Reported
    BY <1>1 DEF Reported, GameInv, EndInv, ReportInv, InOrder, Over
  <2>2. alive = {p \in Players : Curtain[p].alive}
    BY <1>1 DEF Curtain, GameInv, TypeInv, TypeOK
  <2>3. AliveAt(Max(Nodes)) = {p \in Players : Curtain[p].alive}
    BY <2>1, <2>2, TimelineEnds
  <2>4. \A i, j \in Nodes :
          log[i].round = log[j].round /\ log[i].phase = log[j].phase => i = j
    BY <2>1, NodeIsOne
  <2>5. \A i \in Nodes : DeathsOf(i) # {} => log[Spotlight(i)].target \notin AliveAt(i)
    BY <2>1, SpotlitIsDead
  <2>6. \A r \in CriticalRounds :
          /\ \E j \in DeathsOf(CursorFor(r)) : log[j].target = Eliminated(r)
          /\ \E i \in VotesFor(r, Eliminated(r)), t \in Players :
               /\ t # log[i].actor /\ t # Eliminated(r)
               /\ \A s \in Players \ {t} :
                    Cardinality(VotesFor(r, t)) + 1 > Cardinality(VotesFor(r, s) \ {i})
    BY <2>1, CursorShowsIt, CriticalVote
  <2>7. QED
    BY <2>1, <2>3, <2>4, <2>5, <2>6, AliveAfterIs, WinnerLeads, TopRoundIs DEF ReportAgrees
<1>2. QED
  BY <1>1, ReportHolds, PTL

---------------------------------------------------------------------------
(* The game that writes its log is the game: each of its behaviours is one *)
(* of the game loop, the log only recording what the loop does.            *)
THEOREM LoggedGameIsTheGame == AuditSpec => Init /\ [][Next]_vars
<1>1. AuditInit => Init
  BY DEF AuditInit
<1>2. GameInv /\ [AuditNext]_auditVars => [Next]_vars
  BY AuditIsGame
<1>3. QED
  BY <1>1, <1>2, LogHolds, PTL DEF AuditSpec

=============================================================================
