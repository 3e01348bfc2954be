--------------------------- MODULE ConsensusGame ---------------------------
(***************************************************************************)
(* The scripted engine (game_engine.py) in its modes, with the agents it   *)
(* asks (mock agents, fake and live providers behind provider_agent.py and *)
(* llm_providers.py), the runners that write its logs and the launcher     *)
(* that turns a failed run into an exit code.                              *)
(*                                                                         *)
(* The script is fixed: who is asked and who dies do not depend on the     *)
(* answers.  What they decide is the wolves' kill, the record of how the   *)
(* team agreed, whether the logs are accepted and whether the run fails.   *)
(* The targets of the seer, the witch and the voters go into the log and   *)
(* nowhere else: left out.                                                 *)
(***************************************************************************)
EXTENDS ConsensusLog, Sequences, FiniteSets
LOCAL INSTANCE SequencesExt

CONSTANT Limits     \* the values max_requests of the provider may have

VARIABLES
  game,       \* the mode of the engine and the agents it was given
  at,         \* the step of the script
  status,     \* playing, raised, written or returned
  alive,
  log,        \* events
  said,       \* the proposals of the night's wolves, in order: valid_targets
  lost,       \* failed_participants
  entries,    \* consensus_entries
  decisions,  \* [team, typed, consensus, target], see ConsensusLog
  failures,   \* failure_records of the engine: [round, actor, kind]
  limit,      \* ChatProviderConfig.max_requests
  responses,  \* the length of the provider's _response_history
  audit,      \* the failures of failure-audit.json: [kind, words]
  code        \* the exit code of the launcher

night == <<said, lost>>
files == <<audit, code>>
vars  == <<game, at, status, alive, log, night, entries, decisions, failures, limit,
           responses, files>>

Players == {"p1", "p2", "p3", "p4", "p5", "p6"}

(* One runner each: the mock game in all its modes, the fake and the live  *)
(* game of single agents, the fake and the live game of consensus.         *)
Mocked == {"g1c_consensus", "g1c_split_wolf_vote", "g1c_invalid_wolf_action",
           "g1c_timeout_parse_failure"}
Games ==
  [mode : {"g1b_default"}, agents : {"mock", "fake", "live"}]
  \cup [mode : Mocked, agents : {"mock"}]
  \cup [mode : {"g1f_provider_consensus"}, agents : {"fake", "live"}]

Consensual == game.mode # "g1b_default"       \* each wolf is asked, not the team
Live == game.agents = "live"

---------------------------------------------------------------------------
(* The script.                                                             *)

Step(round, type, who) == [round |-> round, type |-> type, who |-> who]

(* Who is asked, and what is said to have come of it.                      *)
FullScript ==
  <<Step(1, "proposal", "p1"), Step(1, "proposal", "p2"), Step(1, "werewolf_kill", "p1"),
    Step(1, "seer_check", "p3"), Step(1, "witch_save", "p4"),
    Step(1, "player_vote", "p3"), Step(1, "player_vote", "p4"),
    Step(1, "player_vote", "p5"), Step(1, "player_vote", "p6"),
    Step(1, "player_eliminated", "p1"),
    Step(2, "proposal", "p2"), Step(2, "werewolf_kill", "p2"), Step(2, "player_died", "p3"),
    Step(2, "player_vote", "p4"), Step(2, "player_vote", "p5"), Step(2, "player_vote", "p6"),
    Step(2, "player_eliminated", "p2"), Step(2, "game_over", "p1")>>

Script ==
  IF Consensual THEN FullScript
  ELSE SelectSeq(FullScript, LAMBDA step : step.type # "proposal")

Now       == Script[at]
Playing(types) == status = "playing" /\ at <= Len(Script) /\ Now.type \in types
NightOf(round) == IF round = 1 THEN <<"p1", "p2">> ELSE <<"p2">>

Visibility ==
  [role_assignment |-> "public", werewolf_kill |-> "werewolf_team", seer_check |-> "seer",
   witch_save |-> "witch", player_vote |-> "public", player_eliminated |-> "all",
   player_died |-> "all", game_over |-> "all"]

Event(step, target) ==
  [round |-> step.round, type |-> step.type, target |-> target]

PublicRefs == {i \in DOMAIN log : Visibility[log[i].type] \in {"public", "all"}}

---------------------------------------------------------------------------
Init ==
  /\ game \in Games /\ at = 1 /\ status = "playing" /\ alive = Players
  /\ log = <<Event(Step(0, "role_assignment", "p1"), "none")>>
  /\ said = <<>> /\ lost = {} /\ entries = {} /\ decisions = {} /\ failures = {}
  /\ limit \in Limits /\ responses = 0 /\ audit = {} /\ code = 0

(* ProviderAgent.decide: a seat that is alive, or the kind of its failure. *)
(* The provider counts answers, not requests, and refuses beyond its limit.*)
LiveReplies ==
  IF responses >= limit THEN {"budget_exhausted"}
  ELSE alive \cup {"transport_error", "parse_failure", "invalid_action"}

(* What the mock agents are told to do, and the wolves in each mode.       *)
WolfReply ==
  IF Now.round = 2 THEN "p3"
  ELSE CASE game.mode = "g1c_timeout_parse_failure" ->
              IF Now.who = "p1" THEN "timeout" ELSE "parse_failure"
         [] game.mode = "g1c_invalid_wolf_action" /\ Now.who = "p1" -> "invalid_action"
         [] game.mode = "g1c_split_wolf_vote" /\ Now.who = "p2" -> "p6"
         [] OTHER -> "p5"
MockReply ==
  CASE Now.type \in {"proposal", "werewolf_kill"} -> WolfReply
    [] Now.type = "witch_save" -> "p5"
    [] OTHER -> IF Now.round = 1 THEN "p1" ELSE "p2"

(* The fake provider of single agents answers as the mock agents do, with a *)
(* seer that may be told to fail; that of the consensus game names the     *)
(* first seat alive, which no wolf may.                                    *)
ScriptedReplies ==
  {MockReply} \cup
    IF Now.type = "seer_check" THEN {"parse_failure", "timeout", "invalid_action"} ELSE {}
FirstAlive  == IF "p1" \in alive THEN "p1" ELSE "p2"
FakeReplies == IF Consensual THEN {FirstAlive} ELSE ScriptedReplies

Replies ==
  CASE Live -> LiveReplies
    [] game.agents = "fake" -> FakeReplies
    [] game.agents = "mock" -> {MockReply}

Answered(reply) ==
  responses' = IF Live /\ reply \notin {"budget_exhausted", "transport_error"}
               THEN responses + 1 ELSE responses

(* A wolf's answer counts when it names someone alive outside the team; a  *)
(* failure of any kind leaves the wolf out.                                *)
Proposal(reply) ==
  /\ Playing({"proposal"}) /\ reply \in Replies /\ Answered(reply)
  /\ IF reply \in alive \ ToSet(NightOf(Now.round))
     THEN said' = Append(said, <<Now.who, reply>>) /\ UNCHANGED <<lost, failures>>
     ELSE /\ lost' = lost \cup {Now.who} /\ UNCHANGED said
          /\ failures' = failures \cup
               {[round |-> Now.round, actor |-> Now.who,
                 kind |-> IF reply \in Players THEN "invalid_action"
                          ELSE IF game.agents = "mock" THEN reply ELSE "agent_error"]}
  /\ at' = at + 1
  /\ UNCHANGED <<game, status, alive, log, entries, decisions, limit, files>>

(* _resolve_wolf_consensus: the first proposal's target; a wolf that wanted*)
(* another, or failed, dissents, and then it was no consensus.             *)
Chosen        == said[1][2]
Supporters    == {said[i][1] : i \in {j \in DOMAIN said : said[j][2] = Chosen}}
Disagreeing   == {said[i][1] : i \in {j \in DOMAIN said : said[j][2] # Chosen}}
AgreementBug  == IF Disagreeing = {} THEN "consensus" ELSE "coordinator_tie_break"
Agreement     == IF Disagreeing \cup lost = {} THEN "consensus" ELSE "coordinator_tie_break"

Entry ==
  [round |-> Now.round, participants |-> ToSet(NightOf(Now.round)),
   status |-> Agreement, primary |-> said[1][1], target |-> Chosen,
   responders |-> {said[i][1] : i \in DOMAIN said} \ {said[1][1]},
   supporters |-> Supporters, dissenters |-> Disagreeing \cup lost, refs |-> PublicRefs]

(* Without a usable proposal the team kills nobody and no entry is made.   *)
Consensus ==
  /\ Playing({"werewolf_kill"}) /\ Consensual
  /\ IF said = <<>> THEN UNCHANGED <<entries, decisions, log, failures>>
     ELSE /\ entries' = entries \cup {Entry}
          /\ decisions' = decisions \cup
               {[team |-> TRUE, typed |-> TRUE, consensus |-> Now.round, target |-> Chosen]}
          /\ log' = Append(log, Event(Now, Chosen))
          /\ failures' = failures \cup
               IF Disagreeing = {} THEN {}
               ELSE {[round |-> Now.round, actor |-> "wolf_team",
                      kind |-> "wolf_consensus_failure"]}
  /\ said' = <<>> /\ lost' = {} /\ at' = at + 1
  /\ UNCHANGED <<game, status, alive, limit, responses, files>>

(* A failure's reason may have the words of a spent budget in it: those of *)
(* the refusal itself, and those of a live reply it quotes.                *)
Words(reply) ==
  IF Live /\ reply \in {"parse_failure", "invalid_action"} THEN BOOLEAN
  ELSE {reply = "budget_exhausted"}

(* An answer that fails is raised, and the runner writes it to the audit.  *)
Raised(reply) ==
  /\ status' = "raised"
  /\ \E words \in Words(reply) : audit' = {[kind |-> reply, words |-> words]}
  /\ UNCHANGED <<log, at, decisions>>

(* The decision of one agent is recorded with the type and the reason of   *)
(* its reply, and nobody has looked at those of a live one: the type may   *)
(* be the team's, or none of the five, the reason too long.                *)
Recorded(team, typed, target) ==
  /\ typed \in (IF Live THEN BOOLEAN ELSE {TRUE})
  /\ decisions' = decisions \cup
       {[team |-> team, typed |-> typed, consensus |-> 0, target |-> target]}

(* The seer, the witch, a voter.                                           *)
Single(reply) ==
  /\ Playing({"seer_check", "witch_save", "player_vote"})
  /\ reply \in Replies /\ Answered(reply)
  /\ IF reply \in alive
     THEN /\ log' = Append(log, Event(Now, "none")) /\ at' = at + 1
          /\ \E team \in (IF Live THEN BOOLEAN ELSE {FALSE}), typed \in BOOLEAN :
               Recorded(team, typed, "none")
          /\ UNCHANGED <<status, audit>>
     ELSE Raised(reply)
  /\ UNCHANGED <<game, alive, night, entries, failures, limit, code>>

(* The team as one agent: its kill is a team decision without a consensus. *)
TeamKill(reply) ==
  /\ Playing({"werewolf_kill"}) /\ ~Consensual
  /\ reply \in Replies /\ Answered(reply)
  /\ IF reply \in alive
     THEN /\ log' = Append(log, Event(Now, reply)) /\ at' = at + 1
          /\ \E typed \in BOOLEAN : Recorded(TRUE, typed, reply)
          /\ UNCHANGED <<status, audit>>
     ELSE Raised(reply)
  /\ UNCHANGED <<game, alive, night, entries, failures, limit, code>>

(* The steps nobody is asked for.                                          *)
Scripted ==
  /\ Playing({"player_eliminated", "player_died", "game_over"})
  /\ log' = Append(log, Event(Now, Now.who))
  /\ alive' = IF Now.type = "game_over" THEN alive ELSE alive \ {Now.who}
  /\ at' = at + 1
  /\ UNCHANGED <<game, status, night, entries, decisions, failures, limit, responses, files>>

(* The runner writes the logs of a finished game: the mock game's with the *)
(* failures of its wolves, a provider's with an empty audit.               *)
WriteLogs ==
  /\ status = "playing" /\ at > Len(Script)
  /\ status' = "written"
  /\ audit' = IF game.mode \in Mocked THEN {[kind |-> f.kind, words |-> FALSE] : f \in failures} ELSE {}
  /\ UNCHANGED <<game, at, alive, log, night, entries, decisions, failures, limit, responses,
                 code>>

(* A runner returns 2 for a game that raised; the launcher of the live     *)
(* consensus game reads the audit back, for the budget's kind or words.    *)
BudgetBug(failed) == failed.kind = "timeout"        \* the kind it once had
Budget(failed)    == failed.kind = "budget_exhausted" \/ failed.words

Classify ==
  /\ status \in {"raised", "written"}
  /\ code' = IF status = "written" THEN 0
             ELSE IF Consensual /\ (\E failed \in audit : Budget(failed)) THEN 3 ELSE 2
  /\ status' = "returned"
  /\ UNCHANGED <<game, at, alive, log, night, entries, decisions, failures, limit, responses,
                 audit>>

Next ==
  \/ \E reply \in Players \cup {"budget_exhausted", "transport_error", "parse_failure",
                                "invalid_action", "timeout"} :
       Proposal(reply) \/ Single(reply) \/ TeamKill(reply)
  \/ Consensus \/ Scripted \/ WriteLogs \/ Classify

Spec == Init /\ [][Next]_vars /\ WF_vars(Next)

---------------------------------------------------------------------------
Kills ==
  {[place |-> i, round |-> log[i].round, target |-> log[i].target] :
     i \in {j \in DOMAIN log : log[j].type = "werewolf_kill"}}

VisibleToWolves ==
  {i \in DOMAIN log : Visibility[log[i].type] \in {"public", "all", "werewolf_team"}}

(* Decisions of single agents a live reply gave a type or a reason that    *)
(* the validators refuse.                                                  *)
Unfit == {d \in decisions : Live /\ d.consensus = 0 /\ (d.team \/ ~d.typed)}

(* The logs a finished run writes are accepted by the repository's own     *)
(* validators, whatever the wolves answered and whoever failed to: every   *)
(* kill has its consensus, everyone in it is counted once, and the team's  *)
(* decision is the consensus it names.  All that can be refused is what a  *)
(* live seer, witch or voter wrote of its own decision.  A team asked as   *)
(* one writes no consensus log.                                            *)
LogsAccepted ==
  status = "written" /\ Consensual =>
    ValidLog(entries, Kills, VisibleToWolves) /\ ValidDecisions(decisions \ Unfit, entries)

(* Reaching the request budget fails closed: once the provider refuses a   *)
(* request, the run ends without a game log, the launched one with exit    *)
(* code 3, although a wolf's refused request is passed over.               *)
Asking == {"proposal", "seer_check", "witch_save", "player_vote"}
            \cup IF Consensual THEN {} ELSE {"werewolf_kill"}

Refused == Live /\ responses >= limit /\ Playing(Asking)

BudgetFailsClosed ==
  Refused ~> (status = "returned" /\ code = IF Consensual THEN 3 ELSE 2)
=============================================================================
