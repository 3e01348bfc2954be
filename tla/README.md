# TLA+ verification of Werewolf-agent

Specifications of the parts of Werewolf-agent that decide how a game goes, what
it leaves in its logs, and how a run, its human participant, its observers and
its desktop host see it, with their TLC configurations and TLAPS proofs. Source
paths below are relative to `src/werewolf_eval/`.

    tlc -config Game.cfg MCWerewolfGame        # every row of "Runs" below
    tlapm GameAuditProofs.tla                  # every *Proofs module

## 1. Inventory of the system

**Game loop** (`emergent_engine.py`, `action_runtime/`). One thread per run.
*State*: living players, committed deaths, the guard's last target, the two
potions, the request budget, the round, the partial logs on disk.
*Operations*: a turn per seat and phase (guard, wolf, seer, witch, speech,
scribe, vote), the joint settlement of the night (`JointSettler`), the death
loop with the hunters' on-death shots, win checks at dawn and dusk, the round
cap and the fail-closed end. *Interactions*: asks provider agents and the human
seat, emits events through `RuntimeEventWriter`. *Hard*: shots that overtake
settled deaths or set off other shots; the rulings on double protection and
poisoned hunters; state carried across rounds; a budget that runs out inside any
turn. *Correct when*: nobody dies twice; who dies is what the rulings say;
potions, shots and guard keep their limits; a decided game stops; a failed game
leaves no log; every game ends.

**Logs and their readers** (`game_log.py`, `decision_log.py`, `invariants/`,
`role_visibility.py`, `scoring_*.py`, `attribution.py`, `settlement_bundle.py`).
*State*: the events, decisions, consensus entries and god snapshots of a game;
everything else is computed from them, in several modules independently.
*Hard*: a reader reconstructs from the log what the engine decided from its
state; the same question (who sees an event, who is alive, was a vote accurate)
is answered by rules written two to four times. *Correct when*: the checker and
the validators accept every log the engine writes, and the readers agree with
the game and with each other.

**Observer projections** (`observer_trust_index.py`, `observer_projection.py`,
`observer_enrichment.py`, the filters of `observer_protocol.py`). Read the files
of a run while the game writes them. *Correct when*: no perspective sees more
than it may by any route, deaths show as they happen, a reason is shown beside
its own decision and to its own seat.

**Participant actions** (`participant_controller.py`, `participant_protocol.py`,
`observer/participant_api.py`). *State*: action windows, accepted submissions,
idempotency records, sessions with a reconnect cursor. *Operations*: configure
the seat, open a window, wait for an action or its timeout (run thread); join,
submit, read the state (HTTP threads). *Interactions*: one condition variable
and one server lock, taken and released several times within a request.
*Hard*: retries after a lost response, a late answer against the deadline, two
submissions for one window, a join before the seat is configured. *Correct
when*: a window is decided once, the client and the game agree on the decision,
a retry is answered like the first, the run thread never hangs.

**Launch of a run** (`observer/launch.py`, `POST /api/runs` in
`observer/handler.py`, the live gates of `observer/run_manager.py`,
`profile_config.py`, `credential_store.py`, `observer/credentials_api.py`,
`seat_agents.py`). *State*: the run directories, the credentials. *Operations*:
the gates of a request, in order; the directory, its manifest and its record;
post and delete a credential. *Hard*: every request has its own thread, and
keys looked for by a gate are read again later; two requests for one run id;
a fake run deals a fixed board. *Correct when*: the record says what is played,
no seat plays without a key, a refusal leaves nothing behind.

**Run lifecycle** (`observer/run_manager.py`, routes of `observer/handler.py`,
`observer_protocol.write_run_status`). *State*: a status per run in memory and
again in `status.json`, an error. *Operations*: launch (handler, then thread),
interrupt, delete, read; the server restarts. *Hard*: the status is read first
and acted on later, memory and file are written one after the other, an
interrupted thread is not stopped, a restart loses threads but not files.
*Correct when*: no run is shown as active with nobody at work on it, a recorded
end and its reason survive, every run ends.

**Live runs** (`run_emergent_deepseek_game.py`, `deepseek_launcher.py`,
`provider_agent.py`, `llm_providers.py`). *State*: the engine's budget, each
provider's count of answers, the turns' kinds, the failures, the exit code.
*Hard*: a reply that counted is rejected later; one limit is counted in two
places; the launcher infers the cause of a failure from an audit. *Correct
when*: "completed" means won with enough live replies used, and "budget
exhausted" means that the budget ended the game.

**Earlier engine** (`game_engine.py`, its mock, fake and live agents and their
runners, `consensus_log.py`, `log_bundle.py`). A fixed script in six modes; its
wolves agree on a kill, and its logs are validated together. *Hard*: a failed
wolf, a provider out of requests at any turn. *Correct when*: its logs pass the
validators, and reaching the budget fails closed with the right exit code.

**Event stream** (`observer/sse.py`, `runtime_events.py`). *State*:
`events.jsonl`, the stream's count of sent events and last seen size.
*Operations*: append a line; poll status, size and file; send; drain; close.
*Hard*: a line is read while it is written, the status changes between two
reads, a read gives up behind a remembered size. *Correct when*: visible events
arrive in order and once, none is lost at the end, a stream closes.

**Release host** (`release_host/`). *State*: a mutex, `host-control.json`,
`server-state.json`, the observer server process, the client, the update's
phase. *Operations*: look for an earlier host, find or start a server, open the
client, idle while runs are active, stop the server; check, download and apply
an update. *Hard*: two starts at once, stale files of a killed host, requests
that fail or time out, update requests served concurrently. *Correct when*: no
server is left behind or stopped under an active run, only what was downloaded
is applied, every host ends.

How the parts meet: the release host starts the observer server; its handler
passes a request through the gates (ProfileLaunch) and starts the run thread
(RunLifecycle), which runs a launcher (LiveGame, ConsensusGame), which runs the
engine (WerewolfGame); the engine opens windows that HTTP threads answer
(ParticipantActions) and writes events and logs (GameAudit) that stream threads
tail (EventStream), projections show (Projection) and the battle report reads
(GameReport).

## 2. Modules

| module | models | where that state lives |
|---|---|---|
| `WerewolfGame` | the game loop and its action runtime | the locals of `_run_inner` and the fields of `EmergentGameEngine` |
| `GameAudit` (extends `WerewolfGame`) | what each step of a game writes; validators, invariant checker, visibility rules | `_events`, `_decisions`, the snapshots |
| `GameAuditProofs` | proofs about `WerewolfGame` (types, deaths, rulings, limits, ends), that what `GameAudit` writes passes its checker, and about what `Projection` shows and `GameReport` computes of it | |
| `GameReport` (extends `GameAudit`) | score log, metrics, attribution, settlement bundle | computed from the logs |
| `Projection` (extends `GameAudit`) | what an observer is shown | computed from the run's files |
| `ActionOutcomes` | abstract: a window is decided once, client and game follow | |
| `ParticipantActions`, `ParticipantActionsProofs` | windows, HTTP requests, run thread; implements `ActionOutcomes`, with the proofs that it does and that outcomes agree | `InMemoryParticipantActionController`, `ObserverServerState` sessions |
| `ProfileLaunch`, `ProfileLaunchProofs` | launch requests, run directories, credentials | `CredentialStore`, the runs directory |
| `RunLifecycle`, `RunLifecycleProofs` | status in memory and on disk, requests, run threads, restarts | `RunManager`, `status.json` |
| `LiveGame`, `LiveGameProofs` | turns of live providers, budgets, exit code, reason | `EmergentBudget`, `_response_history`, `provider_turns` |
| `ConsensusLog`, `ConsensusGame`, `ConsensusGameProofs` | the validators of consensus logs; the earlier engine, its agents, runners and launcher; proof that the ones accept what the other writes | `GameEngine`, its log files |
| `EventStream`, `EventStreamProofs` | one stream against the writer; proofs: types, order, nothing lost | `stream_run_events` |
| `ReleaseHost`, `ReleaseHostProofs` | starts of the executable, server, client, updates | `release_host_main`, `UpdateControlServer` |
| `MCWerewolfGame`, `MCGameAudit`, `MCProfileLaunch` | the boards and requests TLC runs them on | |

**WerewolfGame.** `pc` is the place in `_run_inner`; `cursor` is the last seat
that took its turn, so phases go through the living in seat order as
`_alive_in_seat_order` does. `GuardTurn`, `WolfTurn`, `SeerTurn`,
`WitchPass/Save/Poison`, `SpeechTurn`, `ScribeTurn` and `VoteTurn` are one turn
each with its charge against the budget. `WolfConsensus` is the adjudication of
`WolfResolver`, `SettleNight` the call of `JointSettler.resolve_night`,
`SkipDeath` and `CommitDeath` the loop over its deaths with the alive gate and
`assert_death_commit_once` (a second commit leads to status `raised`),
`HunterShoot`/`HunterPass` `_resolve_hunter_shot`, `Win`, `Daybreak`,
`NextRound`, `RoundCap` and `BudgetExhausted` the ends of a night, day and game.
`row` holds the events of the current round and `spent` how often each
consumable was emitted: history that properties read.

*Abstraction*: a provider error, an illegal answer, a human timeout and a
random draw all end in a member of the same set of legal targets as an accepted
answer, so one choice stands for all of them (a wolf may also end with no
proposal). A human turn costs no request, as in the code.

**GameAudit.** Each step is a step of `WerewolfGame` conjoined with what it
emits: `log` has the events with their round, phase, type, actor, target and
visibility, `snapshots` the god snapshots, `proposals` the wolves' answers of
the night. Decisions are the events of deciding types, because every function
that emits one records the like decision just before it. `CheckI1` to `CheckI8c`
are the checks of `invariants/checker.py`; `EngineSees`, `Entitled` and
`VisibleToActor` the visibility rules of the prompts, the observer and the
scorer. `Considers[p]` restricts the seats a player ever names, for TLC only.

**GameReport and Projection** are operators over these logs, one per function
of the readers: the scorer's matching of decisions and its outcomes, the
metrics' own accuracy, survival and gaps, critical votes and the top
attribution, the timeline with its nodes and spotlight, the curtain call; the
seats shown alive, the roles, events and snapshots of each perspective, the
join of reasons by composite key. `Projected`/`Streamed` and `Listed`/`Served`
are pairs of rules that the code writes twice.

**ParticipantActions.** One action is one critical section. A join is
`IssueSession`, `RunHasHumanSeat`, then `IsHumanSeat` or
`EnsureStubActionWindow`; a submission is `Authenticate`, `ReadRunStatus`,
`Duplicate`, `Accept` or `Reject`, then `WriteSessionBack`, which writes the
session copy taken at the start. The run thread is `OpenActionWindow`,
`ReceiveAction`, `TimeOut`, `OthersPlay`, `EndGame`; `Expire` is the clock. The
engine's own `_seq` moves in the step in which its wait returns: nothing but the
same thread reads it before the next window. `ConfiguredByHandler` tells a
template launch (the handler configures the seat before starting the thread)
from a profile launch (the thread does).

**ProfileLaunch.** One process per request; each gate, locked call of the
credential store and file operation is a step, and the answers are the HTTP
statuses. A profile is reduced to the provider of each role, its human seats,
whether it shuffles roles, and which pairs of texts are too long together.
`ReadKey` and `ReadUrl` are two locked calls, as in
`_resolve_live_launcher_for_launch`.

**RunLifecycle.** One process per launch (first its handler, then its thread),
interrupt, deletion and read; `at` is its place and `seen` the status it read.
One action is one critical section or one file operation. What adds metadata to
`status.json` reads the file in one step (`ReadPayload`, into `payload`) and
replaces it in a later one (`WritePayload`); archiving a stale run is its check,
its status, that read and that write. The temporary-file write and rename is one
operation: all writers share the temporary name, so of two at once the text
written last is published and the other rename finds nothing, which is the two
writes one after the other. `Crash` drops the memory and every process in
progress; requests not begun can be made to the restarted server. `crowded`
remembers that a launch took the id with another still at work in it.

**LiveGame.** `Charge` is the budget's charge, `Respond` the provider's answer
or refusal, `Judge` what the engine's own rules make of it, `Abort` the
exception of a target that is a list, `Return` the summary, audit and exit code,
`ExecuteRun` the status and reason. A failure has its kind and whether its text
has the words the launcher looks for (`Words`): those of a refusal do, those
that quote a reply may. Whose turn it is does not matter to these counts: any
seat may be next, and the game may end after any turn. Writing the artifacts of
a won game is taken to succeed.

**ConsensusGame.** The script is data (`FullScript`); `Proposal`, `Consensus`,
`Single`, `TeamKill` and `Scripted` are its steps, `Replies` what each kind of
agent can answer, `WriteLogs` and `Classify` the runner and the launcher. A
decision records whether it counts as the team's and whether its type and reason
are ones the validators take (`Recorded`): of a live reply nobody has looked at
either. `ConsensusLog` holds the validators, for this engine and for `GameAudit`.

**EventStream.** The writer appends a line in pieces (`Emit`: part, all but the
newline, whole). The stream thread's places are those of the loop in
`stream_run_events`. A read may fail up to `Tries` times and then returns nothing
(`ReadFails`), because a line is torn or because the system refuses the file,
torn or complete; so may the look at its size (`StatFails`). `failed` remembers
the refusals that no later success made good. A read of a torn line may also
raise inside a character
(`ReadBreaks`: `read_text` raises `UnicodeDecodeError`, which neither
`_read_events_jsonl_safe` nor the stream catches, although the docstring
promises an empty list for an incomplete file). `Disconnect` may happen at any
frame. The run is not deleted while it is watched.

**ReleaseHost.** A host is a start of the executable, its place that in
`release_host_main` and `_idle_cleanup_loop`; the observer server it starts goes
by its name. Requests to other hosts and servers may fail or time out. Update
requests are processes of their own, because the control endpoint serves each
on a thread and does not hold its lock through a download. `Crash` kills a host
and leaves its files behind; `ClientMissing` is the exception of a client that
cannot be started, at first or when it is opened again, which leaves the server.
The updater is external.

Operators named `...Bug` next to a definition are plausible slips of that code.
No specification uses them; replacing the definition by its slip must violate
the property `PROJECT.json` pairs it with, which shows that the property can
tell.

## 3. Runs

| run | module | distinct states | bounds | checks |
|---|---|---|---|---|
| Game | MCWerewolfGame | 325 594 | 6 seats: wolf, guard, witch, two hunters (one human), seer; scribe; 2 rounds; 24 requests | TypeOK, NoDoubleDeath, RoundOutcome, HunterRuling, ConsumedOnce, NoConsecutiveGuard, NoTurnAfterDecision, FailsClosed, Termination |
| Audit | MCGameAudit | 126 819 | 6 seats: two wolves, guard, witch, human hunter, seer; 2 rounds; seats named as in `Names` | AuditPasses, NoLeak, ReportAgrees, ScoresAgree, AliveFollows, ReasonsJoin |
| Windows | ParticipantActions | 377 798 | 1 seat, 1 join, 2 submissions, 2 keys, 3 events | RetriesAgree, OneDecision, CursorNeverBack, TurnsEnd, AnswersCount |
| Lifecycle | RunLifecycle | 1 332 680 | 2 launches of one run id, 1 interrupt, 1 deletion, 1 restart | NoZombie, ReasonKept, Settles |
| Stream | EventStream | 42 113 | 4 events, one hidden, 3 attempts | TypeOK, InOrder, NothingLost, Tailed, StreamEnds |
| Host | ReleaseHost | 323 933 | 2 hosts, 2 concurrent update requests (3 in all), 1 run, 1 crash, 2 releases | AppliedWasDownloaded, KeptAlive, HostsEnd |
| Launch | MCProfileLaunch | 1 041 948 | 2 requests, 2 run ids, 2 providers, 2 posted credentials | Recorded, NeverUnkeyed, RefusedLeavesNothing |
| Consensus | ConsensusGame | 981 030 | none but twelve limits of the provider | LogsAccepted, BudgetFailsClosed |
| Live | LiveGame | 569 620 | 2 seats, budgets of 0, 1, 3 and 6, 1 human turn | HonestRate, ReasonTrue |
| FullReport, EntryRejected, EarlyJoin | | | | violations, section 6 |

Why the bounds are enough to be interesting:

- *Game.* Two rounds have two nights in a row for the guard and for a potion
  that might be used again. The board has every role whose choices meet in one
  settlement; two hunters are needed for a shot that sets off a shot, and a
  witch for a shot that overtakes a settled poison. Twenty-four requests end
  inside different turns of the second round depending on who is still alive;
  the human seat's turns cost none.
- *Audit.* Two rounds are the fewest in which a decision can be repeated, a
  reason be joined to the wrong round and a snapshot be out of date. `Names`
  keeps the choices that make the readers disagree: a guard beside the victim or
  elsewhere, wolves that propose one target or two, the witch and the hunter
  after the first wolf, votes that tie or lead by one. EntryRejected takes
  `FailingWolf`, whose first wolf may also propose nobody usable.
- *Windows.* `MaxSeq = 3` gives three windows, enough for final words followed by
  the shot and for a key used again for another window. Two submissions with two
  keys cover the retry (same key), the conflict (same key, other payload) and
  the race (two keys). Further submissions only repeat these.
- *Lifecycle.* A status file is contended by two launches of one id (possible
  after a deletion), an interrupt and a deletion, with a restart anywhere. Three
  writers of its metadata and the relaunch behind them are all it takes to lose
  what another wrote.
- *Stream.* Four events with one hidden in the middle make a count of visible
  events differ from a count of all; any read or stat may be refused, any number
  of times.
- *Host.* The second start finds the first host alive, dying or crashed; three
  update requests are a check, a download and an apply, two of them at once;
  the second release can appear between any two.
- *Launch.* Two requests for one id contend for a directory, and two posts give
  and replace a key between a gate and the read behind it; the profiles are one
  per gate (mixed providers, a person, two people, texts too long after a
  shuffle only, a fake provider), named, inline, missing and a template.
- *Consensus.* The script is finite, so only the provider's limit is sampled:
  every place at which it runs out in the first night and around the vote, and
  the default. Every single decision may be fit or not in either way.
- *Live.* Four in five is first missed by one turn among four or fewer, and six
  turns pass it with one failure; a limit shared by both seats is reached by
  either; any refused reply may have the words of a spent budget.

Deadlock is checked for the games of Game and Audit, whose end is an explicit
stuttering step. The other systems really stop: every request made, every run
over, every stream closed.

**Liveness and its fairness.** *Termination* and *BudgetFailsClosed* assume WF of
the one thread that plays the game: providers answer or raise, and a human's
window is bounded by its timeout. *TurnsEnd* and *AnswersCount* assume WF of the
launch and run threads and of the clock (`wait_for_action` waits with a timeout);
clients owe nothing. *Settles* assumes WF of a launch once begun: a launcher
returns because a game is bounded by rounds and budget. Interrupts, deletions and
reads have no fairness. *Tailed* and *StreamEnds* assume WF of the stream's
thread, which polls, and that a line begun is completed; no further event and no
end of the run is assumed, so *Tailed* speaks of streams of runs that go on for
ever, too; that the system answers about the file is no fairness but the
premise of *Tailed*: in the end no refusal is left that was not made good.
*HostsEnd* assumes WF of the hosts (a user closes the client, a waiting host
polls every few seconds) and of runs that end, and SF of the grace period: it is
measured by the clock between polls, so whenever the host keeps returning to its
idle wait the thirty seconds do pass. Launch and Live are safety only.

## 4. What the properties say

*RoundOutcome* compares, once a round's deaths are settled, the set of dead with
a formula of the rulings that does not mention the settler, the death loop or
the order of shots. *HunterRuling* does so for the hunters asked.

*AuditPasses* holds the invariant checker, which knows the log only, against the
engine, which wrote it. *NoLeak* relates the four rules of who sees an event and
the two of who reads a snapshot. *AliveFollows* says that the seats shown alive
never run ahead of the game, never bring anybody back and have caught up at its
end. *ReasonsJoin* says that exactly one decision matches each event's key, its
own. *ReportAgrees* and *ScoresAgree* hold the battle report against the game
and the report's parts, computed twice from one log, against each other; a
critical round really could have gone otherwise by one changed vote.

*OneDecision* is a refinement: `ParticipantActions` implements `ActionOutcomes`,
where a window is decided by one atomic step; the mapping reads a window's
decision off its accepted answer, then its status. *CursorNeverBack* is about the
cursor `GET participant/state` answers, the larger of the session's and the
windows': the session alone does go back, when a slow request writes its old
copy, and the windows hide it. It speaks of clients that keep to their own seat
(`OwnSeat`, section 6): the run has one seat, the theorem any number.

*Recorded* relates the directory a run was given to what its thread plays, for
two requests at once and a profile that shuffles the roles. *NeverUnkeyed* is
about the time between a gate that saw a key and the launcher that uses one.
*RefusedLeavesNothing* is the order of the gates.

*NoZombie* relates the status shown (memory, else file, an active leftover being
shown as interrupted) to the threads still at work. *ReasonKept* says that a
failure keeps its reason, which is added by a read and a later write, through
interrupts, deletions and the archiving of stale runs that come between. It
excludes one case, a launch that took the id with another still at work; there
the reason is lost (section 6). That an interrupt leaves a recorded end alone, and
that an interrupted run stays so, is not what the code does, and no weaker
property is put in its place.

*HonestRate* and *ReasonTrue* compare what a run is reported as with history the
code does not keep: the turns in which the model's reply is what happened, and
whether the engine's own budget ended the game. *ReasonTrue* allows the wrong
reason only where a refused reply had its words (`SpokenOf`), which rules out
what the code was written against: a provider's limit that trips first.
*LogsAccepted* and *BudgetFailsClosed* are about the earlier engine, its
validators and its exit code; *LogsAccepted* leaves out (`Unfit`) exactly the
decisions to which a live seer, witch or voter gave a type or reason of its own,
which the validators may refuse.

*NothingLost* and *Tailed* say when the size gate of the stream's reader is
harmless: torn lines and readings crossed by the writer cost nothing, and a
refused stat or read costs nothing once a later one succeeds. A complete file
whose reads are refused behind its remembered size is the case they exclude;
there events are lost (section 6). *KeptAlive* bounds what a
host does to the server, and *AppliedWasDownloaded* holds while one client makes
one request at a time; with two at once, progress of one hundred percent is
taken for a finished download, and the conjunct `~crossed` is what excludes it.

## 5. Proofs

Every theorem holds for every value of the constants: any board, budget, number
of rounds, seats, requests, runs, hosts, providers, events. Each rests on an
invariant that is inductive, which the property is not; the new conjuncts of
each were checked by TLC on its run's bounds before they were proved.

| theorem | invariant it needs | argument |
|---|---|---|
| `TypeCorrect` | `TypeInv` = TypeOK and `Bounds` | the budget is overdrawn only by the request that ends the game; a shot is awaited from a player |
| `NoDoubleDeathHolds` | `DeathInv` | the committed are not alive, and only the living carry votes: every death goes through the alive gate, a shot's legal targets or the count of a vote in which nobody died |
| `NoTurnAfterDecisionHolds` | `DecisionInv` | between two win checks people die only in the settlement and in the vote |
| `FailsClosedHolds` | `EndInv` | running exactly until the loop is left, so each status is set once with what belongs to it |
| `ConsumedOnceHolds` | `ShotsInv`, `PotionsInv`, `SelfSaveInv` | the flags remember potions across rounds; a shot is remembered only by the shooter's death, so it is unspent while he lives or is being asked |
| `NoConsecutiveGuardHolds` | `GuardInv` | the last target is this round's once chosen and the previous round's until then; one guard, one turn a night |
| `RoundOutcomeHolds`, `HunterRulingHolds` | `RulingInv` | inside the death loop, those who died and those still due are together those the rulings doom, the voted and the shot; the hunters asked, and the one being asked, are the dead hunters who died of more than poison. A skipped death is one a shot has overtaken, so it is in the round's dead already |
| `AgreementHolds` | `FinalInv` | what was told or acted upon is the decision of a window that is no longer open |
| `RetriesAgreeHolds` | `RecordsOK`, `AnswersOK` | a window is accepted once, under one key; whatever is replied is the result of a record of that window, so two answers under one key are one record's |
| `CursorNeverBackHolds` | `SeatsOK`, `CursorsOK` | a session whose client keeps to its seat is never ahead of the windows of its seat, and windows only move on: the old copy a slow request writes back is hidden |
| `OneDecisionHolds` | all of `Inv` | every action maps to one abstract step or a stutter; accepting decides the window, its reply and its reception only repeat the decision |
| `AgreementKept` | | `AgreementHolds` carried over by `OneDecisionHolds` |
| `AuditPassesHolds` | `LogInv` | the events of a round say what its `row` says (`RowLogged`), so the checker, which sees events only, sees the rulings; of each turn, kill, potion, last shot and death there is one event (`Once`), because it is still to come while its actor is behind the cursor (`Turns`) or its use not yet remembered (`Done`); past rounds keep what the rulings made of them (`PastRuled`) |
| `NoLeakHolds` | `LogTypes` | each type of event has one tag and one role that acts in it, and on these tags the rules for prompts, projections, streams and scores coincide |
| `ReasonsJoinHolds` | `Once` | two decisions under one key would be one turn taken twice |
| `AliveFollowsHolds` | `ShownInv` | the latest snapshot by round and phase is the last one written (`SnapshotInv`), and who died since died in the phase that is still going on (`LagInv`) |
| `ScoresAgreeHolds` | `ReportInv` with `LogInv` | a potion is drunk once, so the first of a seat is the one judged; events are in the order of their rounds (`InOrder`), so who acts in a round survived it; of its round a kill comes first (`KillFirst`). Every scored event is some one player's, and a sum over parts that are apart is the sum over all (`SumOfParts`) |
| `ReportAgreesHolds` | `ReportInv` with `LogInv` and `EndInv` | events are in the order of round and phase (`InOrder`), so between two nodes of one moment there is no other; whoever is off the board has a death in the log (`DeathsTold`); while there are votes the board is undecided, so a third player is left to vote for (`OthersLeft`), and two votes for one seat have different voters (`Once`) |
| `LoggedGameIsTheGame` | `GameInv` | each step that writes is a step of the game, its answers being legal ones |
| `StreamTypeCorrect` | `TypeInv` = TypeOK and `Bounds` | position and count are one number, and a batch never goes beyond the readable lines |
| `InOrderHolds` | `InOrder` is inductive over `TypeInv` | each step sends the event right behind the count (`PassInOrder`) |
| `NothingLostHolds` | `FullInv` | the status "ended" is only ever written over a full file; a remembered size equal to the full file's stands for a read still to come, one that succeeded, or one that was refused and is remembered as such |
| `LogsAcceptedHolds` | `ConsensusInv`, `DecisionsInv` | until the kill of a night every wolf asked is a proposer or lost, so the entry counts each once; after it the night is past (`Past`), and no kill is logged for it again. A decision is the team's with its entry, or a single one that is fit unless a live reply worded it |
| `HonestRateHolds`, `ReasonTrueHolds` | `LiveInv` | requested, decided and failed turns are counted apart and add up; a provider has answered no more often than the budget was charged (`NeverFirst`), so its own limit is never the one that is reached first; hence the words of a spent budget are in a failure only when the game ended of it or a reply had them |
| `NoZombieHolds` | `Driven` | the memory says active only while a launch is between its claim and its last write; after a restart the memory is empty and an active file is shown as interrupted |
| `ReasonKeptHolds` | `ReasonDue` | one thread at most is at work; a failure without a reason on the disk has that thread about to note it, and no other thread holds such a content to write it back. An interrupt or the archiving that does hold it adds a reason of its own |
| `KeptAliveHolds` | `Seen`, `Told` of `HostInv` | a run is active on a host's own server only behind its last look, or the look said so; the stop is reached from a look that said idle, that failed, or from an update |
| `AppliedWasDownloadedHolds` | `UpdateInv` | as long as requests do not overlap, at most one of a host is in progress; the phase "downloaded" means the release on hand was fetched, unless that one request is about to change it |
| `RefusedLeavesNothingHolds` | `Owned` of `LaunchInv` | a directory is of a request that is past making it, or failed with a 500 |
| `NeverUnkeyedHolds` | `Passed`, `Keyed` | each provider of a live launch is still to be looked at, was found missing or has its key collected; past the keys all have, and nothing that is posted or deleted changes what was collected |
| `RecordedHolds` | `Owned`, `Written`, `Passed` | no two requests are both past making the directory of one run id (`OnePast`), so what one wrote there stays; a fake launch past its gates does not shuffle |

Assumptions: `BoardAssumption` (seats 1..N, at most one seer, witch and guard,
at most one human seat, as `EmergentGameEngine.__init__` requires, and at least
one round); `StreamAssumption` (at least one event and attempt);
`LimitsAssumption` (limits are numbers); `SeatAssumption`, `ProcessAssumption`
and `HostAssumption` (the kinds of processes have different names, what is
counted is a number); `LaunchAssumption` (every request names a run; no request
is called "nobody" and no provider "human", the profile's word for a person's
seat); and `ConsidersAssumption` (whom a seat ever names is a set of seats, any
set). None of them bounds a set.

A game that writes its log is a game (`LoggedGameIsTheGame`): each step of
`AuditSpec` is a step of `WerewolfGame`, so what is proved of the game is known
when its log is reasoned about. `GameInv /\ LogInv /\ ShownInv` is inductive,
and so is `GameInv /\ LogInv /\ ReportInv`.

Counts, sums, greatest and least elements of sets of any size are reasoned about
by least counterexamples, because the library's induction theorems are out of
the provers' reach: a set of naturals has a least element (`LeastExists`, from
the well-foundedness of `<`), hence a bounded one has a greatest, a finite set
that breaks a claim has one of fewest elements (`SmallestExists`), and from this
the library's fold is shown to be a sum, whatever element it takes first
(`SumByAny`).

Model-checked only: every liveness property (*Termination*, *TurnsEnd*,
*AnswersCount*, *Settles*, *Tailed*, *StreamEnds*, *HostsEnd*,
*BudgetFailsClosed*): temporal reasoning under fairness is beyond this prover.

## 6. Where code and documentation disagree

Each of the first three is the counterexample of a run; `PROJECT.json` quotes
both sides.

- **FullReport**: a player who votes for the same target on two days makes two
  decisions that the scorer cannot tell apart (`scoring_records.py:158` matches
  without the round). The report stays degraded for ever, where the bundle calls
  that "a transient state".
- **EntryRejected**: a night on which one wolf proposes nobody usable is logged
  as a "consensus" with a dissenter, which the consensus log's own validator
  refuses ("all four logs pass the existing validators").
- **EarlyJoin**: a profile launch configures the human seat in the run thread. A
  client that joins before gets a stub window that nobody times out; the
  engine's own window for that seat then raises, and the partial log of the
  failed run stays on disk ("a failed run must leave NO game log").

Found with the models as the code has it, and left without a run of their own.
With the formula given, TLC finds each on the run's bounds or smaller ones:

- *RunLifecycle*, `ReasonRecorded`: the thread of a deleted run still adds its
  metadata when the id is launched again and fails; it reads `status.json`
  before the reason is added and replaces it afterwards (`run_manager.py:333`,
  against "Always records a canonical run-status reason on failure", 435).
- *RunLifecycle*, `[][file.status \in Finished => file'.status # "interrupted"]_vars`:
  an interrupt that read "running" overwrites the end its run recorded since
  (`run_manager.py:498`, against "completed/failed runs keep their terminal truth
  and are not downgraded", 249).
- *RunLifecycle*, `[][memory = "interrupted" => memory' \notin Active]_vars`: a run
  interrupted while queued is set to running by its thread
  (`run_manager.py:440`, against the "active-only terminal mark", 497).
- *EventStream*, `Drained`: reads of a complete file that the system refuses after
  its size was remembered (`sse.py:64`) leave the drain of a completed run with
  nothing to read, against "on terminal status a final drain" (`sse.py:44`).
- *ReleaseHost*, `\A h \in Hosts : pc[h] = "gone" => server[h] \in {"none", "down"}`:
  a client that cannot be started ends the host by an exception that does not
  pass the stop of its server (`release_host/lifecycle.py:263` and 328), although
  the R0 baseline gives the host "owned server shutdown".
- *ReleaseHost*, no two hosts between `find` and `stop`: a second start that looks
  before the first has written its control file becomes a host, too
  (`release_host/lifecycle.py:225`, against "single-instance enforcement", 220).
- *ConsensusGame*, `LogsAccepted` without `\ Unfit`: the type and the reason of a
  live decision are recorded unchecked (`provider_agent.py:284`), and
  `decision_log.py:208` and 213 or `log_bundle.py:70-90` refuse the log of the
  finished game. `docs/EVALUATION_RUBRIC.md:186-187` limits both.
- *LiveGame*, `status = "failed" => (reason = "budget_exhausted" <=> outcome =
  "budget_exhausted")`: the launcher also looks for the words of a spent budget
  in reasons that quote the model (`deepseek_launcher.py:103`), where the design
  of the bridge has it read the structured field only; a game that ended at its
  round cap is then reported as out of budget.

Met while modelling:

- A repeated submission is answered before its seat is compared
  (`participant_controller.py:230`; the tracker knows a record by window and key
  only, `participant_protocol.py:721`). A session that repeats another seat's
  submission gets that seat's cursor written into it (`participant_api.py:207`),
  and its own next submission lowers it, where the P3-C-0 design says that
  `reconnect_cursor` is monotonic. With one human seat a game, as now, it cannot
  happen; *CursorNeverBack* is stated for clients that keep to their seat, and
  without that TLC finds the counterexample with two seats. (With it, two seats,
  two joins and two submissions pass: 1 218 636 states, too slow for a run.)
- A dying hunter who passes on the final words emits no event; the window of the
  shot then opens at a revision below the one the accept answered, where the
  P3-C specification says that `game_revision` is monotonically increasing
  (`emergent_engine.py:946`).
- A witch's or hunter's target that is a list raises `TypeError` out of the game
  (`emergent_engine.py:1331`; `Abort` in `LiveGame`), although every kind of
  illegal output is to end in a failure record and a fallback.
- The consensus runner passes over a wolf's `ProviderActionError` and writes an
  empty failure audit when the game succeeds
  (`run_deepseek_consensus_game.py:170`), where its design says "fail the run on
  first `ProviderActionError`".
- The top attribution credits the side that did not lose the seat of the critical
  vote, which is not always the winner (`attribution.py:256`); votes of hunters
  and guards score as `unscored_vote_role`, a gap the metrics do not list.
- A request to reopen the client that arrives while runs are active is forgotten
  by the idle loop (`release_host/lifecycle.py:321`, against 280).
- The last line torn by a dying writer makes `read_events_jsonl` reject the whole
  file (`runtime_events.py:248`), so a run that died while appending shows no
  events.
- A human turn that times out draws a random target although its window declares
  `pass` as the default (`emergent_engine.py:987`).
- A key and its base URL are read by two locked calls (`run_manager.py:63`) and
  can come from two posts; no seat is played without a key for that.

## 7. Plan

Done, in this order: game loop (the system's core) and its proofs; participant
windows with their abstraction; run lifecycle; event stream; release host; the
logs, their checker, projections and battle report; launch gates and
credentials; the earlier engine with its consensus log; live runs; the proofs of
each component, and last those of the log and of the report made of it.

Every safety property of a passing run is proved.

Left, to be modelled: an interrupt or the end of a run against an open window
and the submissions in flight (lifecycle and windows composed); the library of
user configs; the cache file of the settlement bundle under two requests.

## 8. Not modelled

- *User config library*: one file per saved config; two saves of one name can
  choose the same file (`user_config_library.py:154`). No run depends on it.
- *Settlement cache file* (`settlement_bundle.py:435-507`): a cache of a pure
  function of the logs; two writers share one temporary name. Token costs, seat
  metadata, semantic labels and the filter of fallback votes are data beside it.
- *Prompts, policies, continuity*: text made for providers, which never reaches
  the state of a game.
- *On-death `TriggerSystem`* and `envelope.py`: not called by the engine.
- *Invariant I5* of the checker and the role text of I7: they are about the
  identifiers of turn records and a sentence, which the models leave out. I4a
  compares a prompt with an observation that is never written.
- *Ablation harness*: a batch driver of whole games and its statistics.
- *Clients and the desktop launcher script*: user interfaces over the routes.
- *Read-only routes* of the handler, HTTP formats, error envelopes, expiry of
  participant sessions, the HTTP exchange with a provider.
