------------------------------ MODULE LiveGame ------------------------------
(***************************************************************************)
(* A run with live providers: the turns the engine asks them for, counted  *)
(* and judged (emergent_engine.py over llm_providers.py), the summary and  *)
(* the audit the runner writes (run_emergent_deepseek_game.py), the exit   *)
(* code of the launcher (deepseek_launcher.py) and what the RunManager     *)
(* makes of it.                                                            *)
(*                                                                         *)
(* Whose turn it is and when a side has won is WerewolfGame's business:    *)
(* here any seat may be asked next, and the game may be over after any     *)
(* turn.  The scribe has no provider in a live run.                        *)
(***************************************************************************)
EXTENDS Naturals, FiniteSets

CONSTANTS
  Seats,        \* the seats with a provider
  Limits,       \* the values max_requests may have
  MaxHuman      \* bound: turns of the human seat

ASSUME LimitsAssumption == Limits \subseteq Nat /\ MaxHuman \in Nat

VARIABLES
  limit,        \* max_requests: of the engine's budget and of each provider
  provider,     \* provider[s]: the one seat s is served by
  answered,     \* answered[q]: the length of q's _response_history
  used,         \* EmergentBudget.used
  turn,         \* the turn under way, [seat, sort, reply, kind], or NoTurn
  requested,    \* how many turns are live_requested
  byKind,       \* how many turns ended as each kind
  decided,      \* history: turns in which the model's reply was what happened
  failures,     \* the engine's failure records: [kind, words]
  outcome,      \* how the game ended: GameOutcome, or raised
  code,         \* the exit code of the launcher
  status,       \* of the run
  reason        \* of its failure

played == <<used, turn, requested, byKind, decided, failures, outcome>>
vars   == <<limit, provider, answered, played, code, status, reason>>

NoTurn == [seat |-> "none", sort |-> "none", reply |-> "none", kind |-> "none"]
Unread == 9                           \* no exit code yet
Kinds  == {"live_success", "invalid_then_fallback", "timeout_then_fallback",
           "error_then_fallback", "human_action"}

(* A turn is an action (a kill, check, protection or vote, by              *)
(* ProviderAgent.decide), a power (a potion or shot, asked directly) or a  *)
(* speech.                                                                 *)
Sorts == {"action", "power", "speech"}

---------------------------------------------------------------------------
Init ==
  /\ limit \in Limits
  /\ provider \in {[s \in Seats |-> s], [s \in Seats |-> CHOOSE t \in Seats : TRUE]}
  /\ answered = [s \in Seats |-> 0] /\ used = 0 /\ turn = NoTurn /\ requested = 0
  /\ byKind = [k \in Kinds |-> 0] /\ decided = 0 /\ failures = {}
  /\ outcome = "none" /\ code = Unread /\ status = "running" /\ reason = "none"

Between == outcome = "none" /\ turn = NoTurn

(* A failure of a kind; its reason's text may have the words "budget       *)
(* exhausted" or "budget exceeded" in it.                                  *)
Failure(kind, words) == [kind |-> kind, words |-> words]

(* EmergentBudget.charge, the first thing of a turn; over the limit it     *)
(* raises, and the game fails closed.                                      *)
OverBudgetBug(n) == n > limit + 1
OverBudget(n)    == n > limit

Charge(s, sort) ==
  /\ Between /\ used' = used + 1
  /\ IF OverBudget(used + 1)
     THEN /\ outcome' = "budget_exhausted"
          /\ failures' = failures \cup {Failure("budget_exhausted", TRUE)}
          /\ UNCHANGED <<turn, requested>>
     ELSE /\ turn' = [seat |-> s, sort |-> sort, reply |-> "due", kind |-> "none"]
          /\ requested' = requested + 1
          /\ UNCHANGED <<outcome, failures>>
  /\ UNCHANGED <<limit, provider, answered, byKind, decided, code, status, reason>>

(* What respond may do: refuse, its answers having reached its own limit;  *)
(* fail on the way (unreachable, not understood); or answer something the engine   *)
(* cannot read, something against its rules, or a move.  A power's target  *)
(* may be read and be no seat's name at all, but a list.                   *)
Errors  == {"budget_exhausted", "transport_error", "provider_error"}
Replies(t) ==
  IF answered[provider[t.seat]] >= limit THEN {"budget_exhausted"}
  ELSE {"transport_error", "provider_error", "parse_failure", "move"}
       \cup (IF t.sort = "speech" THEN {} ELSE {"invalid_action"})
       \cup (IF t.sort = "power" THEN {"list_target"} ELSE {})

(* _fallback_kind_for; a speech is not classified.                         *)
FallbackKind(t, reply) ==
  IF t.sort # "speech" /\ reply \in {"transport_error", "budget_exhausted"}
  THEN "timeout_then_fallback"
  ELSE IF reply = "parse_failure" THEN "invalid_then_fallback" ELSE "error_then_fallback"

(* A reply that can be read is a live success until the rules reject it.   *)
Respond(reply) ==
  /\ outcome = "none" /\ turn # NoTurn /\ turn.reply = "due" /\ reply \in Replies(turn)
  /\ answered' = IF reply \in Errors THEN answered
                 ELSE [answered EXCEPT ![provider[turn.seat]] = @ + 1]
  /\ turn' = [turn EXCEPT !.reply = reply,
                          !.kind = IF reply \in Errors \cup {"parse_failure"}
                                   THEN FallbackKind(turn, reply) ELSE "live_success"]
  /\ UNCHANGED <<limit, provider, used, requested, byKind, decided, failures, outcome,
                 code, status, reason>>

DowngradeBug(t) == t                  \* the turn keeps its kind
Downgrade(t)    == [t EXCEPT !.kind = "invalid_then_fallback"]

(* The reason of a failure quotes the action, target or confidence the     *)
(* model replied with, whatever it says; a power's unreadable reply is not *)
(* quoted.  A provider that refuses says why.                              *)
Quoted(t) == t.reply = "invalid_action" \/ (t.reply = "parse_failure" /\ t.sort = "action")

Words(t) ==
  IF Quoted(t) THEN BOOLEAN ELSE {t.reply = "budget_exhausted"}

(* The engine's own rules: a move happens; an illegal one, and anything    *)
(* else, is replaced by a fallback, recorded as a failure (except a        *)
(* speech's).                                                              *)
Judge ==
  /\ outcome = "none" /\ turn # NoTurn /\ turn.reply \notin {"due", "list_target"}
  /\ LET t == IF turn.reply = "invalid_action" THEN Downgrade(turn) ELSE turn
     IN byKind' = [byKind EXCEPT ![t.kind] = @ + 1]
  /\ decided' = IF turn.reply = "move" THEN decided + 1 ELSE decided
  /\ \E words \in Words(turn) :
       failures' = IF turn.reply = "move" \/ turn.sort = "speech" THEN failures
                   ELSE failures \cup {Failure(turn.reply, words)}
  /\ turn' = NoTurn
  /\ UNCHANGED <<limit, provider, answered, used, requested, outcome, code, status, reason>>

(* Looking a list up among the living raises, through the game and the     *)
(* launcher.                                                               *)
Abort ==
  /\ outcome = "none" /\ turn # NoTurn /\ turn.reply = "list_target"
  /\ outcome' = "raised"
  /\ UNCHANGED <<limit, provider, answered, used, turn, requested, byKind, decided,
                 failures, code, status, reason>>

(* A human turn is recorded, is not live_requested and costs nothing.      *)
HumanTurn ==
  /\ Between /\ byKind["human_action"] < MaxHuman
  /\ byKind' = [byKind EXCEPT !["human_action"] = @ + 1]
  /\ UNCHANGED <<limit, provider, answered, used, turn, requested, decided, failures,
                 outcome, code, status, reason>>

(* A side has won, or the last round is over without one.                  *)
End(how) ==
  /\ Between /\ outcome' = how
  /\ failures' = IF how = "completed" THEN failures ELSE failures \cup {Failure(how, FALSE)}
  /\ UNCHANGED <<limit, provider, answered, used, turn, requested, byKind, decided,
                 code, status, reason>>

---------------------------------------------------------------------------
(* The runner has written the summary and, last, the audit; the launcher   *)
(* reads from it whether the budget was the cause: by the kind of a        *)
(* failure or by the words of its reason.                                  *)
BudgetInAudit == \E f \in failures : f.kind = "budget_exhausted" \/ f.words

Return ==
  /\ outcome \in {"completed", "round_cap_no_winner", "budget_exhausted"} /\ code = Unread
  /\ code' = IF outcome = "completed" THEN 0 ELSE IF BudgetInAudit THEN 3 ELSE 2
  /\ UNCHANGED <<limit, provider, answered, played, status, reason>>

(* _provider_turns_summary and the threshold of four fifths.               *)
LowRate == requested > 0 /\ 5 * byKind["live_success"] < 4 * requested

Reason ==
  IF outcome = "raised" THEN "provider_failure"
  ELSE IF code = 3 THEN "budget_exhausted"
  ELSE IF code = 0 THEN "low_live_success_rate" ELSE "provider_failure"

ExecuteRun ==
  /\ status = "running" /\ (outcome = "raised" \/ code # Unread)
  /\ IF code = 0 /\ ~LowRate
     THEN status' = "completed" /\ UNCHANGED reason
     ELSE status' = "failed" /\ reason' = Reason
  /\ UNCHANGED <<limit, provider, answered, played, code>>

Next ==
  \/ \E s \in Seats, sort \in Sorts : Charge(s, sort)
  \/ \E reply \in Errors \cup {"parse_failure", "invalid_action", "list_target", "move"} :
       Respond(reply)
  \/ Judge \/ Abort \/ HumanTurn
  \/ \E how \in {"completed", "round_cap_no_winner"} : End(how)
  \/ Return \/ ExecuteRun

Spec == Init /\ [][Next]_vars

---------------------------------------------------------------------------
(* A run is reported as completed exactly when its game was won and, of    *)
(* the replies it asked providers for, at least four in five were what     *)
(* happened in it: "so live_success_rate stays honest".  (Writing the      *)
(* artifacts of a won game is taken to succeed; the summary raises on a    *)
(* token count that is no number, and the run fails.)                      *)
HonestRate ==
  status # "running" =>
    (status = "completed" <=> outcome = "completed" /\ 5 * decided >= 4 * requested)

(* A run the engine's own budget ended fails as budget_exhausted; one that *)
(* ended otherwise does so only when a reply the engine refused had those  *)
(* words in it.  A provider's own limit, which would put the same kind     *)
(* into the audit of a game that went on, "never trips first".             *)
SpokenOf == \E f \in failures : f.words /\ f.kind \in {"invalid_action", "parse_failure"}

ReasonTrue ==
  status = "failed" =>
    /\ outcome = "budget_exhausted" => reason = "budget_exhausted"
    /\ reason = "budget_exhausted" => outcome = "budget_exhausted" \/ SpokenOf
=============================================================================
