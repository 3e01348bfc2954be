--------------------------- MODULE LiveGameProofs ---------------------------
(***************************************************************************)
(* A live run is reported as what it was, for every set of seats, budget   *)
(* and number of human turns.                                              *)
(***************************************************************************)
EXTENDS LiveGame, TLAPS

Answered == {"parse_failure", "invalid_action", "list_target", "move"}

(* The turn under way: due until its reply is there, and a live success    *)
(* exactly when the reply is one that could be read.                       *)
TurnOK ==
  \/ turn = NoTurn
  \/ /\ turn \in [seat : Seats, sort : Sorts, reply : {"due"}, kind : {"none"}]
     /\ used <= limit
  \/ turn \in [seat : Seats, sort : Sorts, reply : {"invalid_action", "list_target", "move"},
               kind : {"live_success"}]
  \/ turn \in [seat : Seats, sort : Sorts, reply : Errors \cup {"parse_failure"},
               kind : Kinds \ {"live_success", "human_action"}]

CountsOK ==
  /\ limit \in Nat /\ used \in Nat /\ requested \in Nat /\ decided \in Nat
  /\ provider \in [Seats -> Seats] /\ answered \in [Seats -> Nat]
  /\ byKind \in [Kinds -> Nat]

(* A provider has answered at most once per charge of the engine's budget, *)
(* and once less while an answer is due: its own limit never trips first.  *)
NeverFirst ==
  \A q \in Seats : /\ answered[q] <= used
                   /\ turn # NoTurn /\ turn.reply = "due" => answered[q] < used

(* The audit holds a failure of the budget's kind, or one with its words.  *)
Spent  == \E f \in failures : f.kind = "budget_exhausted"
Worded == \E f \in failures : f.words

(* It does only if the engine's budget ended the game; live successes are  *)
(* the turns the model decided.                                            *)
Causes ==
  /\ outcome \in {"none", "completed", "round_cap_no_winner", "budget_exhausted", "raised"}
  /\ Spent <=> outcome = "budget_exhausted"
  /\ Worded => Spent \/ SpokenOf
  /\ turn # NoTurn => turn.reply # "budget_exhausted"
  /\ decided = byKind["live_success"]

(* The exit code and the status say how the game ended.                    *)
Reports ==
  /\ code = Unread \/ (code = 0 /\ outcome = "completed")
                   \/ (code = 3 /\ outcome = "budget_exhausted")
                   \/ (code = 3 /\ outcome = "round_cap_no_winner" /\ SpokenOf)
                   \/ (code = 2 /\ outcome = "round_cap_no_winner")
  /\ status \in {"running", "completed", "failed"}
  /\ status # "running" => code # Unread \/ outcome = "raised"

LiveInv == CountsOK /\ TurnOK /\ NeverFirst /\ Causes /\ Reports /\ HonestRate /\ ReasonTrue

(* What the launcher may find in the audit changes with a failure only.    *)
LEMMA SameFailures ==
  ASSUME failures' = failures
  PROVE  Spent' = Spent /\ Worded' = Worded /\ SpokenOf' = SpokenOf
BY DEF Spent, Worded, SpokenOf

LEMMA MoreFailures ==
  ASSUME NEW kind, NEW words, failures' = failures \cup {Failure(kind, words)}
  PROVE  /\ Spent' <=> Spent \/ kind = "budget_exhausted"
         /\ Worded' <=> Worded \/ words
         /\ SpokenOf' <=> SpokenOf \/ (words /\ kind \in {"invalid_action", "parse_failure"})
<1> DEFINE f == Failure(kind, words)
<1>1. f.kind = kind /\ f.words = words
  BY DEF Failure
<1>2. \A g : g \in failures' <=> g \in failures \/ g = f
  OBVIOUS
<1> HIDE DEF f
<1>3. Spent' <=> Spent \/ kind = "budget_exhausted"
  BY <1>1, <1>2 DEF Spent
<1>4. Worded' <=> Worded \/ words
  BY <1>1, <1>2 DEF Worded
<1>5. SpokenOf' <=> SpokenOf \/ (words /\ kind \in {"invalid_action", "parse_failure"})
  BY <1>1, <1>2 DEF SpokenOf
<1>6. QED
  BY <1>3, <1>4, <1>5

LEMMA InitLive == Init => LiveInv
<1> SUFFICES ASSUME Init PROVE LiveInv OBVIOUS
<1> USE LimitsAssumption DEF Init
<1>1. provider \in [Seats -> Seats]
  OBVIOUS
<1>2. CountsOK
  BY <1>1 DEF CountsOK
<1>3. QED
  BY <1>2 DEF LiveInv, TurnOK, NeverFirst, Causes, Reports, HonestRate, ReasonTrue, Kinds, Unread,
              Spent, Worded

LEMMA ChargeLive ==
  ASSUME LiveInv, NEW s \in Seats, NEW sort \in Sorts, Charge(s, sort) PROVE LiveInv'
<1>1. CountsOK /\ TurnOK /\ NeverFirst /\ Causes /\ Reports /\ HonestRate /\ ReasonTrue
  BY DEF LiveInv
<1>2. /\ outcome = "none" /\ turn = NoTurn /\ used' = used + 1 /\ status = "running" /\ code = Unread
      /\ UNCHANGED <<limit, provider, answered, byKind, decided, code, status, reason>>
  BY <1>1 DEF Charge, Between, Reports, Unread
<1>3. CASE OverBudget(used + 1)
  <2>1. /\ outcome' = "budget_exhausted" /\ turn' = turn /\ requested' = requested
        /\ failures' = failures \cup {Failure("budget_exhausted", TRUE)}
    BY <1>3 DEF Charge
  <2>2. Spent' /\ Worded' /\ turn' = NoTurn
    BY <1>2, <2>1, MoreFailures
  <2>3. CountsOK' /\ TurnOK' /\ NeverFirst'
    BY <1>1, <1>2, <2>1 DEF CountsOK, TurnOK, NeverFirst
  <2>4. Causes'
    BY <1>1, <1>2, <2>1, <2>2 DEF Causes
  <2>5. Reports' /\ HonestRate' /\ ReasonTrue'
    BY <1>2 DEF Reports, HonestRate, ReasonTrue
  <2>6. QED
    BY <2>3, <2>4, <2>5 DEF LiveInv
<1>4. CASE ~OverBudget(used + 1)
  <2>1. /\ outcome' = outcome /\ failures' = failures /\ requested' = requested + 1
        /\ turn' = [seat |-> s, sort |-> sort, reply |-> "due", kind |-> "none"]
        /\ used + 1 <= limit
    BY <1>1, <1>4 DEF Charge, OverBudget, CountsOK
  <2>2. CountsOK'
    BY <1>1, <1>2, <2>1 DEF CountsOK
  <2>3. TurnOK'
    BY <1>2, <2>1 DEF TurnOK
  <2>4. NeverFirst'
    BY <1>1, <1>2, <2>1 DEF NeverFirst, CountsOK
  <2>5. Causes'
    BY <1>1, <1>2, <2>1, SameFailures DEF Causes
  <2>6. Reports' /\ HonestRate' /\ ReasonTrue'
    BY <1>2 DEF Reports, HonestRate, ReasonTrue
  <2>7. QED
    BY <2>2, <2>3, <2>4, <2>5, <2>6 DEF LiveInv
<1>5. QED
  BY <1>3, <1>4

LEMMA RespondLive ==
  ASSUME LiveInv, NEW reply, Respond(reply) PROVE LiveInv'
<1> USE DEF LiveInv
<1>1. /\ turn \in [seat : Seats, sort : Sorts, reply : {"due"}, kind : {"none"}]
      /\ used <= limit
  BY DEF Respond, TurnOK, NoTurn, Errors
<1>2. reply # "budget_exhausted"
  <2>1. answered[provider[turn.seat]] < used
    BY <1>1 DEF Respond, NeverFirst, CountsOK
  <2>2. QED
    BY <1>1, <2>1 DEF Respond, Replies, CountsOK
<1>3. reply \in Errors \cup Answered
  BY DEF Respond, Replies, Errors, Answered
<1>4. CountsOK'
  BY <1>1 DEF Respond, CountsOK
<1>5. TurnOK'
  BY <1>1, <1>2, <1>3 DEF Respond, TurnOK, FallbackKind, Errors, Answered, Kinds
<1>6. NeverFirst' /\ turn' # NoTurn /\ turn'.reply # "due" /\ turn'.reply = reply
  <2>1. turn'.reply = reply /\ reply # "due" /\ reply # "none"
    BY <1>1, <1>3 DEF Respond, Errors, Answered
  <2>2. turn' # NoTurn
    BY <2>1 DEF NoTurn
  <2>3. \A q \in Seats : answered'[q] <= used'
    BY <1>1 DEF Respond, NeverFirst, CountsOK
  <2>4. QED
    BY <2>1, <2>2, <2>3 DEF NeverFirst
<1>7. Causes'
  BY <1>2, <1>6, SameFailures DEF Respond, Causes
<1>8. Reports' /\ HonestRate' /\ ReasonTrue'
  BY SameFailures DEF Respond, Reports, HonestRate, ReasonTrue
<1>9. QED
  BY <1>4, <1>5, <1>6, <1>7, <1>8

LEMMA JudgeLive == ASSUME LiveInv, Judge PROVE LiveInv'
<1> USE DEF LiveInv, Judge
<1>1. turn.kind \in Kinds /\ (turn.reply = "move" => turn.kind = "live_success")
  BY DEF TurnOK, Kinds, NoTurn, Errors
<1>2. turn.reply # "move" /\ turn.reply # "invalid_action" => turn.kind # "live_success"
  BY DEF TurnOK, NoTurn, Errors
<1> DEFINE t == IF turn.reply = "invalid_action" THEN Downgrade(turn) ELSE turn
<1>3. t.kind \in Kinds /\ (t.kind = "live_success" <=> turn.reply = "move")
  BY <1>1, <1>2 DEF Downgrade, Kinds, TurnOK, NoTurn
<1>4. byKind' = [byKind EXCEPT ![t.kind] = @ + 1]
  OBVIOUS
<1>5. CountsOK'
  BY <1>3, <1>4 DEF CountsOK
<1>6. TurnOK' /\ NeverFirst'
  BY DEF TurnOK, NeverFirst
<1>7. (Spent' <=> Spent) /\ (Worded' => Spent' \/ SpokenOf')
  <2>1. turn.reply # "budget_exhausted" /\ (Worded => Spent \/ SpokenOf)
    BY DEF Causes
  <2>2. CASE failures' = failures
    BY <2>1, <2>2, SameFailures
  <2>3. CASE failures' # failures
    <3>1. PICK words \in Words(turn) : failures' = failures \cup {Failure(turn.reply, words)}
      BY <2>3
    <3>2. words => turn.reply \in {"invalid_action", "parse_failure"}
      BY <2>1, <3>1 DEF Words, Quoted
    <3>3. QED
      BY <2>1, <3>1, <3>2, MoreFailures
  <2>4. QED
    BY <2>2, <2>3
<1>8. decided' = byKind'["live_success"]
  BY <1>3, <1>4 DEF Causes, CountsOK, Kinds
<1>9. Causes'
  BY <1>7, <1>8 DEF Causes
<1>10. Reports' /\ HonestRate' /\ ReasonTrue'
  BY DEF Reports, HonestRate, ReasonTrue, Unread
<1>11. QED
  BY <1>5, <1>6, <1>9, <1>10

LEMMA EndLive ==
  ASSUME LiveInv,
         Abort \/ HumanTurn \/ (\E how \in {"completed", "round_cap_no_winner"} : End(how))
  PROVE  LiveInv'
<1> USE DEF LiveInv, Abort, HumanTurn, End, Between
<1>1. CountsOK'
  <2>1. UNCHANGED <<limit, used, requested, decided, provider, answered>>
    OBVIOUS
  <2>2. byKind' = byKind \/ byKind' = [byKind EXCEPT !["human_action"] = @ + 1]
    OBVIOUS
  <2>3. byKind' \in [Kinds -> Nat]
    BY <2>2 DEF CountsOK
  <2>4. QED
    BY <2>1, <2>3 DEF CountsOK
<1>2. TurnOK' /\ NeverFirst'
  BY DEF TurnOK, NeverFirst
<1>3. (Spent' <=> Spent) /\ (Worded' => Spent' \/ SpokenOf')
  <2>1. CASE failures' = failures
    BY <2>1, SameFailures DEF Causes
  <2>2. CASE failures' # failures
    <3>1. failures' = failures \cup {Failure("round_cap_no_winner", FALSE)}
      BY <2>2
    <3>2. QED
      BY <3>1, MoreFailures DEF Causes
  <2>3. QED
    BY <2>1, <2>2
<1>4. Causes' /\ Reports' /\ HonestRate' /\ ReasonTrue'
  BY <1>3 DEF Causes, CountsOK, Kinds, Reports, HonestRate, ReasonTrue, Unread
<1>5. QED
  BY <1>1, <1>2, <1>3, <1>4

LEMMA ReportLive == ASSUME LiveInv, Return \/ ExecuteRun PROVE LiveInv'
<1> USE DEF LiveInv
<1>1. UNCHANGED <<limit, provider, answered, played>> /\ failures' = failures
  BY DEF Return, ExecuteRun, played
<1>2. Spent' = Spent /\ Worded' = Worded /\ SpokenOf' = SpokenOf
  BY <1>1, SameFailures
<1>3. CountsOK' /\ TurnOK' /\ NeverFirst' /\ Causes'
  BY <1>1, <1>2 DEF played, CountsOK, TurnOK, NeverFirst, Causes
<1>4. CASE Return
  <2>1. BudgetInAudit => Spent \/ SpokenOf
    BY DEF BudgetInAudit, Spent, Worded, Causes
  <2>2. Spent => BudgetInAudit
    BY DEF BudgetInAudit, Spent
  <2>3. Reports'
    BY <1>1, <1>4, <1>2, <2>1, <2>2 DEF Return, played, Causes, Reports, Unread
  <2>4. HonestRate' /\ ReasonTrue'
    BY <1>1, <1>4, <1>2 DEF Return, played, Reports, HonestRate, ReasonTrue, Unread
  <2>5. QED
    BY <1>3, <2>3, <2>4
<1>5. CASE ExecuteRun
  <2>1. Reports'
    BY <1>5, <1>2 DEF ExecuteRun, played, Reports
  <2>2. LowRate <=> 5 * decided < 4 * requested
    BY DEF LowRate, CountsOK, Causes
  <2>3. HonestRate'
    BY <1>5, <2>2 DEF ExecuteRun, played, Reports, HonestRate, CountsOK, Unread
  <2>4. ReasonTrue'
    BY <1>5, <1>2 DEF ExecuteRun, played, Reports, ReasonTrue, Reason, Unread
  <2>5. QED
    BY <1>3, <2>1, <2>3, <2>4
<1>6. QED
  BY <1>4, <1>5

LEMMA NextLive == LiveInv /\ [Next]_vars => LiveInv'
<1>1. ASSUME LiveInv, UNCHANGED vars PROVE LiveInv'
  BY <1>1, SameFailures DEF LiveInv, vars, played, CountsOK, TurnOK, NeverFirst, Causes,
              Reports, HonestRate, ReasonTrue
<1>2. QED
  BY <1>1, ChargeLive, RespondLive, JudgeLive, EndLive, ReportLive DEF Next

(* A run is completed exactly when its game was won and four in five of    *)
(* the replies asked for are what happened in it.                          *)
THEOREM HonestRateHolds == Spec => []HonestRate
<1>1. LiveInv => HonestRate
  BY DEF LiveInv
<1>2. QED
  BY <1>1, InitLive, NextLive, PTL DEF Spec

(* A run fails as out of budget whenever the engine's own budget ended its *)
(* game, and otherwise only when a refused reply spoke of one: a           *)
(* provider's limit is never reached before.                               *)
THEOREM ReasonTrueHolds == Spec => []ReasonTrue
<1>1. LiveInv => ReasonTrue
  BY DEF LiveInv
<1>2. QED
  BY <1>1, InitLive, NextLive, PTL DEF Spec

=============================================================================
