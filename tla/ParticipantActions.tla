------------------------ MODULE ParticipantActions ------------------------
(***************************************************************************)
(* The human seat of a run: the action windows of                          *)
(* InMemoryParticipantActionController (participant_controller.py), the    *)
(* HTTP threads that join and submit (participant_api.py, handler.py), and *)
(* the run thread that configures the seat, opens a window per turn and    *)
(* waits for the answer or the timeout (emergent_engine.py).               *)
(*                                                                         *)
(* One action stands for one critical section: the controller's condition  *)
(* and the server state's lock are taken and released between the steps of *)
(* a request, and other threads run there.  The run thread's own event     *)
(* counter moves in the step in which its wait returns.  Time is the       *)
(* action Expire: the deadline of the awaited window passes.               *)
(***************************************************************************)
EXTENDS Integers, Sequences, FiniteSets

CONSTANTS
  Seats,                \* seats a client may ask to join
  HumanSeat,            \* the seat the launch gives to a participant
  Joins, Submits,       \* the HTTP requests, each made once; a join names its token
  Keys,                 \* idempotency keys
  ConfiguredByHandler,  \* template launch (the handler configures the seat before
                        \* the thread starts) or profile launch (the thread does)
  MaxSeq                \* bound: events the engine emits

Answers == {"pass", "one", "other"}    \* other: a different payload of the same action
NoAnswer == "none"
Kinds    == {"required", "optional", "final_words", "stub"}

ASSUME SeatAssumption == /\ HumanSeat \in Seats
                         /\ ConfiguredByHandler \in BOOLEAN
                         /\ MaxSeq \in Nat
                         /\ Joins \cap Submits = {}

VARIABLES
  launch,      \* created, started, playing, then completed, failed or raised
  configured,  \* the run and seat are in _configured_seats
  gameLog,     \* game-log.json is on disk, partial or complete
  seq,         \* EmergentGameEngine._seq
  stage,       \* what the human player can still be asked
  waiting,     \* the window wait_for_action waits for, 0 when it does not
  expired,     \* the deadline of that window has passed
  windows,     \* _windows with _accepted_submissions, in order of creation
  records,     \* the idempotency tracker's records
  actions,     \* _action_counter
  sessions,    \* participant_sessions, a set of records, one per token
  req,         \* the HTTP requests in progress
  told,        \* history: the acknowledgements sent
  acted        \* history: what the game did for each window it awaited

engineVars == <<launch, configured, gameLog, seq, stage, acted>>
storeVars  == <<windows, records, actions>>
httpVars   == <<sessions, req, told>>
vars == <<engineVars, waiting, expired, storeVars, httpVars>>

---------------------------------------------------------------------------
Requests == Joins \cup Submits
Blank    == [at |-> "idle"]

Init ==
  /\ launch = "created" /\ configured = FALSE /\ gameLog = FALSE
  /\ seq = 0 /\ stage = "alive" /\ waiting = 0 /\ expired = FALSE
  /\ windows = <<>> /\ records = {} /\ actions = 0
  /\ sessions = {} /\ req = [r \in Requests |-> Blank] /\ told = {}
  /\ acted = {}

WindowsOf(seat)     == {w \in DOMAIN windows : windows[w].seat = seat}
OpenWindowsOf(seat) == {w \in WindowsOf(seat) : windows[w].status = "open"}

(* A window opens at a revision, which is also its reconnect cursor.       *)
Window(seat, kind, revision) ==
  [seat |-> seat, kind |-> kind, opened |-> revision, revision |-> revision,
   cursor |-> revision, status |-> "open", answer |-> NoAnswer]

Allowed(kind) == IF kind = "required" THEN Answers \ {"pass"} ELSE Answers

---------------------------------------------------------------------------
(* The launch: the run directory exists, then the thread runs the game.    *)

ConfigureHumanSeat ==
  /\ ~configured
  /\ launch = IF ConfiguredByHandler THEN "created" ELSE "started"
  /\ configured' = TRUE
  /\ UNCHANGED <<launch, gameLog, seq, stage, acted, waiting, expired, storeVars, httpVars>>

StartRun ==
  /\ launch = "created" /\ (ConfiguredByHandler => configured)
  /\ launch' = "started"
  /\ UNCHANGED <<configured, gameLog, seq, stage, acted, waiting, expired, storeVars, httpVars>>

(* The role_assignment event mirrors the first partial log.                *)
BeginGame ==
  /\ launch = "started" /\ configured
  /\ launch' = "playing" /\ gameLog' = TRUE /\ seq' = 1
  /\ UNCHANGED <<configured, stage, acted, waiting, expired, storeVars, httpVars>>

Free == launch = "playing" /\ waiting = 0

(* Other players' turns emit events; the human player may die.             *)
OthersPlay ==
  /\ Free /\ seq < MaxSeq /\ stage \in {"alive", "gone"}
  /\ seq' = seq + 1
  /\ stage' \in IF stage = "alive" THEN {"alive", "dying"} ELSE {stage}
  /\ UNCHANGED <<launch, configured, gameLog, acted, waiting, expired, storeVars, httpVars>>

AskedKinds == CASE stage = "alive"    -> {"required", "optional"}
                [] stage = "dying"    -> {"final_words"}
                [] stage = "shooting" -> {"optional"}
                [] OTHER -> {}

(* open_action_window raises when the seat already has an open window, and *)
(* nothing in run() catches that: the launcher's caller does.              *)
OpenActionWindow(kind) ==
  /\ Free /\ seq < MaxSeq /\ kind \in AskedKinds
  /\ IF OpenWindowsOf(HumanSeat) = {}
     THEN /\ windows' = Append(windows, Window(HumanSeat, kind, seq))
          /\ waiting' = Len(windows) + 1 /\ expired' = FALSE
          /\ UNCHANGED launch
     ELSE /\ launch' = "raised"
          /\ UNCHANGED <<windows, waiting, expired>>
  /\ UNCHANGED <<configured, gameLog, seq, stage, acted, records, actions, httpVars>>

Expire ==
  /\ waiting # 0 /\ ~expired
  /\ expired' = TRUE
  /\ UNCHANGED <<engineVars, waiting, storeVars, httpVars>>

(* The turn behind a window is resolved.  Every turn emits an event, except *)
(* final words that were not spoken; a dead hunter is then asked to shoot.  *)
Resolve(w, outcome) ==
  /\ acted' = acted \cup {<<w, outcome>>}
  /\ seq' = IF windows[w].kind = "final_words" /\ outcome \in {"pass", "timed_out"}
            THEN seq ELSE seq + 1
  /\ stage' \in CASE stage = "dying"    -> {"shooting", "gone"}
                  [] stage = "shooting" -> {"gone"}
                  [] OTHER -> {stage}
  /\ waiting' = 0 /\ expired' = FALSE
  /\ UNCHANGED <<launch, configured, gameLog>>

(* wait_for_action looks for a submission before it looks at the clock.    *)
ReceiveActionBug ==                            \* a late answer is left lying
  /\ waiting # 0 /\ windows[waiting].answer # NoAnswer /\ ~expired
  /\ Resolve(waiting, windows[waiting].answer)
  /\ UNCHANGED <<storeVars, httpVars>>
ReceiveAction ==
  /\ waiting # 0 /\ windows[waiting].answer # NoAnswer
  /\ Resolve(waiting, windows[waiting].answer)
  /\ UNCHANGED <<storeVars, httpVars>>

TimeOutBug ==                                  \* the clock alone decides
  /\ waiting # 0 /\ expired
  /\ windows' = [windows EXCEPT ![waiting].status = "timed_out",
                                ![waiting].cursor = @ + 1]
  /\ Resolve(waiting, "timed_out")
  /\ UNCHANGED <<records, actions, httpVars>>
TimeOut ==
  /\ waiting # 0 /\ windows[waiting].answer = NoAnswer /\ expired
  /\ windows' = [windows EXCEPT ![waiting].status = "timed_out",
                                ![waiting].cursor = @ + 1]
  /\ Resolve(waiting, "timed_out")
  /\ UNCHANGED <<records, actions, httpVars>>

(* run() returns a completed game, or fails closed and discards the log.   *)
EndGame(completed) ==
  /\ Free /\ stage \in {"alive", "gone"}
  /\ launch' = IF completed THEN "completed" ELSE "failed"
  /\ gameLog' = completed
  /\ UNCHANGED <<configured, seq, stage, acted, waiting, expired, storeVars, httpVars>>

---------------------------------------------------------------------------
(* POST participants/join: issue_participant_session.                      *)

At(r, place) == req[r].at = place

(* A session is bound to one seat and has seen nothing yet.                *)
Session(token, seat) == [token |-> token, seat |-> seat, cursor |-> 0]

IssueSession(j, seat) ==
  /\ At(j, "idle")
  /\ sessions' = sessions \cup {Session(j, seat)}
  /\ req' = [req EXCEPT ![j] = [at |-> "issued", seat |-> seat]]
  /\ UNCHANGED <<engineVars, waiting, expired, storeVars, told>>

RunHasHumanSeat(j) ==
  /\ At(j, "issued")
  /\ req' = [req EXCEPT ![j].at = IF configured THEN "seat_check" ELSE "stub"]
  /\ UNCHANGED <<engineVars, waiting, expired, storeVars, sessions, told>>

IsHumanSeat(j) ==
  /\ At(j, "seat_check")
  /\ sessions' = {s \in sessions : s.token = j => s.seat = HumanSeat}
  /\ req' = [req EXCEPT ![j].at = "done"]
  /\ UNCHANGED <<engineVars, waiting, expired, storeVars, told>>

EnsureStubActionWindow(j) ==
  /\ At(j, "stub")
  /\ windows' = IF WindowsOf(req[j].seat) = {}
                THEN Append(windows, Window(req[j].seat, "stub", 0)) ELSE windows
  /\ req' = [req EXCEPT ![j].at = "done"]
  /\ UNCHANGED <<engineVars, waiting, expired, records, actions, sessions, told>>

---------------------------------------------------------------------------
(* POST participant/actions: authenticate, read the run's status, submit,  *)
(* write the session back, answer.                                         *)

(* The client fills in the revision it saw, or the one after an accept.    *)
Messages == {[window |-> w, key |-> k, answer |-> a, revision |-> windows[w].opened + late] :
               w \in DOMAIN windows, k \in Keys, a \in Answers, late \in {0, 1}}

Authenticate(s, session, message) ==
  /\ At(s, "idle") /\ At(session.token, "done")
  /\ req' = [req EXCEPT ![s] = [at |-> "authenticated", session |-> session,
                                message |-> message]]
  /\ UNCHANGED <<engineVars, waiting, expired, storeVars, sessions, told>>

Running == launch \in {"started", "playing"}

ReadRunStatus(s) ==
  /\ At(s, "authenticated")
  /\ req' = [req EXCEPT ![s] = IF Running THEN [@ EXCEPT !.at = "admitted"]
                               ELSE [at |-> "done"]]
  /\ UNCHANGED <<engineVars, waiting, expired, storeVars, sessions, told>>

(* submit_action, first half: a repeated key returns the first result, or   *)
(* conflicts; second half: the window must be the session's, open, at the  *)
(* submitted revision, and allow the action.                               *)
FingerprintBug(m) == m.answer                  \* the revision left out
Fingerprint(m)    == <<m.revision, m.answer>>
RecordsForBug(m)  == {r \in records : r.key = m.key}    \* one scope for all windows
RecordsFor(m)     == {r \in records : r.window = m.window /\ r.key = m.key}
AcceptableBug(m, seat) ==                      \* the status is not checked
  /\ windows[m.window].seat = seat
  /\ windows[m.window].revision = m.revision
  /\ m.answer \in Allowed(windows[m.window].kind)
Acceptable(m, seat) ==
  /\ windows[m.window].seat = seat
  /\ windows[m.window].status = "open"
  /\ windows[m.window].revision = m.revision
  /\ m.answer \in Allowed(windows[m.window].kind)

Reply(s, result) ==
  req' = [req EXCEPT ![s] = [at |-> "replying", session |-> req[s].session,
                             message |-> req[s].message, result |-> result]]

Duplicate(s) ==
  /\ At(s, "admitted")
  /\ \E r \in RecordsFor(req[s].message) :
       /\ r.fingerprint = Fingerprint(req[s].message)
       /\ Reply(s, r.result)
  /\ UNCHANGED <<engineVars, waiting, expired, storeVars, sessions, told>>

Accept(s) ==
  /\ At(s, "admitted")
  /\ LET m      == req[s].message
         w      == m.window
         result == [event |-> actions + 1, revision |-> windows[w].revision + 1,
                    cursor |-> windows[w].cursor + 1]
     IN  /\ RecordsFor(m) = {} /\ Acceptable(m, req[s].session.seat)
         /\ windows' = [windows EXCEPT ![w] =
                          [@ EXCEPT !.status = "accepted", !.answer = m.answer,
                                    !.revision = result.revision, !.cursor = result.cursor]]
         /\ records' = records \cup {[window |-> w, key |-> m.key, result |-> result,
                                      fingerprint |-> Fingerprint(m)]}
         /\ actions' = actions + 1
         /\ Reply(s, result)
  /\ UNCHANGED <<engineVars, waiting, expired, sessions, told>>

Reject(s) ==
  /\ At(s, "admitted")
  /\ LET m == req[s].message IN
       IF RecordsFor(m) = {} THEN ~Acceptable(m, req[s].session.seat)
       ELSE \A r \in RecordsFor(m) : r.fingerprint # Fingerprint(m)
  /\ req' = [req EXCEPT ![s] = [at |-> "done"]]
  /\ UNCHANGED <<engineVars, waiting, expired, storeVars, sessions, told>>

(* The session authenticated at the start is written back with the cursor  *)
(* of the result, over whatever another request has written meanwhile.     *)
WriteSessionBack(s) ==
  /\ At(s, "replying")
  /\ LET r == req[s] IN
       /\ sessions' = {x \in sessions : x.token # r.session.token}
                      \cup {[r.session EXCEPT !.cursor = r.result.cursor]}
       /\ told' = told \cup {[token |-> r.session.token, window |-> r.message.window,
                              key |-> r.message.key, answer |-> r.message.answer,
                              result |-> r.result]}
  /\ req' = [req EXCEPT ![s] = [at |-> "done"]]
  /\ UNCHANGED <<engineVars, waiting, expired, storeVars>>

---------------------------------------------------------------------------
RunThread == \/ BeginGame \/ OthersPlay \/ ReceiveAction \/ TimeOut
             \/ \E kind \in Kinds : OpenActionWindow(kind)
             \/ \E completed \in BOOLEAN : EndGame(completed)

Launch == ConfigureHumanSeat \/ StartRun

Join(j) == \/ \E seat \in Seats : IssueSession(j, seat)
           \/ RunHasHumanSeat(j) \/ IsHumanSeat(j) \/ EnsureStubActionWindow(j)

Submit(s) == \/ \E session \in sessions, message \in Messages :
                  Authenticate(s, session, message)
             \/ ReadRunStatus(s) \/ Duplicate(s) \/ Accept(s) \/ Reject(s)
             \/ WriteSessionBack(s)

Next == \/ Launch \/ RunThread \/ Expire
        \/ \E j \in Joins : Join(j)
        \/ \E s \in Submits : Submit(s)

(* The run thread runs, and time passes; clients owe nothing.              *)
Fairness == WF_vars(Launch \/ RunThread) /\ WF_vars(Expire)
Spec == Init /\ [][Next]_vars /\ Fairness

---------------------------------------------------------------------------
Results == [event : Nat, revision : Nat, cursor : Nat]

(* Windows, records, sessions and the engine's counters have their types.  *)
TypeOK ==
  /\ launch \in {"created", "started", "playing", "completed", "failed", "raised"}
  /\ configured \in BOOLEAN /\ gameLog \in BOOLEAN /\ expired \in BOOLEAN
  /\ seq \in 0..MaxSeq /\ actions \in Nat
  /\ stage \in {"alive", "dying", "shooting", "gone"}
  /\ windows \in Seq([seat : Seats, kind : Kinds, opened : Nat, revision : Nat,
                      cursor : Nat, status : {"open", "accepted", "timed_out"},
                      answer : Answers \cup {NoAnswer}])
  /\ waiting \in {0} \cup DOMAIN windows
  /\ records \subseteq [window : DOMAIN windows, key : Keys, result : Results,
                        fingerprint : Nat \X Answers]
  /\ sessions \subseteq [token : Joins, seat : Seats, cursor : Nat]
  /\ told \subseteq [token : Joins, window : DOMAIN windows, key : Keys, answer : Answers,
                     result : Results]
  /\ acted \subseteq (DOMAIN windows) \X (Answers \cup {"timed_out"})

(* The decisions of the windows, as the abstract specification sees them.  *)
Outcome(w) == CASE windows[w].answer # NoAnswer    -> windows[w].answer
                [] windows[w].status = "timed_out" -> "timed_out"
                [] OTHER -> "open"
Outcomes == INSTANCE ActionOutcomes
              WITH outcome <- [w \in DOMAIN windows |-> Outcome(w)],
                   told    <- {<<t.window, t.answer>> : t \in told},
                   acted   <- acted

(* However submits, retries and the deadline race, a window is decided     *)
(* once, and client and game agree on its decision.                        *)
OneDecision == Outcomes!Spec

(* A retry of an accepted submission is told what the first was told: the  *)
(* same event, revision and cursor; and no two accepts share an event id.  *)
RetriesAgree ==
  \A t, u \in told : (t.window = u.window) <=> (t.result.event = u.result.event)

(* The cursor GET participant/state answers: the session's or the newest   *)
(* of the seat's windows, whichever is later.                              *)
Latest(cursors) == CHOOSE c \in cursors : \A d \in cursors : d <= c
StateCursorBug(session) == session.cursor      \* the windows not consulted
StateCursor(session) ==
  Latest({session.cursor} \cup {windows[w].cursor : w \in WindowsOf(session.seat)})

(* A client that was only ever answered about windows of its own seat.  A  *)
(* repeated submission is answered before the seat is compared, so a       *)
(* client that repeats another seat's is given that seat's cursor.         *)
OwnSeat(session) ==
  \A t \in told : t.token = session.token => windows[t.window].seat = session.seat

(* That cursor never goes back for such a client, although a slow request  *)
(* may write an older cursor over a newer one in the session, and windows  *)
(* reopen behind it.                                                       *)
CursorNeverBack ==
  [][\A s \in sessions : \A t \in sessions' :
       s.token = t.token /\ OwnSeat(t)' => StateCursor(s) <= StateCursor(t)']_vars

(* A turn of the human is over in bounded time: the run thread is never    *)
(* left waiting.                                                           *)
TurnsEnd == waiting # 0 ~> waiting = 0

(* An answer accepted for a window the game waits for is acted upon, even  *)
(* when it arrives after the deadline and before the run thread looks.     *)
(* Windows of the seat open one at a time, so one answer at most is owed.  *)
Owed == {w \in DOMAIN windows : /\ windows[w].kind # "stub"
                                /\ windows[w].answer # NoAnswer
                                /\ \A answer \in Answers : <<w, answer>> \notin acted}
AnswersCount == []<>(Owed = {})

(* emergent_engine.py:1772, "a failed run must leave NO game log".         *)
FailedRunLeavesNoLog == launch \in {"failed", "raised"} => ~gameLog

===========================================================================
