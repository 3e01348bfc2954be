---------------------- MODULE ParticipantActionsProofs ----------------------
(***************************************************************************)
(* The participant's action windows implement ActionOutcomes, retries are  *)
(* told one result and the cursor a client is shown never goes back, for   *)
(* any number of seats, clients, requests, keys and events.                *)
(***************************************************************************)
EXTENDS ParticipantActions, TLAPS, WellFoundedInduction, SequenceTheorems

(* What is stored, and what each kind of request carries on its way.       *)
WindowSet  == [seat : Seats, kind : Kinds, opened : Nat, revision : Nat, cursor : Nat,
               status : {"open", "accepted", "timed_out"}, answer : Answers \cup {NoAnswer}]
SessionSet == [token : Joins, seat : Seats, cursor : Nat]
MessageSet == [window : Nat, key : Keys, answer : Answers, revision : Nat]
RecordSet  == [window : Nat, key : Keys, result : Results, fingerprint : Nat \X Answers]
ToldSet    == [token : Joins, window : Nat, key : Keys, answer : Answers, result : Results]

Resting   == [at : {"idle", "done"}]
Joining   == [at : {"issued", "seat_check", "stub", "done"}, seat : Seats]
Asking    == [at : {"authenticated", "admitted"}, session : SessionSet, message : MessageSet]
Answering == [at : {"replying"}, session : SessionSet, message : MessageSet, result : Results]

TypeInv ==
  /\ seq \in Nat /\ actions \in Nat /\ waiting \in Nat
  /\ windows \in Seq(WindowSet) /\ records \subseteq RecordSet
  /\ sessions \subseteq SessionSet /\ told \subseteq ToldSet
  /\ req \in [Requests -> Resting \cup Joining \cup Asking \cup Answering]
  /\ \A j \in Joins : req[j] \in {Blank} \cup Joining
  /\ \A s \in Submits : req[s] \in Resting \cup Asking \cup Answering

---------------------------------------------------------------------------
(* A window has an answer exactly when it was accepted, and its cursor is  *)
(* at most one ahead of the engine's events.                               *)
WindowsOK ==
  \A w \in DOMAIN windows :
    /\ windows[w].answer # NoAnswer <=> windows[w].status = "accepted"
    /\ windows[w].cursor <= seq + 1
    /\ windows[w].status = "open" => windows[w].cursor <= seq

(* The game counts no event before it begins; it waits only while it       *)
(* plays, for a window that has not timed out.                             *)
EngineOK ==
  /\ launch \in {"created", "started"} => seq = 0
  /\ waiting # 0 => /\ launch = "playing"
                    /\ waiting \in DOMAIN windows /\ windows[waiting].status # "timed_out"

(* A window was accepted once, under one key, with an event of its own.    *)
RecordsOK ==
  /\ \A r \in records : /\ r.window \in DOMAIN windows
                        /\ windows[r.window].answer = r.fingerprint[2]
                        /\ windows[r.window].cursor = r.result.cursor
                        /\ r.result.event <= actions
  /\ \A r, q \in records : r.window = q.window \/ r.result.event = q.result.event => r = q

(* What is replied and told is the result of a record of the window.       *)
Backed(x) == \E r \in records : /\ r.window = x.window /\ r.fingerprint[2] = x.answer
                                /\ r.result = x.result
AnswersOK ==
  /\ \A t \in told : Backed(t)
  /\ \A s \in Submits :
       /\ req[s] \in Asking => req[s].message.window \in DOMAIN windows
       /\ req[s] \in Answering =>
            Backed([window |-> req[s].message.window, answer |-> req[s].message.answer,
                    result |-> req[s].result])

(* A token stands for one seat, the one its join asked for.                *)
Seated(x) == req[x.token].at # "idle" /\ req[x.token].seat = x.seat
SeatsOK ==
  /\ \A x \in sessions : Seated(x)
  /\ \A s \in Submits : req[s] \in Asking \cup Answering => Seated(req[s].session)

(* A session of a client that keeps to its seat is not ahead of the        *)
(* windows of the seat.                                                    *)
Covered(x) == x.cursor = 0 \/ \E w \in WindowsOf(x.seat) : x.cursor <= windows[w].cursor
CursorsOK ==
  \A x \in sessions : x.cursor <= seq + 1 /\ (OwnSeat(x) => Covered(x))

Inv == /\ TypeInv /\ WindowsOK /\ EngineOK /\ RecordsOK
       /\ AnswersOK /\ SeatsOK /\ CursorsOK

LEMMA InitInv == Init => Inv
<1> SUFFICES ASSUME Init PROVE Inv OBVIOUS
<1> USE DEF Init
<1>1. TypeInv
  BY DEF TypeInv, Blank, Resting, Requests
<1>2. \A s \in Submits : req[s] \notin Asking /\ req[s] \notin Answering
  BY DEF Blank, Requests, Asking, Answering
<1>3. QED
  BY <1>1, <1>2 DEF Inv, WindowsOK, EngineOK, RecordsOK, AnswersOK, SeatsOK, CursorsOK

---------------------------------------------------------------------------
(* The windows grow: no window moves to another seat or turns its cursor   *)
(* back, and an answered one does not change any more.                     *)
Grow == \A w \in DOMAIN windows :
          /\ w \in DOMAIN windows'
          /\ windows'[w].seat = windows[w].seat
          /\ windows[w].cursor <= windows'[w].cursor
          /\ windows[w].answer # NoAnswer => windows'[w] = windows[w]

LEMMA CursorType ==
  ASSUME NEW ws \in Seq(WindowSet), NEW w \in DOMAIN ws
  PROVE  ws[w] \in WindowSet /\ ws[w].cursor \in Nat
<1>1. ws[w] \in WindowSet
  OBVIOUS
<1>2. QED
  BY <1>1 DEF WindowSet

LEMMA OpenGrows ==
  ASSUME windows \in Seq(WindowSet), NEW win \in WindowSet, windows' = Append(windows, win)
  PROVE  /\ windows' \in Seq(WindowSet) /\ Grow
         /\ Len(windows) + 1 \in DOMAIN windows' /\ windows'[Len(windows) + 1] = win
         /\ \A w \in DOMAIN windows : w \in DOMAIN windows' /\ windows'[w] = windows[w]
         /\ \A w \in DOMAIN windows' : w \in DOMAIN windows \/ w = Len(windows) + 1
<1>1. /\ windows' \in Seq(WindowSet)
      /\ Len(windows) + 1 \in DOMAIN windows' /\ windows'[Len(windows) + 1] = win
      /\ \A w \in DOMAIN windows : w \in DOMAIN windows' /\ windows'[w] = windows[w]
      /\ \A w \in DOMAIN windows' : w \in DOMAIN windows \/ w = Len(windows) + 1
  OBVIOUS
<1>2. \A w \in DOMAIN windows : windows[w].cursor \in Nat
  BY CursorType
<1>3. QED
  BY <1>1, <1>2 DEF Grow

LEMMA DecideGrows ==
  ASSUME windows \in Seq(WindowSet), NEW v \in DOMAIN windows, NEW win \in WindowSet,
         windows' = [windows EXCEPT ![v] = win],
         win.seat = windows[v].seat, windows[v].cursor <= win.cursor,
         windows[v].answer = NoAnswer
  PROVE  /\ windows' \in Seq(WindowSet) /\ Grow /\ DOMAIN windows' = DOMAIN windows
         /\ windows'[v] = win
         /\ \A w \in DOMAIN windows : w # v => windows'[w] = windows[w]
<1>1. /\ windows' \in Seq(WindowSet) /\ DOMAIN windows' = DOMAIN windows /\ windows'[v] = win
      /\ \A w \in DOMAIN windows : w # v => windows'[w] = windows[w]
  OBVIOUS
<1>2. \A w \in DOMAIN windows : windows[w].cursor \in Nat
  BY CursorType
<1>3. QED
  BY <1>1, <1>2 DEF Grow

(* What the records, the answers and the sessions say stays true while the *)
(* windows grow.                                                           *)
LEMMA GrowKeepsRecords ==
  ASSUME TypeInv, RecordsOK, Grow, UNCHANGED <<records, actions>> PROVE RecordsOK'
<1>1. \A r \in records : r.fingerprint[2] # NoAnswer
  BY DEF TypeInv, RecordSet, Answers, NoAnswer
<1>2. QED
  BY <1>1 DEF RecordsOK, Grow

LEMMA GrowKeepsCursors ==
  ASSUME TypeInv, TypeInv', Grow, seq <= seq', told \subseteq told',
         \A t \in told : t.window \in DOMAIN windows,
         NEW x \in sessions, x.cursor <= seq + 1, OwnSeat(x) => Covered(x)
  PROVE  x.cursor <= seq' + 1 /\ (OwnSeat(x)' => Covered(x)')
<1>1. x.cursor \in Nat
  BY DEF TypeInv, SessionSet
<1>2. OwnSeat(x)' => OwnSeat(x)
  BY DEF OwnSeat, Grow
<1>3. Covered(x) => Covered(x)'
  <2>1. SUFFICES ASSUME NEW w \in DOMAIN windows, windows[w].seat = x.seat,
                        x.cursor <= windows[w].cursor
                 PROVE  Covered(x)'
    BY DEF Covered, WindowsOf
  <2>2. w \in DOMAIN windows' /\ windows'[w].seat = x.seat
    BY <2>1 DEF Grow
  <2>3. x.cursor <= windows'[w].cursor
    <3>1. windows[w].cursor \in Nat /\ windows'[w].cursor \in Nat
      BY <2>2, CursorType DEF TypeInv
    <3>2. QED
      BY <1>1, <2>1, <3>1 DEF Grow
  <2>4. QED
    BY <2>2, <2>3 DEF Covered, WindowsOf
<1>4. QED
  BY <1>1, <1>2, <1>3 DEF TypeInv

(* What every step keeps: the invariant, the windows that grow, what was   *)
(* told and the seat a join asked for.                                     *)
Kept ==
  /\ Inv' /\ Grow /\ told \subseteq told'
  /\ \A j \in Joins : req[j].at # "idle" => req'[j].seat = req[j].seat

LEMMA ToldWindow == Inv => \A t \in told : t.window \in DOMAIN windows
BY DEF Inv, AnswersOK, Backed, RecordsOK

---------------------------------------------------------------------------
(* The run thread, the launch and the clock touch no request.              *)
LEMMA EngineKeeps ==
  ASSUME Inv, UNCHANGED <<records, actions, httpVars>>, windows' \in Seq(WindowSet), Grow,
         seq' \in Nat, seq <= seq', waiting' \in Nat, WindowsOK', EngineOK'
  PROVE  Kept
<1> USE DEF Inv, httpVars
<1>1. TypeInv'
  BY DEF TypeInv
<1>2. RecordsOK'
  BY GrowKeepsRecords
<1>3. AnswersOK' /\ SeatsOK'
  BY DEF AnswersOK, Backed, SeatsOK, Seated, Grow
<1>4. CursorsOK'
  BY <1>1, ToldWindow, GrowKeepsCursors DEF CursorsOK
<1>5. QED
  BY <1>1, <1>2, <1>3, <1>4 DEF Kept

LEMMA SameWindows ==
  ASSUME Inv, windows' = windows, seq' \in Nat, seq <= seq'
  PROVE  windows' \in Seq(WindowSet) /\ Grow /\ WindowsOK'
<1>1. \A w \in DOMAIN windows : windows[w].cursor \in Nat
  BY CursorType DEF Inv, TypeInv
<1>2. seq \in Nat
  BY DEF Inv, TypeInv
<1>3. QED
  BY <1>1, <1>2 DEF Inv, TypeInv, Grow, WindowsOK

LEMMA TimedOutWindow ==
  ASSUME NEW old \in WindowSet
  PROVE  \E win \in WindowSet :
           /\ win = [old EXCEPT !.status = "timed_out", !.cursor = @ + 1]
           /\ win.seat = old.seat /\ win.cursor = old.cursor + 1
           /\ win.status = "timed_out" /\ win.answer = old.answer
<1> DEFINE win == [old EXCEPT !.status = "timed_out", !.cursor = @ + 1]
<1>1. /\ DOMAIN old = {"seat", "kind", "opened", "revision", "cursor", "status", "answer"}
      /\ old.cursor \in Nat
  BY DEF WindowSet
<1>2. /\ win.seat = old.seat /\ win.kind = old.kind /\ win.opened = old.opened
      /\ win.revision = old.revision /\ win.cursor = old.cursor + 1
      /\ win.status = "timed_out" /\ win.answer = old.answer
  BY <1>1
<1>3. win \in WindowSet
  <2>1. ASSUME NEW c \in Nat
        PROVE  [old EXCEPT !.status = "timed_out", !.cursor = c] \in WindowSet
    BY DEF WindowSet
  <2>2. old.cursor + 1 \in Nat
    BY <1>1
  <2>3. QED
    BY <2>1, <2>2
<1>4. QED
  BY <1>2, <1>3

LEMMA EngineStep == ASSUME Inv, Launch \/ RunThread \/ Expire PROVE Kept
<1> USE DEF engineVars, storeVars
<1>0. seq \in Nat /\ waiting \in Nat
  BY DEF Inv, TypeInv
<1>1. CASE ConfigureHumanSeat \/ StartRun \/ Expire \/ \E completed \in BOOLEAN : EndGame(completed)
  <2>1. EngineOK' /\ UNCHANGED <<seq, waiting, windows, records, actions, httpVars>>
    BY <1>1 DEF ConfigureHumanSeat, StartRun, Expire, EndGame, Free, Inv, EngineOK
  <2>2. QED
    BY <1>0, <2>1, SameWindows, EngineKeeps
<1>2. CASE BeginGame
  <2>1. seq = 0 /\ seq' = 1 /\ UNCHANGED <<waiting, windows, records, actions, httpVars>>
    BY <1>2 DEF BeginGame, Inv, EngineOK
  <2>2. EngineOK'
    BY <1>2, <2>1 DEF BeginGame, Inv, EngineOK
  <2>3. QED
    BY <1>0, <2>1, <2>2, SameWindows, EngineKeeps
<1>3. CASE OthersPlay
  <2>1. EngineOK' /\ seq' = seq + 1 /\ UNCHANGED <<waiting, windows, records, actions, httpVars>>
    BY <1>3 DEF OthersPlay, Free, Inv, EngineOK
  <2>2. QED
    BY <1>0, <2>1, SameWindows, EngineKeeps
<1>4. ASSUME NEW w, NEW outcome, Resolve(w, outcome), waiting # 0
      PROVE  seq' \in Nat /\ seq <= seq' /\ waiting' \in Nat /\ EngineOK'
  <2>1. waiting' = 0 /\ launch' = "playing" /\ seq' \in {seq, seq + 1}
    BY <1>4 DEF Resolve, Inv, EngineOK
  <2>2. QED
    BY <1>0, <2>1 DEF EngineOK
<1>5. CASE ReceiveAction
  BY <1>0, <1>4, <1>5, SameWindows, EngineKeeps DEF ReceiveAction
<1>6. CASE TimeOut
  <2>1. waiting \in DOMAIN windows /\ windows[waiting] \in WindowSet
    BY <1>6, CursorType DEF TimeOut, Inv, EngineOK, TypeInv
  <2>2. PICK win \in WindowSet :
          /\ win = [windows[waiting] EXCEPT !.status = "timed_out", !.cursor = @ + 1]
          /\ win.seat = windows[waiting].seat /\ win.cursor = windows[waiting].cursor + 1
          /\ win.status = "timed_out" /\ win.answer = windows[waiting].answer
    BY <2>1, TimedOutWindow
  <2>3. windows' = [windows EXCEPT ![waiting] = win]
    BY <1>6, <2>1, <2>2 DEF TimeOut, Inv, TypeInv
  <2>4. windows[waiting].status = "open" /\ windows[waiting].answer = NoAnswer
    BY <1>6, <2>1 DEF TimeOut, Inv, EngineOK, WindowsOK, WindowSet
  <2>5. /\ windows' \in Seq(WindowSet) /\ Grow /\ DOMAIN windows' = DOMAIN windows
        /\ windows'[waiting] = win
        /\ \A w \in DOMAIN windows : w # waiting => windows'[w] = windows[w]
    <3>1. windows[waiting].cursor \in Nat
      BY <2>1 DEF WindowSet
    <3>2. windows[waiting].cursor <= win.cursor
      BY <2>2, <3>1
    <3>3. QED
      BY <2>1, <2>2, <2>3, <2>4, <3>2, DecideGrows DEF Inv, TypeInv
  <2>6. seq' \in Nat /\ seq <= seq' /\ waiting' \in Nat /\ EngineOK'
    BY <1>4, <1>6 DEF TimeOut
  <2>7. WindowsOK'
    <3>1. ASSUME NEW w \in DOMAIN windows
          PROVE  windows[w].cursor \in Nat /\ windows'[w].cursor <= seq' + 1
                 /\ (windows'[w].answer # NoAnswer <=> windows'[w].status = "accepted")
                 /\ (windows'[w].status = "open" => windows'[w].cursor <= seq')
      <4>1. windows[w].cursor \in Nat
        BY CursorType DEF Inv, TypeInv
      <4>2. CASE w = waiting
        <5>1. windows'[w] = win /\ windows[w].cursor <= seq
          BY <2>4, <2>5, <4>2 DEF Inv, WindowsOK
        <5>2. win.cursor = windows[w].cursor + 1
          BY <2>2, <4>2
        <5>3. QED
          BY <1>0, <2>2, <2>4, <2>6, <4>1, <5>1, <5>2
      <4>3. CASE w # waiting
        BY <1>0, <2>5, <2>6, <4>1, <4>3 DEF Inv, WindowsOK
      <4>4. QED
        BY <4>1, <4>2, <4>3
    <3>2. QED
      BY <2>5, <3>1 DEF WindowsOK
  <2>8. QED
    BY <1>6, <2>5, <2>6, <2>7, EngineKeeps DEF TimeOut
<1>7. ASSUME NEW kind \in Kinds, OpenActionWindow(kind) PROVE Kept
  <2>1. CASE OpenWindowsOf(HumanSeat) = {}
    <3>1. PICK win \in WindowSet :
            /\ windows' = Append(windows, win) /\ waiting' = Len(windows) + 1
            /\ win.cursor = seq /\ win.status = "open" /\ win.answer = NoAnswer
      <4>1. Window(HumanSeat, kind, seq) \in WindowSet
        BY <1>0, SeatAssumption DEF Window, WindowSet
      <4>2. QED
        BY <1>7, <2>1, <4>1 DEF OpenActionWindow, Window
    <3>2. /\ windows' \in Seq(WindowSet) /\ Grow
          /\ Len(windows) + 1 \in DOMAIN windows' /\ windows'[Len(windows) + 1] = win
          /\ \A w \in DOMAIN windows : w \in DOMAIN windows' /\ windows'[w] = windows[w]
          /\ \A w \in DOMAIN windows' : w \in DOMAIN windows \/ w = Len(windows) + 1
      BY <3>1, OpenGrows DEF Inv, TypeInv
    <3>3. WindowsOK'
      BY <1>0, <1>7, <3>1, <3>2 DEF OpenActionWindow, Inv, WindowsOK
    <3>4. EngineOK' /\ waiting' \in Nat
      BY <1>7, <3>1, <3>2 DEF OpenActionWindow, Free, EngineOK, Inv, TypeInv
    <3>5. QED
      BY <1>0, <1>7, <3>2, <3>3, <3>4, EngineKeeps DEF OpenActionWindow
  <2>2. CASE OpenWindowsOf(HumanSeat) # {}
    <3>1. EngineOK' /\ UNCHANGED <<seq, waiting, windows, records, actions, httpVars>>
      BY <1>7, <2>2 DEF OpenActionWindow, Free, Inv, EngineOK
    <3>2. QED
      BY <1>0, <3>1, SameWindows, EngineKeeps
  <2>3. QED
    BY <2>1, <2>2
<1>8. QED
  BY <1>1, <1>2, <1>3, <1>5, <1>6, <1>7 DEF Launch, RunThread

---------------------------------------------------------------------------
(* A join keeps the seat it asked for; a session it adds has it too, and   *)
(* no other session has its token.                                         *)
LEMMA JoinKeeps ==
  ASSUME Inv, NEW j \in Joins, NEW r \in Joining, req' = [req EXCEPT ![j] = r],
         req[j].at # "idle" => r.seat = req[j].seat,
         UNCHANGED <<engineVars, waiting, records, actions, told>>,
         windows' \in Seq(WindowSet), Grow, WindowsOK',
         \A w \in DOMAIN windows : windows'[w] = windows[w],
         sessions' \subseteq sessions \cup {Session(j, r.seat)}
  PROVE  Kept
<1> USE SeatAssumption DEF engineVars, Requests
<1>1. /\ req'[j] = r /\ \A s \in Submits : req'[s] = req[s]
      /\ \A i \in Joins : i # j => req'[i] = req[i]
  BY DEF Inv, TypeInv
<1>2. r.at # "idle" /\ r.seat \in Seats
  BY DEF Joining
<1>3. TypeInv'
  <2>1. Session(j, r.seat) \in SessionSet
    BY <1>2 DEF Session, SessionSet
  <2>2. req' \in [Requests -> Resting \cup Joining \cup Asking \cup Answering]
    BY DEF Inv, TypeInv
  <2>3. QED
    BY <1>1, <2>1, <2>2 DEF Inv, TypeInv
<1>4. EngineOK'
  BY DEF Inv, EngineOK, Grow, WindowsOK
<1>5. RecordsOK'
  BY GrowKeepsRecords DEF Inv
<1>6. AnswersOK'
  BY <1>1 DEF Inv, AnswersOK, Backed, Grow
<1>7. \A x \in SessionSet : Seated(x) => Seated(x)'
  BY <1>1, <1>2 DEF Seated, SessionSet
<1>8. SeatsOK'
  <2>1. Seated(Session(j, r.seat))'
    BY <1>1, <1>2 DEF Seated, Session
  <2>2. \A s \in Submits : req[s] \in Asking \cup Answering => req[s].session \in SessionSet
    BY DEF Asking, Answering
  <2>3. QED
    BY <1>1, <1>7, <2>1, <2>2 DEF Inv, SeatsOK, TypeInv
<1>9. CursorsOK'
  <2>1. seq \in Nat
    BY DEF Inv, TypeInv
  <2>2. Session(j, r.seat).cursor = 0
    BY DEF Session
  <2>3. ASSUME NEW x \in sessions
        PROVE  x.cursor <= seq' + 1 /\ (OwnSeat(x)' => Covered(x)')
    BY <1>3, <2>1, ToldWindow, GrowKeepsCursors DEF Inv, CursorsOK
  <2>4. QED
    BY <2>1, <2>2, <2>3 DEF CursorsOK, Covered
<1>10. QED
  BY <1>1, <1>3, <1>4, <1>5, <1>6, <1>8, <1>9 DEF Inv, Kept

LEMMA JoinStep == ASSUME Inv, NEW j \in Joins, Join(j) PROVE Kept
<1> USE DEF storeVars
<1>0. /\ req[j] \in {Blank} \cup Joining /\ seq \in Nat /\ j \in Requests
      /\ req \in [Requests -> Resting \cup Joining \cup Asking \cup Answering]
  BY DEF Inv, TypeInv, Requests
<1>1. ASSUME windows' = windows, UNCHANGED engineVars
      PROVE  windows' \in Seq(WindowSet) /\ Grow /\ WindowsOK'
  BY <1>0, <1>1, SameWindows DEF engineVars
<1>2. ASSUME NEW seat \in Seats, IssueSession(j, seat) PROVE Kept
  <2>1. [at |-> "issued", seat |-> seat] \in Joining
    BY DEF Joining
  <2>2. QED
    BY <1>1, <1>2, <2>1, JoinKeeps DEF IssueSession, At
<1>3. ASSUME NEW place \in {"seat_check", "stub", "done"}, req[j].at # "idle",
             req' = [req EXCEPT ![j].at = place]
      PROVE  \E r \in Joining : req' = [req EXCEPT ![j] = r] /\ r.seat = req[j].seat
  <2>1. req[j] \in Joining
    BY <1>0, <1>3 DEF Blank
  <2> DEFINE r == [req[j] EXCEPT !.at = place]
  <2>2. r \in Joining /\ r.seat = req[j].seat
    BY <2>1 DEF Joining
  <2>3. req' = [req EXCEPT ![j] = r]
    BY <1>0, <1>3
  <2>4. QED
    BY <2>2, <2>3
<1>4. CASE RunHasHumanSeat(j) \/ IsHumanSeat(j)
  <2>1. PICK r \in Joining : req' = [req EXCEPT ![j] = r] /\ r.seat = req[j].seat
    BY <1>3, <1>4 DEF RunHasHumanSeat, IsHumanSeat, At
  <2>2. QED
    BY <1>1, <1>4, <2>1, JoinKeeps DEF RunHasHumanSeat, IsHumanSeat
<1>5. CASE EnsureStubActionWindow(j)
  <2>1. PICK r \in Joining : req' = [req EXCEPT ![j] = r] /\ r.seat = req[j].seat
    BY <1>3, <1>5 DEF EnsureStubActionWindow, At
  <2>2. CASE windows' = windows
    BY <1>1, <1>5, <2>1, <2>2, JoinKeeps DEF EnsureStubActionWindow
  <2>3. CASE windows' = Append(windows, Window(req[j].seat, "stub", 0))
    <3>1. PICK win \in WindowSet :
            /\ windows' = Append(windows, win)
            /\ win.cursor = 0 /\ win.status = "open" /\ win.answer = NoAnswer
      <4>1. req[j].seat \in Seats
        BY <2>1 DEF Joining
      <4>2. Window(req[j].seat, "stub", 0) \in WindowSet
        BY <4>1 DEF Window, WindowSet, Kinds
      <4>3. QED
        BY <2>3, <4>2 DEF Window
    <3>2. /\ windows' \in Seq(WindowSet) /\ Grow
          /\ windows'[Len(windows) + 1] = win
          /\ \A w \in DOMAIN windows : windows'[w] = windows[w]
          /\ \A w \in DOMAIN windows' : w \in DOMAIN windows \/ w = Len(windows) + 1
      BY <3>1, OpenGrows DEF Inv, TypeInv
    <3>3. WindowsOK'
      BY <1>0, <1>5, <3>1, <3>2 DEF EnsureStubActionWindow, engineVars, Inv, WindowsOK
    <3>4. QED
      BY <1>5, <2>1, <3>2, <3>3, JoinKeeps DEF EnsureStubActionWindow
  <2>4. QED
    BY <1>5, <2>2, <2>3 DEF EnsureStubActionWindow
<1>6. QED
  BY <1>2, <1>4, <1>5 DEF Join

---------------------------------------------------------------------------
(* A submission moves on: nobody else's request changes.                   *)
LEMMA SubmitMoves ==
  ASSUME Inv, NEW s \in Submits, NEW r \in Resting \cup Asking \cup Answering,
         req' = [req EXCEPT ![s] = r]
  PROVE  /\ req' \in [Requests -> Resting \cup Joining \cup Asking \cup Answering]
         /\ req'[s] = r
         /\ \A t \in Submits : t # s => req'[t] = req[t]
         /\ \A j \in Joins : req'[j] = req[j]
BY SeatAssumption DEF Inv, TypeInv, Requests

(* What a submission carries in each place, and whose session it has.      *)
LEMMA Carried ==
  ASSUME Inv, NEW s \in Submits
  PROVE  /\ req[s] \in Asking <=> req[s].at \in {"authenticated", "admitted"}
         /\ req[s] \in Answering <=> req[s].at = "replying"
         /\ req[s] \in Asking \cup Answering =>
              /\ req[s].session \in SessionSet /\ req[s].message \in MessageSet
              /\ Seated(req[s].session)
         /\ req[s] \in Answering => req[s].result \in Results
<1>1. req[s] \in Resting \cup Asking \cup Answering
  BY DEF Inv, TypeInv
<1>2. QED
  BY <1>1 DEF Resting, Asking, Answering, Inv, SeatsOK

LEMMA SeatedStays ==
  ASSUME \A j \in Joins : req'[j] = req[j]
  PROVE  \A x \in SessionSet : Seated(x)' <=> Seated(x)
BY DEF Seated, SessionSet

LEMMA SubmitKeeps ==
  ASSUME Inv, NEW s \in Submits, NEW r \in Resting \cup Asking \cup Answering,
         req' = [req EXCEPT ![s] = r],
         UNCHANGED <<engineVars, waiting, storeVars, sessions, told>>,
         r \in Asking => r.message.window \in DOMAIN windows,
         r \in Answering => Backed([window |-> r.message.window, answer |-> r.message.answer,
                                    result |-> r.result]),
         r \in Asking \cup Answering => Seated(r.session)
  PROVE  Kept
<1> USE DEF engineVars, storeVars
<1>1. /\ req' \in [Requests -> Resting \cup Joining \cup Asking \cup Answering]
      /\ req'[s] = r
      /\ \A t \in Submits : t # s => req'[t] = req[t]
      /\ \A j \in Joins : req'[j] = req[j]
  BY SubmitMoves
<1>2. TypeInv'
  BY <1>1 DEF Inv, TypeInv
<1>3. WindowsOK' /\ EngineOK' /\ RecordsOK'
  BY DEF Inv, WindowsOK, EngineOK, RecordsOK
<1>4. AnswersOK'
  BY <1>1 DEF Inv, AnswersOK, Backed
<1>5. SeatsOK'
  <2>1. r \in Asking \cup Answering => r.session \in SessionSet
    BY DEF Asking, Answering
  <2>2. \A x \in SessionSet : Seated(x)' <=> Seated(x)
    BY <1>1, SeatedStays
  <2>3. \A t \in Submits : req[t] \in Asking \cup Answering => req[t].session \in SessionSet
    BY DEF Asking, Answering
  <2>4. ASSUME NEW t \in Submits, req'[t] \in Asking \cup Answering
        PROVE  Seated(req[t].session)'
    <3>1. CASE t = s
      BY <1>1, <2>1, <2>2, <2>4, <3>1
    <3>2. CASE t # s
      BY <1>1, <2>2, <2>3, <2>4, <3>2 DEF Inv, SeatsOK
    <3>3. QED
      BY <3>1, <3>2
  <2>5. \A x \in sessions : Seated(x)'
    BY <2>2 DEF Inv, SeatsOK, TypeInv
  <2>6. QED
    BY <2>4, <2>5 DEF SeatsOK
<1>6. CursorsOK'
  BY DEF Inv, CursorsOK, OwnSeat, Covered, WindowsOf
<1>7. Grow
  BY SameWindows DEF Inv, TypeInv
<1>8. QED
  BY <1>1, <1>2, <1>3, <1>4, <1>5, <1>6, <1>7 DEF Inv, Kept

LEMMA AskStep ==
  ASSUME Inv, NEW s \in Submits,
         \/ \E session \in sessions, message \in Messages : Authenticate(s, session, message)
         \/ ReadRunStatus(s) \/ Reject(s)
  PROVE  Kept
<1>1. ASSUME NEW session \in sessions, NEW message \in Messages,
             Authenticate(s, session, message)
      PROVE  Kept
  <2> DEFINE r == [at |-> "authenticated", session |-> session, message |-> message]
  <2>1. message \in MessageSet /\ message.window \in DOMAIN windows
    <3>1. PICK w \in DOMAIN windows, k \in Keys, a \in Answers, late \in {0, 1} :
            message = [window |-> w, key |-> k, answer |-> a,
                       revision |-> windows[w].opened + late]
      BY DEF Messages
    <3>2. windows[w].opened + late \in Nat /\ w \in Nat
      <4>1. windows[w] \in WindowSet
        BY CursorType DEF Inv, TypeInv
      <4>2. windows[w].opened \in Nat
        BY <4>1 DEF WindowSet
      <4>3. w \in Nat
        BY DEF Inv, TypeInv
      <4>4. QED
        BY <4>2, <4>3
    <3>3. QED
      BY <3>1, <3>2 DEF MessageSet
  <2>2. r \in Asking /\ Seated(session)
    BY <2>1 DEF Asking, Inv, TypeInv, SeatsOK
  <2>3. r \notin Answering
    BY DEF Answering
  <2>4. QED
    BY <1>1, <2>1, <2>2, <2>3, SubmitKeeps DEF Authenticate
<1>2. [at |-> "done"] \in Resting /\ [at |-> "done"] \notin Asking \cup Answering
  BY DEF Resting, Asking, Answering
<1>3. CASE Reject(s)
  BY <1>2, <1>3, SubmitKeeps DEF Reject
<1>4. CASE ReadRunStatus(s)
  <2>1. CASE Running
    <3> DEFINE r == [req[s] EXCEPT !.at = "admitted"]
    <3>1. req[s] \in Asking
      BY <1>4, Carried DEF ReadRunStatus, At
    <3>2. r \in Asking /\ r.message = req[s].message /\ r.session = req[s].session
      BY <3>1 DEF Asking
    <3>3. r \notin Answering
      BY <3>1 DEF Asking, Answering
    <3>4. req' = [req EXCEPT ![s] = r]
      BY <1>4, <2>1 DEF ReadRunStatus, Inv, TypeInv, Requests
    <3>5. r.message.window \in DOMAIN windows /\ Seated(r.session)
      BY <3>1, <3>2, Carried DEF Inv, AnswersOK
    <3>6. UNCHANGED <<engineVars, waiting, storeVars, sessions, told>>
      BY <1>4 DEF ReadRunStatus
    <3>7. QED
      BY <3>2, <3>3, <3>4, <3>5, <3>6, SubmitKeeps
  <2>2. CASE ~Running
    <3>1. req' = [req EXCEPT ![s] = [at |-> "done"]]
      BY <1>4, <2>2 DEF ReadRunStatus
    <3>2. UNCHANGED <<engineVars, waiting, storeVars, sessions, told>>
      BY <1>4 DEF ReadRunStatus
    <3>3. QED
      BY <1>2, <3>1, <3>2, SubmitKeeps
  <2>3. QED
    BY <2>1, <2>2
<1>5. QED
  BY <1>1, <1>3, <1>4

LEMMA ReplyCarries ==
  ASSUME Inv, NEW s \in Submits, At(s, "admitted"), NEW result \in Results, Reply(s, result)
  PROVE  \E r \in Answering :
           /\ req' = [req EXCEPT ![s] = r] /\ r \notin Asking
           /\ r.message = req[s].message /\ r.session = req[s].session
           /\ r.result = result /\ Seated(r.session)
<1> DEFINE r == [at |-> "replying", session |-> req[s].session,
                 message |-> req[s].message, result |-> result]
<1>1. req[s] \in Asking
  BY Carried DEF At
<1>2. r \in Answering /\ r \notin Asking
  BY <1>1 DEF Asking, Answering
<1>3. Seated(r.session)
  BY <1>1, Carried
<1>4. req' = [req EXCEPT ![s] = r]
  BY DEF Reply
<1>5. QED
  BY <1>2, <1>3, <1>4

LEMMA DuplicateStep == ASSUME Inv, NEW s \in Submits, Duplicate(s) PROVE Kept
<1>1. PICK rec \in RecordsFor(req[s].message) :
        /\ rec.fingerprint = Fingerprint(req[s].message)
        /\ Reply(s, rec.result)
  BY DEF Duplicate
<1>2. rec \in records /\ rec.window = req[s].message.window
  BY <1>1 DEF RecordsFor
<1>3. rec.result \in Results /\ rec.fingerprint[2] = req[s].message.answer
  BY <1>1, <1>2 DEF Fingerprint, Inv, TypeInv, RecordSet
<1>4. PICK r \in Answering :
        /\ req' = [req EXCEPT ![s] = r] /\ r \notin Asking
        /\ r.message = req[s].message /\ r.session = req[s].session
        /\ r.result = rec.result /\ Seated(r.session)
  BY <1>1, <1>3, ReplyCarries DEF Duplicate
<1>5. Backed([window |-> r.message.window, answer |-> r.message.answer, result |-> r.result])
  BY <1>2, <1>3, <1>4 DEF Backed
<1>6. QED
  BY <1>4, <1>5, SubmitKeeps DEF Duplicate

(* The window an accepted submission leaves.                               *)
Accepted(old, answer, result) ==
  [old EXCEPT !.status = "accepted", !.answer = answer,
              !.revision = result.revision, !.cursor = result.cursor]

LEMMA AcceptedWindow ==
  ASSUME NEW old \in WindowSet, NEW answer \in Answers, NEW result \in Results
  PROVE  /\ Accepted(old, answer, result) \in WindowSet
         /\ Accepted(old, answer, result).seat = old.seat
         /\ Accepted(old, answer, result).cursor = result.cursor
         /\ Accepted(old, answer, result).status = "accepted"
         /\ Accepted(old, answer, result).answer = answer
<1>1. result.revision \in Nat /\ result.cursor \in Nat
  BY DEF Results
<1>2. ASSUME NEW n \in Nat, NEW c \in Nat
      PROVE  [old EXCEPT !.status = "accepted", !.answer = answer,
                         !.revision = n, !.cursor = c] \in WindowSet
  BY DEF WindowSet
<1>3. Accepted(old, answer, result) \in WindowSet
  BY <1>1, <1>2 DEF Accepted
<1>4. DOMAIN old = {"seat", "kind", "opened", "revision", "cursor", "status", "answer"}
  BY DEF WindowSet
<1>5. QED
  BY <1>3, <1>4 DEF Accepted

(* An accepted submission: the open window takes its answer, one record is *)
(* added with an event no other has, and the reply is on its way.          *)
LEMMA AcceptStep == ASSUME Inv, NEW s \in Submits, Accept(s) PROVE Kept
<1> DEFINE m      == req[s].message
           v      == m.window
           result == [event |-> actions + 1, revision |-> windows[v].revision + 1,
                      cursor |-> windows[v].cursor + 1]
           rec    == [window |-> v, key |-> m.key, result |-> result,
                      fingerprint |-> Fingerprint(m)]
<1>1. /\ At(s, "admitted") /\ Reply(s, result)
      /\ windows[v].status = "open"
      /\ records' = records \cup {rec} /\ actions' = actions + 1
      /\ UNCHANGED <<engineVars, waiting, sessions, told>>
  BY DEF Accept, Acceptable
<1>2. m \in MessageSet /\ v \in DOMAIN windows /\ seq \in Nat /\ actions \in Nat
  BY <1>1, Carried DEF At, Inv, TypeInv, AnswersOK
<1>3. /\ windows[v] \in WindowSet /\ windows[v].revision \in Nat /\ windows[v].cursor \in Nat
      /\ windows[v].answer = NoAnswer /\ windows[v].cursor <= seq
  <2>1. windows[v] \in WindowSet
    BY <1>2, CursorType DEF Inv, TypeInv
  <2>2. QED
    BY <1>1, <1>2, <2>1 DEF WindowSet, Inv, WindowsOK
<1>4. result \in Results /\ rec \in RecordSet /\ m.answer \in Answers /\ rec.fingerprint[2] = m.answer
  BY <1>2, <1>3 DEF Results, RecordSet, MessageSet, Fingerprint
<1> HIDE DEF m, v, result, rec
<1> DEFINE win == Accepted(windows[v], m.answer, result)
<1>5. /\ win \in WindowSet /\ win.seat = windows[v].seat /\ win.cursor = result.cursor
      /\ win.status = "accepted" /\ win.answer = m.answer
  BY <1>3, <1>4, AcceptedWindow
<1>6. windows' = [windows EXCEPT ![v] = win]
  BY <1>2 DEF Accept, Inv, TypeInv, m, v, result, Accepted
<1> HIDE DEF win
<1>7. /\ windows' \in Seq(WindowSet) /\ Grow /\ DOMAIN windows' = DOMAIN windows
      /\ windows'[v] = win
      /\ \A w \in DOMAIN windows : w # v => windows'[w] = windows[w]
  <2>1. windows[v].cursor <= win.cursor
    BY <1>3, <1>5 DEF result
  <2>2. QED
    BY <1>2, <1>3, <1>5, <1>6, <2>1, DecideGrows DEF Inv, TypeInv
<1>8. PICK r \in Answering :
        /\ req' = [req EXCEPT ![s] = r] /\ r \notin Asking
        /\ r.message = m /\ r.session = req[s].session
        /\ r.result = result /\ Seated(r.session)
  BY <1>1, <1>4, ReplyCarries DEF m
<1>9. /\ req' \in [Requests -> Resting \cup Joining \cup Asking \cup Answering]
      /\ req'[s] = r
      /\ \A t \in Submits : t # s => req'[t] = req[t]
      /\ \A j \in Joins : req'[j] = req[j]
  BY <1>8, SubmitMoves
<1>10. \A q \in records : q.window # v /\ q.result.event <= actions /\ q.result.event \in Nat
  <2>1. \A q \in RecordSet : q.fingerprint[2] # NoAnswer /\ q.result.event \in Nat
    BY DEF RecordSet, Results, Answers, NoAnswer
  <2>2. QED
    BY <1>3, <2>1 DEF Inv, RecordsOK, TypeInv
<1>11. TypeInv'
  BY <1>1, <1>2, <1>4, <1>7, <1>8, <1>9 DEF Inv, TypeInv, engineVars
<1>12. WindowsOK'
  <2>1. win.answer # NoAnswer
    BY <1>4, <1>5 DEF Answers, NoAnswer
  <2>2. win.cursor <= seq + 1
    BY <1>2, <1>3, <1>5 DEF result
  <2>3. seq' = seq
    BY <1>1 DEF engineVars
  <2>4. QED
    BY <1>5, <1>7, <2>1, <2>2, <2>3 DEF Inv, WindowsOK
<1>13. EngineOK'
  <2>1. UNCHANGED <<launch, seq, waiting>>
    BY <1>1 DEF engineVars
  <2>2. QED
    BY <1>5, <1>7, <2>1 DEF Inv, EngineOK
<1>14. RecordsOK'
  <2>1. rec.window = v /\ rec.result = result /\ result.event = actions + 1 /\ result.cursor = win.cursor
    BY <1>5 DEF result, rec
  <2>2. ASSUME NEW q \in records'
        PROVE  /\ q.window \in DOMAIN windows' /\ windows'[q.window].answer = q.fingerprint[2]
               /\ windows'[q.window].cursor = q.result.cursor /\ q.result.event <= actions'
    <3>1. CASE q \in records
      <4>1. /\ q.window \in DOMAIN windows /\ q.window # v
            /\ windows[q.window].answer = q.fingerprint[2]
            /\ windows[q.window].cursor = q.result.cursor
        BY <1>10, <3>1 DEF Inv, RecordsOK
      <4>2. q.result.event <= actions'
        BY <1>1, <1>2, <1>10, <3>1
      <4>3. QED
        BY <1>7, <4>1, <4>2
    <3>2. CASE q = rec
      <4>1. q.window = v /\ q.fingerprint[2] = win.answer /\ q.result.cursor = win.cursor
        BY <1>4, <1>5, <2>1, <3>2
      <4>2. q.result.event = actions + 1
        BY <2>1, <3>2
      <4>3. q.result.event <= actions'
        BY <1>1, <1>2, <4>2
      <4>4. QED
        BY <1>2, <1>7, <4>1, <4>3
    <3>3. QED
      BY <1>1, <3>1, <3>2
  <2>3. \A q, p \in records' : q.window = p.window \/ q.result.event = p.result.event => q = p
    BY <1>1, <1>2, <1>10, <2>1 DEF Inv, RecordsOK
  <2>4. QED
    BY <2>2, <2>3 DEF RecordsOK
<1>15. AnswersOK'
  <2>1. \A x : Backed(x) => Backed(x)'
    BY <1>1 DEF Backed
  <2>2. Backed([window |-> r.message.window, answer |-> r.message.answer,
                result |-> r.result])'
    BY <1>1, <1>4, <1>8 DEF Backed, v, rec
  <2>3. QED
    BY <1>1, <1>7, <1>8, <1>9, <2>1, <2>2 DEF Inv, AnswersOK
<1>16. SeatsOK'
  <2>1. \A x \in SessionSet : Seated(x)' <=> Seated(x)
    BY <1>9, SeatedStays
  <2>2. \A t \in Submits : req[t] \in Asking \cup Answering => req[t].session \in SessionSet
    BY DEF Asking, Answering
  <2>3. r.session \in SessionSet
    BY DEF Answering
  <2>4. QED
    BY <1>1, <1>8, <1>9, <2>1, <2>2, <2>3 DEF Inv, SeatsOK, TypeInv
<1>17. CursorsOK'
  <2>1. seq <= seq' /\ told \subseteq told' /\ sessions' = sessions
    BY <1>1, <1>2 DEF engineVars
  <2>2. QED
    BY <1>7, <1>11, <2>1, ToldWindow, GrowKeepsCursors DEF Inv, CursorsOK
<1>18. QED
  BY <1>1, <1>7, <1>9, <1>11, <1>12, <1>13, <1>14, <1>15, <1>16, <1>17 DEF Inv, Kept

(* The reply: the session is written back with the cursor of the result,   *)
(* which is the cursor of the window the result is about.                  *)
LEMMA WriteBackStep == ASSUME Inv, NEW s \in Submits, WriteSessionBack(s) PROVE Kept
<1> DEFINE r    == req[s]
           back == [r.session EXCEPT !.cursor = r.result.cursor]
           tell == [token |-> r.session.token, window |-> r.message.window,
                    key |-> r.message.key, answer |-> r.message.answer, result |-> r.result]
           done == [at |-> "done"]
<1>0. /\ sessions' \subseteq sessions \cup {back} /\ told' = told \cup {tell}
      /\ req' = [req EXCEPT ![s] = done]
      /\ UNCHANGED <<engineVars, waiting, storeVars>>
  BY DEF WriteSessionBack
<1>2. /\ r \in Answering /\ r.session \in SessionSet /\ r.message \in MessageSet
      /\ Seated(r.session) /\ r.result \in Results
  BY Carried DEF WriteSessionBack, At
<1>3. PICK x \in SessionSet :
        /\ x = back /\ x.token = r.session.token /\ x.seat = r.session.seat
        /\ x.cursor = r.result.cursor
  <2>1. /\ back \in SessionSet /\ back.token = r.session.token
        /\ back.seat = r.session.seat /\ back.cursor = r.result.cursor
    BY <1>2 DEF SessionSet, Results
  <2>2. QED
    BY <2>1
<1>4. PICK t \in ToldSet :
        /\ t = tell /\ t.token = x.token /\ t.window = r.message.window
        /\ t.answer = r.message.answer /\ t.result = r.result
  <2>1. /\ tell \in ToldSet /\ tell.token = x.token /\ tell.window = r.message.window
        /\ tell.answer = r.message.answer /\ tell.result = r.result
    BY <1>2, <1>3 DEF ToldSet, MessageSet, SessionSet
  <2>2. QED
    BY <2>1
<1>1. /\ sessions' \subseteq sessions \cup {x} /\ told' = told \cup {t}
      /\ req' = [req EXCEPT ![s] = done]
      /\ UNCHANGED <<engineVars, waiting, storeVars>>
  BY <1>0, <1>3, <1>4
<1>5. PICK rec \in records : rec.window = t.window /\ rec.fingerprint[2] = t.answer /\ rec.result = t.result
  BY <1>2, <1>4 DEF Inv, AnswersOK, Backed
<1>6. t.window \in DOMAIN windows /\ x.cursor = windows[t.window].cursor
  BY <1>3, <1>4, <1>5 DEF Inv, RecordsOK
<1>7. done \in Resting /\ done \notin Asking \cup Answering
  BY DEF Resting, Asking, Answering
<1>8. /\ req' \in [Requests -> Resting \cup Joining \cup Asking \cup Answering]
      /\ req'[s] = done
      /\ \A u \in Submits : u # s => req'[u] = req[u]
      /\ \A j \in Joins : req'[j] = req[j]
  BY <1>1, <1>7, SubmitMoves
<1> HIDE DEF r, back, tell, done
<1>9. TypeInv'
  BY <1>1, <1>3, <1>4, <1>7, <1>8 DEF Inv, TypeInv, engineVars, storeVars
<1>10. WindowsOK' /\ EngineOK' /\ RecordsOK'
  BY <1>1 DEF Inv, WindowsOK, EngineOK, RecordsOK, engineVars, storeVars
<1>11. AnswersOK'
  <2>1. \A y : Backed(y)' <=> Backed(y)
    BY <1>1 DEF Backed, storeVars
  <2>2. Backed(t)
    BY <1>5 DEF Backed
  <2>3. windows' = windows
    BY <1>1 DEF storeVars
  <2>4. QED
    BY <1>1, <1>7, <1>8, <2>1, <2>2, <2>3 DEF Inv, AnswersOK
<1>12. SeatsOK'
  <2>1. \A y \in SessionSet : Seated(y)' <=> Seated(y)
    BY <1>8, SeatedStays
  <2>2. \A u \in Submits : req[u] \in Asking \cup Answering => req[u].session \in SessionSet
    BY DEF Asking, Answering
  <2>3. Seated(x)
    BY <1>2, <1>3 DEF Seated
  <2>4. \A y \in sessions' : Seated(y)'
    BY <1>1, <1>3, <2>1, <2>3 DEF Inv, SeatsOK, TypeInv
  <2>5. \A u \in Submits : req'[u] \in Asking \cup Answering => Seated(req[u].session)'
    BY <1>7, <1>8, <2>1, <2>2 DEF Inv, SeatsOK
  <2>6. QED
    BY <2>4, <2>5 DEF SeatsOK
<1>13. CursorsOK'
  <2>1. Grow /\ seq \in Nat /\ seq' = seq /\ windows' = windows
    BY <1>1, SameWindows DEF engineVars, storeVars, Inv, TypeInv
  <2>2. ASSUME NEW y \in sessions PROVE y.cursor <= seq' + 1 /\ (OwnSeat(y)' => Covered(y)')
    BY <1>1, <1>9, <2>1, ToldWindow, GrowKeepsCursors DEF Inv, CursorsOK
  <2>3. x.cursor <= seq' + 1
    BY <1>6, <2>1 DEF Inv, WindowsOK
  <2>4. OwnSeat(x)' => Covered(x)'
    <3>1. SUFFICES ASSUME OwnSeat(x)' PROVE Covered(x)'
      OBVIOUS
    <3>2. windows[t.window].seat = x.seat
      BY <1>1, <1>4, <2>1, <3>1 DEF OwnSeat
    <3>3. windows[t.window].cursor \in Nat
      BY <1>6, CursorType DEF Inv, TypeInv
    <3>4. QED
      BY <1>6, <2>1, <3>2, <3>3 DEF Covered, WindowsOf
  <2>5. QED
    BY <1>1, <2>2, <2>3, <2>4 DEF CursorsOK
<1>14. Grow
  BY <1>1, SameWindows DEF engineVars, storeVars, Inv, TypeInv
<1>15. QED
  BY <1>1, <1>8, <1>9, <1>10, <1>11, <1>12, <1>13, <1>14 DEF Inv, Kept

LEMMA NextKept == ASSUME Inv, [Next]_vars PROVE Kept
<1>1. ASSUME UNCHANGED vars PROVE Kept
  <2> USE <1>1 DEF vars, engineVars, storeVars, httpVars
  <2>1. TypeInv' /\ WindowsOK' /\ EngineOK' /\ RecordsOK'
    BY DEF Inv, TypeInv, WindowsOK, EngineOK, RecordsOK
  <2>2. AnswersOK' /\ SeatsOK' /\ CursorsOK'
    BY DEF Inv, AnswersOK, Backed, SeatsOK, Seated, CursorsOK, OwnSeat, Covered, WindowsOf
  <2>3. Grow
    BY SameWindows DEF Inv, TypeInv
  <2>4. QED
    BY <2>1, <2>2, <2>3 DEF Inv, Kept
<1>2. ASSUME NEW s \in Submits, Submit(s) PROVE Kept
  BY <1>2, AskStep, DuplicateStep, AcceptStep, WriteBackStep DEF Submit
<1>3. QED
  BY <1>1, <1>2, EngineStep, JoinStep DEF Next

LEMMA InvHolds == Spec => []Inv
<1>1. Inv /\ [Next]_vars => Inv'
  BY NextKept DEF Kept
<1>2. QED
  BY InitInv, <1>1, PTL DEF Spec

(* RetriesAgree: a retry is told what the first submission was told, and   *)
(* no two accepted windows share an event.                                 *)
THEOREM RetriesAgreeHolds == Spec => []RetriesAgree
<1>1. Inv => RetriesAgree
  <2>1. ASSUME Inv, NEW t \in told, NEW u \in told
        PROVE  (t.window = u.window) <=> (t.result.event = u.result.event)
    <3>1. PICK r \in records : r.window = t.window /\ r.result = t.result
      BY <2>1 DEF Inv, AnswersOK, Backed
    <3>2. PICK q \in records : q.window = u.window /\ q.result = u.result
      BY <2>1 DEF Inv, AnswersOK, Backed
    <3>3. QED
      BY <2>1, <3>1, <3>2 DEF Inv, RecordsOK
  <2>2. QED
    BY <2>1 DEF RetriesAgree
<1>2. QED
  BY <1>1, InvHolds, PTL

---------------------------------------------------------------------------
(* A bounded set of naturals has a greatest element, the smallest of its   *)
(* upper bounds.                                                           *)
LEMMA LatestIsGreatest ==
  ASSUME NEW cursors \in SUBSET Nat, cursors # {}, NEW bound \in Nat,
         \A c \in cursors : c <= bound
  PROVE  Latest(cursors) \in cursors /\ \A c \in cursors : c <= Latest(cursors)
<1> DEFINE bounds == {n \in Nat : \A c \in cursors : c <= n}
<1>1. PICK m \in bounds : \A n \in bounds : <<n, m>> \notin OpToRel(<, Nat)
  <2>1. bounds \subseteq Nat /\ bounds # {}
    OBVIOUS
  <2>2. QED
    BY <2>1, NatLessThanWellFounded, WFMin
<1>2. \A n \in bounds : ~(n < m)
  BY <1>1 DEF OpToRel
<1>3. m \in cursors
  <2>1. SUFFICES ASSUME m \notin cursors PROVE FALSE
    OBVIOUS
  <2>2. \A c \in cursors : c <= m - 1 /\ m - 1 \in Nat
    BY <2>1
  <2>3. m - 1 \in bounds
    BY <2>2
  <2>4. QED
    BY <1>2, <2>3
<1>4. \E c \in cursors : \A d \in cursors : d <= c
  BY <1>3
<1>5. QED
  BY <1>4 DEF Latest

(* The cursor a session is shown is the greatest of its own and those of   *)
(* the windows of its seat.                                                *)
Cursors(x) == {x.cursor} \cup {windows[w].cursor : w \in WindowsOf(x.seat)}

Greatest(x) == /\ Cursors(x) \subseteq Nat
               /\ StateCursor(x) \in Cursors(x) /\ \A c \in Cursors(x) : c <= StateCursor(x)

AllGreatest == \A x \in sessions : Greatest(x)

LEMMA StateCursorIsGreatest == Inv => AllGreatest
<1> SUFFICES ASSUME Inv, NEW x \in sessions PROVE Greatest(x)
  BY DEF AllGreatest
<1>1. seq + 1 \in Nat /\ Cursors(x) # {}
  BY DEF Inv, TypeInv, Cursors
<1>2. \A w \in WindowsOf(x.seat) : windows[w].cursor \in Nat /\ windows[w].cursor <= seq + 1
  BY CursorType DEF WindowsOf, Inv, TypeInv, WindowsOK
<1>3. x.cursor \in Nat /\ x.cursor <= seq + 1
  BY DEF Inv, TypeInv, SessionSet, CursorsOK
<1>4. Cursors(x) \in SUBSET Nat /\ \A c \in Cursors(x) : c <= seq + 1
  BY <1>2, <1>3 DEF Cursors
<1>5. StateCursor(x) = Latest(Cursors(x))
  BY DEF StateCursor, Cursors
<1>6. QED
  BY <1>1, <1>4, <1>5, LatestIsGreatest DEF Greatest

(* CursorNeverBack: a slow reply may write an older cursor over a newer    *)
(* one in the session, but the windows of the seat, which are consulted    *)
(* too, are never behind a cursor the client was given.                    *)
THEOREM CursorNeverBackHolds == Spec => CursorNeverBack
<1>0. Inv' => AllGreatest'
  BY StateCursorIsGreatest, PTL
<1>1. ASSUME Inv, Kept, NEW x \in sessions, NEW y \in sessions', x.token = y.token, OwnSeat(y)'
      PROVE  StateCursor(x) <= StateCursor(y)'
  <2> USE <1>1
  <2>1. x.seat = y.seat
    BY DEF Kept, Inv, SeatsOK, Seated, TypeInv, SessionSet
  <2>2. OwnSeat(x)
    <3>1. \A t \in told : t.token = x.token => windows'[t.window].seat = y.seat
      BY DEF Kept, OwnSeat
    <3>2. QED
      BY <2>1, <3>1, ToldWindow DEF Kept, OwnSeat, Grow
  <2>3. Cursors(x) \subseteq Nat /\ StateCursor(x) \in Cursors(x)
    BY StateCursorIsGreatest DEF AllGreatest, Greatest
  <2>4. /\ Cursors(y)' \subseteq Nat /\ StateCursor(y)' \in Cursors(y)'
        /\ \A c \in Cursors(y)' : c <= StateCursor(y)'
    BY <1>0 DEF Kept, AllGreatest, Greatest
  <2>5. \A w \in WindowsOf(x.seat) : \E c \in Cursors(y)' : windows[w].cursor <= c
    BY <2>1 DEF WindowsOf, Cursors, Kept, Grow
  <2>6. ASSUME NEW c \in Cursors(x), c # 0 PROVE \E d \in Cursors(y)' : c <= d
    <3>1. PICK w \in WindowsOf(x.seat) : c <= windows[w].cursor
      <4>1. CASE c = x.cursor
        BY <2>2, <2>6, <4>1 DEF Inv, CursorsOK, Covered
      <4>2. CASE c # x.cursor
        BY <2>3, <4>2 DEF Cursors
      <4>3. QED
        BY <4>1, <4>2
    <3>2. PICK d \in Cursors(y)' : windows[w].cursor <= d
      BY <2>5
    <3>3. c \in Nat /\ d \in Nat /\ windows[w].cursor \in Nat
      BY <2>3, <2>4 DEF Cursors
    <3>4. QED
      BY <3>1, <3>2, <3>3
  <2>7. QED
    BY <2>3, <2>4, <2>6
<1>2. Inv /\ [Next]_vars
        => [\A s \in sessions : \A t \in sessions' :
              s.token = t.token /\ OwnSeat(t)' => StateCursor(s) <= StateCursor(t)']_vars
  BY <1>1, NextKept
<1>3. QED
  BY <1>2, InvHolds, PTL DEF Spec, CursorNeverBack

---------------------------------------------------------------------------
(* The refinement: how the abstract specification sees the windows.        *)
Decisions == [w \in DOMAIN windows |-> Outcome(w)]
ToldPairs == {<<t.window, t.answer>> : t \in told}
Decided   == Answers \cup {"open", "timed_out"}

LEMMA DecisionsType ==
  ASSUME Inv
  PROVE  /\ Decisions \in Seq(Decided) /\ Len(Decisions) = Len(windows)
         /\ DOMAIN Decisions = DOMAIN windows
         /\ \A w \in DOMAIN windows : Decisions[w] = Outcome(w)
<1>1. \A w \in DOMAIN windows : Outcome(w) \in Decided
  <2>1. \A w \in DOMAIN windows : windows[w].answer \in Answers \cup {NoAnswer}
    BY CursorType DEF Inv, TypeInv, WindowSet
  <2>2. QED
    BY <2>1 DEF Outcome, Decided
<1>2. DOMAIN windows = 1..Len(windows) /\ Len(windows) \in Nat
  BY DEF Inv, TypeInv
<1>3. QED
  BY <1>1, <1>2 DEF Decisions

LEMMA AnsweredOutcome ==
  ASSUME Inv, NEW w \in DOMAIN windows, windows[w].answer # NoAnswer
  PROVE  Outcome(w) = windows[w].answer
BY DEF Outcome, Inv, WindowsOK

(* A window opens.                                                         *)
LEMMA OpenMaps ==
  ASSUME Inv, NEW win \in WindowSet, windows' = Append(windows, win),
         win.status = "open", win.answer = NoAnswer, UNCHANGED <<told, acted>>
  PROVE  Outcomes!OpenWindow
<1>1. /\ windows' \in Seq(WindowSet) /\ Len(windows') = Len(windows) + 1
      /\ windows'[Len(windows) + 1] = win
      /\ \A w \in DOMAIN windows : w \in DOMAIN windows' /\ windows'[w] = windows[w]
  BY DEF Inv, TypeInv
<1>2. PICK n \in Nat : n = Len(windows) + 1
  BY DEF Inv, TypeInv
<1>3. DOMAIN windows = 1..Len(windows) /\ DOMAIN windows' = 1..n /\ Len(windows) \in Nat
  BY <1>1, <1>2 DEF Inv, TypeInv
<1>4. Outcome(n)' = "open"
  BY <1>1, <1>2 DEF Outcome
<1>5. \A w \in DOMAIN windows : Outcome(w)' = Outcome(w)
  BY <1>1 DEF Outcome
<1>6. /\ Decisions \in Seq(Decided) /\ Len(Decisions) + 1 = n /\ "open" \in Decided
      /\ \A w \in 1..Len(windows) : Decisions[w] = Outcome(w)
  BY <1>2, <1>3, DecisionsType DEF Decided
<1>7. /\ Append(Decisions, "open") \in Seq(Decided) /\ Len(Append(Decisions, "open")) = n
      /\ Append(Decisions, "open")[n] = "open"
      /\ \A w \in 1..Len(windows) : Append(Decisions, "open")[w] = Outcome(w)
  BY <1>2, <1>3, <1>6, AppendProperties
<1>8. \A w \in 1..n : Decisions'[w] = Append(Decisions, "open")[w]
  <2>1. \A w \in 1..n : Decisions'[w] = Outcome(w)' /\ (w = n \/ w \in 1..Len(windows))
    BY <1>2, <1>3 DEF Decisions
  <2>2. QED
    BY <1>3, <1>4, <1>5, <1>7, <2>1
<1>9. Decisions' \in Seq(Decided) /\ Len(Decisions') = n
  <2>1. \A w \in 1..n : Outcome(w)' \in Decided
    <3>1. \A w \in 1..n : w = n \/ w \in 1..Len(windows)
      BY <1>2, <1>3
    <3>2. \A w \in 1..Len(windows) : Decisions[w] \in Decided
      BY <1>6, <1>2, <1>3
    <3>3. QED
      BY <1>3, <1>4, <1>5, <1>6, <3>1, <3>2
  <2>2. Decisions' \in [1..n -> Decided]
    BY <1>3, <2>1 DEF Decisions
  <2>3. QED
    BY <2>2
<1>10. Decisions' = Append(Decisions, "open")
  BY <1>7, <1>8, <1>9, SeqEqual
<1>11. QED
  BY <1>10 DEF Outcomes!OpenWindow, Outcomes!Open, Decisions

(* An open window is decided.                                              *)
LEMMA DecideMaps ==
  ASSUME Inv, NEW v \in DOMAIN windows, NEW decision,
         Outcome(v) = "open", Outcome(v)' = decision, DOMAIN windows' = DOMAIN windows,
         \A w \in DOMAIN windows : w # v => windows'[w] = windows[w], told' = told
  PROVE  Outcomes!Decide(v, decision)
<1>1. Decisions' = [Decisions EXCEPT ![v] = decision]
  <2>1. \A w \in DOMAIN windows : w # v => Outcome(w)' = Outcome(w)
    BY DEF Outcome
  <2>2. QED
    BY <2>1 DEF Decisions
<1>2. Decisions[v] = "open"
  BY DEF Decisions
<1>3. QED
  BY <1>1, <1>2 DEF Outcomes!Decide, Outcomes!Open, Decisions

(* Everything else is a stutter, or the telling or acting upon a decision. *)
Maps == Outcomes!Next \/ UNCHANGED Outcomes!vars

LEMMA StutterMaps == ASSUME UNCHANGED <<windows, told, acted>> PROVE Maps
<1>1. Decisions' = Decisions
  BY DEF Decisions, Outcome
<1>2. QED
  BY <1>1 DEF Maps, Outcomes!vars, Decisions

LEMMA EngineMaps == ASSUME Inv, Launch \/ RunThread \/ Expire PROVE Maps
<1> USE DEF engineVars, storeVars, httpVars
<1>1. CASE \/ ConfigureHumanSeat \/ StartRun \/ Expire \/ BeginGame \/ OthersPlay
           \/ \E completed \in BOOLEAN : EndGame(completed)
  BY <1>1, StutterMaps
  DEF ConfigureHumanSeat, StartRun, Expire, BeginGame, OthersPlay, EndGame
<1>2. ASSUME NEW kind \in Kinds, OpenActionWindow(kind) PROVE Maps
  <2>1. CASE OpenWindowsOf(HumanSeat) = {}
    <3>1. Window(HumanSeat, kind, seq) \in WindowSet
      BY SeatAssumption DEF Window, WindowSet, Inv, TypeInv
    <3>2. Outcomes!OpenWindow
      BY <1>2, <2>1, <3>1, OpenMaps DEF OpenActionWindow, Window
    <3>3. QED
      BY <3>2 DEF Maps, Outcomes!Next
  <2>2. CASE OpenWindowsOf(HumanSeat) # {}
    BY <1>2, <2>2, StutterMaps DEF OpenActionWindow
  <2>3. QED
    BY <2>1, <2>2
<1>3. ASSUME waiting # 0
      PROVE  /\ waiting \in DOMAIN windows /\ windows[waiting] \in WindowSet
             /\ DOMAIN Decisions = DOMAIN windows /\ Decisions[waiting] = Outcome(waiting)
  BY <1>3, CursorType, DecisionsType DEF Inv, EngineOK, TypeInv
<1>4. CASE ReceiveAction
  <2>1. /\ windows[waiting].answer # NoAnswer /\ waiting # 0
        /\ acted' = acted \cup {<<waiting, windows[waiting].answer>>}
        /\ windows' = windows /\ told' = told
    BY <1>4 DEF ReceiveAction, Resolve
  <2>2. windows[waiting].answer \in Answers /\ Decisions[waiting] = windows[waiting].answer
    BY <1>3, <2>1, AnsweredOutcome DEF WindowSet
  <2>3. Decisions' = Decisions
    BY <2>1 DEF Decisions, Outcome
  <2>4. Outcomes!Act(waiting)
    BY <2>1, <2>2, <2>3 DEF Outcomes!Act, Decisions
  <2>5. QED
    BY <1>3, <2>1, <2>4 DEF Maps, Outcomes!Next, Decisions
<1>5. CASE TimeOut
  <2>1. /\ waiting # 0 /\ windows[waiting].answer = NoAnswer /\ told' = told
        /\ acted' = acted \cup {<<waiting, "timed_out">>}
        /\ windows' = [windows EXCEPT ![waiting].status = "timed_out",
                                      ![waiting].cursor = @ + 1]
    BY <1>5 DEF TimeOut, Resolve
  <2>2. Outcome(waiting) = "open"
    BY <1>3, <2>1 DEF Outcome, Inv, EngineOK
  <2>3. windows' = [windows EXCEPT ![waiting] =
                      [windows[waiting] EXCEPT !.status = "timed_out", !.cursor = @ + 1]]
    BY <1>3, <2>1 DEF Inv, TypeInv
  <2>4. PICK win \in WindowSet :
          /\ win = [windows[waiting] EXCEPT !.status = "timed_out", !.cursor = @ + 1]
          /\ win.seat = windows[waiting].seat /\ win.cursor = windows[waiting].cursor + 1
          /\ win.status = "timed_out" /\ win.answer = windows[waiting].answer
    BY <1>3, <2>1, TimedOutWindow
  <2>5. /\ DOMAIN windows' = DOMAIN windows /\ windows'[waiting] = win
        /\ \A w \in DOMAIN windows : w # waiting => windows'[w] = windows[w]
    BY <1>3, <2>1, <2>3, <2>4 DEF Inv, TypeInv
  <2>6. ASSUME NEW v \in DOMAIN windows, v = waiting PROVE Maps
    <3>1. Outcome(v)' = "timed_out"
      BY <2>1, <2>4, <2>5, <2>6 DEF Outcome
    <3>2. Outcomes!Decide(v, "timed_out")
      BY <2>1, <2>2, <2>5, <2>6, <3>1, DecideMaps
    <3>3. Outcomes!Expired(v)
      BY <2>1, <2>6, <3>2 DEF Outcomes!Expired, Outcomes!TimedOut
    <3>4. QED
      BY <3>3 DEF Maps, Outcomes!Next
  <2>7. QED
    BY <1>3, <2>1, <2>6
<1>6. QED
  BY <1>1, <1>2, <1>4, <1>5 DEF Launch, RunThread

LEMMA RequestMaps ==
  ASSUME Inv, (\E j \in Joins : Join(j)) \/ (\E s \in Submits : Submit(s)) PROVE Maps
<1> USE DEF engineVars, storeVars, httpVars
<1>1. ASSUME NEW j \in Joins, Join(j) PROVE Maps
  <2>1. CASE (\E seat \in Seats : IssueSession(j, seat)) \/ RunHasHumanSeat(j) \/ IsHumanSeat(j)
    BY <2>1, StutterMaps DEF IssueSession, RunHasHumanSeat, IsHumanSeat
  <2>2. CASE EnsureStubActionWindow(j)
    <3>1. CASE WindowsOf(req[j].seat) = {}
      <4>1. req[j].seat \in Seats
        BY <2>2 DEF EnsureStubActionWindow, At, Inv, TypeInv, Blank, Joining
      <4>2. Window(req[j].seat, "stub", 0) \in WindowSet
        BY <4>1 DEF Window, WindowSet, Kinds
      <4>3. Outcomes!OpenWindow
        BY <2>2, <3>1, <4>2, OpenMaps DEF EnsureStubActionWindow, Window
      <4>4. QED
        BY <4>3 DEF Maps, Outcomes!Next
    <3>2. CASE WindowsOf(req[j].seat) # {}
      BY <2>2, <3>2, StutterMaps DEF EnsureStubActionWindow
    <3>3. QED
      BY <3>1, <3>2
  <2>3. QED
    BY <1>1, <2>1, <2>2 DEF Join
<1>2. ASSUME NEW s \in Submits, Submit(s) PROVE Maps
  <2>1. CASE \/ \E session \in sessions, message \in Messages : Authenticate(s, session, message)
             \/ ReadRunStatus(s) \/ Reject(s) \/ Duplicate(s)
    BY <2>1, StutterMaps DEF Authenticate, ReadRunStatus, Reject, Duplicate
  <2>2. ASSUME Accept(s), NEW v \in DOMAIN windows, v = req[s].message.window PROVE Maps
    <3>1. /\ windows[v].status = "open" /\ req[s].message.answer \in Answers
          /\ windows[v].answer = NoAnswer
          /\ told' = told /\ acted' = acted
      <4>1. req[s] \in Asking
        BY <2>2, Carried DEF Accept, At
      <4>2. req[s].message.answer \in Answers
        BY <4>1, Carried DEF MessageSet
      <4>3. windows[v].status = "open" /\ UNCHANGED <<told, acted>>
        BY <2>2 DEF Accept, Acceptable
      <4>4. windows[v].answer = NoAnswer
        BY <4>3 DEF Inv, WindowsOK
      <4>5. QED
        BY <4>2, <4>3, <4>4
    <3> DEFINE result == [event |-> actions + 1, revision |-> windows[v].revision + 1,
                          cursor |-> windows[v].cursor + 1]
               win == Accepted(windows[v], req[s].message.answer, result)
    <3>2. windows' = [windows EXCEPT ![v] = win]
      BY <2>2 DEF Accept, Accepted, Inv, TypeInv
    <3>3. win.answer = req[s].message.answer /\ win.status = "accepted"
      <4>1. windows[v] \in WindowSet
        BY CursorType DEF Inv, TypeInv
      <4>2. windows[v].revision \in Nat /\ windows[v].cursor \in Nat /\ actions \in Nat
        BY <4>1 DEF WindowSet, Inv, TypeInv
      <4>3. result \in Results
        BY <4>2 DEF Results
      <4>4. QED
        BY <3>1, <4>1, <4>3, AcceptedWindow
    <3> HIDE DEF win
    <3>4. /\ DOMAIN windows' = DOMAIN windows /\ windows'[v] = win
          /\ \A w \in DOMAIN windows : w # v => windows'[w] = windows[w]
      BY <3>2 DEF Inv, TypeInv
    <3>5. PICK answer \in Answers : answer = req[s].message.answer
      BY <3>1
    <3>6. Outcome(v) = "open"
      BY <3>1 DEF Outcome
    <3>7. Outcome(v)' = answer
      BY <3>3, <3>4, <3>5 DEF Outcome, Answers, NoAnswer
    <3>8. Outcomes!Decide(v, answer)
      BY <3>1, <3>4, <3>6, <3>7, DecideMaps
    <3>9. Outcomes!Answered(v)
      BY <3>1, <3>8 DEF Outcomes!Answered
    <3>10. QED
      BY <3>9 DEF Maps, Outcomes!Next
  <2>3. CASE WriteSessionBack(s)
    <3> DEFINE m == req[s].message
    <3>1. /\ req[s] \in Answering /\ windows' = windows /\ acted' = acted
          /\ told' = told \cup {[token |-> req[s].session.token, window |-> m.window,
                                 key |-> m.key, answer |-> m.answer,
                                 result |-> req[s].result]}
      BY <2>3, Carried DEF WriteSessionBack, At
    <3>2. m.window \in DOMAIN windows /\ windows[m.window].answer = m.answer
      BY <3>1 DEF Inv, AnswersOK, Backed, RecordsOK
    <3>3. m.answer \in Answers
      BY <3>1, Carried DEF MessageSet
    <3>4. PICK v \in DOMAIN windows, answer \in Answers : v = m.window /\ answer = m.answer
      BY <3>2, <3>3
    <3>5. Outcome(v) = answer
      BY <3>2, <3>4, AnsweredOutcome DEF Answers, NoAnswer
    <3>6. ToldPairs' = ToldPairs \cup {<<v, answer>>}
      <4>1. PICK t : t = [token |-> req[s].session.token, window |-> m.window, key |-> m.key,
                          answer |-> m.answer, result |-> req[s].result]
        OBVIOUS
      <4>2. told' = told \cup {t} /\ t.window = v /\ t.answer = answer
        BY <3>1, <3>4, <4>1
      <4>3. QED
        BY <4>2 DEF ToldPairs
    <3>7. Decisions' = Decisions
      BY <3>1 DEF Decisions, Outcome
    <3>8. Outcomes!Tell(v)
      BY <3>1, <3>5, <3>6, <3>7 DEF Outcomes!Tell, Decisions, ToldPairs
    <3>9. QED
      BY <3>8 DEF Maps, Outcomes!Next
  <2>4. Accept(s) => req[s].message.window \in DOMAIN windows
    BY Carried DEF Accept, At, Inv, AnswersOK
  <2>5. QED
    BY <1>2, <2>1, <2>2, <2>3, <2>4 DEF Submit
<1>3. QED
  BY <1>1, <1>2

(* OneDecision: the windows implement ActionOutcomes. However submits,     *)
(* retries and the deadline race, a window is decided once, and client and *)
(* game agree on its decision.                                             *)
THEOREM OneDecisionHolds == Spec => OneDecision
<1>1. Init => Outcomes!Init
  BY DEF Init, Outcomes!Init
<1>2. Inv /\ [Next]_vars => [Outcomes!Next]_Outcomes!vars
  <2>1. ASSUME UNCHANGED vars PROVE Maps
    BY <2>1, StutterMaps DEF vars, storeVars, httpVars, engineVars
  <2>2. QED
    BY <2>1, EngineMaps, RequestMaps DEF Next, Maps
<1>3. QED
  BY <1>1, <1>2, InvHolds, PTL DEF Spec, OneDecision, Outcomes!Spec

---------------------------------------------------------------------------
(* The abstract windows keep client and game in agreement.  Whatever was   *)
(* told or acted upon is the decision of its window, which cannot change   *)
(* any more because the window is not open.                                *)
Final(d) == d[1] \in DOMAIN Decisions /\ d[2] = Decisions[d[1]] /\ d[2] # "open"
FinalInv == /\ Decisions \in Seq(Decided)
            /\ \A d \in ToldPairs \cup acted : Final(d)

LEMMA StaysFinal ==
  ASSUME FinalInv, [Outcomes!Next]_Outcomes!vars PROVE FinalInv'
<1>1. CASE Outcomes!OpenWindow
  <2>1. Decisions' = Append(Decisions, "open") /\ ToldPairs' = ToldPairs /\ acted' = acted
    BY <1>1 DEF Outcomes!OpenWindow, Outcomes!Open, Decisions, ToldPairs
  <2>2. Decisions' \in Seq(Decided)
    BY <2>1 DEF FinalInv, Decided
  <2>3. \A w \in DOMAIN Decisions : w \in DOMAIN Decisions' /\ Decisions'[w] = Decisions[w]
    BY <2>1 DEF FinalInv
  <2>4. QED
    BY <2>1, <2>2, <2>3 DEF FinalInv, Final
<1>2. ASSUME NEW w \in DOMAIN Decisions, NEW decision \in Answers \cup {"timed_out"},
             Outcomes!Decide(w, decision)
      PROVE  /\ Decisions' \in Seq(Decided) /\ ToldPairs' = ToldPairs
             /\ Decisions'[w] = decision /\ DOMAIN Decisions' = DOMAIN Decisions
             /\ \A d \in ToldPairs \cup acted : Final(d)'
  <2>1. /\ Decisions[w] = "open" /\ Decisions' = [Decisions EXCEPT ![w] = decision]
        /\ ToldPairs' = ToldPairs
    BY <1>2 DEF Outcomes!Decide, Outcomes!Open, Decisions, ToldPairs
  <2>2. /\ Decisions' \in Seq(Decided)
        /\ Decisions'[w] = decision /\ DOMAIN Decisions' = DOMAIN Decisions
        /\ \A v \in DOMAIN Decisions : v # w => Decisions'[v] = Decisions[v]
    BY <1>2, <2>1 DEF FinalInv, Decided
  <2>3. \A d \in ToldPairs \cup acted : d[1] # w
    BY <2>1 DEF FinalInv, Final
  <2>4. QED
    BY <2>1, <2>2, <2>3 DEF FinalInv, Final
<1>3. ASSUME NEW w \in DOMAIN Decisions, Outcomes!Answered(w) PROVE FinalInv'
  <2>1. PICK answer \in Answers : Outcomes!Decide(w, answer) /\ UNCHANGED acted
    BY <1>3 DEF Outcomes!Answered
  <2>2. QED
    BY <2>1, <1>2 DEF FinalInv
<1>4. ASSUME NEW w \in DOMAIN Decisions, Outcomes!Expired(w) PROVE FinalInv'
  <2>1. Outcomes!Decide(w, "timed_out") /\ acted' = acted \cup {<<w, "timed_out">>}
    BY <1>4 DEF Outcomes!Expired, Outcomes!TimedOut
  <2>2. Final(<<w, "timed_out">>)'
    BY <2>1, <1>2 DEF Final
  <2>3. QED
    BY <2>1, <2>2, <1>2 DEF FinalInv
<1>5. ASSUME NEW w \in DOMAIN Decisions, Outcomes!Tell(w) \/ Outcomes!Act(w) PROVE FinalInv'
  <2>1. /\ Decisions[w] \in Answers /\ Decisions' = Decisions
        /\ ToldPairs' \cup acted' \subseteq ToldPairs \cup acted \cup {<<w, Decisions[w]>>}
    BY <1>5 DEF Outcomes!Tell, Outcomes!Act, Decisions, ToldPairs
  <2>2. Final(<<w, Decisions[w]>>)
    BY <2>1 DEF Final, Answers
  <2>3. QED
    BY <2>1, <2>2 DEF FinalInv, Final
<1>6. CASE UNCHANGED Outcomes!vars
  <2>1. Decisions' = Decisions /\ ToldPairs' = ToldPairs /\ acted' = acted
    BY <1>6 DEF Outcomes!vars, Decisions, ToldPairs
  <2>2. QED
    BY <2>1 DEF FinalInv, Final
<1>7. QED
  BY <1>1, <1>3, <1>4, <1>5, <1>6 DEF Outcomes!Next, Decisions

(* In every behaviour of the abstract windows the client is never told of  *)
(* an answer while the game acts upon another one, or upon a timeout.      *)
THEOREM AgreementHolds == Outcomes!Spec => []Outcomes!Agreement
<1>1. Outcomes!Init => FinalInv
  <2> SUFFICES ASSUME Outcomes!Init PROVE FinalInv OBVIOUS
  <2>1. Decisions = <<>> /\ ToldPairs = {} /\ acted = {}
    BY DEF Outcomes!Init, Decisions, ToldPairs
  <2>2. QED
    BY <2>1 DEF FinalInv
<1>2. FinalInv => Outcomes!Agreement
  BY DEF FinalInv, Final, ToldPairs, Outcomes!Agreement
<1>3. FinalInv /\ [Outcomes!Next]_Outcomes!vars => FinalInv'
  BY StaysFinal
<1>4. QED
  BY <1>1, <1>2, <1>3, PTL DEF Outcomes!Spec

(* What is proved of the abstract windows holds of these: the client is    *)
(* never told of an answer while the game acts upon another, or upon a     *)
(* timeout, for the same window.                                           *)
THEOREM AgreementKept == Spec => []Outcomes!Agreement
BY OneDecisionHolds, AgreementHolds, PTL DEF OneDecision

=============================================================================
