---------------------------- MODULE ReleaseHost ----------------------------
(***************************************************************************)
(* The desktop release host (release_host/lifecycle.py, control.py and     *)
(* update_control.py): starts of the executable that look for an earlier   *)
(* one, the observer server they start or find, the client they open and   *)
(* wait for, the idle loop that keeps the server alive while runs go on,   *)
(* and the update requests a client makes to its host.                     *)
(*                                                                         *)
(* A start of the executable is a host; a host starts one server at most,  *)
(* so a server is named by the host that started it.  Hosts share two      *)
(* files, host-control.json and server-state.json, each naming its writer, *)
(* and a mutex.  Every HTTP request or socket call may also fail or run    *)
(* into its timeout.  Time is the grace period's, which is over or not.    *)
(***************************************************************************)
EXTENDS Naturals, FiniteSets

CONSTANTS
  Hosts,        \* starts of Werewolf-agent.exe
  Requests,     \* threads of the update control endpoint
  MaxCalls,     \* bound: update requests made by a lone host
  MaxRuns,      \* bound: runs launched
  MaxCrashes,   \* bound: hosts killed
  MaxRelease    \* bound: releases published while hosts run

NoHost == "nobody"

ASSUME HostAssumption ==
  /\ NoHost \notin Hosts
  /\ MaxCalls \in Nat /\ MaxRuns \in Nat /\ MaxCrashes \in Nat /\ MaxRelease \in Nat

VARIABLES
  pc,         \* where release_host_main of each host is
  mutex,      \* who holds the named mutex
  control,    \* host-control.json: the host it names
  listening,  \* hosts whose control server accepts connections
  reopen,     \* hosts with _pending_reopen set
  stateFile,  \* server-state.json: the server it names
  server,     \* the server process each host started
  port,       \* the server whose port each host uses
  grace,      \* all_terminal_at: off, new (set by this poll) or old
  active,     \* servers with a queued or running run
  phase,      \* UpdateState.phase of each host
  info,       \* VelopackUpdateBackend._update_info: a release, or 0
  fetched,    \* releases downloaded
  handed,     \* the release each host handed to the updater, or 0
  applying,   \* hosts with _apply_requested set
  req,        \* the update requests in progress
  feed,       \* the newest release a check has found, 0 for none
  count,      \* runs launched, update requests made, hosts killed so far
  looked,     \* history: what a host's last look at its runs told it
  fresh,      \* history: servers with a run launched since that look
  crossed     \* history: update requests of one host overlapped

startVars  == <<mutex, control, listening, stateFile, server, port>>
updateVars == <<phase, info, fetched, handed, applying, req, feed, crossed>>
runVars    == <<active, fresh, count>>
vars == <<pc, startVars, reopen, grace, updateVars, runVars, looked>>

Free == [at |-> "free"]

Init ==
  /\ pc = [h \in Hosts |-> "off"]
  /\ mutex = NoHost /\ control = NoHost /\ stateFile = NoHost
  /\ listening = {} /\ reopen = {} /\ active = {} /\ fresh = {} /\ applying = {}
  /\ server = [h \in Hosts |-> "none"] /\ port = [h \in Hosts |-> NoHost]
  /\ grace = [h \in Hosts |-> "off"] /\ looked = [h \in Hosts |-> "never"]
  /\ phase = [h \in Hosts |-> "idle"] /\ info = [h \in Hosts |-> 0]
  /\ handed = [h \in Hosts |-> 0] /\ fetched = {} /\ feed = 0
  /\ req = [r \in Requests |-> Free]
  /\ count = [runs |-> 0, calls |-> 0, crashes |-> 0]
  /\ crossed = FALSE

Goes(h, from, to) == pc[h] = from /\ pc' = [pc EXCEPT ![h] = to]

---------------------------------------------------------------------------
(* Starting: the mutex, then the file-guided request to an earlier host.   *)

(* The bound: MaxCalls update requests of one host, or a second host.      *)
Started == {h \in Hosts : pc[h] # "off"}
Within(starts, calls) == starts * MaxCalls + calls <= 2 * MaxCalls

AcquireMutex(h) ==                             \* CreateMutexW may fail as well
  /\ Within(Cardinality(Started) + 1, count.calls)
  /\ \/ mutex = NoHost /\ Goes(h, "off", "primary") /\ mutex' = h
     \/ Goes(h, "off", "guided") /\ UNCHANGED mutex
  /\ UNCHANGED <<control, listening, stateFile, server, port, reopen, grace, updateVars,
                 runVars, looked>>

ReadControlFile(h) ==
  /\ Goes(h, "guided", IF control = NoHost THEN "primary" ELSE "ask")
  /\ port' = [port EXCEPT ![h] = control]      \* whom to ask, until it has a port
  /\ UNCHANGED <<mutex, control, listening, stateFile, server, reopen, grace, updateVars,
                 runVars, looked>>

(* send_open_client_request: the asked host sets _pending_reopen and       *)
(* answers; the answer may miss the caller's timeout.                      *)
AskToOpen(h) ==
  /\ port[h] \in listening
  /\ reopen' = reopen \cup {port[h]}
  /\ \E to \in {"gone", "stale"} : Goes(h, "ask", to)
  /\ UNCHANGED <<startVars, grace, updateVars, runVars, looked>>

NobodyAnswers(h) ==
  /\ port[h] \notin listening
  /\ Goes(h, "ask", "stale")
  /\ UNCHANGED <<startVars, reopen, grace, updateVars, runVars, looked>>

RemoveStaleControl(h) ==
  /\ Goes(h, "stale", "primary")
  /\ control' = NoHost
  /\ UNCHANGED <<mutex, listening, stateFile, server, port, reopen, grace, updateVars,
                 runVars, looked>>

(* ControlServer.start: the socket is bound, then the file names it.       *)
StartControl(h) ==
  /\ Goes(h, "primary", "find")
  /\ listening' = listening \cup {h} /\ control' = h
  /\ port' = [port EXCEPT ![h] = NoHost]
  /\ UNCHANGED <<mutex, stateFile, server, reopen, grace, updateVars, runVars, looked>>

Up(s) == s # NoHost /\ server[s] = "up"

(* _find_existing_server: adopt the server of the state file when it       *)
(* answers its health check, else remove the file and start one.           *)
FindServer(h) ==
  /\ \/ /\ Up(stateFile)
        /\ Goes(h, "find", "open")
        /\ port' = [port EXCEPT ![h] = stateFile]
        /\ UNCHANGED <<stateFile, server>>
     \/ /\ Goes(h, "find", "wait")
        /\ stateFile' = NoHost
        /\ server' = [server EXCEPT ![h] = "starting"]
        /\ UNCHANGED port
  /\ UNCHANGED <<mutex, control, listening, reopen, grace, updateVars, runVars, looked>>

(* The server binds, and writes the state file (run_observer_server.py).   *)
ServerStarts(s) ==
  /\ server[s] = "starting"
  /\ server' = [server EXCEPT ![s] = "up"] /\ stateFile' = s
  /\ UNCHANGED <<pc, mutex, control, listening, port, reopen, grace, updateVars, runVars,
                 looked>>

ServerDies(s) ==
  /\ server[s] = "starting"
  /\ server' = [server EXCEPT ![s] = "down"]
  /\ UNCHANGED <<pc, mutex, control, listening, stateFile, port, reopen, grace, updateVars,
                 runVars, looked>>

(* The wait for the state file takes any healthy server it comes to name.  *)
ServerFound(h) ==
  /\ Up(stateFile)
  /\ Goes(h, "wait", "open")
  /\ port' = [port EXCEPT ![h] = stateFile]
  /\ UNCHANGED <<mutex, control, listening, stateFile, server, reopen, grace, updateVars,
                 runVars, looked>>

Stopped(h) == [server EXCEPT ![h] = IF @ = "none" THEN "none" ELSE "down"]

(* No server in thirty seconds, or no usable update source: fatal.         *)
StartFails(h) ==
  /\ Goes(h, "wait", "leave") \/ Goes(h, "open", "leave")
  /\ server' = Stopped(h) /\ active' = active \ {h}
  /\ UNCHANGED <<mutex, control, listening, stateFile, port, reopen, grace, updateVars,
                 fresh, count, looked>>

OpenClient(h) ==
  /\ Goes(h, "open", "client")
  /\ UNCHANGED <<startVars, reopen, grace, updateVars, runVars, looked>>

(* spawn_client raises when there is no client to start, here or when it   *)
(* is opened again, through the with blocks: the control server is stopped,*)
(* the observer server is not.                                             *)
ClientMissing(h) ==
  /\ \/ Goes(h, "open", "leave") /\ UNCHANGED reopen
     \/ h \in reopen /\ Goes(h, "quiet", "leave") /\ reopen' = reopen \ {h}
  /\ UNCHANGED <<startVars, grace, updateVars, runVars, looked>>

---------------------------------------------------------------------------
(* The client has exited: stop, or stay while runs are active.             *)

ActiveNow(h) == port[h] \in active /\ Up(port[h])

(* A look at GET /api/runs; one that fails tells "no active runs".         *)
Look(h, sees) ==
  /\ sees = "active" => ActiveNow(h)
  /\ sees = "idle"   => Up(port[h]) /\ ~ActiveNow(h)
  /\ looked' = [looked EXCEPT ![h] = sees]
  /\ fresh' = IF port[h] = h THEN fresh \ {h} ELSE fresh

ClientExits(h) ==
  /\ \/ Goes(h, "client",   IF h \in applying THEN "stop" ELSE "closed")
     \/ Goes(h, "reopened", IF h \in applying THEN "stop" ELSE "idle")
  /\ grace' = [grace EXCEPT ![h] = "off"]
  /\ UNCHANGED <<startVars, reopen, updateVars, runVars, looked>>

CheckRuns(h) ==                                \* _has_active_runs
  /\ \E sees \in {"active", "idle", "failed"} :
       Look(h, sees) /\ Goes(h, "closed", IF sees = "active" THEN "idle" ELSE "stop")
  /\ UNCHANGED <<startVars, reopen, grace, updateVars, active, count>>

(* _idle_cleanup_loop: poll; while a run is active look no further; then   *)
(* serve a pending reopen; then let the grace period pass.                 *)
PollFailsBug(h) ==                             \* tried again for ever
  /\ pc[h] = "idle" /\ Look(h, "failed")
  /\ UNCHANGED <<pc, startVars, reopen, grace, updateVars, active, count>>
PollFails(h) ==
  /\ Look(h, "failed") /\ Goes(h, "idle", "stop")
  /\ UNCHANGED <<startVars, reopen, grace, updateVars, active, count>>

PollActiveBug(h) ==                            \* on to the grace period
  /\ Look(h, "active") /\ Goes(h, "idle", "quiet")
  /\ grace' = [grace EXCEPT ![h] = IF @ = "off" THEN "new" ELSE "old"]
  /\ UNCHANGED <<startVars, reopen, updateVars, active, count>>
PollActive(h) ==
  /\ pc[h] = "idle" /\ Look(h, "active")
  /\ grace' = [grace EXCEPT ![h] = "off"]
  /\ UNCHANGED <<pc, startVars, reopen, updateVars, active, count>>

PollIdle(h) ==
  /\ Look(h, "idle") /\ Goes(h, "idle", "quiet")
  /\ grace' = [grace EXCEPT ![h] = IF @ = "off" THEN "new" ELSE "old"]
  /\ UNCHANGED <<startVars, reopen, updateVars, active, count>>

Reopen(h) ==
  /\ h \in reopen /\ Goes(h, "quiet", "reopened")
  /\ reopen' = reopen \ {h}
  /\ UNCHANGED <<startVars, grace, updateVars, runVars, looked>>

WaitOn(h) ==
  /\ h \notin reopen /\ Goes(h, "quiet", "idle")
  /\ UNCHANGED <<startVars, reopen, grace, updateVars, runVars, looked>>

GraceOver(h) ==
  /\ h \notin reopen /\ grace[h] = "old" /\ Goes(h, "quiet", "stop")
  /\ UNCHANGED <<startVars, reopen, grace, updateVars, runVars, looked>>

(* _stop_owned_server: an adopted server is not the host's to stop.        *)
StopServer(h) ==
  /\ Goes(h, "stop", "leave")
  /\ server' = Stopped(h) /\ active' = active \ {h}
  /\ UNCHANGED <<mutex, control, listening, stateFile, port, reopen, grace, updateVars,
                 fresh, count, looked>>

(* ControlServer.stop closes the socket and removes the file, whoever it   *)
(* names by now; the process ends, and with it its mutex and its threads.  *)
EndOfProcess(h) ==
  /\ listening' = listening \ {h}
  /\ mutex' = IF mutex = h THEN NoHost ELSE mutex
  /\ req' = [r \in Requests |->
               IF req[r].at # "free" /\ req[r].host = h THEN Free ELSE req[r]]
  /\ port' = [port EXCEPT ![h] = NoHost] /\ grace' = [grace EXCEPT ![h] = "off"]
  /\ phase' = [phase EXCEPT ![h] = "idle"] /\ info' = [info EXCEPT ![h] = 0]
  /\ reopen' = reopen \ {h} /\ applying' = applying \ {h}
  /\ handed' = [handed EXCEPT ![h] = 0]
  /\ looked' = [looked EXCEPT ![h] = "never"] /\ fresh' = fresh \ {h}
  /\ UNCHANGED <<stateFile, server, fetched, feed, crossed, active>>

Leave(h) ==
  /\ Goes(h, "leave", "gone") /\ EndOfProcess(h)
  /\ control' = NoHost
  /\ UNCHANGED count

(* The host is killed: its server, client and files stay behind.           *)
Crash(h) ==
  /\ pc[h] \notin {"off", "gone", "dead"} /\ count.crashes < MaxCrashes
  /\ Goes(h, pc[h], "dead") /\ EndOfProcess(h)
  /\ count' = [count EXCEPT !.crashes = @ + 1]
  /\ UNCHANGED control

---------------------------------------------------------------------------
(* Runs, as far as hosts see them: any client of a server may launch one.  *)

LaunchRun(s) ==
  /\ Up(s) /\ count.runs < MaxRuns
  /\ active' = active \cup {s} /\ fresh' = fresh \cup {s}
  /\ count' = [count EXCEPT !.runs = @ + 1]
  /\ UNCHANGED <<pc, startVars, reopen, grace, updateVars, looked>>

RunEnds(s) ==
  /\ s \in active /\ active' = active \ {s}
  /\ UNCHANGED <<pc, startVars, reopen, grace, updateVars, fresh, count, looked>>

---------------------------------------------------------------------------
(* UpdateControlServer.handle_action, one thread per request.  The lock is *)
(* held for single reads and writes of the state, never across a call of   *)
(* the backend, so every request ends with a publication of its outcome.   *)

Calling(r, to)       == req' = [req EXCEPT ![r] = [@ EXCEPT !.at = to]]
Publishes(r, result) == req' = [req EXCEPT ![r] = [at |-> "publish", host |-> @.host,
                                                   result |-> result]]
hostVars == <<pc, startVars, reopen, grace, active, fresh>>

(* A request runs in a thread of its own: which name it has is no matter.  *)
(* A download marks itself begun; the others first call or look.           *)
BeginRequest(h, action) ==
  LET free == {r \in Requests : req[r].at = "free"}
  IN  /\ free # {} /\ pc[h] \in {"client", "reopened"}
      /\ Within(Cardinality(Started), count.calls + 1)
      /\ count' = [count EXCEPT !.calls = @ + 1]
      /\ req' = [req EXCEPT ![CHOOSE r \in free : TRUE] = [at |-> action, host |-> h]]
      /\ phase' = IF action = "download" THEN [phase EXCEPT ![h] = "downloading"] ELSE phase
      /\ crossed' = (crossed \/ \E q \in Requests \ free : req[q].host = h)
      /\ UNCHANGED <<hostVars, info, fetched, handed, applying, feed, looked>>

(* A check finds the newest release, published since the last one or not.  *)
CheckForUpdate(r) ==
  LET h == req[r].host IN
  /\ req[r].at = "check"
  /\ \/ /\ feed' \in feed..MaxRelease /\ info' = [info EXCEPT ![h] = feed']
        /\ Publishes(r, IF feed' = 0 THEN "current" ELSE "available")
     \/ Publishes(r, "error") /\ UNCHANGED <<info, feed>>
  /\ UNCHANGED <<hostVars, phase, fetched, handed, applying, crossed, count, looked>>

StartDownload(r) ==
  LET h == req[r].host IN
  /\ req[r].at = "download"
  /\ IF info[h] = 0 THEN Publishes(r, "error")
     ELSE req' = [req EXCEPT ![r] = [at |-> "fetch", host |-> h, release |-> info[h]]]
  /\ UNCHANGED <<hostVars, phase, info, fetched, handed, applying, feed, crossed, count,
                 looked>>

(* The updater reports its progress, up to one hundred, before it is done. *)
Progress(r, percent) ==
  /\ req[r].at = "fetch"
  /\ phase' = [phase EXCEPT ![req[r].host] = IF percent < 100 THEN "downloading"
                                             ELSE "downloaded"]
  /\ UNCHANGED <<hostVars, info, fetched, handed, applying, req, feed, crossed, count,
                 looked>>

EndDownload(r) ==
  /\ req[r].at = "fetch"
  /\ \/ fetched' = fetched \cup {req[r].release} /\ Publishes(r, "downloaded")
     \/ UNCHANGED fetched /\ Publishes(r, "error")
  /\ UNCHANGED <<hostVars, phase, info, handed, applying, feed, crossed, count, looked>>

(* apply: the phase, then the active runs, then the updater.               *)
DownloadedBug(h) == phase[h] \notin {"idle", "current", "available"}
Downloaded(h) == phase[h] = "downloaded"
CheckPhase(r) ==
  /\ req[r].at = "apply"
  /\ IF Downloaded(req[r].host) THEN Calling(r, "gate") ELSE Publishes(r, "apply_blocked")
  /\ UNCHANGED <<hostVars, phase, info, fetched, handed, applying, feed, crossed, count,
                 looked>>

(* The gate's look fails open, too: a failed one tells "no active runs".   *)
CheckActiveRuns(r) ==
  /\ req[r].at = "gate"
  /\ \/ ActiveNow(req[r].host) /\ Publishes(r, "blocked_active_run")
     \/ Calling(r, "hand_over")
  /\ UNCHANGED <<hostVars, phase, info, fetched, handed, applying, feed, crossed, count,
                 looked>>

HandOver(r) ==
  LET h == req[r].host IN
  /\ req[r].at = "hand_over"
  /\ \/ info[h] # 0 /\ handed' = [handed EXCEPT ![h] = info[h]] /\ Publishes(r, "applying")
     \/ UNCHANGED handed /\ Publishes(r, "error")
  /\ UNCHANGED <<hostVars, phase, info, fetched, applying, feed, crossed, count, looked>>

Publish(r) ==
  LET h == req[r].host IN
  /\ req[r].at = "publish"
  /\ phase' = [phase EXCEPT ![h] = req[r].result]
  /\ applying' = IF req[r].result = "applying" THEN applying \cup {h} ELSE applying
  /\ req' = [req EXCEPT ![r] = Free]
  /\ UNCHANGED <<hostVars, info, fetched, handed, feed, crossed, count, looked>>

---------------------------------------------------------------------------
Host(h) ==
  \/ ReadControlFile(h) \/ AskToOpen(h) \/ NobodyAnswers(h) \/ RemoveStaleControl(h)
  \/ StartControl(h) \/ FindServer(h) \/ ServerFound(h) \/ StartFails(h)
  \/ OpenClient(h) \/ ClientMissing(h) \/ ClientExits(h) \/ CheckRuns(h)
  \/ PollFails(h) \/ PollActive(h) \/ PollIdle(h) \/ Reopen(h) \/ WaitOn(h)
  \/ GraceOver(h) \/ StopServer(h) \/ Leave(h)

Request(r) ==
  \/ CheckForUpdate(r) \/ StartDownload(r) \/ EndDownload(r)
  \/ \E percent \in {50, 100} : Progress(r, percent)
  \/ CheckPhase(r) \/ CheckActiveRuns(r) \/ HandOver(r) \/ Publish(r)

Next ==
  \/ \E h \in Hosts : AcquireMutex(h) \/ Host(h) \/ Crash(h)
  \/ \E s \in Hosts : ServerStarts(s) \/ ServerDies(s) \/ LaunchRun(s) \/ RunEnds(s)
  \/ \E h \in Hosts, action \in {"check", "download", "apply"} : BeginRequest(h, action)
  \/ \E r \in Requests : Request(r)

(* Hosts run on, users closing their clients; runs end; the thirty seconds *)
(* of grace pass.  Nobody owes a start or an update.                       *)
Fairness == /\ WF_vars(\E h \in Hosts : Host(h))
            /\ WF_vars(\E s \in Hosts : RunEnds(s))
            /\ SF_vars(\E h \in Hosts : GraceOver(h))
Spec == Init /\ [][Next]_vars /\ Fairness

---------------------------------------------------------------------------
(* "Active runs exist - keeping server alive": a host that uses its own    *)
(* server never stops it under an active run, unless the run was launched  *)
(* after its last look, that look failed, or an update is being applied.   *)
KeptAlive ==
  [][\A h \in active : server[h] = "up" /\ server'[h] = "down" /\ port[h] = h
       => h \in fresh \/ looked[h] = "failed" \/ h \in applying]_vars

(* What is handed to the updater was downloaded ("update_not_downloaded"), *)
(* whatever checks, failures and new releases came between the requests,   *)
(* as long as a client makes one request at a time.                        *)
AppliedWasDownloaded ==
  ~crossed => \A h \in Hosts : handed[h] # 0 => handed[h] \in fetched

(* Every start of the host ends, when its client is closed and its runs    *)
(* are over, or killed.                                                    *)
HostsEnd == <>[](\A h \in Hosts : pc[h] \in {"off", "gone", "dead"})

===========================================================================
