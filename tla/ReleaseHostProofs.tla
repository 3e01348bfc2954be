------------------------- MODULE ReleaseHostProofs -------------------------
(***************************************************************************)
(* The release host keeps its server while a run that it has seen is       *)
(* active, and hands over only what it downloaded, for any number of hosts,*)
(* servers, runs, update requests and releases.                            *)
(***************************************************************************)
EXTENDS ReleaseHost, TLAPS

Places  == {"off", "guided", "ask", "stale", "primary", "find", "wait", "open", "client",
            "closed", "reopened", "idle", "quiet", "stop", "leave", "gone", "dead"}
Looks   == {"never", "active", "idle", "failed"}
Phases  == {"idle", "current", "available", "downloading", "downloaded", "error",
            "applying", "apply_blocked", "blocked_active_run"}
Servers == Hosts \cup {NoHost}

(* Update requests, by what they carry.                                    *)
Asking     == [at : {"check", "download", "apply", "gate", "hand_over"}, host : Hosts]
Fetching   == [at : {"fetch"}, host : Hosts, release : Nat]
Publishing == [at : {"publish"}, host : Hosts, result : Phases]

HostTypes ==
  /\ pc \in [Hosts -> Places]
  /\ server \in [Hosts -> {"none", "starting", "up", "down"}]
  /\ control \in Servers /\ stateFile \in Servers /\ port \in [Hosts -> Servers]
  /\ looked \in [Hosts -> Looks] /\ active \subseteq Hosts
UpdateTypes ==
  /\ phase \in [Hosts -> Phases] /\ info \in [Hosts -> Nat] /\ handed \in [Hosts -> Nat]
  /\ feed \in Nat /\ req \in [Requests -> {Free} \cup Asking \cup Fetching \cup Publishing]

---------------------------------------------------------------------------
(* A host that has not looked at its runs.                                 *)
Early == {"off", "guided", "ask", "stale", "primary", "find", "wait", "open", "client"}

(* Its last look led it where it is; a run it has not been told of was     *)
(* launched since, or the look failed.                                     *)
Seen(h) ==
  /\ pc[h] \in Early => looked[h] = "never"
  /\ pc[h] = "quiet" => looked[h] = "idle"
  /\ pc[h] = "stop"  => h \in applying \/ looked[h] \in {"idle", "failed"}
Told(h) ==
  h \in active /\ pc[h] \notin {"gone", "dead"}
    => h \in fresh \/ (port[h] = h /\ looked[h] \in {"active", "failed"})
HostInv == HostTypes /\ \A h \in Hosts : Seen(h) /\ Told(h)

(* A host's part of the state, and a step that leaves it alone.            *)
Same(h) ==
  /\ pc'[h] = pc[h] /\ server'[h] = server[h]
  /\ port'[h] = port[h] /\ looked'[h] = looked[h]
  /\ h \in active' <=> h \in active
  /\ h \in fresh' <=> h \in fresh
  /\ h \in applying => h \in applying'

LEMMA SameKeeps ==
  ASSUME HostInv, NEW h \in Hosts, Same(h) PROVE (Seen(h) /\ Told(h))'
BY DEF HostInv, Same, Seen, Told

(* A host's step on its own leaves the others alone.                       *)
LEMMA OneHostKeeps ==
  ASSUME HostInv, HostTypes', NEW g \in Hosts, \A h \in Hosts \ {g} : Same(h),
         (Seen(g) /\ Told(g))'
  PROVE  HostInv'
BY SameKeeps DEF HostInv

(* Starting.  No look has been taken, so every run is one launched since.  *)
LEMMA StartStep ==
  ASSUME HostInv, NEW g \in Hosts,
         \/ AcquireMutex(g) \/ ReadControlFile(g) \/ StartControl(g) \/ AskToOpen(g)
         \/ NobodyAnswers(g) \/ RemoveStaleControl(g)
  PROVE  HostInv'
<1> USE DEF HostInv, HostTypes, startVars, updateVars, runVars, Goes
<1>1. CASE AcquireMutex(g)
  <2>1. HostTypes' /\ \A h \in Hosts \ {g} : Same(h)
    BY <1>1 DEF AcquireMutex, Places, Servers, Looks, Same
  <2>2. (Seen(g) /\ Told(g))'
    BY <1>1 DEF AcquireMutex, Seen, Told, Early
  <2>3. QED
    BY <2>1, <2>2, OneHostKeeps
<1>2. CASE ReadControlFile(g)
  <2>1. HostTypes' /\ \A h \in Hosts \ {g} : Same(h)
    BY <1>2 DEF ReadControlFile, Places, Servers, Looks, Same
  <2>2. (Seen(g) /\ Told(g))'
    BY <1>2 DEF ReadControlFile, Seen, Told, Early
  <2>3. QED
    BY <2>1, <2>2, OneHostKeeps
<1>3. CASE StartControl(g)
  <2>1. HostTypes' /\ \A h \in Hosts \ {g} : Same(h)
    BY <1>3 DEF StartControl, Places, Servers, Looks, Same
  <2>2. (Seen(g) /\ Told(g))'
    BY <1>3 DEF StartControl, Seen, Told, Early
  <2>3. QED
    BY <2>1, <2>2, OneHostKeeps
<1>4. CASE AskToOpen(g)
  <2>1. HostTypes' /\ \A h \in Hosts \ {g} : Same(h)
    BY <1>4 DEF AskToOpen, Places, Servers, Looks, Same
  <2>2. (Seen(g) /\ Told(g))'
    BY <1>4 DEF AskToOpen, Seen, Told, Early
  <2>3. QED
    BY <2>1, <2>2, OneHostKeeps
<1>5. CASE NobodyAnswers(g)
  <2>1. HostTypes' /\ \A h \in Hosts \ {g} : Same(h)
    BY <1>5 DEF NobodyAnswers, Places, Servers, Looks, Same
  <2>2. (Seen(g) /\ Told(g))'
    BY <1>5 DEF NobodyAnswers, Seen, Told, Early
  <2>3. QED
    BY <2>1, <2>2, OneHostKeeps
<1>6. CASE RemoveStaleControl(g)
  <2>1. HostTypes' /\ \A h \in Hosts \ {g} : Same(h)
    BY <1>6 DEF RemoveStaleControl, Places, Servers, Looks, Same
  <2>2. (Seen(g) /\ Told(g))'
    BY <1>6 DEF RemoveStaleControl, Seen, Told, Early
  <2>3. QED
    BY <2>1, <2>2, OneHostKeeps
<1>7. QED
  BY <1>1, <1>2, <1>3, <1>4, <1>5, <1>6

(* Finding or starting a server, and failing to.                           *)
LEMMA ServerStep ==
  ASSUME HostInv, NEW g \in Hosts,
         \/ FindServer(g) \/ ServerFound(g) \/ StartFails(g) \/ OpenClient(g)
         \/ ClientMissing(g)
  PROVE  HostInv'
<1> USE DEF HostInv, HostTypes, startVars, updateVars, runVars, Goes
<1>1. CASE FindServer(g)
  <2>1. HostTypes' /\ \A h \in Hosts \ {g} : Same(h)
    BY <1>1 DEF FindServer, Up, Places, Servers, Looks, Same
  <2>2. (Seen(g) /\ Told(g))'
    BY <1>1 DEF FindServer, Up, Seen, Told, Early
  <2>3. QED
    BY <2>1, <2>2, OneHostKeeps
<1>2. CASE ServerFound(g)
  <2>1. HostTypes' /\ \A h \in Hosts \ {g} : Same(h)
    BY <1>2 DEF ServerFound, Up, Places, Servers, Looks, Same
  <2>2. (Seen(g) /\ Told(g))'
    BY <1>2 DEF ServerFound, Up, Seen, Told, Early
  <2>3. QED
    BY <2>1, <2>2, OneHostKeeps
<1>3. CASE StartFails(g)
  <2>1. HostTypes' /\ \A h \in Hosts \ {g} : Same(h)
    BY <1>3 DEF StartFails, Stopped, Places, Servers, Looks, Same
  <2>2. (Seen(g) /\ Told(g))'
    BY <1>3 DEF StartFails, Stopped, Seen, Told, Early
  <2>3. QED
    BY <2>1, <2>2, OneHostKeeps
<1>4. CASE OpenClient(g)
  <2>1. HostTypes' /\ \A h \in Hosts \ {g} : Same(h)
    BY <1>4 DEF OpenClient, Places, Servers, Looks, Same
  <2>2. (Seen(g) /\ Told(g))'
    BY <1>4 DEF OpenClient, Seen, Told, Early
  <2>3. QED
    BY <2>1, <2>2, OneHostKeeps
<1>5. CASE ClientMissing(g)
  <2>1. HostTypes' /\ \A h \in Hosts \ {g} : Same(h)
    BY <1>5 DEF ClientMissing, Places, Servers, Looks, Same
  <2>2. (Seen(g) /\ Told(g))'
    BY <1>5 DEF ClientMissing, Seen, Told, Early
  <2>3. QED
    BY <2>1, <2>2, OneHostKeeps
<1>6. QED
  BY <1>1, <1>2, <1>3, <1>4, <1>5

(* The looks: one that tells of no run was taken where none was active.    *)
LEMMA ClosedStep ==
  ASSUME HostInv, NEW g \in Hosts,
         \/ ClientExits(g) \/ CheckRuns(g) \/ PollFails(g) \/ PollActive(g)
         \/ PollIdle(g)
  PROVE  HostInv'
<1> USE DEF HostInv, HostTypes, startVars, updateVars, runVars, Goes
<1>1. CASE ClientExits(g)
  <2>1. HostTypes' /\ \A h \in Hosts \ {g} : Same(h)
    BY <1>1 DEF ClientExits, Places, Servers, Looks, Same
  <2>2. (Seen(g) /\ Told(g))'
    BY <1>1 DEF ClientExits, Seen, Told, Early
  <2>3. QED
    BY <2>1, <2>2, OneHostKeeps
<1>2. CASE CheckRuns(g)
  <2>1. HostTypes' /\ \A h \in Hosts \ {g} : Same(h)
    BY <1>2 DEF CheckRuns, Look, ActiveNow, Up, Places, Servers, Looks, Same
  <2>2. (Seen(g) /\ Told(g))'
    BY <1>2 DEF CheckRuns, Look, ActiveNow, Up, Seen, Told, Early
  <2>3. QED
    BY <2>1, <2>2, OneHostKeeps
<1>3. CASE PollFails(g)
  <2>1. HostTypes' /\ \A h \in Hosts \ {g} : Same(h)
    BY <1>3 DEF PollFails, Look, ActiveNow, Up, Places, Servers, Looks, Same
  <2>2. (Seen(g) /\ Told(g))'
    BY <1>3 DEF PollFails, Look, ActiveNow, Up, Seen, Told, Early
  <2>3. QED
    BY <2>1, <2>2, OneHostKeeps
<1>4. CASE PollActive(g)
  <2>1. HostTypes' /\ \A h \in Hosts \ {g} : Same(h)
    BY <1>4 DEF PollActive, Look, ActiveNow, Up, Places, Servers, Looks, Same
  <2>2. (Seen(g) /\ Told(g))'
    BY <1>4 DEF PollActive, Look, ActiveNow, Up, Seen, Told, Early
  <2>3. QED
    BY <2>1, <2>2, OneHostKeeps
<1>5. CASE PollIdle(g)
  <2>1. HostTypes' /\ \A h \in Hosts \ {g} : Same(h)
    BY <1>5 DEF PollIdle, Look, ActiveNow, Up, Places, Servers, Looks, Same
  <2>2. (Seen(g) /\ Told(g))'
    BY <1>5 DEF PollIdle, Look, ActiveNow, Up, Seen, Told, Early
  <2>3. QED
    BY <2>1, <2>2, OneHostKeeps
<1>6. QED
  BY <1>1, <1>2, <1>3, <1>4, <1>5

(* Serving a reopen, waiting, stopping and leaving.                        *)
LEMMA EndStep ==
  ASSUME HostInv, NEW g \in Hosts,
         \/ Reopen(g) \/ WaitOn(g) \/ GraceOver(g) \/ StopServer(g)
         \/ Leave(g) \/ Crash(g)
  PROVE  HostInv'
<1> USE DEF HostInv, HostTypes, startVars, updateVars, runVars, Goes
<1>1. CASE Reopen(g)
  <2>1. HostTypes' /\ \A h \in Hosts \ {g} : Same(h)
    BY <1>1 DEF Reopen, Places, Servers, Looks, Same
  <2>2. (Seen(g) /\ Told(g))'
    BY <1>1 DEF Reopen, Seen, Told, Early
  <2>3. QED
    BY <2>1, <2>2, OneHostKeeps
<1>2. CASE WaitOn(g)
  <2>1. HostTypes' /\ \A h \in Hosts \ {g} : Same(h)
    BY <1>2 DEF WaitOn, Places, Servers, Looks, Same
  <2>2. (Seen(g) /\ Told(g))'
    BY <1>2 DEF WaitOn, Seen, Told, Early
  <2>3. QED
    BY <2>1, <2>2, OneHostKeeps
<1>3. CASE GraceOver(g)
  <2>1. HostTypes' /\ \A h \in Hosts \ {g} : Same(h)
    BY <1>3 DEF GraceOver, Places, Servers, Looks, Same
  <2>2. (Seen(g) /\ Told(g))'
    BY <1>3 DEF GraceOver, Seen, Told, Early
  <2>3. QED
    BY <2>1, <2>2, OneHostKeeps
<1>4. CASE StopServer(g)
  <2>1. HostTypes' /\ \A h \in Hosts \ {g} : Same(h)
    BY <1>4 DEF StopServer, Stopped, Places, Servers, Looks, Same
  <2>2. (Seen(g) /\ Told(g))'
    BY <1>4 DEF StopServer, Stopped, Seen, Told, Early
  <2>3. QED
    BY <2>1, <2>2, OneHostKeeps
<1>5. CASE Leave(g)
  <2>1. HostTypes' /\ \A h \in Hosts \ {g} : Same(h)
    BY <1>5 DEF Leave, EndOfProcess, Places, Servers, Looks, Same
  <2>2. (Seen(g) /\ Told(g))'
    BY <1>5 DEF Leave, EndOfProcess, Seen, Told, Early
  <2>3. QED
    BY <2>1, <2>2, OneHostKeeps
<1>6. CASE Crash(g)
  <2>1. HostTypes' /\ \A h \in Hosts \ {g} : Same(h)
    BY <1>6 DEF Crash, EndOfProcess, Places, Servers, Looks, Same
  <2>2. (Seen(g) /\ Told(g))'
    BY <1>6 DEF Crash, EndOfProcess, Seen, Told, Early
  <2>3. QED
    BY <2>1, <2>2, OneHostKeeps
<1>7. QED
  BY <1>1, <1>2, <1>3, <1>4, <1>5, <1>6

(* Servers and runs move on their own.                                     *)
LEMMA OthersStep ==
  ASSUME HostInv, NEW g \in Hosts,
         \/ ServerStarts(g) \/ ServerDies(g) \/ LaunchRun(g) \/ RunEnds(g)
  PROVE  HostInv'
<1> USE DEF HostInv, HostTypes, startVars, updateVars, runVars, Goes
<1>1. CASE ServerStarts(g)
  <2>1. HostTypes' /\ \A h \in Hosts \ {g} : Same(h)
    BY <1>1 DEF ServerStarts, Places, Servers, Looks, Same
  <2>2. (Seen(g) /\ Told(g))'
    BY <1>1 DEF ServerStarts, Seen, Told, Early
  <2>3. QED
    BY <2>1, <2>2, OneHostKeeps
<1>2. CASE ServerDies(g)
  <2>1. HostTypes' /\ \A h \in Hosts \ {g} : Same(h)
    BY <1>2 DEF ServerDies, Places, Servers, Looks, Same
  <2>2. (Seen(g) /\ Told(g))'
    BY <1>2 DEF ServerDies, Seen, Told, Early
  <2>3. QED
    BY <2>1, <2>2, OneHostKeeps
<1>3. CASE LaunchRun(g)
  <2>1. HostTypes' /\ \A h \in Hosts \ {g} : Same(h)
    BY <1>3 DEF LaunchRun, Up, Places, Servers, Looks, Same
  <2>2. (Seen(g) /\ Told(g))'
    BY <1>3 DEF LaunchRun, Up, Seen, Told, Early
  <2>3. QED
    BY <2>1, <2>2, OneHostKeeps
<1>4. CASE RunEnds(g)
  <2>1. HostTypes' /\ \A h \in Hosts \ {g} : Same(h)
    BY <1>4 DEF RunEnds, Places, Servers, Looks, Same
  <2>2. (Seen(g) /\ Told(g))'
    BY <1>4 DEF RunEnds, Seen, Told, Early
  <2>3. QED
    BY <2>1, <2>2, OneHostKeeps
<1>5. QED
  BY <1>1, <1>2, <1>3, <1>4

(* Update requests touch no host but to mark an apply.                     *)
LEMMA RequestStep ==
  ASSUME HostInv,
         \/ \E h \in Hosts, action \in {"check", "download", "apply"} : BeginRequest(h, action)
         \/ \E r \in Requests : Request(r)
  PROVE  HostInv'
<1>1. UNCHANGED hostVars /\ UNCHANGED looked /\ applying \subseteq applying'
  BY DEF BeginRequest, Request, CheckForUpdate, StartDownload, EndDownload, Progress,
         CheckPhase, CheckActiveRuns, HandOver, Publish
<1>2. HostTypes' /\ \A h \in Hosts : Same(h)
  BY <1>1 DEF HostInv, HostTypes, hostVars, startVars, Same
<1>3. QED
  BY <1>2, SameKeeps DEF HostInv

LEMMA HostInit == Init => HostInv
BY DEF Init, HostInv, HostTypes, Places, Looks, Servers, Seen, Told, Early

LEMMA HostNext == HostInv /\ [Next]_vars => HostInv'
<1> SUFFICES ASSUME HostInv, [Next]_vars PROVE HostInv'
  OBVIOUS
<1>1. ASSUME NEW h \in Hosts, AcquireMutex(h) \/ Host(h) \/ Crash(h) PROVE HostInv'
  BY <1>1, StartStep, ServerStep, ClosedStep, EndStep DEF Host
<1>2. ASSUME NEW s \in Hosts, ServerStarts(s) \/ ServerDies(s) \/ LaunchRun(s) \/ RunEnds(s)
      PROVE  HostInv'
  BY <1>2, OthersStep
<1>3. ASSUME NEW h \in Hosts, NEW action \in {"check", "download", "apply"},
             BeginRequest(h, action)
      PROVE  HostInv'
  BY <1>3, RequestStep
<1>4. ASSUME NEW r \in Requests, Request(r) PROVE HostInv'
  BY <1>4, RequestStep
<1>5. CASE UNCHANGED vars
  <2>1. HostTypes' /\ \A h \in Hosts : Same(h)
    BY <1>5 DEF vars, HostInv, HostTypes, startVars, updateVars, runVars, Same
  <2>2. QED
    BY <2>1, SameKeeps DEF HostInv
<1>6. QED
  BY <1>1, <1>2, <1>3, <1>4, <1>5 DEF Next

THEOREM HostInvHolds == Spec => []HostInv
BY HostInit, HostNext, PTL DEF Spec

(* The two steps that stop a server: a start that fails has looked at no   *)
(* run, and a host stops only after a look that told of none, or failed.   *)
LEMMA StopKeepsAlive ==
  ASSUME HostInv, [Next]_vars, NEW h \in active,
         server[h] = "up", server'[h] = "down", port[h] = h
  PROVE  h \in fresh \/ looked[h] = "failed" \/ h \in applying
<1>0. h \in Hosts /\ Seen(h) /\ Told(h)
  BY DEF HostInv, HostTypes
<1>1. StartFails(h) \/ StopServer(h)
  <2>1. server' # server
    OBVIOUS
  <2>2. PICK g \in Hosts : \/ FindServer(g) \/ StartFails(g) \/ StopServer(g)
                           \/ ServerStarts(g) \/ ServerDies(g)
    BY <2>1 DEF Next, vars, startVars, hostVars, Host, Request, AcquireMutex, ReadControlFile,
       AskToOpen, NobodyAnswers, RemoveStaleControl, StartControl, ServerFound, OpenClient,
       ClientMissing, ClientExits, CheckRuns, PollFails, PollActive, PollIdle, Reopen, WaitOn,
       GraceOver, Leave, Crash, EndOfProcess, LaunchRun, RunEnds, BeginRequest,
       CheckForUpdate, StartDownload, EndDownload, Progress, CheckPhase, CheckActiveRuns,
       HandOver, Publish
  <2>3. QED
    BY <2>2, <1>0 DEF HostInv, HostTypes, FindServer, StartFails, StopServer, Stopped,
       ServerStarts, ServerDies
<1>2. QED
  BY <1>0, <1>1 DEF StartFails, StopServer, Goes, Seen, Told, Early

(* "Active runs exist - keeping server alive": no host stops its server    *)
(* under a run that its last look told it of.                              *)
THEOREM KeptAliveHolds == Spec => KeptAlive
<1>1. HostInv /\ [Next]_vars =>
        [\A h \in active : server[h] = "up" /\ server'[h] = "down" /\ port[h] = h
           => h \in fresh \/ looked[h] = "failed" \/ h \in applying]_vars
  BY StopKeepsAlive
<1>2. QED
  BY <1>1, HostInvHolds, PTL DEF Spec, KeptAlive

---------------------------------------------------------------------------
(* Updates, as long as the requests of one host do not overlap: what a     *)
(* request does next rests on the release its host has on hand, and a host *)
(* is "downloaded" with another one on hand only while the request that    *)
(* will publish otherwise is under way.                                    *)
Busy(r)   == req[r].at # "free"
Undoes(r) == req[r].at = "fetch" \/ (req[r].at = "publish" /\ req[r].result # "downloaded")
OnHand(h) == info[h] \in fetched

Apart == \A q, r \in Requests : Busy(q) /\ Busy(r) /\ req[q].host = req[r].host => q = r
Carries(r) ==
  /\ req[r].at = "fetch" => req[r].release = info[req[r].host]
  /\ req[r].at = "publish" /\ req[r].result = "downloaded" => OnHand(req[r].host)
  /\ req[r].at \in {"gate", "hand_over"} => OnHand(req[r].host)
Ready(h) ==
  /\ phase[h] = "downloaded" => OnHand(h) \/ \E r \in Requests : Undoes(r) /\ req[r].host = h
  /\ handed[h] # 0 => handed[h] \in fetched
Sound == Apart /\ (\A r \in Requests : Carries(r)) /\ \A h \in Hosts : Ready(h)
UpdateInv == UpdateTypes /\ (~crossed => Sound)

(* What a request in progress is.                                          *)
LEMMA RequestShape ==
  ASSUME UpdateTypes, NEW r \in Requests, Busy(r)
  PROVE  /\ req[r].host \in Hosts
         /\ req[r].at \in {"check", "download", "apply", "gate", "hand_over"} => req[r] \in Asking
         /\ req[r].at = "fetch" => req[r] \in Fetching
         /\ req[r].at = "publish" => req[r] \in Publishing
BY DEF UpdateTypes, Busy, Free, Asking, Fetching, Publishing

(* A request's own step: the other requests, and what concerns their hosts,*)
(* are as they were.                                                       *)
LEMMA RequestKeepsSound ==
  ASSUME UpdateTypes, UpdateTypes', Sound, NEW r \in Requests, Busy(r), NEW g,
         g = req[r].host, Busy(r)' => req'[r].host = g,
         \A q \in Requests \ {r} : req'[q] = req[q],
         \A h \in Hosts \ {g} : info'[h] = info[h] /\ phase'[h] = phase[h] /\ handed'[h] = handed[h],
         fetched \subseteq fetched', Carries(r)', Ready(g)'
  PROVE  Sound'
<1>1. Apart'
  BY DEF Sound, Apart, Busy
<1>2. ASSUME NEW q \in Requests PROVE Carries(q)'
  <2>1. CASE q = r
    BY <2>1
  <2>2. CASE q # r
    <3>1. CASE Busy(q)
      <4>1. req[q].host \in Hosts \ {g}
        BY <2>2, <3>1, RequestShape DEF Sound, Apart
      <4>2. QED
        BY <2>2, <4>1 DEF Sound, Carries, OnHand
    <3>2. CASE ~Busy(q)
      BY <2>2, <3>2 DEF Busy, Carries
    <3>3. QED
      BY <3>1, <3>2
  <2>3. QED
    BY <2>1, <2>2
<1>3. ASSUME NEW h \in Hosts PROVE Ready(h)'
  <2>1. CASE h = g
    BY <2>1
  <2>2. CASE h # g
    <3>1. Ready(h)
      BY DEF Sound
    <3>2. \A q \in Requests : Undoes(q) /\ req[q].host = h => Undoes(q)' /\ req'[q].host = h
      BY <2>2 DEF Undoes
    <3>3. QED
      BY <2>2, <3>1, <3>2 DEF Ready, OnHand
  <2>3. QED
    BY <2>1, <2>2
<1>4. QED
  BY <1>1, <1>2, <1>3 DEF Sound

LEMMA UpdateInit == Init => UpdateInv
BY HostAssumption DEF Init, UpdateInv, UpdateTypes, Free, Phases, Sound, Apart, Busy, Carries, Ready

(* The steps of a request, one by one.                                     *)
LEMMA CheckKeeps ==
  ASSUME UpdateInv, NEW r \in Requests, CheckForUpdate(r) PROVE UpdateInv'
<1> USE DEF CheckForUpdate, Publishes
<1>1. Busy(r) /\ req[r].host \in Hosts /\ req[r] \in Asking
  BY RequestShape DEF UpdateInv, Busy
<1>2. UpdateTypes'
  BY <1>1, HostAssumption DEF UpdateInv, UpdateTypes, Publishing, Phases
<1>3. ASSUME ~crossed PROVE Sound'
  <2> PICK g \in Hosts : g = req[r].host
    BY <1>1
  <2>1. req'[r].at = "publish" /\ req'[r].host = g /\ req'[r].result # "downloaded"
    BY <1>1 DEF UpdateInv, UpdateTypes
  <2>2. Carries(r)'
    BY <2>1 DEF Carries
  <2>3. Ready(g)'
    BY <1>1, <1>3, <2>1 DEF UpdateInv, Sound, Ready, Undoes
  <2>4. QED
    BY <1>1, <1>2, <1>3, <2>1, <2>2, <2>3, RequestKeepsSound DEF UpdateInv, UpdateTypes
<1>4. QED
  BY <1>2, <1>3 DEF UpdateInv

LEMMA StartDownloadKeeps ==
  ASSUME UpdateInv, NEW r \in Requests, StartDownload(r) PROVE UpdateInv'
<1> USE DEF StartDownload, Publishes
<1>1. Busy(r) /\ req[r].host \in Hosts /\ req[r] \in Asking
  BY RequestShape DEF UpdateInv, Busy
<1>2. UpdateTypes'
  BY <1>1 DEF UpdateInv, UpdateTypes, Publishing, Fetching, Phases
<1>3. ASSUME ~crossed PROVE Sound'
  <2> PICK g \in Hosts : g = req[r].host
    BY <1>1
  <2>1. req'[r].host = g /\ Undoes(r)' /\ (req'[r].at = "fetch" => req'[r].release = info[g])
    BY <1>1 DEF UpdateInv, UpdateTypes, Undoes
  <2>2. Carries(r)'
    BY <2>1 DEF Carries, Undoes
  <2>3. Ready(g)'
    BY <1>1, <1>3, <2>1 DEF UpdateInv, Sound, Ready
  <2>4. QED
    BY <1>1, <1>2, <1>3, <2>1, <2>2, <2>3, RequestKeepsSound DEF UpdateInv, UpdateTypes
<1>4. QED
  BY <1>2, <1>3 DEF UpdateInv

LEMMA ProgressKeeps ==
  ASSUME UpdateInv, NEW r \in Requests, NEW percent \in {50, 100}, Progress(r, percent)
  PROVE  UpdateInv'
<1> USE DEF Progress
<1>1. Busy(r) /\ req[r].host \in Hosts
  BY RequestShape DEF UpdateInv, Busy
<1>2. UpdateTypes'
  BY <1>1 DEF UpdateInv, UpdateTypes, Phases
<1>3. ASSUME ~crossed PROVE Sound'
  <2> PICK g \in Hosts : g = req[r].host
    BY <1>1
  <2>1. Carries(r)' /\ Ready(g)'
    BY <1>1, <1>3 DEF UpdateInv, Sound, Carries, Ready, Undoes, OnHand
  <2>2. QED
    BY <1>1, <1>2, <1>3, <2>1, RequestKeepsSound DEF UpdateInv, UpdateTypes
<1>4. QED
  BY <1>2, <1>3 DEF UpdateInv

LEMMA EndDownloadKeeps ==
  ASSUME UpdateInv, NEW r \in Requests, EndDownload(r) PROVE UpdateInv'
<1> USE DEF EndDownload, Publishes
<1>1. Busy(r) /\ req[r].host \in Hosts /\ req[r] \in Fetching
  BY RequestShape DEF UpdateInv, Busy
<1>2. UpdateTypes'
  BY <1>1 DEF UpdateInv, UpdateTypes, Publishing, Phases
<1>3. ASSUME ~crossed PROVE Sound'
  <2> PICK g \in Hosts : g = req[r].host
    BY <1>1
  <2>1. req'[r].at = "publish" /\ req'[r].host = g
    BY <1>1 DEF UpdateInv, UpdateTypes
  <2>2. Carries(r) /\ Ready(g)
    BY <1>1, <1>3 DEF UpdateInv, Sound
  <2>3. OnHand(g)' \/ req'[r].result # "downloaded"
    BY <1>1, <2>2 DEF UpdateInv, UpdateTypes, Carries, OnHand
  <2>4. Carries(r)' /\ Ready(g)'
    BY <1>1, <2>1, <2>2, <2>3 DEF Carries, Ready, Undoes
  <2>5. QED
    BY <1>1, <1>2, <1>3, <2>1, <2>4, RequestKeepsSound DEF UpdateInv, UpdateTypes
<1>4. QED
  BY <1>2, <1>3 DEF UpdateInv

(* "update_not_downloaded": a host whose one request looks is on hand.     *)
LEMMA CheckPhaseKeeps ==
  ASSUME UpdateInv, NEW r \in Requests, CheckPhase(r) PROVE UpdateInv'
<1> USE DEF CheckPhase, Calling, Publishes
<1>1. Busy(r) /\ req[r].host \in Hosts /\ req[r] \in Asking
  BY RequestShape DEF UpdateInv, Busy
<1>2. UpdateTypes'
  BY <1>1 DEF UpdateInv, UpdateTypes, Asking, Publishing, Phases
<1>3. ASSUME ~crossed PROVE Sound'
  <2> PICK g \in Hosts : g = req[r].host
    BY <1>1
  <2>1. Ready(g) /\ ~Undoes(r) /\ \A q \in Requests : Busy(q) /\ req[q].host = g => q = r
    BY <1>1, <1>3 DEF UpdateInv, Sound, Apart, Undoes
  <2>2. Downloaded(g) => OnHand(g)
    BY <2>1 DEF Ready, Downloaded, Busy, Undoes
  <2>3. /\ req'[r].host = g
        /\ \/ req'[r].at = "gate" /\ Downloaded(g)
           \/ req'[r].at = "publish" /\ req'[r].result # "downloaded"
    BY <1>1 DEF UpdateInv, UpdateTypes, Asking
  <2>4. Carries(r)' /\ Ready(g)'
    BY <2>1, <2>2, <2>3 DEF Carries, Ready, OnHand, Undoes
  <2>5. QED
    BY <1>1, <1>2, <1>3, <2>3, <2>4, RequestKeepsSound DEF UpdateInv, UpdateTypes
<1>4. QED
  BY <1>2, <1>3 DEF UpdateInv

LEMMA GateKeeps ==
  ASSUME UpdateInv, NEW r \in Requests, CheckActiveRuns(r) PROVE UpdateInv'
<1> USE DEF CheckActiveRuns, Calling, Publishes
<1>1. Busy(r) /\ req[r].host \in Hosts /\ req[r] \in Asking
  BY RequestShape DEF UpdateInv, Busy
<1>2. UpdateTypes'
  BY <1>1 DEF UpdateInv, UpdateTypes, Asking, Publishing, Phases
<1>3. ASSUME ~crossed PROVE Sound'
  <2> PICK g \in Hosts : g = req[r].host
    BY <1>1
  <2>1. Carries(r) /\ OnHand(g) /\ Ready(g)
    BY <1>1, <1>3 DEF UpdateInv, Sound, Carries
  <2>2. /\ req'[r].host = g
        /\ \/ req'[r].at = "hand_over"
           \/ req'[r].at = "publish" /\ req'[r].result # "downloaded"
    BY <1>1 DEF UpdateInv, UpdateTypes, Asking
  <2>3. Carries(r)' /\ Ready(g)'
    BY <2>1, <2>2 DEF Carries, Ready, OnHand
  <2>4. QED
    BY <1>1, <1>2, <1>3, <2>2, <2>3, RequestKeepsSound DEF UpdateInv, UpdateTypes
<1>4. QED
  BY <1>2, <1>3 DEF UpdateInv

LEMMA HandOverKeeps ==
  ASSUME UpdateInv, NEW r \in Requests, HandOver(r) PROVE UpdateInv'
<1> USE DEF HandOver, Publishes
<1>1. Busy(r) /\ req[r].host \in Hosts /\ req[r] \in Asking
  BY RequestShape DEF UpdateInv, Busy
<1>2. UpdateTypes'
  BY <1>1 DEF UpdateInv, UpdateTypes, Publishing, Phases
<1>3. ASSUME ~crossed PROVE Sound'
  <2> PICK g \in Hosts : g = req[r].host
    BY <1>1
  <2>1. OnHand(g) /\ Ready(g)
    BY <1>1, <1>3 DEF UpdateInv, Sound, Carries
  <2>2. req'[r].host = g /\ req'[r].at = "publish" /\ req'[r].result # "downloaded"
    BY <1>1 DEF UpdateInv, UpdateTypes
  <2>3. handed'[g] = handed[g] \/ handed'[g] = info[g]
    BY <1>1 DEF UpdateInv, UpdateTypes
  <2>4. Carries(r)' /\ Ready(g)'
    BY <2>1, <2>2, <2>3 DEF Carries, Ready, OnHand
  <2>5. QED
    BY <1>1, <1>2, <1>3, <2>2, <2>4, RequestKeepsSound DEF UpdateInv, UpdateTypes
<1>4. QED
  BY <1>2, <1>3 DEF UpdateInv

LEMMA PublishKeeps ==
  ASSUME UpdateInv, NEW r \in Requests, Publish(r) PROVE UpdateInv'
<1> USE DEF Publish
<1>1. Busy(r) /\ req[r].host \in Hosts /\ req[r] \in Publishing
  BY RequestShape DEF UpdateInv, Busy
<1>2. UpdateTypes'
  BY <1>1 DEF UpdateInv, UpdateTypes, Publishing
<1>3. ASSUME ~crossed PROVE Sound'
  <2> PICK g \in Hosts : g = req[r].host
    BY <1>1
  <2>1. Carries(r) /\ Ready(g)
    BY <1>1, <1>3 DEF UpdateInv, Sound
  <2>2. req'[r].at = "free" /\ phase'[g] = req[r].result
    BY <1>1 DEF UpdateInv, UpdateTypes, Free
  <2>3. Carries(r)'
    BY <2>2 DEF Carries
  <2>4. phase'[g] = "downloaded" => OnHand(g)'
    BY <2>1, <2>2 DEF Carries, OnHand
  <2>5. Ready(g)'
    BY <2>1, <2>4 DEF Ready
  <2>6. /\ \A q \in Requests \ {r} : req'[q] = req[q]
        /\ \A h \in Hosts \ {g} : phase'[h] = phase[h]
    BY <1>1 DEF UpdateInv, UpdateTypes
  <2>7. ~Busy(r)'
    BY <2>2 DEF Busy
  <2>8. QED
    BY <1>1, <1>2, <1>3, <2>3, <2>5, <2>6, <2>7, RequestKeepsSound DEF UpdateInv
<1>4. QED
  BY <1>2, <1>3 DEF UpdateInv

(* A request that does not overlap another of its host.                    *)
LEMMA BeginKeeps ==
  ASSUME UpdateInv, NEW g \in Hosts, NEW action \in {"check", "download", "apply"},
         BeginRequest(g, action)
  PROVE  UpdateInv'
<1> DEFINE free == {r \in Requests : req[r].at = "free"}
<1>1. PICK r \in free : req' = [req EXCEPT ![r] = [at |-> action, host |-> g]]
  BY DEF BeginRequest
<1>2. UpdateTypes'
  BY <1>1 DEF UpdateInv, UpdateTypes, BeginRequest, Asking, Phases
<1>3. ASSUME ~crossed' PROVE Sound'
  <2>1. ~crossed /\ Sound /\ \A q \in Requests : Busy(q) => req[q].host # g
    BY <1>3 DEF UpdateInv, BeginRequest, Busy
  <2>2. /\ req'[r].at = action /\ req'[r].host = g
        /\ \A q \in Requests \ {r} : req'[q] = req[q]
    BY <1>1 DEF UpdateInv, UpdateTypes
  <2>3. UNCHANGED <<info, fetched, handed>>
    BY DEF BeginRequest
  <2>4. Apart'
    BY <2>1, <2>2 DEF Sound, Apart, Busy
  <2>5. ASSUME NEW q \in Requests PROVE Carries(q)'
    BY <2>1, <2>2, <2>3 DEF Sound, Carries, OnHand
  <2>6. ASSUME NEW h \in Hosts PROVE Ready(h)'
    <3>1. Ready(h) /\ \A q \in Requests : Undoes(q) => Undoes(q)' /\ req'[q] = req[q]
      BY <1>1, <2>1, <2>2 DEF Sound, Undoes
    <3>2. phase'[h] = phase[h] \/ phase'[h] = "downloading"
      BY DEF UpdateInv, UpdateTypes, BeginRequest
    <3>3. QED
      BY <2>3, <3>1, <3>2 DEF Ready, OnHand
  <2>7. QED
    BY <2>4, <2>5, <2>6 DEF Sound
<1>4. QED
  BY <1>2, <1>3 DEF UpdateInv

(* The requests of a host end with its process, its updater with them.     *)
LEMMA ProcessEndKeeps ==
  ASSUME UpdateInv, NEW g \in Hosts, EndOfProcess(g) PROVE UpdateInv'
<1> USE DEF EndOfProcess
<1>1. UpdateTypes'
  BY DEF UpdateInv, UpdateTypes, Phases
<1>2. ASSUME ~crossed PROVE Sound'
  <2>1. Sound
    BY <1>2 DEF UpdateInv
  <2>2. ASSUME NEW r \in Requests
        PROVE  \/ ~Busy(r)' /\ (~Busy(r) \/ req[r].host = g)
               \/ Busy(r) /\ req'[r] = req[r] /\ req[r].host \in Hosts \ {g}
    BY RequestShape DEF Busy, Free, UpdateInv, UpdateTypes
  <2>3. /\ info'[g] = 0 /\ handed'[g] = 0 /\ phase'[g] = "idle" /\ fetched' = fetched
        /\ \A h \in Hosts \ {g} : info'[h] = info[h] /\ handed'[h] = handed[h] /\ phase'[h] = phase[h]
    BY DEF UpdateInv, UpdateTypes
  <2>4. Apart'
    BY <2>1, <2>2 DEF Sound, Apart, Busy
  <2>5. ASSUME NEW r \in Requests PROVE Carries(r)'
    BY <2>1, <2>2, <2>3 DEF Sound, Carries, OnHand, Busy
  <2>6. ASSUME NEW h \in Hosts PROVE Ready(h)'
    <3>1. CASE h = g
      BY <2>3, <3>1 DEF Ready
    <3>2. CASE h # g
      <4>1. Ready(h)
        BY <2>1 DEF Sound
      <4>2. \A r \in Requests : Undoes(r) /\ req[r].host = h => Undoes(r)' /\ req'[r].host = h
        BY <2>2, <3>2 DEF Undoes, Busy
      <4>3. QED
        BY <2>3, <3>2, <4>1, <4>2 DEF Ready, OnHand
    <3>3. QED
      BY <3>1, <3>2
  <2>7. QED
    BY <2>4, <2>5, <2>6 DEF Sound
<1>3. QED
  BY <1>1, <1>2 DEF UpdateInv

LEMMA UpdateNext == UpdateInv /\ [Next]_vars => UpdateInv'
<1> SUFFICES ASSUME UpdateInv, [Next]_vars PROVE UpdateInv'
  OBVIOUS
<1>1. ASSUME UNCHANGED updateVars PROVE UpdateInv'
  BY <1>1 DEF updateVars, UpdateInv, UpdateTypes, Sound, Apart, Busy, Carries, Ready, Undoes,
     OnHand
<1>2. ASSUME NEW h \in Hosts, AcquireMutex(h) \/ Host(h) \/ Crash(h) PROVE UpdateInv'
  <2>1. EndOfProcess(h) \/ UNCHANGED updateVars
    BY <1>2 DEF Host, AcquireMutex, ReadControlFile, AskToOpen, NobodyAnswers,
       RemoveStaleControl, StartControl, FindServer, ServerFound, StartFails, OpenClient,
       ClientMissing, ClientExits, CheckRuns, PollFails, PollActive, PollIdle, Reopen, WaitOn,
       GraceOver, StopServer, Leave, Crash
  <2>2. QED
    BY <1>1, <2>1, ProcessEndKeeps
<1>3. ASSUME NEW s \in Hosts, ServerStarts(s) \/ ServerDies(s) \/ LaunchRun(s) \/ RunEnds(s)
      PROVE  UpdateInv'
  BY <1>1, <1>3 DEF ServerStarts, ServerDies, LaunchRun, RunEnds
<1>4. ASSUME NEW h \in Hosts, NEW action \in {"check", "download", "apply"},
             BeginRequest(h, action)
      PROVE  UpdateInv'
  BY <1>4, BeginKeeps
<1>5. ASSUME NEW r \in Requests, Request(r) PROVE UpdateInv'
  BY <1>5, CheckKeeps, StartDownloadKeeps, ProgressKeeps, EndDownloadKeeps, CheckPhaseKeeps,
     GateKeeps, HandOverKeeps, PublishKeeps DEF Request
<1>6. CASE UNCHANGED vars
  BY <1>1, <1>6 DEF vars
<1>7. QED
  BY <1>2, <1>3, <1>4, <1>5, <1>6 DEF Next

(* "update_not_downloaded": whatever checks, failures, new releases and    *)
(* ends of the host came between a client's requests, none of them         *)
(* overlapping, what it has handed to the updater was downloaded.          *)
THEOREM AppliedWasDownloadedHolds == Spec => []AppliedWasDownloaded
<1>1. UpdateInv => AppliedWasDownloaded
  BY DEF UpdateInv, Sound, Ready, AppliedWasDownloaded
<1>2. QED
  BY <1>1, UpdateInit, UpdateNext, PTL DEF Spec

=============================================================================
