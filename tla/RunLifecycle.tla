--------------------------- MODULE RunLifecycle ---------------------------
(***************************************************************************)
(* The status of one run id in the observer server: RunManager             *)
(* (observer/run_manager.py) with the launching handler and its run thread *)
(* (observer/handler.py), and status.json (observer_protocol.py).          *)
(*                                                                         *)
(* The status lives twice: in memory, under the server's lock, and in the  *)
(* run's directory, written outside the lock.  Handlers run in a thread    *)
(* each, read the status first and act on it later; the run thread does    *)
(* too.  One action is one critical section or one file operation.  What   *)
(* adds metadata to status.json reads the file in one step and replaces it *)
(* in a later one.  The write itself (a temporary file, then replace) is   *)
(* one operation: all writers share the temporary name, so of two at once  *)
(* the text written last is the one published, by whichever replaces       *)
(* first, and the other replace finds nothing; that is the two writes one  *)
(* after the other.                                                        *)
(***************************************************************************)
EXTENDS Naturals, FiniteSets

CONSTANTS
  Launches,      \* POST /api/runs: the handler, then the thread it starts
  Interrupts,    \* POST /api/runs/{id}/interrupt
  Deletes,       \* DELETE /api/runs/{id}
  MaxCrashes     \* bound: restarts of the server

Requests  == Interrupts \cup Deletes
Processes == Launches \cup Requests

ASSUME ProcessAssumption ==
  /\ Launches \cap Requests = {} /\ Interrupts \cap Deletes = {}
  /\ MaxCrashes \in Nat

Absent   == "absent"
Active   == {"queued", "running"}
Finished == {"completed", "failed"}
Verdicts == {[status |-> "completed", reason |-> "none"],
             [status |-> "failed", reason |-> "fault"]}

NoVerdict == [status |-> "none", reason |-> "none"]

VARIABLES
  dir,       \* the run's directory exists
  file,      \* status.json; unknown when it is missing or has no status
  memory,    \* run_status[run_id]
  error,     \* run_errors[run_id]
  at,        \* where each process is
  seen,      \* the status each process read
  verdict,   \* what each launcher returned
  payload,   \* what each process read of status.json to add metadata to it
  crashes,   \* the restarts so far
  crowded    \* history since then: a launch took the id with another at work

disk == <<dir, file>>
ram  == <<memory, error>>
rest == <<payload, crashes, crowded>>
vars == <<disk, ram, at, seen, verdict, rest>>

NoFile == [status |-> "unknown", reason |-> "none"]

Init ==
  /\ dir = FALSE /\ file = NoFile
  /\ memory = Absent /\ error = "none"
  /\ at = [x \in Processes |-> IF x \in Launches THEN "idle" ELSE "lookup"]
  /\ seen = [x \in Processes |-> "unknown"]
  /\ verdict = [x \in Launches |-> NoVerdict]
  /\ payload = [x \in Processes |-> NoFile]
  /\ crashes = 0 /\ crowded = FALSE

(* The handler or the thread of a launch has work to do.                   *)
Works(x) == at[x] \notin {"idle", "free", "done"}

(* A process moves on.  It acts on the status it has read when it decides; *)
(* what its launcher returned it needs to the end.                         *)
Moves(x, from, to) == at[x] = from /\ at' = [at EXCEPT ![x] = to]
Goes(x, from, to) ==
  /\ Moves(x, from, to)
  /\ seen' = [seen EXCEPT ![x] = "unknown"]
  /\ verdict' = IF to = "done" /\ x \in Launches THEN [verdict EXCEPT ![x] = NoVerdict]
                ELSE verdict
Sees(x, from, status) == /\ Moves(x, from, "decide")
                         /\ seen' = [seen EXCEPT ![x] = status]
                         /\ UNCHANGED verdict

(* write_run_status, with or without a directory: it makes one.            *)
WriteStatus(status) == dir' = TRUE /\ file' = [status |-> status, reason |-> "none"]
SaveStatus(x, from, to, status) ==
  /\ Goes(x, from, to)
  /\ WriteStatus(status)
  /\ UNCHANGED <<ram, rest>>

(* _write_status_metadata: the file is read (nothing of one that is not    *)
(* there) and later replaced by what was read with the reason added, in a  *)
(* directory made anew if need be.                                         *)
ReadPayload(x, from, to) ==
  /\ Goes(x, from, to)
  /\ payload' = [payload EXCEPT ![x] = file]
  /\ UNCHANGED <<disk, ram, crashes, crowded>>

WritePayload(x, reason) ==
  /\ dir' = TRUE /\ file' = [payload[x] EXCEPT !.reason = reason]
  /\ payload' = [payload EXCEPT ![x] = NoFile]
  /\ UNCHANGED <<ram, crashes, crowded>>

---------------------------------------------------------------------------
(* get_status: memory first; then the file, where an active status without *)
(* a memory entry is the leftover of a restart and is marked interrupted.  *)
(* A GET does no more than this: an interrupt that goes no further.        *)

LookUp(x) ==
  /\ IF memory = Absent
     THEN Goes(x, "lookup", "file") ELSE Sees(x, "lookup", memory)
  /\ UNCHANGED <<disk, ram, rest>>

ReadFile(x) ==
  /\ IF file.status \in Active
     THEN Goes(x, "file", "stale") ELSE Sees(x, "file", file.status)
  /\ UNCHANGED <<disk, ram, rest>>

CheckStale(x) ==                               \* _run_interrupt_result
  /\ IF dir THEN Goes(x, "stale", "archive") ELSE Sees(x, "stale", "interrupted")
  /\ UNCHANGED <<disk, ram, rest>>

WriteStale(x) ==
  /\ Sees(x, "archive_noting", "interrupted")
  /\ WritePayload(x, "server_restart_stale")

ArchiveStale(x) == \/ CheckStale(x)
                   \/ SaveStatus(x, "archive", "archive_note", "interrupted")
                   \/ ReadPayload(x, "archive_note", "archive_noting")
                   \/ WriteStale(x)

GetStatus(x) == LookUp(x) \/ ReadFile(x) \/ ArchiveStale(x)

---------------------------------------------------------------------------
(* A launch: the handler refuses an existing directory, creates it, queues *)
(* the run and starts its thread; the thread runs the launcher, asks       *)
(* whether the run was interrupted meanwhile, and records the verdict.     *)

CheckFree(x) ==
  /\ Goes(x, "idle", IF dir THEN "done" ELSE "free")
  /\ UNCHANGED <<disk, ram, rest>>

MakeDir(x) ==                                  \* mkdir raises when it exists
  /\ Goes(x, "free", IF dir THEN "done" ELSE "made")
  /\ dir' = TRUE
  /\ crowded' = (crowded \/ (~dir /\ \E y \in Launches \ {x} : Works(y)))
  /\ UNCHANGED <<file, ram, payload, crashes>>

SetMemory(x, from, to, status) ==
  /\ Goes(x, from, to)
  /\ memory' = status
  /\ UNCHANGED <<disk, error, rest>>

Queue(x) == \/ SetMemory(x, "made", "queueing", "queued")
            \/ SaveStatus(x, "queueing", "queued", "queued")
Start(x) == \/ SetMemory(x, "queued", "starting", "running")
            \/ SaveStatus(x, "starting", "launcher", "running")

LauncherReturns(x, v) ==
  /\ Moves(x, "launcher", "lookup")
  /\ verdict' = [verdict EXCEPT ![x] = v]
  /\ UNCHANGED <<disk, ram, seen, rest>>

JudgeBug(x) ==                                 \* a failing launcher ends the thread
  /\ Goes(x, "decide", IF seen[x] = "interrupted" \/ verdict[x].status = "failed"
                       THEN "done" ELSE "commit")
  /\ UNCHANGED <<disk, ram, rest>>
Judge(x) ==
  /\ Goes(x, "decide", IF seen[x] = "interrupted" THEN "done"
                       ELSE IF verdict[x].status = "failed" THEN "error" ELSE "commit")
  /\ UNCHANGED <<disk, ram, rest>>

SetError(x) ==
  /\ Goes(x, "error", "commit")
  /\ error' = verdict[x].reason
  /\ UNCHANGED <<disk, memory, rest>>

ReadNote(x) == ReadPayload(x, "note", "noting")

SkipNote(x) ==                                 \* completed, with nothing to add
  /\ verdict[x].status # "failed"
  /\ Goes(x, "note", "done")
  /\ UNCHANGED <<disk, ram, rest>>

NoteVerdictBug(x) ==                           \* the reason kept in memory only
  /\ Goes(x, "noting", "done")
  /\ WritePayload(x, payload[x].reason)
NoteVerdict(x) ==
  /\ Goes(x, "noting", "done")
  /\ WritePayload(x, IF verdict[x].status = "failed" THEN verdict[x].reason
                     ELSE payload[x].reason)

Record(x) == \/ SetError(x)
             \/ SetMemory(x, "commit", "saving", verdict[x].status)
             \/ SaveStatus(x, "saving", "note", verdict[x].status)
             \/ ReadNote(x) \/ SkipNote(x) \/ NoteVerdict(x)

Launch(x) == \/ CheckFree(x) \/ MakeDir(x) \/ Queue(x) \/ Start(x)
             \/ \E v \in Verdicts : LauncherReturns(x, v)
             \/ GetStatus(x) \/ Judge(x) \/ Record(x)

---------------------------------------------------------------------------
(* interrupt_run: only an active run is marked, in the file and then in    *)
(* memory; the run thread is not stopped.                                  *)

DecideInterrupt(x) ==
  /\ Goes(x, "decide", IF ~dir THEN "done"
                       ELSE IF seen[x] = "interrupted" THEN "mark_memory"
                       ELSE IF seen[x] \in Active THEN "mark" ELSE "done")
  /\ UNCHANGED <<disk, ram, rest>>

NoteInterrupt(x) ==
  /\ Goes(x, "noting", "mark_memory")
  /\ WritePayload(x, "user")

MarkMemory(x) ==
  /\ Goes(x, "mark_memory", "done")
  /\ memory' = "interrupted" /\ error' = "none"
  /\ UNCHANGED <<disk, rest>>

Interrupt(x) == \/ GetStatus(x) \/ DecideInterrupt(x)
                \/ SaveStatus(x, "mark", "note", "interrupted")
                \/ ReadPayload(x, "note", "noting") \/ NoteInterrupt(x) \/ MarkMemory(x)

(* delete_run: refused while active; rmtree may fail half-way.             *)
DecideDelete(x) ==
  /\ Goes(x, "decide", IF seen[x] \in Active \/ ~dir THEN "done" ELSE "remove")
  /\ UNCHANGED <<disk, ram, rest>>

RemoveTree(x) ==
  /\ Goes(x, "remove", "evict")
  /\ dir' = FALSE /\ file' = NoFile
  /\ UNCHANGED <<ram, rest>>

RemoveFails(x) ==
  /\ Goes(x, "remove", "done")
  /\ file' \in {file, NoFile}
  /\ UNCHANGED <<dir, ram, rest>>

Evict(x) ==
  /\ Goes(x, "evict", "done")
  /\ memory' = Absent /\ error' = "none"
  /\ UNCHANGED <<disk, rest>>

Delete(x) == GetStatus(x) \/ DecideDelete(x) \/ RemoveTree(x) \/ RemoveFails(x) \/ Evict(x)

---------------------------------------------------------------------------
(* The server dies and restarts: the memory and every thread are gone.     *)
Crash ==
  /\ crashes < MaxCrashes
  /\ crashes' = crashes + 1
  /\ memory' = Absent /\ error' = "none"
  /\ at' = [x \in Processes |->
              IF at[x] = "idle" \/ (x \in Requests /\ at[x] = "lookup") THEN at[x] ELSE "done"]
  /\ seen' = [x \in Processes |-> "unknown"]
  /\ verdict' = [x \in Launches |-> NoVerdict]
  /\ payload' = [x \in Processes |-> NoFile]
  /\ crowded' = FALSE
  /\ UNCHANGED disk

Next == \/ \E x \in Launches   : Launch(x)
        \/ \E x \in Interrupts : Interrupt(x)
        \/ \E x \in Deletes    : Delete(x)
        \/ Crash

(* A launch, once begun, runs on: its launcher returns, a game being       *)
(* bounded by its budget and rounds.  Nobody owes a request.               *)
Fairness == \A x \in Launches : WF_vars(at[x] # "idle" /\ Launch(x))
Spec == Init /\ [][Next]_vars /\ Fairness

---------------------------------------------------------------------------
Places == {"idle", "free", "made", "queueing", "queued", "starting", "launcher",
           "lookup", "file", "stale", "archive", "archive_note", "archive_noting", "decide",
           "error", "commit", "saving", "note", "noting", "mark", "mark_memory", "remove", "evict", "done"}
RunStatuses == Active \cup Finished \cup {"interrupted"}
Reasons     == {"none", "fault", "user", "server_restart_stale"}
Contents    == [status : RunStatuses \cup {"unknown"}, reason : Reasons]

(* The status, the file, the memory and the processes have their types.    *)
TypeOK ==
  /\ dir \in BOOLEAN
  /\ file \in Contents
  /\ memory \in RunStatuses \cup {Absent}
  /\ error \in {"none", "fault"}
  /\ at \in [Processes -> Places]
  /\ seen \in [Processes -> RunStatuses \cup {"unknown"}]
  /\ verdict \in [Launches -> Verdicts \cup {NoVerdict}]
  /\ payload \in [Processes -> Contents]
  /\ crashes \in 0..MaxCrashes /\ crowded \in BOOLEAN

(* The status a client is shown now.                                       *)
Status == IF memory # Absent THEN memory
          ELSE IF file.status \in Active THEN "interrupted" ELSE file.status

(* No zombie: a run shown as queued or running has a handler or a thread   *)
(* that will still record its end, whatever was interrupted, deleted,      *)
(* launched again or lost in a restart meanwhile.                          *)
AtWork == {x \in Launches : Works(x)}
NoZombie == Status \in Active => AtWork # {}

(* The durable record of a failure keeps its reason: once nobody is at     *)
(* work, a status.json that says failed says why, although the reason is   *)
(* added to it by a read and a later write that interrupts, deletions and  *)
(* the archiving of stale runs get between.  (The reason is written after  *)
(* the status: a crash in between does lose it, and so may the thread of   *)
(* an earlier launch still at work in the directory: ReasonRecorded.)      *)
Quiet == /\ \A x \in Launches : at[x] \in {"idle", "free", "done"}
         /\ \A x \in Requests : at[x] \in {"lookup", "done"}
ReasonRecorded == Quiet /\ crashes = 0 /\ file.status = "failed" => file.reason # "none"
ReasonKept     == ~crowded => ReasonRecorded

(* Every run that is launched ends: it is not shown as active for ever.    *)
Settles == <>[](Status \notin Active)

===========================================================================
