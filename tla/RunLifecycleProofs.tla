------------------------- MODULE RunLifecycleProofs -------------------------
(***************************************************************************)
(* What the status of a run says, for any number of launches, interrupts   *)
(* and deletions of one run id, and of restarts.                           *)
(***************************************************************************)
EXTENDS RunLifecycle, TLAPS

(* A thread whose launcher has returned knows its verdict, until it ends.  *)
Judged == {"lookup", "file", "stale", "archive", "archive_note", "archive_noting",
           "decide", "error", "commit", "saving", "note", "noting"}
Informed == \A x \in Launches : at[x] \in Judged => verdict[x] \in Verdicts
TypeInv  == TypeOK /\ Informed

(* The places, what is seen and the verdicts: the state of the processes.  *)
ProcessesOK ==
  /\ at \in [Processes -> Places]
  /\ seen \in [Processes -> RunStatuses \cup {"unknown"}]
  /\ verdict \in [Launches -> Verdicts \cup {NoVerdict}]
  /\ Informed

LEMMA InitType == Init => TypeInv
<1> SUFFICES ASSUME Init PROVE TypeInv OBVIOUS
<1> USE ProcessAssumption DEF Init
<1>1. at \in [Processes -> Places]
  BY DEF Places
<1>2. Informed
  <2>1. \A x \in Launches : at[x] = "idle"
    BY DEF Processes
  <2>2. QED
    BY <2>1 DEF Informed, Judged
<1>3. file \in Contents /\ payload \in [Processes -> Contents]
  BY DEF NoFile, Reasons, Contents
<1>4. seen \in [Processes -> RunStatuses \cup {"unknown"}]
  OBVIOUS
<1>5. crashes \in 0..MaxCrashes
  OBVIOUS
<1>6. QED
  BY <1>1, <1>2, <1>3, <1>4, <1>5 DEF TypeInv, TypeOK

(* A process that moves keeps the types, unless it moves to where its      *)
(* verdict is used without having one.                                     *)
LEMMA GoesType ==
  ASSUME TypeInv, NEW x \in Processes, NEW from, NEW to \in Places, Goes(x, from, to),
         x \in Launches => (to \in Judged => from \in Judged)
  PROVE  ProcessesOK'
<1> USE DEF TypeInv, TypeOK
<1>1. /\ at' \in [Processes -> Places]
      /\ seen' \in [Processes -> RunStatuses \cup {"unknown"}]
      /\ verdict' \in [Launches -> Verdicts \cup {NoVerdict}]
  BY DEF Goes, Moves
<1>2. Informed'
  BY DEF Goes, Moves, Informed, Judged, Processes
<1>3. QED
  BY <1>1, <1>2 DEF ProcessesOK

LEMMA SeesType ==
  ASSUME TypeInv, NEW x \in Processes, NEW from \in Judged,
         NEW status \in RunStatuses \cup {"unknown"}, Sees(x, from, status)
  PROVE  ProcessesOK'
<1> USE DEF TypeInv, TypeOK
<1>1. /\ at' \in [Processes -> Places]
      /\ seen' \in [Processes -> RunStatuses \cup {"unknown"}]
      /\ verdict' \in [Launches -> Verdicts \cup {NoVerdict}]
  BY DEF Sees, Moves, Places
<1>2. Informed'
  BY DEF Sees, Moves, Informed, Judged, Processes
<1>3. QED
  BY <1>1, <1>2 DEF ProcessesOK

(* The three file operations of a status: it is saved, or it is read and   *)
(* later written with a reason.                                            *)
LEMMA SaveType ==
  ASSUME TypeInv, NEW x \in Processes, NEW from, NEW to \in Places,
         NEW status \in RunStatuses, SaveStatus(x, from, to, status),
         x \in Launches => (to \in Judged => from \in Judged)
  PROVE  TypeInv'
<1>1. ProcessesOK'
  BY GoesType DEF SaveStatus
<1>2. file' \in Contents /\ dir' = TRUE /\ UNCHANGED <<ram, rest>>
  BY DEF SaveStatus, WriteStatus, Contents, Reasons
<1>3. QED
  BY <1>1, <1>2 DEF TypeInv, TypeOK, ProcessesOK, ram, rest

LEMMA ReadType ==
  ASSUME TypeInv, NEW x \in Processes, NEW from, NEW to \in Places,
         ReadPayload(x, from, to),
         x \in Launches => (to \in Judged => from \in Judged)
  PROVE  TypeInv'
<1>1. ProcessesOK'
  BY GoesType DEF ReadPayload
<1>2. payload' \in [Processes -> Contents]
  BY DEF ReadPayload, TypeInv, TypeOK
<1>3. QED
  BY <1>1, <1>2 DEF ReadPayload, TypeInv, TypeOK, ProcessesOK, disk, ram

LEMMA WriteType ==
  ASSUME TypeInv, NEW x \in Processes, NEW reason \in Reasons, ProcessesOK',
         WritePayload(x, reason)
  PROVE  TypeInv'
<1>1. payload[x] \in Contents
  BY DEF TypeInv, TypeOK
<1>2. file' \in Contents
  BY <1>1 DEF WritePayload, Contents
<1>3. payload' \in [Processes -> Contents]
  BY DEF WritePayload, TypeInv, TypeOK, NoFile, Contents, Reasons
<1>4. QED
  BY <1>2, <1>3 DEF WritePayload, TypeInv, TypeOK, ProcessesOK, ram

LEMMA GetStatusType ==
  ASSUME TypeInv, NEW x \in Processes, GetStatus(x) PROVE TypeInv'
<1> USE DEF TypeInv, TypeOK, disk, ram, rest
<1>1. CASE LookUp(x)
  <2>1. CASE memory = Absent
    BY <1>1, <2>1, GoesType DEF LookUp, Places, Judged, ProcessesOK
  <2>2. CASE memory # Absent
    BY <1>1, <2>2, SeesType DEF LookUp, Judged, ProcessesOK
  <2>3. QED
    BY <2>1, <2>2
<1>2. CASE ReadFile(x)
  <2>1. CASE file.status \in Active
    BY <1>2, <2>1, GoesType DEF ReadFile, Places, Judged, ProcessesOK
  <2>2. CASE file.status \notin Active
    <3>1. file.status \in RunStatuses \cup {"unknown"}
      BY DEF Contents
    <3>2. QED
      BY <1>2, <2>2, <3>1, SeesType DEF ReadFile, Judged, ProcessesOK
  <2>3. QED
    BY <2>1, <2>2
<1>3. CASE CheckStale(x)
  <2>1. CASE dir
    BY <1>3, <2>1, GoesType DEF CheckStale, Places, Judged, ProcessesOK
  <2>2. CASE ~dir
    BY <1>3, <2>2, SeesType DEF CheckStale, RunStatuses, Judged, ProcessesOK
  <2>3. QED
    BY <2>1, <2>2
<1>4. CASE SaveStatus(x, "archive", "archive_note", "interrupted")
  BY <1>4, SaveType DEF Places, RunStatuses, Judged
<1>5. CASE ReadPayload(x, "archive_note", "archive_noting")
  BY <1>5, ReadType DEF Places, Judged
<1>6. CASE WriteStale(x)
  <2>1. ProcessesOK'
    BY <1>6, SeesType DEF WriteStale, RunStatuses, Judged
  <2>2. QED
    BY <1>6, <2>1, WriteType DEF WriteStale, Reasons
<1>7. QED
  BY <1>1, <1>2, <1>3, <1>4, <1>5, <1>6 DEF GetStatus, ArchiveStale

LEMMA LaunchType ==
  ASSUME TypeInv, NEW x \in Launches, Launch(x) PROVE TypeInv'
<1>0. x \in Processes
  BY DEF Processes
<1> USE <1>0 DEF TypeInv, TypeOK, disk, ram, rest
<1>1. CASE CheckFree(x) \/ MakeDir(x)
  BY <1>1, GoesType DEF CheckFree, MakeDir, Places, Judged, ProcessesOK
<1>2. CASE \/ SetMemory(x, "made", "queueing", "queued")
           \/ SetMemory(x, "queued", "starting", "running")
  <2>1. ProcessesOK'
    BY <1>2, GoesType DEF SetMemory, Places, Judged
  <2>2. QED
    BY <1>2, <2>1 DEF SetMemory, RunStatuses, Active, ProcessesOK
<1>a. CASE \/ SaveStatus(x, "queueing", "queued", "queued")
           \/ SaveStatus(x, "starting", "launcher", "running")
  BY <1>a, SaveType DEF Places, Judged, RunStatuses, Active
<1>3. ASSUME NEW v \in Verdicts, LauncherReturns(x, v) PROVE TypeInv'
  <2>1. /\ at' = [at EXCEPT ![x] = "lookup"]
        /\ verdict' = [verdict EXCEPT ![x] = v]
        /\ UNCHANGED <<dir, file, memory, error, seen, rest>>
    BY <1>3 DEF LauncherReturns, Moves
  <2>2. at' \in [Processes -> Places]
    BY <2>1 DEF Places
  <2>3. verdict' \in [Launches -> Verdicts \cup {NoVerdict}]
    BY <2>1
  <2>4. Informed'
    BY <2>1 DEF Informed, Judged, Processes
  <2>5. QED
    BY <2>1, <2>2, <2>3, <2>4
<1>4. CASE GetStatus(x)
  BY <1>4, GetStatusType
<1>5. CASE Judge(x)
  BY <1>5, GoesType DEF Judge, Places, Judged, ProcessesOK
<1>6. CASE SetError(x)
  BY <1>6, GoesType DEF SetError, Places, Verdicts, NoVerdict, Judged, ProcessesOK
<1>7. ASSUME at[x] \in {"commit", "saving"} PROVE verdict[x].status \in RunStatuses
  BY <1>7 DEF Informed, Judged, Verdicts, RunStatuses, Finished
<1>8. CASE SetMemory(x, "commit", "saving", verdict[x].status)
  BY <1>7, <1>8, GoesType DEF SetMemory, Goes, Moves, Places, Judged, ProcessesOK
<1>9. CASE SaveStatus(x, "saving", "note", verdict[x].status)
  <2>1. at[x] = "saving"
    BY <1>9 DEF SaveStatus, Goes, Moves
  <2>2. QED
    BY <1>7, <1>9, <2>1, SaveType DEF Places, Judged
<1>10. CASE ReadNote(x)
  BY <1>10, ReadType DEF ReadNote, Places, Judged
<1>11. CASE SkipNote(x)
  BY <1>11, GoesType DEF SkipNote, Places, Judged, ProcessesOK
<1>12. CASE NoteVerdict(x)
  <2>1. ProcessesOK'
    BY <1>12, GoesType DEF NoteVerdict, Places, Judged
  <2>2. verdict[x].reason \in Reasons /\ payload[x].reason \in Reasons
    BY DEF Verdicts, NoVerdict, Reasons, Contents
  <2>3. QED
    BY <1>12, <2>1, <2>2, WriteType DEF NoteVerdict
<1>13. QED
  BY <1>1, <1>2, <1>a, <1>3, <1>4, <1>5, <1>6, <1>8, <1>9, <1>10, <1>11, <1>12
  DEF Launch, Queue, Start, Record

LEMMA RequestType ==
  ASSUME TypeInv, NEW x \in Requests, Interrupt(x) \/ Delete(x) PROVE TypeInv'
<1>0. x \in Processes /\ x \notin Launches
  BY ProcessAssumption DEF Processes
<1> USE <1>0 DEF TypeInv, TypeOK, disk, ram, rest
<1>1. CASE GetStatus(x)
  BY <1>1, GetStatusType
<1>2. CASE DecideInterrupt(x) \/ DecideDelete(x)
  BY <1>2, GoesType DEF DecideInterrupt, DecideDelete, Places, ProcessesOK
<1>3. CASE SaveStatus(x, "mark", "note", "interrupted")
  BY <1>3, SaveType DEF Places, RunStatuses
<1>7. CASE ReadPayload(x, "note", "noting")
  BY <1>7, ReadType DEF Places
<1>a. CASE NoteInterrupt(x)
  <2>1. ProcessesOK'
    BY <1>a, GoesType DEF NoteInterrupt, Places
  <2>2. QED
    BY <1>a, <2>1, WriteType DEF NoteInterrupt, Reasons
<1>4. CASE MarkMemory(x) \/ Evict(x)
  BY <1>4, GoesType DEF MarkMemory, Evict, Places, RunStatuses, ProcessesOK
<1>5. CASE RemoveTree(x)
  <2>1. ProcessesOK'
    BY <1>5, GoesType DEF RemoveTree, Places
  <2>2. QED
    BY <1>5, <2>1 DEF RemoveTree, NoFile, Contents, Reasons, ProcessesOK
<1>b. CASE RemoveFails(x)
  <2>1. ProcessesOK'
    BY <1>b, GoesType DEF RemoveFails, Places
  <2>2. QED
    BY <1>b, <2>1 DEF RemoveFails, NoFile, Contents, Reasons, ProcessesOK
<1>6. QED
  BY <1>1, <1>2, <1>3, <1>7, <1>a, <1>4, <1>5, <1>b DEF Interrupt, Delete

LEMMA CrashType == ASSUME TypeInv, Crash PROVE TypeInv'
<1> USE ProcessAssumption DEF TypeInv, TypeOK, Crash, disk, ram
<1>1. at' \in [Processes -> Places]
  BY DEF Places
<1>2. Informed'
  <2>1. \A x \in Launches : at'[x] \in {"idle", "done"}
    BY DEF Processes
  <2>2. QED
    BY <2>1 DEF Informed, Judged
<1>3. payload' \in [Processes -> Contents]
  BY DEF NoFile, Contents, Reasons
<1>4. seen' \in [Processes -> RunStatuses \cup {"unknown"}]
  OBVIOUS
<1>5. verdict' \in [Launches -> Verdicts \cup {NoVerdict}]
  OBVIOUS
<1>6. crashes' \in 0..MaxCrashes
  OBVIOUS
<1>7. QED
  BY <1>1, <1>2, <1>3, <1>4, <1>5, <1>6 DEF RunStatuses

LEMMA NextType == TypeInv /\ [Next]_vars => TypeInv'
<1>1. ASSUME TypeInv, UNCHANGED vars PROVE TypeInv'
  BY <1>1 DEF TypeInv, TypeOK, Informed, vars, disk, ram, rest
<1>2. QED
  BY <1>1, LaunchType, RequestType, CrashType DEF Next, Requests

---------------------------------------------------------------------------
(* An active status in memory has its driver: the launch that set it, or a *)
(* later one, on its way to recording a verdict.  A launch that has read   *)
(* "interrupted" will record nothing, so it drives nothing.                *)
Driving == {x \in Launches :
              \/ at[x] \in {"queueing", "queued", "starting", "launcher", "lookup",
                            "error", "commit"}
              \/ at[x] = "decide" /\ seen[x] # "interrupted"}
Driven == memory \in Active => Driving # {}

(* Who moves and who does not.                                             *)
LEMMA OneMoves ==
  ASSUME TypeInv, NEW x \in Processes, NEW from, NEW to, Goes(x, from, to)
  PROVE  \A y \in Processes \ {x} :
            /\ at'[y] = at[y] /\ seen'[y] = seen[y]
            /\ y \in Launches => verdict'[y] = verdict[y]
BY DEF Goes, Moves, TypeInv, TypeOK

LEMMA OneSees ==
  ASSUME TypeInv, NEW x \in Processes, NEW from, NEW status, Sees(x, from, status)
  PROVE  \A y \in Processes \ {x} :
            /\ at'[y] = at[y] /\ seen'[y] = seen[y]
            /\ y \in Launches => verdict'[y] = verdict[y]
BY DEF Sees, Moves, TypeInv, TypeOK

(* A step that leaves the memory alone keeps a driver: the one that moves  *)
(* stays on its way, unless it reads that the run is no longer active.     *)
LEMMA DriverStays ==
  ASSUME TypeInv, NEW x \in Processes, NEW y \in Driving, memory \in Active,
         \A z \in Processes \ {x} : at'[z] = at[z] /\ seen'[z] = seen[z],
         x = y => x \in Driving'
  PROVE  Driving' # {}
<1>1. y \in Launches /\ y \in Processes
  BY DEF Driving, Processes
<1>2. CASE x = y
  BY <1>2
<1>3. CASE x # y
  BY <1>1, <1>3 DEF Driving
<1>4. QED
  BY <1>2, <1>3

(* Looking up the status leaves the memory and the other processes alone.  *)
LEMMA GetStatusMoves ==
  ASSUME TypeInv, NEW x \in Processes, GetStatus(x)
  PROVE  /\ UNCHANGED <<ram, crashes, crowded>>
         /\ \A z \in Processes \ {x} :
               /\ at'[z] = at[z] /\ seen'[z] = seen[z]
               /\ z \in Launches => verdict'[z] = verdict[z]
<1>1. CASE LookUp(x) \/ ReadFile(x) \/ CheckStale(x)
  <2>1. UNCHANGED <<ram, crashes, crowded>>
    BY <1>1 DEF LookUp, ReadFile, CheckStale, rest
  <2>2. QED
    BY <1>1, <2>1, OneMoves, OneSees DEF LookUp, ReadFile, CheckStale
<1>2. CASE \/ SaveStatus(x, "archive", "archive_note", "interrupted")
           \/ ReadPayload(x, "archive_note", "archive_noting")
  BY <1>2, OneMoves DEF SaveStatus, ReadPayload, rest
<1>3. CASE WriteStale(x)
  BY <1>3, OneSees DEF WriteStale, WritePayload
<1>4. QED
  BY <1>1, <1>2, <1>3 DEF GetStatus, ArchiveStale

LEMMA GetStatusDrives ==
  ASSUME TypeInv, Driven, NEW x \in Processes, GetStatus(x) PROVE Driven'
<1> SUFFICES ASSUME memory' \in Active PROVE Driving' # {}
  BY DEF Driven
<1>1. memory' = memory
  BY GetStatusMoves DEF ram
<1>2. PICK y \in Driving : TRUE
  BY <1>1 DEF Driven
<1>3. \A z \in Processes \ {x} : at'[z] = at[z] /\ seen'[z] = seen[z]
  BY GetStatusMoves
<1>4. ASSUME x = y PROVE x \in Driving'
  <2>1. /\ x \in Launches
        /\ at[x] \notin {"file", "stale", "archive", "archive_note", "archive_noting"}
    BY <1>4 DEF Driving
  <2>2. LookUp(x) /\ memory # Absent
    BY <2>1, <1>1 DEF GetStatus, ReadFile, ArchiveStale, CheckStale, SaveStatus, ReadPayload,
                      WriteStale, Goes, Sees, Moves, Absent, Active
  <2>3. at'[x] = "decide" /\ seen'[x] # "interrupted"
    BY <2>2, <1>1 DEF LookUp, Sees, Moves, TypeInv, TypeOK, Active
  <2>4. QED
    BY <2>1, <2>3 DEF Driving
<1>5. QED
  BY <1>1, <1>2, <1>3, <1>4, DriverStays

LEMMA LaunchDrives ==
  ASSUME TypeInv, Driven, NEW x \in Launches, Launch(x) PROVE Driven'
<1>0. x \in Processes
  BY DEF Processes
<1> SUFFICES ASSUME memory' \in Active PROVE Driving' # {}
  BY DEF Driven
<1>1. CASE SetMemory(x, "made", "queueing", "queued") \/ SetMemory(x, "queued", "starting", "running")
  BY <1>0, <1>1 DEF SetMemory, Goes, Moves, Driving, TypeInv, TypeOK
<1>2. CASE SetMemory(x, "commit", "saving", verdict[x].status)
  <2>1. verdict[x] \in Verdicts
    BY <1>2 DEF SetMemory, Goes, Moves, TypeInv, Informed, Judged
  <2>2. QED
    BY <1>2, <2>1 DEF SetMemory, Verdicts, Active
<1>3. CASE GetStatus(x)
  BY <1>0, <1>3, GetStatusDrives DEF Driven
<1>4. CASE \/ CheckFree(x) \/ MakeDir(x) \/ Judge(x) \/ SetError(x)
           \/ ReadNote(x) \/ SkipNote(x) \/ NoteVerdict(x)
           \/ SaveStatus(x, "queueing", "queued", "queued")
           \/ SaveStatus(x, "starting", "launcher", "running")
           \/ SaveStatus(x, "saving", "note", verdict[x].status)
           \/ \E v \in Verdicts : LauncherReturns(x, v)
  <2>1. memory' = memory
    BY <1>4 DEF CheckFree, MakeDir, Judge, SetError, ReadNote, ReadPayload, SkipNote,
                NoteVerdict, WritePayload, SaveStatus, LauncherReturns, ram
  <2>2. PICK y \in Driving : TRUE
    BY <2>1 DEF Driven
  <2>3. \A z \in Processes \ {x} : at'[z] = at[z] /\ seen'[z] = seen[z]
    <3>1. ASSUME NEW v \in Verdicts, LauncherReturns(x, v)
          PROVE  \A z \in Processes \ {x} : at'[z] = at[z] /\ seen'[z] = seen[z]
      BY <1>0, <3>1 DEF LauncherReturns, Moves, TypeInv, TypeOK
    <3>2. QED
      BY <1>0, <1>4, <3>1, OneMoves
      DEF CheckFree, MakeDir, Judge, SetError, ReadNote, ReadPayload, SkipNote, NoteVerdict,
          SaveStatus
  <2>4. ASSUME x = y PROVE x \in Driving'
    <3>1. /\ at[x] \notin {"idle", "free", "saving", "note", "noting"}
          /\ at[x] = "decide" => seen[x] # "interrupted"
      BY <2>4 DEF Driving
    <3>2. CASE Judge(x)
      <4>1. at'[x] \in {"error", "commit"}
        BY <1>0, <3>1, <3>2 DEF Judge, Goes, Moves, TypeInv, TypeOK
      <4>2. QED
        BY <4>1 DEF Driving
    <3>3. CASE SetError(x)
      BY <1>0, <3>3 DEF SetError, Goes, Moves, Driving, TypeInv, TypeOK
    <3>4. CASE SaveStatus(x, "queueing", "queued", "queued")
      BY <1>0, <3>4 DEF SaveStatus, Goes, Moves, Driving, TypeInv, TypeOK
    <3>5. CASE SaveStatus(x, "starting", "launcher", "running")
      BY <1>0, <3>5 DEF SaveStatus, Goes, Moves, Driving, TypeInv, TypeOK
    <3>6. ASSUME NEW v \in Verdicts, LauncherReturns(x, v) PROVE x \in Driving'
      BY <1>0, <3>6 DEF LauncherReturns, Moves, Driving, TypeInv, TypeOK
    <3>7. QED
      BY <1>4, <3>1, <3>2, <3>3, <3>4, <3>5, <3>6
      DEF CheckFree, MakeDir, ReadNote, ReadPayload, SkipNote, NoteVerdict, SaveStatus,
          Goes, Moves
  <2>5. QED
    BY <1>0, <2>1, <2>2, <2>3, <2>4, DriverStays
<1>5. QED
  BY <1>1, <1>2, <1>3, <1>4 DEF Launch, Queue, Start, Record

LEMMA RequestDrives ==
  ASSUME TypeInv, Driven, NEW x \in Requests, Interrupt(x) \/ Delete(x) PROVE Driven'
<1>0. x \in Processes /\ x \notin Launches
  BY ProcessAssumption DEF Processes
<1> SUFFICES ASSUME memory' \in Active PROVE Driving' # {}
  BY DEF Driven
<1>1. CASE GetStatus(x)
  BY <1>0, <1>1, GetStatusDrives DEF Driven
<1>2. CASE MarkMemory(x) \/ Evict(x)
  BY <1>2 DEF MarkMemory, Evict, Active, Absent
<1>3. CASE \/ DecideInterrupt(x) \/ NoteInterrupt(x) \/ DecideDelete(x)
           \/ SaveStatus(x, "mark", "note", "interrupted") \/ ReadPayload(x, "note", "noting")
           \/ RemoveTree(x) \/ RemoveFails(x)
  <2>1. memory' = memory
    BY <1>3 DEF DecideInterrupt, NoteInterrupt, WritePayload, DecideDelete, SaveStatus,
                ReadPayload, RemoveTree, RemoveFails, ram
  <2>2. PICK y \in Driving : TRUE
    BY <2>1 DEF Driven
  <2>3. \A z \in Processes \ {x} : at'[z] = at[z] /\ seen'[z] = seen[z]
    BY <1>0, <1>3, OneMoves DEF DecideInterrupt, NoteInterrupt, DecideDelete, SaveStatus,
                                ReadPayload, RemoveTree, RemoveFails
  <2>4. x # y
    BY <1>0 DEF Driving
  <2>5. QED
    BY <1>0, <2>1, <2>2, <2>3, <2>4, DriverStays
<1>4. QED
  BY <1>1, <1>2, <1>3 DEF Interrupt, Delete

LEMMA DrivenStep == TypeInv /\ Driven /\ [Next]_vars => Driven'
<1>1. ASSUME Driven, UNCHANGED vars PROVE Driven'
  BY <1>1 DEF Driven, Driving, vars, ram
<1>2. ASSUME Crash PROVE Driven'
  BY <1>2 DEF Crash, Driven, Active, Absent
<1>3. QED
  BY <1>1, <1>2, LaunchDrives, RequestDrives DEF Next, Requests

(* NoZombie, for any number of processes and restarts: whatever is         *)
(* interrupted, deleted or launched again meanwhile, a run shown as active *)
(* has a thread that will still record its end.                            *)
THEOREM NoZombieHolds == Spec => []NoZombie
<1>1. Init => TypeInv /\ Driven
  BY InitType DEF Init, Driven, Active, Absent
<1>2. TypeInv /\ Driven /\ [Next]_vars => (TypeInv /\ Driven)'
  BY NextType, DrivenStep
<1>3. TypeInv /\ Driven => NoZombie
  BY DEF NoZombie, Status, Driven, Driving, AtWork, Works, Active
<1>4. QED
  BY <1>1, <1>2, <1>3, PTL DEF Spec

---------------------------------------------------------------------------
(* While nobody took the id with another launch at work: at most one       *)
(* launch is at work, a failure on disk without its reason has the thread  *)
(* about to add it, and only that thread can be holding such a content to  *)
(* write it back.                                                          *)
Alone     == \A x, y \in Launches : Works(x) /\ Works(y) => x = y
Owing     == {x \in Launches : at[x] \in {"note", "noting"} /\ verdict[x].status = "failed"}
Unexplained(content) == content.status = "failed" /\ content.reason = "none"
Explained == /\ Unexplained(file) => Owing # {}
             /\ \A x \in Launches : at[x] = "noting" /\ Unexplained(payload[x]) => x \in Owing
ReasonDue == crashes = 0 /\ ~crowded => Alone /\ Explained

(* A launch at work is not joined by another: only MakeDir brings one in.  *)
LEMMA AloneStays ==
  ASSUME NEW x \in Launches, Alone,
         \A y \in Launches \ {x} : at'[y] = at[y],
         Works(x)' => Works(x) \/ \A y \in Launches \ {x} : ~Works(y)
  PROVE  Alone'
<1>1. \A y \in Launches \ {x} : Works(y)' <=> Works(y)
  BY DEF Works
<1>2. ASSUME NEW y \in Launches, NEW z \in Launches, Works(y)', Works(z)' PROVE y = z
  <2>1. CASE y = x /\ z # x
    BY <1>1, <1>2, <2>1 DEF Alone
  <2>2. CASE z = x /\ y # x
    BY <1>1, <1>2, <2>2 DEF Alone
  <2>3. CASE y # x /\ z # x
    BY <1>1, <1>2, <2>3 DEF Alone
  <2>4. QED
    BY <2>1, <2>2, <2>3
<1>3. QED
  BY <1>2 DEF Alone

(* A step of one process that leaves the file as it was, or gives it a     *)
(* content that is explained, keeps the thread that owes a reason, unless  *)
(* it is that thread's last.                                               *)
LEMMA ExplainedStays ==
  ASSUME Explained, NEW x \in Processes,
         \A z \in Launches \ {x} :
            at'[z] = at[z] /\ verdict'[z] = verdict[z] /\ payload'[z] = payload[z],
         file' = file \/ ~Unexplained(file'),
         x \in Owing => x \in Owing' \/ ~Unexplained(file'),
         x \in Launches /\ at'[x] = "noting" => x \in Owing' \/ ~Unexplained(payload'[x])
  PROVE  Explained'
<1>1. \A z \in Launches \ {x} : z \in Owing => z \in Owing'
  BY DEF Owing
<1>2. ASSUME Unexplained(file') PROVE Owing' # {}
  <2>1. PICK y \in Owing : TRUE
    BY <1>2 DEF Explained
  <2>2. y \in Launches
    BY <2>1 DEF Owing
  <2>3. CASE y = x
    BY <1>2, <2>1, <2>3
  <2>4. CASE y # x
    BY <1>1, <2>1, <2>2, <2>4
  <2>5. QED
    BY <2>3, <2>4
<1>3. ASSUME NEW z \in Launches, at'[z] = "noting", Unexplained(payload'[z]) PROVE z \in Owing'
  <2>1. CASE z = x
    BY <1>3, <2>1
  <2>2. CASE z # x
    BY <1>1, <1>3, <2>2 DEF Explained
  <2>3. QED
    BY <2>1, <2>2
<1>4. QED
  BY <1>2, <1>3 DEF Explained, Unexplained

(* What a step of a process leaves of the payloads of the others.          *)
LEMMA OnePayload ==
  ASSUME TypeInv, NEW x \in Processes,
         \/ payload' = payload
         \/ \E content : payload' = [payload EXCEPT ![x] = content]
  PROVE  \A z \in Launches \ {x} : payload'[z] = payload[z]
BY DEF TypeInv, TypeOK, Processes

(* Looking up the status writes nothing but "interrupted" or a reason.     *)
LEMMA GetStatusExplained ==
  ASSUME TypeInv, Explained, NEW x \in Processes, GetStatus(x) PROVE Explained'
<1>1. \A z \in Launches \ {x} : at'[z] = at[z] /\ verdict'[z] = verdict[z]
  BY GetStatusMoves DEF Processes
<1>2. \A z \in Launches \ {x} : payload'[z] = payload[z]
  <2>1. \/ payload' = payload
        \/ \E content : payload' = [payload EXCEPT ![x] = content]
    BY DEF GetStatus, LookUp, ReadFile, ArchiveStale, CheckStale, SaveStatus, ReadPayload,
           WriteStale, WritePayload, rest
  <2>2. QED
    BY <2>1, OnePayload
<1>3. file' = file \/ ~Unexplained(file')
  <2>1. CASE SaveStatus(x, "archive", "archive_note", "interrupted")
    BY <2>1 DEF SaveStatus, WriteStatus, Unexplained
  <2>2. CASE WriteStale(x)
    <3>1. file' = [payload[x] EXCEPT !.reason = "server_restart_stale"]
      BY <2>2 DEF WriteStale, WritePayload
    <3>2. QED
      BY <3>1 DEF Unexplained, TypeInv, TypeOK, Contents
  <2>3. QED
    BY <2>1, <2>2 DEF GetStatus, LookUp, ReadFile, ArchiveStale, CheckStale, ReadPayload, disk
<1>4. at[x] \in {"lookup", "file", "stale", "archive", "archive_note", "archive_noting"}
  BY DEF GetStatus, LookUp, ReadFile, ArchiveStale, CheckStale, SaveStatus, ReadPayload,
         WriteStale, Goes, Sees, Moves
<1>5. at'[x] # "noting"
  BY DEF GetStatus, LookUp, ReadFile, ArchiveStale, CheckStale, SaveStatus, ReadPayload,
         WriteStale, Goes, Sees, Moves, TypeInv, TypeOK
<1>6. QED
  BY <1>1, <1>2, <1>3, <1>4, <1>5, ExplainedStays DEF Owing

(* A launch that passes none of the steps that write or read a reason.     *)
LEMMA LaunchPasses ==
  ASSUME TypeInv, NEW x \in Launches,
         \/ CheckFree(x) \/ MakeDir(x) \/ Queue(x) \/ Start(x) \/ Judge(x) \/ SetError(x)
         \/ SetMemory(x, "commit", "saving", verdict[x].status)
         \/ \E v \in Verdicts : LauncherReturns(x, v)
  PROVE  /\ at[x] \notin {"note", "noting"} /\ at'[x] \notin {"note", "noting"}
         /\ \A z \in Launches \ {x} : at'[z] = at[z] /\ verdict'[z] = verdict[z]
         /\ payload' = payload
         /\ file' = file \/ ~Unexplained(file')
<1>0. x \in Processes /\ Launches \subseteq Processes
  BY DEF Processes
<1>1. ASSUME NEW v \in Verdicts, LauncherReturns(x, v)
      PROVE  /\ at[x] \notin {"note", "noting"} /\ at'[x] \notin {"note", "noting"}
             /\ \A z \in Launches \ {x} : at'[z] = at[z] /\ verdict'[z] = verdict[z]
             /\ payload' = payload
             /\ file' = file
  BY <1>0, <1>1 DEF LauncherReturns, Moves, TypeInv, TypeOK, rest, disk
<1>2. CASE \/ CheckFree(x) \/ MakeDir(x) \/ Queue(x) \/ Start(x) \/ Judge(x) \/ SetError(x)
           \/ SetMemory(x, "commit", "saving", verdict[x].status)
  <2>1. at[x] \notin {"note", "noting"} /\ at'[x] \notin {"note", "noting"}
    BY <1>0, <1>2 DEF CheckFree, MakeDir, Queue, Start, Judge, SetError, SetMemory, SaveStatus,
                      Goes, Moves, TypeInv, TypeOK
  <2>2. \A z \in Launches \ {x} : at'[z] = at[z] /\ verdict'[z] = verdict[z]
    BY <1>0, <1>2, OneMoves
    DEF CheckFree, MakeDir, Queue, Start, Judge, SetError, SetMemory, SaveStatus
  <2>3. payload' = payload
    BY <1>2 DEF CheckFree, MakeDir, Queue, Start, Judge, SetError, SetMemory, SaveStatus, rest
  <2>4. file' = file \/ ~Unexplained(file')
    BY <1>2 DEF CheckFree, MakeDir, Queue, Start, Judge, SetError, SetMemory, SaveStatus,
                WriteStatus, Unexplained, disk
  <2>5. QED
    BY <2>1, <2>2, <2>3, <2>4
<1>3. QED
  BY <1>1, <1>2

LEMMA LaunchExplained ==
  ASSUME TypeInv, Alone, Explained, NEW x \in Launches, Launch(x) PROVE Explained'
<1>0. x \in Processes /\ Launches \subseteq Processes
  BY DEF Processes
<1>1. CASE GetStatus(x)
  BY <1>0, <1>1, GetStatusExplained
<1>2. CASE \/ CheckFree(x) \/ MakeDir(x) \/ Queue(x) \/ Start(x) \/ Judge(x) \/ SetError(x)
           \/ SetMemory(x, "commit", "saving", verdict[x].status)
           \/ \E v \in Verdicts : LauncherReturns(x, v)
  <2>1. /\ at[x] \notin {"note", "noting"} /\ at'[x] \notin {"note", "noting"}
        /\ \A z \in Launches \ {x} : at'[z] = at[z] /\ verdict'[z] = verdict[z]
        /\ payload' = payload
        /\ file' = file \/ ~Unexplained(file')
    BY <1>2, LaunchPasses
  <2>2. x \notin Owing
    BY <2>1 DEF Owing
  <2>3. QED
    BY <1>0, <2>1, <2>2, ExplainedStays
<1>3. CASE SaveStatus(x, "saving", "note", verdict[x].status)
  <2>1. /\ file' = [status |-> verdict[x].status, reason |-> "none"]
        /\ at[x] = "saving" /\ at'[x] = "note" /\ verdict' = verdict /\ payload' = payload
    BY <1>0, <1>3 DEF SaveStatus, WriteStatus, Goes, Moves, TypeInv, TypeOK, rest
  <2>2. \A z \in Launches \ {x} : at'[z] = at[z]
    BY <1>0, <1>3, OneMoves DEF SaveStatus
  <2>3. CASE verdict[x].status = "failed"
    <3>1. x \in Owing'
      BY <2>1, <2>3 DEF Owing
    <3>2. \A z \in Launches : at'[z] = "noting" /\ Unexplained(payload'[z]) => z \in Owing'
      BY <2>1, <2>2 DEF Explained, Owing
    <3>3. QED
      BY <3>1, <3>2 DEF Explained, Unexplained
  <2>4. CASE verdict[x].status # "failed"
    <3>1. ~Unexplained(file') /\ x \notin Owing
      BY <2>1, <2>4 DEF Unexplained, Owing
    <3>2. QED
      BY <1>0, <2>1, <2>2, <3>1, ExplainedStays
  <2>5. QED
    BY <2>3, <2>4
<1>4. CASE ReadNote(x)
  <2>1. /\ at[x] = "note" /\ at'[x] = "noting" /\ verdict' = verdict
        /\ payload' = [payload EXCEPT ![x] = file] /\ file' = file
    BY <1>0, <1>4 DEF ReadNote, ReadPayload, Goes, Moves, TypeInv, TypeOK, disk
  <2>2. \A z \in Launches \ {x} : at'[z] = at[z]
    BY <1>0, <1>4, OneMoves DEF ReadNote, ReadPayload
  <2>3. x \in Owing => x \in Owing'
    BY <2>1 DEF Owing
  <2>4. x \in Owing \/ ~Unexplained(file)
    <3>1. SUFFICES ASSUME Unexplained(file) PROVE x \in Owing
      OBVIOUS
    <3>2. PICK y \in Owing : TRUE
      BY <3>1 DEF Explained
    <3>3. y \in Launches /\ Works(y) /\ Works(x)
      BY <2>1, <3>2 DEF Owing, Works
    <3>4. QED
      BY <3>2, <3>3 DEF Alone
  <2>5. payload'[x] = file
    BY <1>0, <2>1 DEF TypeInv, TypeOK
  <2>6. \A z \in Launches \ {x} : payload'[z] = payload[z]
    BY <1>0, <2>1, OnePayload
  <2>7. QED
    BY <1>0, <2>1, <2>2, <2>3, <2>4, <2>5, <2>6, ExplainedStays
<1>5. CASE SkipNote(x)
  <2>1. /\ x \notin Owing /\ at'[x] = "done" /\ file' = file /\ payload' = payload
    BY <1>0, <1>5 DEF SkipNote, Goes, Moves, Owing, TypeInv, TypeOK, disk, rest
  <2>2. \A z \in Launches \ {x} : at'[z] = at[z] /\ verdict'[z] = verdict[z]
    BY <1>0, <1>5, OneMoves DEF SkipNote
  <2>3. QED
    BY <1>0, <2>1, <2>2, ExplainedStays
<1>6. CASE NoteVerdict(x)
  <2>1. /\ at[x] = "noting" /\ at'[x] = "done" /\ verdict[x] \in Verdicts
        /\ payload' = [payload EXCEPT ![x] = NoFile]
    BY <1>0, <1>6 DEF NoteVerdict, WritePayload, Goes, Moves, TypeInv, TypeOK, Informed, Judged
  <2>2. \A z \in Launches \ {x} : at'[z] = at[z] /\ verdict'[z] = verdict[z]
    BY <1>0, <1>6, OneMoves DEF NoteVerdict
  <2>3. \A z \in Launches \ {x} : payload'[z] = payload[z]
    BY <1>0, <2>1, OnePayload
  <2>4. payload[x] \in Contents
    BY <1>0 DEF TypeInv, TypeOK
  <2>5. ~Unexplained(file')
    <3>1. CASE verdict[x].status = "failed"
      <4>1. verdict[x].reason = "fault"
        BY <2>1, <3>1 DEF Verdicts
      <4>2. file' = [payload[x] EXCEPT !.reason = "fault"]
        BY <1>6, <3>1, <4>1 DEF NoteVerdict, WritePayload
      <4>3. QED
        BY <2>4, <4>2 DEF Unexplained, Contents
    <3>2. CASE verdict[x].status # "failed"
      <4>1. ~Unexplained(payload[x])
        BY <2>1, <3>2 DEF Explained, Owing
      <4>2. file' = [payload[x] EXCEPT !.reason = payload[x].reason]
        BY <1>6, <3>2 DEF NoteVerdict, WritePayload
      <4>3. file'.status = payload[x].status /\ file'.reason = payload[x].reason
        BY <2>4, <4>2 DEF Contents
      <4>4. QED
        BY <4>1, <4>3 DEF Unexplained
    <3>3. QED
      BY <3>1, <3>2
  <2>6. QED
    BY <1>0, <2>1, <2>2, <2>3, <2>5, ExplainedStays
<1>7. QED
  BY <1>1, <1>2, <1>3, <1>4, <1>5, <1>6 DEF Launch, Record

LEMMA LaunchAlone ==
  ASSUME TypeInv, Alone, NEW x \in Launches, Launch(x), ~crowded' PROVE Alone'
<1>0. x \in Processes /\ Launches \subseteq Processes
  BY DEF Processes
<1>1. \A y \in Launches \ {x} : at'[y] = at[y]
  <2>1. CASE GetStatus(x)
    BY <1>0, <2>1, GetStatusMoves
  <2>2. ASSUME NEW v \in Verdicts, LauncherReturns(x, v)
        PROVE  \A y \in Launches \ {x} : at'[y] = at[y]
    BY <1>0, <2>2 DEF LauncherReturns, Moves, TypeInv, TypeOK
  <2>3. QED
    BY <1>0, <2>1, <2>2, OneMoves
    DEF Launch, CheckFree, MakeDir, Queue, Start, Judge, Record, SetError, SetMemory,
        SaveStatus, ReadNote, ReadPayload, SkipNote, NoteVerdict
<1>2. CASE MakeDir(x)
  <2>1. CASE dir
    <3>1. at'[x] = "done"
      BY <1>0, <1>2, <2>1 DEF MakeDir, Goes, Moves, TypeInv, TypeOK
    <3>2. QED
      BY <1>1, <3>1, AloneStays DEF Works
  <2>2. CASE ~dir
    <3>1. \A y \in Launches \ {x} : ~Works(y)
      BY <1>2, <2>2 DEF MakeDir, Works
    <3>2. QED
      BY <1>1, <3>1, AloneStays
  <2>3. QED
    BY <2>1, <2>2
<1>3. CASE CheckFree(x)
  <2>1. at'[x] \in {"done", "free"}
    BY <1>0, <1>3 DEF CheckFree, Goes, Moves, TypeInv, TypeOK
  <2>2. QED
    BY <1>1, <2>1, AloneStays DEF Works
<1>4. CASE ~MakeDir(x) /\ ~CheckFree(x)
  <2>1. at[x] \notin {"idle", "free", "done"}
    BY <1>4
    DEF Launch, Queue, Start, Judge, Record, SetError, SetMemory, SaveStatus, ReadNote,
        ReadPayload, SkipNote, NoteVerdict, LauncherReturns, GetStatus, LookUp, ReadFile,
        ArchiveStale, CheckStale, WriteStale, Goes, Sees, Moves
  <2>2. QED
    BY <1>1, <2>1, AloneStays DEF Works
<1>5. QED
  BY <1>2, <1>3, <1>4

(* Who took the id with another at work stays on record until a restart.   *)
LEMMA LaunchCounts ==
  ASSUME NEW x \in Launches, Launch(x) PROVE crashes' = crashes /\ (crowded => crowded')
<1>1. CASE MakeDir(x)
  BY <1>1 DEF MakeDir
<1>2. CASE ~MakeDir(x)
  BY <1>2 DEF Launch, CheckFree, Queue, Start, Judge, Record, SetError, SetMemory, SaveStatus,
              ReadNote, ReadPayload, SkipNote, NoteVerdict, WritePayload, LauncherReturns,
              GetStatus, LookUp, ReadFile, ArchiveStale, CheckStale, WriteStale, rest
<1>3. QED
  BY <1>1, <1>2

LEMMA RequestDue ==
  ASSUME TypeInv, ReasonDue, NEW x \in Requests, Interrupt(x) \/ Delete(x) PROVE ReasonDue'
<1>0. x \in Processes /\ x \notin Launches /\ Launches \subseteq Processes
  BY ProcessAssumption DEF Processes
<1>1. /\ crashes' = crashes /\ crowded' = crowded
      /\ \A z \in Launches : at'[z] = at[z] /\ verdict'[z] = verdict[z]
  <2>1. CASE GetStatus(x)
    BY <1>0, <2>1, GetStatusMoves
  <2>2. CASE ~GetStatus(x)
    <3>1. crashes' = crashes /\ crowded' = crowded
      BY <2>2 DEF Interrupt, Delete, DecideInterrupt, SaveStatus, ReadPayload, NoteInterrupt,
                  WritePayload, MarkMemory, DecideDelete, RemoveTree, RemoveFails, Evict, rest
    <3>2. QED
      BY <1>0, <2>2, <3>1, OneMoves
      DEF Interrupt, Delete, DecideInterrupt, SaveStatus, ReadPayload, NoteInterrupt,
          MarkMemory, DecideDelete, RemoveTree, RemoveFails, Evict
  <2>3. QED
    BY <2>1, <2>2
<1>2. SUFFICES ASSUME crashes = 0, ~crowded, Alone, Explained PROVE Alone' /\ Explained'
  BY <1>1 DEF ReasonDue
<1>3. Alone'
  BY <1>1, <1>2 DEF Alone, Works
<1>4. Explained'
  <2>1. CASE GetStatus(x)
    BY <1>0, <1>2, <2>1, GetStatusExplained
  <2>2. CASE ~GetStatus(x)
    <3>1. \/ payload' = payload
          \/ \E content : payload' = [payload EXCEPT ![x] = content]
      BY <2>2 DEF Interrupt, Delete, DecideInterrupt, SaveStatus, ReadPayload, NoteInterrupt,
                  WritePayload, MarkMemory, DecideDelete, RemoveTree, RemoveFails, Evict, rest
    <3>2. file' = file \/ ~Unexplained(file')
      <4>1. CASE NoteInterrupt(x)
        <5>1. file' = [payload[x] EXCEPT !.reason = "user"]
          BY <4>1 DEF NoteInterrupt, WritePayload
        <5>2. QED
          BY <1>0, <5>1 DEF Unexplained, TypeInv, TypeOK, Contents
      <4>2. CASE ~NoteInterrupt(x)
        BY <2>2, <4>2
        DEF Interrupt, Delete, DecideInterrupt, SaveStatus, WriteStatus, ReadPayload,
            MarkMemory, DecideDelete, RemoveTree, RemoveFails, Evict, disk, NoFile, Unexplained
      <4>3. QED
        BY <4>1, <4>2
    <3>3. \A z \in Launches \ {x} : payload'[z] = payload[z]
      BY <1>0, <3>1, OnePayload
    <3>4. x \notin Owing
      BY <1>0 DEF Owing
    <3>5. QED
      BY <1>0, <1>1, <1>2, <3>2, <3>3, <3>4, ExplainedStays
  <2>3. QED
    BY <2>1, <2>2
<1>5. QED
  BY <1>3, <1>4

LEMMA LaunchDue ==
  ASSUME TypeInv, ReasonDue, NEW x \in Launches, Launch(x) PROVE ReasonDue'
<1>1. crashes' = crashes /\ (crowded => crowded')
  BY LaunchCounts
<1>2. SUFFICES ASSUME crashes = 0, ~crowded, ~crowded', Alone, Explained
               PROVE  Alone' /\ Explained'
  BY <1>1 DEF ReasonDue
<1>3. QED
  BY <1>2, LaunchAlone, LaunchExplained

LEMMA ReasonDueStep == TypeInv /\ ReasonDue /\ [Next]_vars => ReasonDue'
<1>1. ASSUME ReasonDue, UNCHANGED vars PROVE ReasonDue'
  BY <1>1 DEF ReasonDue, Alone, Works, Explained, Owing, Unexplained, vars, disk, rest
<1>2. ASSUME TypeInv, Crash PROVE ReasonDue'
  <2>1. crashes' # 0
    BY <1>2, ProcessAssumption DEF Crash, TypeInv, TypeOK
  <2>2. QED
    BY <2>1 DEF ReasonDue
<1>3. QED
  BY <1>1, <1>2, LaunchDue, RequestDue DEF Next, Requests

(* ReasonKept: as long as no launch took the id with another one at work,  *)
(* and no restart came between status and reason, a status.json left by    *)
(* quiet threads that says failed says why, whatever interrupts and        *)
(* deletions read and wrote of the same file between the thread's read of  *)
(* it and its write.                                                       *)
THEOREM ReasonKeptHolds == Spec => []ReasonKept
<1>1. Init => TypeInv /\ ReasonDue
  <2>1. SUFFICES ASSUME Init PROVE ReasonDue
    BY InitType
  <2>2. \A x \in Launches : at[x] = "idle"
    BY <2>1 DEF Init, Processes
  <2>3. QED
    BY <2>1, <2>2 DEF Init, ReasonDue, Alone, Works, Explained, Unexplained, NoFile
<1>2. TypeInv /\ ReasonDue /\ [Next]_vars => (TypeInv /\ ReasonDue)'
  BY NextType, ReasonDueStep
<1>3. TypeInv /\ ReasonDue => ReasonKept
  BY DEF ReasonKept, ReasonRecorded, Quiet, ReasonDue, Explained, Unexplained, Owing
<1>4. QED
  BY <1>1, <1>2, <1>3, PTL DEF Spec

=============================================================================
