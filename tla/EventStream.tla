---------------------------- MODULE EventStream ----------------------------
(***************************************************************************)
(* The live event stream of a run: stream_run_events (observer/sse.py)     *)
(* tails events.jsonl, which RuntimeEventWriter.emit (runtime_events.py)   *)
(* appends to line by line, while the run's status changes beside it.      *)
(*                                                                         *)
(* One action is one file operation, one read of the status or one frame.  *)
(* A line may be seen half-written, and the reader, which rejects such a   *)
(* file as a whole, tries again a few times before it gives up until the   *)
(* next tick; so it does when the system refuses to open or read the file. *)
(* The events of the run are 1..Total, in order of their seq.  The run is  *)
(* not deleted meanwhile.                                                  *)
(***************************************************************************)
EXTENDS Integers, Sequences

CONSTANTS Total,     \* the events of the run
          Visible,   \* those the stream's perspective may see
          Tries      \* the attempts to read a file that has a torn line

ASSUME StreamAssumption == /\ Total \in Nat \ {0}
                           /\ Visible \subseteq 1..Total
                           /\ Tries \in Nat \ {0}

VARIABLES
  status,     \* of the run: running, ended (completed, failed) or interrupted
  lines,      \* the complete lines of events.jsonl
  tail,       \* the line being appended: none, a part, or all but its newline
  at,         \* where the stream's thread is
  current,    \* current_status
  lastSize,   \* last_size
  tries,      \* the attempts of the read in progress
  pos, upto,  \* new_events: pos+1 .. upto are still to be passed on
  count,      \* sent_count: the events passed on, hidden ones included
  draining,   \* the final drain is in progress
  delivered,  \* the event frames the client received
  failed      \* history: what the system refused and no later success made good

run   == <<status, lines, tail>>          \* what the run thread writes
batch == <<pos, upto>>
sent  == <<count, delivered>>
vars  == <<run, at, current, lastSize, tries, batch, sent, draining, failed>>

Init ==
  /\ status = "running" /\ lines = 0 /\ tail = "none"
  /\ at = "hello" /\ current = "running"
  /\ lastSize = <<-1, "none">> /\ tries = 0 /\ pos = 0 /\ upto = 0
  /\ count = 0 /\ delivered = <<>> /\ draining = FALSE /\ failed = {}

---------------------------------------------------------------------------
(* The run: emit appends a line in pieces; the run thread records the end  *)
(* after the last event; an interrupt does not wait for it.                *)

streamVars == <<at, current, lastSize, tries, batch, sent, draining, failed>>

Grow(from, to) ==
  tail = from /\ tail' = to /\ UNCHANGED <<status, lines, streamVars>>

Emit == \/ lines < Total /\ Grow("none", "part")
        \/ Grow("part", "line")
        \/ /\ tail = "line" /\ tail' = "none" /\ lines' = lines + 1
           /\ UNCHANGED <<status, streamVars>>

EndRunBug ==                                   \* recorded before the last events
  /\ status = "running" /\ lines > 0
  /\ status' = "ended"
  /\ UNCHANGED <<lines, tail, streamVars>>
EndRun == /\ status = "running" /\ lines = Total /\ tail = "none"
          /\ status' = "ended"
          /\ UNCHANGED <<lines, tail, streamVars>>

Interrupt == /\ status = "running" /\ status' = "interrupted"
             /\ UNCHANGED <<lines, tail, streamVars>>

---------------------------------------------------------------------------
(* The stream's thread.  It is at the head of the loop, reads the status,  *)
(* then the new events, sends them, and either sleeps or drains and closes.*)

Goes(from, to) == at = from /\ at' = to

Hello == /\ Goes("hello", "status")
         /\ UNCHANGED <<run, current, lastSize, tries, batch, sent, draining, failed>>

ReadStatus ==
  /\ Goes("status", "stat") /\ current' = status
  /\ UNCHANGED <<run, lastSize, tries, batch, sent, draining, failed>>

(* The file is read only when its size is not the one seen last, -1 first. *)
Size   == <<lines, tail>>
Exists == Size # <<0, "none">>
NewBatch == tries' = 0 /\ pos' = count /\ upto' = count
StatBug ==                               \* a size once seen is not compared again
  /\ IF Exists /\ lastSize[1] = -1
     THEN Goes("stat", "read") /\ lastSize' = Size
     ELSE Goes("stat", "send") /\ UNCHANGED lastSize
  /\ NewBatch
  /\ failed' = failed \ {"stat"}
  /\ UNCHANGED <<run, current, sent, draining>>
Stat ==
  /\ IF Exists /\ Size # lastSize
     THEN Goes("stat", "read") /\ lastSize' = Size
     ELSE Goes("stat", "send") /\ UNCHANGED lastSize
  /\ NewBatch
  /\ failed' = failed \ {"stat"}
  /\ UNCHANGED <<run, current, sent, draining>>

StatFails ==                             \* an OSError: no events this time
  /\ Goes("stat", "send")
  /\ NewBatch
  /\ failed' = failed \cup {"stat"}
  /\ UNCHANGED <<run, current, lastSize, sent, draining>>

(* A last line that only lacks its newline is read like the others.        *)
ReadableBug == lines + 1                 \* the unfinished line counted
Readable == IF tail = "line" THEN lines + 1 ELSE lines
ReadEvents ==
  /\ tail # "part" /\ Goes("read", "send")
  /\ upto' = Readable
  /\ failed' = {}
  /\ UNCHANGED <<run, current, lastSize, tries, pos, sent, draining>>

(* A torn line is rejected, and any file may be refused by the system.     *)
(* The size is remembered all the same: a torn line will still grow, but a *)
(* complete file is not read again before the next event.                  *)
ReadFails ==
  /\ Goes("read", IF tries + 1 < Tries THEN "read" ELSE "send")
  /\ tries' = tries + 1
  /\ failed' = IF tries + 1 < Tries \/ tail = "part" THEN failed ELSE failed \cup {"read"}
  /\ UNCHANGED <<run, current, lastSize, batch, sent, draining>>

(* Torn inside a character, the line cannot be decoded: no handler catches *)
(* that exception, and it ends the stream.                                 *)
ReadBreaks ==
  /\ tail = "part" /\ Goes("read", "broken")
  /\ UNCHANGED <<run, current, lastSize, tries, batch, sent, draining, failed>>

Pass(e) == delivered' = IF e \in Visible THEN Append(delivered, e) ELSE delivered
SendBug ==                              \* hidden events are not counted
  /\ at = "send" /\ pos < upto
  /\ Pass(pos + 1)
  /\ pos' = pos + 1 /\ count' = IF pos + 1 \in Visible THEN count + 1 ELSE count
  /\ UNCHANGED <<run, at, current, lastSize, tries, upto, draining, failed>>
Send ==
  /\ at = "send" /\ pos < upto
  /\ Pass(pos + 1)
  /\ pos' = pos + 1 /\ count' = count + 1
  /\ UNCHANGED <<run, at, current, lastSize, tries, upto, draining, failed>>

(* After the batch: sleep and look again, drain once, or close.            *)
AllSent == at = "send" /\ pos = upto

Sleep == /\ AllSent /\ current = "running"
         /\ at' = "status"
         /\ UNCHANGED <<run, current, lastSize, tries, batch, sent, draining, failed>>

DrainBug == /\ AllSent /\ current # "running" /\ ~draining     \* again and again
            /\ at' = "stat"
            /\ UNCHANGED <<run, current, lastSize, tries, batch, sent, draining, failed>>
Drain == /\ AllSent /\ current # "running" /\ ~draining
         /\ at' = "stat" /\ draining' = TRUE
         /\ UNCHANGED <<run, current, lastSize, tries, batch, sent, failed>>

Close == /\ AllSent /\ current # "running" /\ draining
         /\ at' = "closed"
         /\ UNCHANGED <<run, current, lastSize, tries, batch, sent, draining, failed>>

(* The client goes away, at any frame.                                     *)
Disconnect == /\ at \in {"hello", "send"} /\ at' = "gone"
              /\ UNCHANGED <<run, current, lastSize, tries, batch, sent, draining, failed>>

Stream == \/ Hello \/ ReadStatus \/ Stat \/ StatFails \/ ReadEvents \/ ReadFails \/ ReadBreaks
          \/ Send \/ Sleep \/ Drain \/ Close
Next == Emit \/ EndRun \/ Interrupt \/ Stream \/ Disconnect

(* A line begun is completed and the stream's thread polls.  Nobody owes   *)
(* another event, the end of the run, an interrupt or a disconnect.        *)
Fairness == WF_vars(tail # "none" /\ Emit) /\ WF_vars(Stream)
Spec == Init /\ [][Next]_vars /\ Fairness

---------------------------------------------------------------------------
(* The file, the status and the stream's locals have their types.          *)
TypeOK ==
  /\ status \in {"running", "ended", "interrupted"}
  /\ current \in {"running", "ended", "interrupted"}
  /\ lines \in 0..Total /\ tail \in {"none", "part", "line"}
  /\ tail # "none" => lines < Total
  /\ at \in {"hello", "status", "stat", "read", "send", "closed", "broken", "gone"}
  /\ lastSize \in (-1..Total) \X {"none", "part", "line"}
  /\ tries \in 0..Tries
  /\ pos \in 0..Total /\ upto \in 0..Total
  /\ count \in 0..Total
  /\ draining \in BOOLEAN
  /\ delivered \in Seq(Visible)
  /\ failed \subseteq {"stat", "read"}

Received == {delivered[i] : i \in DOMAIN delivered}

(* The client receives the events it may see in order, each one once, and  *)
(* none is skipped: what it received is what it may see of the events      *)
(* passed on, however often the file was read and found torn.              *)
InOrder ==
  /\ \A i, j \in DOMAIN delivered : i < j => delivered[i] < delivered[j]
  /\ Received = Visible \cap 1..count

(* The docstring of stream_run_events: on terminal status a final drain.   *)
(* A stream that closes because the run ended, its last look at the file's *)
(* size not refused, has delivered every event.                            *)
Drained == at = "closed" /\ current = "ended" /\ "stat" \notin failed => Received = Visible

(* So it has, although status and file are read one after the other and a  *)
(* size once seen is not read again, if the system's last answers about    *)
(* the file were no refusals: a failed stat or read that a later one made  *)
(* good costs nothing.                                                     *)
NothingLost == failed = {} => Drained

(* While the client stays, every event written reaches it or the stream is *)
(* over, in every run in which each refusal is in the end made good.       *)
Over == at \in {"closed", "broken", "gone"}
Tailed == <>[](failed = {}) => \A e \in Visible : lines >= e ~> e \in Received \/ Over

(* The stream of a run that is over ends, too.                             *)
StreamEnds == status # "running" ~> Over
===========================================================================
