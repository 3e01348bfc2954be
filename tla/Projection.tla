----------------------------- MODULE Projection -----------------------------
(***************************************************************************)
(* What the observer shows of a run, from the files it writes: the seats   *)
(* (observer_trust_index, observer_projection), the events and snapshots a *)
(* perspective sees, by the projection and by the stream's rule            *)
(* (observer_protocol), and the reason joined to a decision's event        *)
(* (observer_enrichment).  A perspective is god's, the public's, the wolf  *)
(* team's or a seat's own.  The files are read while the game writes them. *)
(***************************************************************************)
EXTENDS GameAudit

(* The perspectives that are not a seat's.                                 *)
God    == -1
Public == -2
Team   == -3
Views  == {God, Public, Team} \cup Players

(* The latest god snapshot, by round and phase, is the authority on who is *)
(* alive; with none written everybody is shown alive.                      *)
RankBug == [setup |-> 0, day |-> 1, night |-> 2, game_end |-> 4]   \* days sort first
Rank == [setup |-> 0, night |-> 1, day |-> 2, game_end |-> 4]
Before(s, t) == s.round < t.round \/ (s.round = t.round /\ Rank[s.phase] < Rank[t.phase])
AliveShown ==
  IF snapshots = {} THEN Players
  ELSE (CHOOSE s \in snapshots : \A t \in snapshots : t = s \/ Before(t, s)).alive

(* A role projection is written once per seat, at setup: what it knows is  *)
(* its own role, and a wolf its team's.                                    *)
KnownRoles(p) == IF p \in Wolves THEN Wolves ELSE {p}

(* The seats whose role a perspective shows: of others, a seat is never    *)
(* shown a wolf, though its own projection may know it.                    *)
RolesShown(view) ==
  CASE view = God    -> Players
    [] view = Public -> {}
    [] view = Team   -> Wolves
    [] view \in Players -> {view} \cup (KnownRoles(view) \ Wolves)

(* The events a perspective is projected, and those it is streamed: a seat *)
(* is streamed what is public only.                                        *)
Projected(view, e) ==
  CASE view = God    -> TRUE
    [] view = Public -> e.visibility \in {"public", "all"}
    [] view = Team   -> e.visibility \in {"public", "all", "werewolf_team"}
    [] view \in Players -> Entitled(view, e)
Streamed(view, e) ==
  CASE view = God    -> TRUE
    [] view = Team   -> e.visibility \in {"public", "all", "werewolf_team"}
    [] OTHER -> e.visibility \in {"public", "all"}

(* The role projections a perspective may read, as the list of snapshots   *)
(* has it and as the snapshot itself is served; a god snapshot is god's.   *)
Listed(view) ==
  CASE view = God    -> Players
    [] view = Public -> {}
    [] view = Team   -> {p \in Players : p \in Wolves}
    [] view \in Players -> {view}
Served(view, p) == \/ view = God
                   \/ view = Team /\ p \in Wolves
                   \/ view = p

(* A decision's reason is joined to the event of its round, phase, actor,  *)
(* action and target; it is shown to god and to the one who decided.       *)
JoinKeyBug(d) == <<d.phase, d.actor, d.type, d.target>>         \* the round dropped
JoinKey(d) == <<d.round, d.phase, d.actor, d.type, d.target>>
Joined(i) == {k \in Decisions : JoinKey(log[k]) = JoinKey(log[i])}
ReasonShown(view, i) == Projected(view, log[i]) /\ view \in {God, log[i].actor}

---------------------------------------------------------------------------
(* Who is shown alive lags the log but never contradicts it: no living     *)
(* seat is shown dead, a death of an earlier round or phase than the last  *)
(* event's is shown, and the final view has the survivors.                 *)
AliveFollows ==
  /\ alive \subseteq AliveShown
  /\ \A i \in At(CommitTypes) :
       \/ log[i].target \notin AliveShown
       \/ \A j \in i..Len(log) : log[j].round = log[i].round /\ log[j].phase = log[i].phase
  /\ Over => AliveShown = alive

(* I4: what the engine renders a seat's prompt from is what the observer   *)
(* and the scorer would let it see, and a night's action is known to the   *)
(* one who took it, or to the wolf team, only.  Nothing is streamed to a   *)
(* perspective that it is not projected; a snapshot is listed for it       *)
(* exactly when it is served; and the snapshots it may read know all the   *)
(* roles it shows, and none of a wolf unless it is the wolves' own.        *)
(* Checked where the game is over, however it ended: the log only grows.   *)
NoLeak ==
  pc = "over" =>
    /\ \A p \in Players :
         LET sees == EngineSees(p)
         IN /\ \A i \in DOMAIN log : /\ i \in sees <=> Projected(p, log[i])
                                    /\ i \in sees <=> VisibleToActor(p, log[i])
            /\ \A i \in sees :
                 log[i].type \in Decided /\ log[i].phase = "night" /\ log[i].actor # p =>
                   \/ log[i].type = "werewolf_kill" /\ p \in Wolves
                   \/ log[i].type \in {"hunter_shoot", "hunter_pass"}
    /\ \A view \in Views :
         LET known == UNION {KnownRoles(p) : p \in Listed(view)}
         IN /\ \A i \in DOMAIN log : Streamed(view, log[i]) => Projected(view, log[i])
            /\ \A p \in Players : p \in Listed(view) <=> Served(view, p)
            /\ RolesShown(view) \subseteq known
            /\ view \in {God, Team} \cup Wolves \/ known \cap Wolves = {}

(* Every decision's reason is shown beside its own event, the one decision *)
(* that matches, and reaches the seat that decided and no other.           *)
ReasonsJoin ==
  Over => \A i \in At(Decided) :
    /\ Cardinality(Joined(i)) = 1
    /\ \A p \in Players : ReasonShown(p, i) <=> p = log[i].actor

===========================================================================
