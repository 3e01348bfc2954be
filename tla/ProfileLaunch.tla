--------------------------- MODULE ProfileLaunch ---------------------------
(***************************************************************************)
(* Launching a run (observer/launch.py, the POST /api/runs route, the live *)
(* gates of run_manager.py, profile_config.py, credential_store.py and     *)
(* seat_agents.py): the gates a request passes in order, the directory it  *)
(* makes, the records it writes before the run's thread starts, and the    *)
(* credentials that users add and remove while requests pass the gates.    *)
(*                                                                         *)
(* Every request has a server thread of its own.  The credential store and *)
(* the runs directory are shared; each locked call and each file operation *)
(* is a step.  A profile is abstracted to who plays each role, the seats   *)
(* kept for people, whether it shuffles the roles, and which texts are so  *)
(* long that two of them exceed PROMPT_MAX_LEN.                            *)
(***************************************************************************)
EXTENDS Naturals, FiniteSets, Functions

CONSTANTS
  Launches,   \* launch requests
  Requests,   \* what may be asked: [kind, mode, profile, run]
  Runs,       \* run ids
  Seats,      \* seats of the template
  Board,      \* the template's role of each seat
  Providers,  \* PROVIDER_REGISTRY
  Custom,     \* the providers with requires_base_url
  MaxPosts    \* bound: credentials posted

(* Every request names a run; no request or provider has the name of what  *)
(* is not one.                                                             *)
ASSUME LaunchAssumption ==
  /\ \A asked \in Requests : asked.run \in Runs
  /\ "nobody" \notin Launches /\ "human" \notin Providers
  /\ MaxPosts \in Nat

VARIABLES
  at,       \* where each launch is; the name of its answer once it has one
  req,      \* its request
  todo,     \* providers its loop has still to look at
  creds,    \* the credentials it has collected
  missing,  \* the providers it found none for
  store,    \* CredentialStore._creds
  posts,    \* credentials posted so far: each post has a key of its own
  deal,     \* the seat each seat takes its role from, by run id (the seed)
  dir,      \* the run directories: who made it, its manifest, its record
  run       \* the run's thread of each launch

askVars == <<req, deal>>
vars == <<at, askVars, todo, creds, missing, store, posts, dir, run>>

None    == [key |-> 0, url |-> 0]
NoDir   == [by |-> "nobody", manifest |-> FALSE, artifact |-> <<>>]
Answers == {"202", "400", "403", "404", "409", "500"}

---------------------------------------------------------------------------
(* Profiles.                                                               *)

(* compute_role_shuffle: the roles of a run's seats.                       *)
SeatRoles(p, r) ==
  IF p.shuffle THEN [s \in Seats |-> Board[deal[r][s]]] ELSE Board

(* The provider a seat ends up with; a person is named seat by seat.       *)
Resolve(p, roles) ==
  [s \in Seats |-> IF s \in p.human THEN "human" ELSE p.defaults[roles[s]]]

(* The role's strategy and the seat's personality together are too long.   *)
TooLong(p, roles) == \E s \in Seats : s \in p.longSeats /\ roles[s] \in p.longRoles

Valid(p) == ~TooLong(p, Board) /\ Cardinality(p.human) <= 1

Shape(p, roles) == Range(Resolve(p, roles)) \subseteq Providers \cup {"human"}

---------------------------------------------------------------------------
Init ==
  /\ at = [l \in Launches |-> "idle"]
  /\ req \in [Launches -> Requests]
  /\ deal \in [Runs -> {d \in [Seats -> Seats] : Range(d) = Seats}]
  /\ todo = [l \in Launches |-> {}] /\ missing = [l \in Launches |-> {}]
  /\ creds = [l \in Launches |-> [p \in Providers |-> None]]
  /\ store = [p \in Providers |-> None] /\ posts = 0
  /\ dir = [r \in Runs |-> NoDir]
  /\ run = [l \in Launches |-> "none"]

Moves(l, from, to) == at[l] = from /\ at' = [at EXCEPT ![l] = to]
Looks(l, ps)       == todo' = [todo EXCEPT ![l] = ps]
RolesOf(l)         == SeatRoles(req[l].profile, req[l].run)
Players(l)         == Range(Resolve(req[l].profile, RolesOf(l)))
Live(l)            == req[l].mode = "live"

(* The request is parsed; a template launch has no profile to check.       *)
Ask(l) ==
  /\ at[l] = "idle"
  /\ \/ req[l].kind = "template" /\ Moves(l, "idle", "exists") /\ UNCHANGED todo
     \/ req[l].kind # "template" /\ Live(l)
        /\ Moves(l, "idle", "capability") /\ Looks(l, Providers)
     \/ req[l].kind # "template" /\ ~Live(l)
        /\ Moves(l, "idle", "profile") /\ UNCHANGED todo
  /\ UNCHANGED <<askVars, creds, missing, store, posts, dir, run>>

(* _check_live_capability asks for each provider until one has a key.      *)
FindAnyKey(l, p) ==
  /\ p \in todo[l]
  /\ IF store[p] # None
     THEN Moves(l, "capability", "profile") /\ Looks(l, {})
     ELSE /\ Moves(l, "capability",
                   IF todo[l] = {p} THEN "403" ELSE "capability")
          /\ Looks(l, todo[l] \ {p})
  /\ UNCHANGED <<askVars, creds, missing, store, posts, dir, run>>

(* Loading, validating, resolving: the answer of the first gate that says  *)
(* no.  The shuffled seats are checked again, outside the try block.       *)
ProfileGatesBug(l) ==     \* a fake launch may shuffle
  LET p == req[l].profile
  IN  IF req[l].kind = "missing" THEN "404"
      ELSE IF ~Valid(p) THEN "400"
      ELSE IF TooLong(p, RolesOf(l)) THEN "500"
      ELSE IF Live(l) /\ ~Shape(p, RolesOf(l)) THEN "400"
      ELSE "exists"

ProfileGates(l) ==
  LET p == req[l].profile
  IN  IF req[l].kind = "missing" THEN "404"
      ELSE IF ~Valid(p) \/ (~Live(l) /\ p.shuffle) THEN "400"
      ELSE IF TooLong(p, RolesOf(l)) THEN "500"
      ELSE IF Live(l) /\ ~Shape(p, RolesOf(l)) THEN "400"
      ELSE "exists"

CheckProfile(l) ==
  /\ Moves(l, "profile", ProfileGates(l))
  /\ UNCHANGED <<askVars, todo, creds, missing, store, posts, dir, run>>

(* The directory is looked for, and made later on: a request for the same  *)
(* run may make it in between.                                             *)
CheckNewBug(l) ==         \* the directory is made at once
  /\ Moves(l, "exists", IF dir[req[l].run] # NoDir THEN "409"
                        ELSE IF req[l].kind # "template" /\ Live(l)
                             THEN "keys" ELSE "mkdir")
  /\ Looks(l, IF at'[l] = "keys" THEN Players(l) \ {"human"} ELSE {})
  /\ dir' = IF at'[l] = "keys" THEN [dir EXCEPT ![req[l].run].by = l] ELSE dir
  /\ UNCHANGED <<askVars, creds, missing, store, posts, run>>

CheckNew(l) ==
  /\ Moves(l, "exists", IF dir[req[l].run] # NoDir THEN "409"
                        ELSE IF req[l].kind # "template" /\ Live(l)
                             THEN "keys" ELSE "mkdir")
  /\ Looks(l, IF at'[l] = "keys" THEN Players(l) \ {"human"} ELSE {})
  /\ UNCHANGED <<askVars, creds, missing, store, posts, dir, run>>

---------------------------------------------------------------------------
(* _resolve_live_launcher_for_launch: a provider's key and base_url are    *)
(* two calls on the store, each under the lock.                            *)
ReadKey(l, p) ==
  /\ at[l] = "keys" /\ p \in todo[l] /\ creds[l][p] = None
  /\ IF store[p] # None
     THEN /\ creds' = [creds EXCEPT ![l][p].key = store[p].key]
          /\ UNCHANGED <<todo, missing>>
     ELSE /\ missing' = [missing EXCEPT ![l] = @ \cup {p}]
          /\ Looks(l, todo[l] \ {p}) /\ UNCHANGED creds
  /\ UNCHANGED <<at, askVars, store, posts, dir, run>>

ReadUrl(l, p) ==
  /\ at[l] = "keys" /\ p \in todo[l] /\ creds[l][p].key # 0
  /\ creds' = [creds EXCEPT ![l][p].url = store[p].url]
  /\ Looks(l, todo[l] \ {p})
  /\ UNCHANGED <<at, askVars, missing, store, posts, dir, run>>

RefusesBug(l) == missing[l] = Players(l) \ {"human"}     \* one key will do
Refuses(l)    == missing[l] # {}

ChooseLauncher(l) ==
  /\ todo[l] = {}
  /\ Moves(l, "keys", IF Refuses(l) THEN "403" ELSE "mkdir")
  /\ UNCHANGED <<askVars, todo, creds, missing, store, posts, dir, run>>

---------------------------------------------------------------------------
(* run_dir.mkdir(parents=True) without exist_ok: the second of two fails.  *)
MakeDir(l) ==
  /\ IF dir[req[l].run] # NoDir
     THEN Moves(l, "mkdir", "500") /\ UNCHANGED dir
     ELSE /\ Moves(l, "mkdir",
                   IF req[l].kind = "template" THEN "start" ELSE "manifest")
          /\ dir' = [dir EXCEPT ![req[l].run].by = l]
  /\ UNCHANGED <<askVars, todo, creds, missing, store, posts, run>>

(* Each of the two files is written, or an OSError answers 500 and leaves  *)
(* the directory as it is.                                                 *)
WriteManifest(l) ==
  /\ \/ /\ Moves(l, "manifest", "artifact")
        /\ dir' = [dir EXCEPT ![req[l].run].manifest = TRUE]
     \/ Moves(l, "manifest", "500") /\ UNCHANGED dir
  /\ UNCHANGED <<askVars, todo, creds, missing, store, posts, run>>

WriteArtifact(l) ==
  /\ \/ /\ Moves(l, "artifact", "start")
        /\ dir' = [dir EXCEPT ![req[l].run].artifact = <<req[l].mode, RolesOf(l)>>]
     \/ Moves(l, "artifact", "500") /\ UNCHANGED dir
  /\ UNCHANGED <<askVars, todo, creds, missing, store, posts, run>>

(* _launch_run_async: queued, the thread started, 202.                     *)
Start(l) ==
  /\ Moves(l, "start", "202")
  /\ run' = [run EXCEPT ![l] = "queued"]
  /\ UNCHANGED <<askVars, todo, creds, missing, store, posts, dir>>

(* The run's thread builds the agents of the seats, then plays.            *)
Unkeyed(l)  == \E p \in Players(l) \ {"human"} : creds[l][p].key = 0
Homeless(l) == \E p \in Players(l) \cap Custom : creds[l][p].url = 0

BuildAgents(l) ==
  /\ run[l] = "queued"
  /\ run' = [run EXCEPT ![l] =
               IF req[l].kind = "template" \/ ~Live(l) THEN "playing"
               ELSE IF Unkeyed(l) THEN "unkeyed"
               ELSE IF Homeless(l) THEN "homeless" ELSE "playing"]
  /\ UNCHANGED <<at, askVars, todo, creds, missing, store, posts, dir>>

(* POST /api/credentials: a new key, with an address of the same post or,  *)
(* for a provider of the registry, without one.                            *)
PostCredential(p, url) ==
  /\ posts < MaxPosts /\ posts' = posts + 1
  /\ p \in Custom => url
  /\ store' = [store EXCEPT ![p] = [key |-> posts', url |-> IF url THEN posts' ELSE 0]]
  /\ UNCHANGED <<at, askVars, todo, creds, missing, dir, run>>

DeleteCredential(p) ==
  /\ store[p] # None /\ store' = [store EXCEPT ![p] = None]
  /\ UNCHANGED <<at, askVars, todo, creds, missing, posts, dir, run>>

Next ==
  \/ \E l \in Launches : Ask(l)
  \/ \E l \in Launches, p \in Providers : FindAnyKey(l, p)
  \/ \E l \in Launches : CheckProfile(l)
  \/ \E l \in Launches : CheckNew(l)
  \/ \E l \in Launches, p \in Providers : ReadKey(l, p)
  \/ \E l \in Launches, p \in Providers : ReadUrl(l, p)
  \/ \E l \in Launches : ChooseLauncher(l)
  \/ \E l \in Launches : MakeDir(l)
  \/ \E l \in Launches : WriteManifest(l)
  \/ \E l \in Launches : WriteArtifact(l)
  \/ \E l \in Launches : Start(l)
  \/ \E l \in Launches : BuildAgents(l)
  \/ \E p \in Providers, url \in BOOLEAN : PostCredential(p, url)
  \/ \E p \in Providers : DeleteCredential(p)

Spec == Init /\ [][Next]_vars

---------------------------------------------------------------------------
(* A run plays what its directory records.  The directory is its own, made *)
(* by the request that started it, whoever else asked for the same run id; *)
(* a profile's run has its release manifest and an artifact that names its *)
(* mode and the roles its seats really play: the fake launcher deals the   *)
(* template's board unless a person takes part.                            *)
Plays(l) == IF Live(l) \/ req[l].profile.human # {} THEN RolesOf(l) ELSE Board

Recorded ==
  \A l \in Launches : run[l] # "none" =>
    LET d == dir[req[l].run]
    IN  /\ d.by = l
        /\ req[l].kind # "template" =>
             d.manifest /\ d.artifact = <<req[l].mode, Plays(l)>>

(* No silent fallback: a live run that was accepted has a key for every    *)
(* seat a provider plays, whatever was posted or deleted while the request *)
(* passed the gates.                                                       *)
NeverUnkeyed == \A l \in Launches : run[l] # "unkeyed"

(* A request refused with a 4xx leaves no directory behind that would make *)
(* a later launch of the same run id fail.                                 *)
RefusedLeavesNothing ==
  \A l \in Launches : at[l] \in {"400", "403", "404", "409"} =>
    \A r \in Runs : dir[r].by # l
===========================================================================
