------------------------ MODULE ProfileLaunchProofs ------------------------
(***************************************************************************)
(* What a launch leaves behind and what its run plays with, for any number *)
(* of requests, runs, providers and credentials posted meanwhile.          *)
(***************************************************************************)
EXTENDS ProfileLaunch, TLAPS

Places == {"idle", "capability", "profile", "exists", "keys", "mkdir", "manifest",
           "artifact", "start"} \cup Answers
Record(l)   == <<req[l].mode, RolesOf(l)>>
Credentials == [Providers -> [key : Nat, url : Nat]]

TypeInv ==
  /\ at \in [Launches -> Places] /\ req \in [Launches -> Requests]
  /\ run \in [Launches -> {"none", "queued", "playing", "unkeyed", "homeless"}]
  /\ todo \in [Launches -> SUBSET Providers] /\ missing \in [Launches -> SUBSET Providers]
  /\ creds \in [Launches -> Credentials] /\ store \in Credentials /\ posts \in Nat
  /\ dir \in [Runs -> [by : Launches \cup {"nobody"}, manifest : BOOLEAN,
                       artifact : {<<>>} \cup {Record(l) : l \in Launches}]]

(* A directory is of the request that made it, which is past making it,    *)
(* was started, or failed with a 500; so no two requests are both past it  *)
(* for one run id, and what one has written there is still there.          *)
Owned ==
  \A r \in Runs, l \in Launches :
    dir[r].by = l => r = req[l].run /\ at[l] \in {"manifest", "artifact", "start", "202", "500"}
Written(l) ==
  LET d == dir[req[l].run]
  IN  /\ at[l] \in {"manifest", "artifact", "start", "202"} => d.by = l
      /\ req[l].kind # "template" /\ at[l] \in {"artifact", "start", "202"} => d.manifest
      /\ req[l].kind # "template" /\ at[l] \in {"start", "202"} => d.artifact = Record(l)
      /\ run[l] # "none" => at[l] = "202"

(* A profile past its gates: a fake launch does not shuffle, and a live    *)
(* one seats known providers and people only.                              *)
Gated == {"exists", "keys", "mkdir", "manifest", "artifact", "start", "202"}
Passed(l) ==
  req[l].kind # "template" /\ at[l] \in Gated =>
    IF Live(l) THEN Players(l) \subseteq Providers \cup {"human"} ELSE ~req[l].profile.shuffle

(* A key that was read is a key; every provider of a live launch is still  *)
(* to be looked at, was found missing or has its key collected, and past   *)
(* the keys all have.                                                      *)
Keyed(l) ==
  req[l].kind # "template" /\ Live(l) =>
    \A p \in Players(l) \ {"human"} :
      /\ at[l] = "keys" => p \in todo[l] \/ p \in missing[l] \/ creds[l][p].key # 0
      /\ at[l] \in {"mkdir", "manifest", "artifact", "start", "202"} => creds[l][p].key # 0
StoreInv == \A p \in Providers : store[p] # None => store[p].key # 0

LaunchInv ==
  /\ TypeInv /\ Owned /\ StoreInv
  /\ \A l \in Launches : Written(l) /\ Passed(l) /\ Keyed(l) /\ run[l] # "unkeyed"

(* What a request asks, and the seed, never change; nor does what follows. *)
LEMMA AskedStays ==
  ASSUME UNCHANGED askVars, NEW l
  PROVE  /\ RolesOf(l)' = RolesOf(l) /\ Players(l)' = Players(l) /\ Record(l)' = Record(l)
         /\ Live(l)' = Live(l)
BY DEF askVars, RolesOf, SeatRoles, Players, Record, Live

(* A step of one launch, by what it changes of the others' business: no    *)
(* more than the directory of its run, or where nobody else is past it.    *)
Local(l) == Written(l) /\ Passed(l) /\ Keyed(l) /\ run[l] # "unkeyed"
Same(l) ==
  /\ at'[l] = at[l] /\ run'[l] = run[l] /\ todo'[l] = todo[l] /\ missing'[l] = missing[l]
  /\ creds'[l] = creds[l]
  /\ dir'[req[l].run] = dir[req[l].run]
       \/ at[l] \notin {"manifest", "artifact", "start", "202"}

LEMMA SameKeeps ==
  ASSUME UNCHANGED askVars, NEW l \in Launches, Local(l), Same(l) PROVE Local(l)'
<1>1. req' = req
  BY DEF askVars
<1>2. QED
  BY <1>1, AskedStays DEF Local, Same, Written, Passed, Keyed

LEMMA OneKeeps ==
  ASSUME LaunchInv, UNCHANGED askVars, TypeInv', Owned', StoreInv', NEW l,
         \A k \in Launches \ {l} : Same(k), l \in Launches => Local(l)'
  PROVE  LaunchInv'
<1>1. \A k \in Launches : Local(k)'
  BY SameKeeps DEF LaunchInv, Local
<1>2. QED
  BY <1>1 DEF LaunchInv, Local

(* Steps that leave the directories alone, and where no launch comes to    *)
(* leave what its directory is of.                                         *)
LEMMA OwnedStays ==
  ASSUME Owned, req' = req, dir' = dir, NEW l \in Launches,
         at[l] \notin {"manifest", "artifact", "start", "202", "500"}
           \/ at'[l] \in {"manifest", "artifact", "start", "202", "500"},
         \A k \in Launches \ {l} : at'[k] = at[k]
  PROVE  Owned'
BY DEF Owned

(* The gates before the directory.                                         *)
LEMMA GateStep ==
  ASSUME LaunchInv, NEW l \in Launches,
         \/ Ask(l) \/ CheckProfile(l) \/ CheckNew(l) \/ ChooseLauncher(l)
         \/ \E p \in Providers : FindAnyKey(l, p)
  PROVE  LaunchInv'
<1> USE DEF Moves, Looks
<1>0. /\ UNCHANGED <<dir, store, posts, creds, missing, run>> /\ UNCHANGED askVars
      /\ req' = req
  BY DEF Ask, CheckProfile, CheckNew, ChooseLauncher, FindAnyKey, askVars
<1>1. /\ at[l] \in {"idle", "profile", "exists", "keys", "capability"}
      /\ at'[l] \in {"capability", "profile", "exists", "keys", "mkdir", "400", "403", "404", "409", "500"}
      /\ \A k \in Launches \ {l} : at'[k] = at[k] /\ todo'[k] = todo[k]
  BY DEF LaunchInv, TypeInv, Places, Answers, Ask, CheckProfile, CheckNew, ChooseLauncher,
     FindAnyKey, ProfileGates
<1>2. TypeInv'
  <2>1. at' \in [Launches -> Places]
    BY <1>1 DEF Places, Answers, LaunchInv, TypeInv, Ask, CheckProfile, CheckNew, ChooseLauncher,
       FindAnyKey
  <2>2. todo' \in [Launches -> SUBSET Providers]
    <3>1. CASE CheckNew(l)
      <4>1. at'[l] = "keys" => Players(l) \subseteq Providers \cup {"human"}
        BY <3>1 DEF LaunchInv, TypeInv, Passed, Gated, CheckNew
      <4>2. QED
        BY <3>1, <4>1 DEF LaunchInv, TypeInv, CheckNew
    <3>2. CASE ~CheckNew(l)
      BY <3>2 DEF LaunchInv, TypeInv, Ask, CheckProfile, ChooseLauncher, FindAnyKey
    <3>3. QED
      BY <3>1, <3>2
  <2>3. QED
    BY <1>0, <2>1, <2>2, AskedStays DEF LaunchInv, TypeInv
<1>3. Owned' /\ StoreInv'
  BY <1>0, <1>1, OwnedStays DEF LaunchInv, StoreInv
<1>4. \A k \in Launches \ {l} : Same(k)
  BY <1>0, <1>1 DEF Same
<1>5. Written(l)' /\ run'[l] # "unkeyed"
  BY <1>0, <1>1 DEF LaunchInv, Written, Places
<1>6. Passed(l)'
  <2>1. /\ req[l].kind # "template" /\ at'[l] \in Gated /\ ~CheckProfile(l) => at[l] \in Gated
        /\ Live(l)' = Live(l) /\ Players(l)' = Players(l)
    BY <1>0, AskedStays DEF Gated, LaunchInv, TypeInv, Ask, CheckNew, ChooseLauncher, FindAnyKey
  <2>2. CASE CheckProfile(l)
    BY <1>0, <2>1, <2>2
    DEF Passed, Gated, CheckProfile, ProfileGates, Shape, Players, LaunchInv, TypeInv
  <2>3. CASE ~CheckProfile(l)
    BY <1>0, <2>1, <2>3 DEF Passed, LaunchInv
  <2>4. QED
    BY <2>2, <2>3
<1>7. Keyed(l)'
  <2>1. Live(l)' = Live(l) /\ Players(l)' = Players(l) /\ creds' = creds /\ missing' = missing
    BY <1>0, AskedStays
  <2>2. CASE CheckNew(l)
    <3>1. at'[l] = "keys" => todo'[l] = Players(l) \ {"human"}
      BY <2>2 DEF CheckNew, LaunchInv, TypeInv
    <3>2. at'[l] = "mkdir" => req[l].kind = "template" \/ ~Live(l)
      BY <2>2 DEF CheckNew, LaunchInv, TypeInv
    <3>3. QED
      BY <1>0, <1>1, <2>1, <3>1, <3>2 DEF Keyed
  <2>3. CASE ChooseLauncher(l)
    <3>1. /\ at[l] = "keys" /\ todo[l] = {} /\ at'[l] \in {"mkdir", "403"}
          /\ at'[l] = "mkdir" => missing[l] = {}
      BY <2>3 DEF ChooseLauncher, Refuses, LaunchInv, TypeInv
    <3>2. QED
      BY <1>0, <2>1, <3>1 DEF Keyed, LaunchInv
  <2>4. CASE ~CheckNew(l) /\ ~ChooseLauncher(l)
    <3>1. at'[l] \notin {"keys", "mkdir", "manifest", "artifact", "start", "202"}
            \/ req[l].kind = "template"
      BY <1>1, <2>4 DEF Ask, CheckProfile, FindAnyKey, ProfileGates, LaunchInv, TypeInv
    <3>2. QED
      BY <1>0, <2>1, <3>1 DEF Keyed
  <2>5. QED
    BY <2>2, <2>3, <2>4
<1>8. QED
  BY <1>0, <1>2, <1>3, <1>4, <1>5, <1>6, <1>7, OneKeeps DEF Local

(* Reading the credentials, while they are posted and deleted.             *)
LEMMA KeyStep ==
  ASSUME LaunchInv, NEW l \in Launches, NEW p \in Providers, ReadKey(l, p) \/ ReadUrl(l, p)
  PROVE  LaunchInv'
<1>0. /\ UNCHANGED <<at, dir, store, posts, run>> /\ UNCHANGED askVars /\ req' = req
      /\ at[l] = "keys"
  BY DEF ReadKey, ReadUrl, askVars
<1> DEFINE c == creds[l][p]
<1>a. PICK new \in [key : Nat, url : Nat] :
        /\ creds' = [creds EXCEPT ![l] = [creds[l] EXCEPT ![p] = new]]
        /\ new.key # 0 \/ p \in missing'[l]
  <2>1. c \in [key : Nat, url : Nat] /\ store[p] \in [key : Nat, url : Nat]
    BY DEF LaunchInv, TypeInv, Credentials
  <2>2. CASE ReadKey(l, p) /\ store[p] # None
    <3>1. /\ [c EXCEPT !.key = store[p].key] \in [key : Nat, url : Nat]
          /\ [c EXCEPT !.key = store[p].key].key # 0
      BY <2>1, <2>2 DEF LaunchInv, StoreInv
    <3>2. creds' = [creds EXCEPT ![l] = [creds[l] EXCEPT ![p] = [c EXCEPT !.key = store[p].key]]]
      BY <2>2 DEF ReadKey
    <3>3. QED
      BY <3>1, <3>2
  <2>3. CASE ReadKey(l, p) /\ store[p] = None
    <3>1. creds' = creds /\ p \in missing'[l]
      BY <2>3 DEF ReadKey, LaunchInv, TypeInv
    <3>2. creds = [creds EXCEPT ![l] = [creds[l] EXCEPT ![p] = c]]
      BY DEF LaunchInv, TypeInv, Credentials
    <3>3. QED
      BY <2>1, <3>1, <3>2
  <2>4. CASE ReadUrl(l, p)
    <3>1. /\ [c EXCEPT !.url = store[p].url] \in [key : Nat, url : Nat]
          /\ [c EXCEPT !.url = store[p].url].key # 0
      BY <2>1, <2>4 DEF ReadUrl
    <3>2. creds' = [creds EXCEPT ![l] = [creds[l] EXCEPT ![p] = [c EXCEPT !.url = store[p].url]]]
      BY <2>4 DEF ReadUrl
    <3>3. QED
      BY <3>1, <3>2
  <2>5. QED
    BY <2>2, <2>3, <2>4
<1>1. \A k \in Launches \ {l} : /\ todo'[k] = todo[k] /\ missing'[k] = missing[k]
                                /\ creds'[k] = creds[k]
  BY <1>a DEF ReadKey, ReadUrl, Looks, LaunchInv, TypeInv
<1>2. TypeInv'
  <2>1. todo' \in [Launches -> SUBSET Providers] /\ missing' \in [Launches -> SUBSET Providers]
    BY DEF ReadKey, ReadUrl, Looks, LaunchInv, TypeInv
  <2>2. creds' \in [Launches -> Credentials]
    BY <1>a DEF LaunchInv, TypeInv, Credentials
  <2>3. QED
    BY <1>0, <2>1, <2>2, AskedStays DEF LaunchInv, TypeInv
<1>3. Owned' /\ StoreInv'
  BY <1>0 DEF LaunchInv, Owned, StoreInv
<1>4. \A k \in Launches \ {l} : Same(k)
  BY <1>0, <1>1 DEF Same
<1>5. Written(l)' /\ Passed(l)' /\ run'[l] # "unkeyed"
  BY <1>0, AskedStays DEF LaunchInv, Written, Passed
<1>6. Keyed(l)'
  <2>1. Live(l)' = Live(l) /\ Players(l)' = Players(l)
    BY <1>0, AskedStays
  <2>2. ASSUME NEW q \in Providers, q # p
        PROVE  /\ q \in todo[l] => q \in todo'[l]
               /\ q \in missing[l] => q \in missing'[l]
               /\ creds'[l][q].key = creds[l][q].key
    BY <1>a, <2>2 DEF ReadKey, ReadUrl, Looks, LaunchInv, TypeInv, Credentials
  <2>3. p \in missing'[l] \/ creds'[l][p].key # 0
    BY <1>a DEF LaunchInv, TypeInv, Credentials
  <2>4. ASSUME req[l].kind # "template", Live(l), NEW q \in Players(l) \ {"human"}
        PROVE  q \in Providers /\ (q \in todo[l] \/ q \in missing[l] \/ creds[l][q].key # 0)
    BY <1>0, <2>4 DEF LaunchInv, Passed, Gated, Keyed
  <2>5. QED
    BY <1>0, <2>1, <2>2, <2>3, <2>4 DEF Keyed
<1>7. QED
  BY <1>0, <1>2, <1>3, <1>4, <1>5, <1>6, OneKeeps DEF Local

LEMMA PostStep ==
  ASSUME LaunchInv, NEW p \in Providers,
         DeleteCredential(p) \/ \E url \in BOOLEAN : PostCredential(p, url)
  PROVE  LaunchInv'
<1>0. UNCHANGED <<at, dir, run, todo, missing, creds>> /\ UNCHANGED askVars
  BY DEF DeleteCredential, PostCredential, askVars
<1>1. store' \in Credentials /\ posts' \in Nat /\ StoreInv'
  <2>1. PICK new \in [key : Nat, url : Nat] :
          store' = [store EXCEPT ![p] = new] /\ (new = None \/ new.key # 0)
    <3>1. None \in [key : Nat, url : Nat]
      BY DEF None
    <3>2. ASSUME NEW url \in BOOLEAN, PostCredential(p, url)
          PROVE  /\ [key |-> posts', url |-> IF url THEN posts' ELSE 0] \in [key : Nat, url : Nat]
                 /\ posts' # 0
      BY <3>2 DEF PostCredential, LaunchInv, TypeInv
    <3>3. QED
      BY <3>1, <3>2 DEF DeleteCredential, PostCredential
  <2>2. posts' \in Nat
    BY DEF DeleteCredential, PostCredential, LaunchInv, TypeInv
  <2>3. QED
    BY <2>1, <2>2 DEF LaunchInv, TypeInv, StoreInv, Credentials
<1>2. TypeInv' /\ Owned'
  BY <1>0, <1>1, AskedStays DEF LaunchInv, TypeInv, Owned, askVars
<1>3. \A k \in Launches : Same(k)
  BY <1>0 DEF Same
<1>4. QED
  BY <1>0, <1>1, <1>2, <1>3, SameKeeps DEF LaunchInv, Local

(* The directory: nobody is past making it for a run that has none, and    *)
(* only its maker writes there.                                            *)
Past == {"manifest", "artifact", "start", "202"}

LEMMA OnePast ==
  ASSUME LaunchInv, NEW l \in Launches, at[l] \in Past, NEW k \in Launches \ {l}
  PROVE  req[k].run # req[l].run \/ at[k] \notin Past
BY DEF LaunchInv, Written, Past

LEMMA MakeStep == ASSUME LaunchInv, NEW l \in Launches, MakeDir(l) PROVE LaunchInv'
<1>0. /\ UNCHANGED <<todo, creds, missing, store, posts, run>> /\ UNCHANGED askVars /\ req' = req
      /\ at[l] = "mkdir" /\ at'[l] \in {"500", "start", "manifest"}
      /\ \A k \in Launches \ {l} : at'[k] = at[k]
      /\ at' \in [Launches -> Places]
  BY DEF MakeDir, Moves, askVars, LaunchInv, TypeInv, Places, Answers
<1>1. req[l].run \in Runs /\ l # "nobody"
  BY LaunchAssumption DEF LaunchInv, TypeInv
<1>2. \/ dir' = dir /\ at'[l] = "500"
      \/ /\ dir[req[l].run].by = "nobody"
         /\ dir' = [dir EXCEPT ![req[l].run] = [dir[req[l].run] EXCEPT !.by = l]]
         /\ at'[l] = IF req[l].kind = "template" THEN "start" ELSE "manifest"
  BY DEF MakeDir, Moves, NoDir, LaunchInv, TypeInv
<1>3. /\ \A r \in Runs \ {req[l].run} : dir'[r] = dir[r]
      /\ dir'[req[l].run].by \in {l, dir[req[l].run].by}
      /\ at'[l] # "500" => dir'[req[l].run].by = l
  BY <1>1, <1>2 DEF LaunchInv, TypeInv
<1>4. TypeInv'
  <2>1. dir' \in [Runs -> [by : Launches \cup {"nobody"}, manifest : BOOLEAN,
                           artifact : {<<>>} \cup {Record(k) : k \in Launches}]]
    BY <1>1, <1>2 DEF LaunchInv, TypeInv
  <2>2. QED
    BY <1>0, <2>1, AskedStays DEF LaunchInv, TypeInv
<1>5. Owned' /\ StoreInv'
  BY <1>0, <1>2, <1>3 DEF LaunchInv, Owned, StoreInv
<1>6. ASSUME NEW k \in Launches \ {l} PROVE Same(k)
  <2>1. req[k].run \in Runs /\ (at[k] \in Past => dir[req[k].run].by = k)
    BY LaunchAssumption DEF LaunchInv, TypeInv, Written, Past
  <2>2. req[k].run = req[l].run /\ at[k] \in Past => dir'[req[k].run] = dir[req[k].run]
    BY <1>2, <2>1, LaunchAssumption
  <2>3. QED
    BY <1>0, <1>3, <2>1, <2>2 DEF Same, Past
<1>7. Written(l)' /\ run'[l] # "unkeyed"
  BY <1>0, <1>2, <1>3 DEF LaunchInv, Written
<1>8. Passed(l)' /\ Keyed(l)'
  BY <1>0, AskedStays DEF LaunchInv, Passed, Keyed, Gated
<1>9. QED
  BY <1>0, <1>4, <1>5, <1>6, <1>7, <1>8, OneKeeps DEF Local

LEMMA WriteStep ==
  ASSUME LaunchInv, NEW l \in Launches, WriteManifest(l) \/ WriteArtifact(l) PROVE LaunchInv'
<1>0. /\ UNCHANGED <<todo, creds, missing, store, posts, run>> /\ UNCHANGED askVars /\ req' = req
      /\ at[l] \in {"manifest", "artifact"} /\ at'[l] \in {"500", "artifact", "start"}
      /\ \A k \in Launches \ {l} : at'[k] = at[k]
      /\ at' \in [Launches -> Places]
  BY DEF WriteManifest, WriteArtifact, Moves, askVars, LaunchInv, TypeInv, Places, Answers
<1>1. req[l].run \in Runs
  BY LaunchAssumption DEF LaunchInv, TypeInv
<1>2. \/ dir' = dir /\ at'[l] = "500"
      \/ /\ at[l] = "manifest" /\ at'[l] = "artifact"
         /\ dir' = [dir EXCEPT ![req[l].run] = [dir[req[l].run] EXCEPT !.manifest = TRUE]]
      \/ /\ at[l] = "artifact" /\ at'[l] = "start"
         /\ dir' = [dir EXCEPT ![req[l].run] = [dir[req[l].run] EXCEPT !.artifact = Record(l)]]
  BY DEF WriteManifest, WriteArtifact, Moves, Record, LaunchInv, TypeInv
<1> DEFINE d == dir[req[l].run]
            Dir == [by : Launches \cup {"nobody"}, manifest : BOOLEAN,
                    artifact : {<<>>} \cup {Record(k) : k \in Launches}]
<1>a. PICK made \in Dir :
        /\ dir' = [dir EXCEPT ![req[l].run] = made]
        /\ made.by = d.by
        /\ at'[l] = "artifact" => made.manifest
        /\ at'[l] = "start" => made.manifest = d.manifest /\ made.artifact = Record(l)
  <2>1. dir \in [Runs -> Dir] /\ d \in Dir
    BY <1>1 DEF LaunchInv, TypeInv
  <2>2. CASE dir' = dir /\ at'[l] = "500"
    <3>1. dir' = [dir EXCEPT ![req[l].run] = d]
      BY <1>1, <2>1, <2>2
    <3>2. QED
      BY <2>1, <2>2, <3>1
  <2>3. CASE at'[l] = "artifact" /\ dir' = [dir EXCEPT ![req[l].run] = [d EXCEPT !.manifest = TRUE]]
    <3>1. [d EXCEPT !.manifest = TRUE] \in Dir
      BY <2>1
    <3>2. [d EXCEPT !.manifest = TRUE].manifest /\ [d EXCEPT !.manifest = TRUE].by = d.by
      BY <2>1
    <3>3. QED
      BY <2>3, <3>1, <3>2
  <2>4. CASE at'[l] = "start" /\ dir' = [dir EXCEPT ![req[l].run] = [d EXCEPT !.artifact = Record(l)]]
    <3>1. [d EXCEPT !.artifact = Record(l)] \in Dir
      BY <2>1
    <3>2. /\ [d EXCEPT !.artifact = Record(l)].by = d.by
          /\ [d EXCEPT !.artifact = Record(l)].manifest = d.manifest
          /\ [d EXCEPT !.artifact = Record(l)].artifact = Record(l)
      BY <2>1
    <3>3. QED
      BY <2>4, <3>1, <3>2
  <2>5. QED
    BY <1>2, <2>2, <2>3, <2>4
<1>b. dir \in [Runs -> Dir] /\ dir' \in [Runs -> Dir]
  BY <1>1, <1>a DEF LaunchInv, TypeInv
<1>3. /\ \A r \in Runs \ {req[l].run} : dir'[r] = dir[r]
      /\ \A r \in Runs : dir'[r].by = dir[r].by
      /\ at'[l] = "artifact" => dir'[req[l].run].manifest
      /\ at'[l] = "start" => /\ dir'[req[l].run].manifest = d.manifest
                             /\ dir'[req[l].run].artifact = Record(l)
  <2>1. dir'[req[l].run] = made /\ \A r \in Runs \ {req[l].run} : dir'[r] = dir[r]
    BY <1>1, <1>a, <1>b
  <2>2. QED
    BY <1>1, <1>a, <2>1
<1>4. TypeInv'
  BY <1>0, <1>b, AskedStays DEF LaunchInv, TypeInv
<1>5. Owned' /\ StoreInv'
  BY <1>0, <1>3 DEF LaunchInv, Owned, StoreInv
<1>6. ASSUME NEW k \in Launches \ {l} PROVE Same(k)
  <2>1. req[k].run \in Runs /\ (req[k].run # req[l].run \/ at[k] \notin Past)
    BY <1>0, OnePast, LaunchAssumption DEF LaunchInv, TypeInv, Past
  <2>2. QED
    BY <1>0, <1>3, <2>1 DEF Same, Past
<1>7. Written(l)' /\ run'[l] # "unkeyed"
  BY <1>0, <1>1, <1>2, <1>3, AskedStays DEF LaunchInv, Written
<1>8. Passed(l)' /\ Keyed(l)'
  BY <1>0, AskedStays DEF LaunchInv, Passed, Keyed, Gated
<1>9. QED
  BY <1>0, <1>4, <1>5, <1>6, <1>7, <1>8, OneKeeps DEF Local

(* The run's thread: a live run that got here has every key.               *)
LEMMA RunStep ==
  ASSUME LaunchInv, NEW l \in Launches, Start(l) \/ BuildAgents(l) PROVE LaunchInv'
<1>0. /\ UNCHANGED <<todo, creds, missing, store, posts, dir>> /\ UNCHANGED askVars /\ req' = req
      /\ at[l] \in {"start", "202"} /\ at'[l] = "202"
      /\ \A k \in Launches \ {l} : at'[k] = at[k] /\ run'[k] = run[k]
  BY DEF Start, BuildAgents, Moves, askVars, LaunchInv, TypeInv, Written
<1>1. Unkeyed(l) => req[l].kind = "template" \/ ~Live(l)
  BY <1>0 DEF Unkeyed, LaunchInv, Keyed
<1>2. run'[l] \in {"queued", "playing", "homeless"}
  BY <1>1 DEF Start, BuildAgents, LaunchInv, TypeInv
<1>3. TypeInv'
  <2>1. at' \in [Launches -> Places]
    BY DEF Start, BuildAgents, Moves, LaunchInv, TypeInv, Places, Answers
  <2>2. run' \in [Launches -> {"none", "queued", "playing", "unkeyed", "homeless"}]
    BY DEF Start, BuildAgents, LaunchInv, TypeInv
  <2>3. QED
    BY <1>0, <2>1, <2>2, AskedStays DEF LaunchInv, TypeInv
<1>4. Owned' /\ StoreInv'
  BY <1>0 DEF LaunchInv, Owned, StoreInv
<1>5. \A k \in Launches \ {l} : Same(k)
  BY <1>0 DEF Same
<1>6. Written(l)' /\ Passed(l)' /\ Keyed(l)'
  BY <1>0, AskedStays DEF LaunchInv, Written, Passed, Keyed, Gated
<1>7. QED
  BY <1>0, <1>2, <1>3, <1>4, <1>5, <1>6, OneKeeps DEF Local

---------------------------------------------------------------------------
LEMMA InitLaunch == Init => LaunchInv
<1> SUFFICES ASSUME Init PROVE LaunchInv
  OBVIOUS
<1>1. TypeInv
  BY DEF Init, TypeInv, Places, Credentials, None, NoDir
<1>2. \A r \in Runs, l \in Launches : dir[r].by # l
  BY LaunchAssumption DEF Init, NoDir
<1>3. QED
  BY <1>1, <1>2 DEF Init, LaunchInv, Owned, StoreInv, Written, Passed, Gated, Keyed

LEMMA NextLaunch == LaunchInv /\ [Next]_vars => LaunchInv'
<1> SUFFICES ASSUME LaunchInv, [Next]_vars PROVE LaunchInv'
  OBVIOUS
<1>1. CASE UNCHANGED vars
  <2>1. TypeInv' /\ Owned' /\ StoreInv' /\ \A l \in Launches : Same(l)
    BY <1>1, AskedStays DEF vars, askVars, LaunchInv, TypeInv, Owned, StoreInv, Same
  <2>2. QED
    BY <1>1, <2>1, SameKeeps DEF vars, LaunchInv, Local
<1>2. QED
  BY <1>1, GateStep, KeyStep, PostStep, MakeStep, WriteStep, RunStep DEF Next

THEOREM LaunchInvHolds == Spec => []LaunchInv
BY InitLaunch, NextLaunch, PTL DEF Spec

(* A request refused with a 4xx leaves no directory behind (launch.py).    *)
THEOREM RefusedLeavesNothingHolds == Spec => []RefusedLeavesNothing
<1>1. LaunchInv => RefusedLeavesNothing
  BY DEF LaunchInv, Owned, RefusedLeavesNothing
<1>2. QED
  BY <1>1, LaunchInvHolds, PTL

(* No silent fallback: a live run that was accepted has a key for every    *)
(* provider it plays with, whatever was posted or deleted meanwhile.       *)
THEOREM NeverUnkeyedHolds == Spec => []NeverUnkeyed
<1>1. LaunchInv => NeverUnkeyed
  BY DEF LaunchInv, NeverUnkeyed
<1>2. QED
  BY <1>1, LaunchInvHolds, PTL

(* A run plays what its directory records, which is its own whoever else   *)
(* asked for the same run id.                                              *)
THEOREM RecordedHolds == Spec => []Recorded
<1>1. ASSUME LaunchInv PROVE Recorded
  <2>1. SUFFICES ASSUME NEW l \in Launches, run[l] # "none"
                 PROVE  /\ dir[req[l].run].by = l
                        /\ req[l].kind # "template" =>
                             /\ dir[req[l].run].manifest
                             /\ dir[req[l].run].artifact = <<req[l].mode, Plays(l)>>
    BY DEF Recorded
  <2>2. at[l] = "202" /\ dir[req[l].run].by = l
    BY <1>1, <2>1 DEF LaunchInv, Written
  <2>3. ASSUME req[l].kind # "template" PROVE Plays(l) = RolesOf(l)
    BY <1>1, <2>2, <2>3 DEF LaunchInv, Passed, Gated, Plays, RolesOf, SeatRoles
  <2>4. QED
    BY <1>1, <2>2, <2>3 DEF LaunchInv, Written, Record
<1>2. QED
  BY <1>1, LaunchInvHolds, PTL

===========================================================================
