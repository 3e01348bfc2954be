------------------------ MODULE ConsensusGameProofs ------------------------
(***************************************************************************)
(* The scripted engine's consensus log and the decisions it words itself   *)
(* are accepted by the validators, whatever any seat answers and wherever  *)
(* the provider gives out.                                                 *)
(***************************************************************************)
EXTENDS ConsensusGame, SequenceTheorems, TLAPS
LOCAL INSTANCE SequencesExt

Rounds   == {0, 1, 2}
EventSet == [round : Rounds, type : DOMAIN Visibility, target : Players \cup {"none"}]

(* The wolves asked in the night that is not decided yet.                  *)
Asked == CASE at = 2 -> {"p1"} [] at = 3 -> {"p1", "p2"} [] at = 12 -> {"p2"} [] OTHER -> {}

(* A night is past once the script has gone beyond its kill.               *)
Past(round) == (round = 1 /\ at > 3) \/ (round = 2 /\ at > 12)

Proposers == {said[i][1] : i \in DOMAIN said}

(* The wolves asked proposed, once each and somebody outside the team, or  *)
(* were lost; never both.                                                  *)
TeamInv ==
  /\ said \in Seq(Players \X Players)
  /\ Proposers \cup lost = Asked /\ Proposers \cap lost = {}
  /\ \A i \in DOMAIN said : said[i][2] # "p2" /\ (at <= 3 => said[i][2] # "p1")
  /\ \A i, j \in DOMAIN said : said[i][1] = said[j][1] => i = j

LogInv ==
  /\ log \in Seq(EventSet)
  /\ \A i \in DOMAIN log : log[i].type = "werewolf_kill" => Past(log[i].round)

(* What is not the wording of a live reply is accepted.                    *)
DecisionsInv == ValidDecisions(decisions \ Unfit, entries)

EntriesInv ==
  /\ \A c \in entries : Past(c.round)
  /\ ValidLog(entries, Kills, VisibleToWolves)
  /\ DecisionsInv

ConsensusInv == Consensual =>
  at \in 1..19 /\ alive \subseteq Players /\ TeamInv /\ LogInv /\ EntriesInv

LEMMA ScriptIs ==
  ASSUME Consensual, at \in 1..18
  PROVE  /\ at \in {1, 2, 11} <=> Now.type = "proposal"
         /\ at \in {3, 12} <=> Now.type = "werewolf_kill"
         /\ Now.round = IF at <= 10 THEN 1 ELSE 2
         /\ Now.who \in Players /\ (at = 1 => Now.who = "p1") /\ (at \in {2, 11} => Now.who = "p2")
         /\ Now.type \in DOMAIN Visibility \cup {"proposal"}
<1>1. Now = FullScript[at]
  BY DEF Now, Script
<1>2. \/ at = 1 \/ at = 2 \/ at = 3 \/ at = 4 \/ at = 5 \/ at = 6 \/ at = 7 \/ at = 8 \/ at = 9
      \/ at = 10 \/ at = 11 \/ at = 12 \/ at = 13 \/ at = 14 \/ at = 15 \/ at = 16 \/ at = 17
      \/ at = 18
  OBVIOUS
<1>3. QED
  BY <1>1, <1>2 DEF FullScript, Step, Players, Visibility

LEMMA PlaceIs ==
  ASSUME ConsensusInv, Consensual, NEW types, Playing(types)
  PROVE  at \in 1..18 /\ Now.type \in types
<1>1. Len(Script) = 18
  BY DEF Script, FullScript
<1>2. QED
  BY <1>1 DEF ConsensusInv, Playing

(* What an event added to the log changes for those who read it.           *)
LEMMA LogGrows ==
  ASSUME log \in Seq(EventSet), NEW e \in EventSet, log' = Append(log, e)
  PROVE  /\ log' \in Seq(EventSet) /\ VisibleToWolves \subseteq VisibleToWolves'
         /\ PublicRefs \subseteq VisibleToWolves /\ PublicRefs \subseteq 1..Len(log)
         /\ Kills' = Kills \cup IF e.type = "werewolf_kill"
                               THEN {[place |-> Len(log) + 1, round |-> e.round,
                                      target |-> e.target]}
                               ELSE {}
         /\ \A i \in DOMAIN log' : \/ i \in DOMAIN log /\ log'[i] = log[i]
                                   \/ i = Len(log) + 1 /\ log'[i] = e
<1>1. /\ log' \in Seq(EventSet) /\ Len(log') = Len(log) + 1
      /\ \A i \in 1..Len(log) : log'[i] = log[i]
      /\ log'[Len(log) + 1] = e
  BY AppendProperties
<1>2. DOMAIN log = 1..Len(log) /\ DOMAIN log' = 1..(Len(log) + 1) /\ Len(log) \in Nat
  BY <1>1
<1>3. \A i \in DOMAIN log' : \/ i \in DOMAIN log /\ log'[i] = log[i]
                             \/ i = Len(log) + 1 /\ log'[i] = e
  BY <1>1, <1>2
<1>4. \A i \in DOMAIN log : i \in DOMAIN log' /\ log'[i] = log[i]
  BY <1>1, <1>2
<1>5. VisibleToWolves \subseteq VisibleToWolves'
  BY <1>4 DEF VisibleToWolves
<1>6. PublicRefs \subseteq VisibleToWolves /\ PublicRefs \subseteq 1..Len(log)
  BY <1>2 DEF PublicRefs, VisibleToWolves
<1>7. Len(log) + 1 \in DOMAIN log'
  BY <1>2
<1> DEFINE KillAt(i) == [place |-> i, round |-> log[i].round, target |-> log[i].target]
           KillOf(i) == [place |-> i, round |-> log'[i].round, target |-> log'[i].target]
           New == IF e.type = "werewolf_kill"
                  THEN {[place |-> Len(log) + 1, round |-> e.round, target |-> e.target]} ELSE {}
<1>8. Kills' = Kills \cup New
  <2>1. Kills' = {KillOf(i) : i \in {j \in DOMAIN log' : log'[j].type = "werewolf_kill"}}
    BY DEF Kills
  <2>2. Kills = {KillAt(i) : i \in {j \in DOMAIN log : log[j].type = "werewolf_kill"}}
    BY DEF Kills
  <2>3. ASSUME NEW i \in DOMAIN log', log'[i].type = "werewolf_kill"
        PROVE  KillOf(i) \in Kills \cup New
    <3>1. CASE i \in DOMAIN log /\ log'[i] = log[i]
      BY <2>2, <2>3, <3>1
    <3>2. CASE i = Len(log) + 1 /\ log'[i] = e
      BY <2>3, <3>2
    <3>3. QED
      BY <1>3, <3>1, <3>2
  <2>4. ASSUME NEW i \in DOMAIN log, log[i].type = "werewolf_kill" PROVE KillAt(i) \in Kills'
    BY <1>4, <2>1, <2>4
  <2>5. New \subseteq Kills'
    BY <1>1, <1>7, <2>1
  <2>6. QED
    BY <2>1, <2>2, <2>3, <2>4, <2>5
<1>9. QED
  BY <1>1, <1>3, <1>5, <1>6, <1>8

(* An entry of a past night stays valid, whatever else is logged.          *)
LEMMA StaysValid ==
  ASSUME NEW c, NEW kills, NEW more, NEW visible, NEW seen,
         ValidEntry(c, kills, visible), visible \subseteq seen,
         \A k \in more : k.round # c.round
  PROVE  ValidEntry(c, kills \cup more, seen)
BY DEF ValidEntry, SeenBefore

LEMMA SameDecisions ==
  ASSUME game' = game, decisions' = decisions, entries' = entries
  PROVE  DecisionsInv' = DecisionsInv
BY DEF DecisionsInv, Unfit, Live

(* One more decision, fit or not, takes nothing from the others.           *)
LEMMA MoreDecisions ==
  ASSUME DecisionsInv, game' = game, NEW d, decisions' = decisions \cup {d},
         entries \subseteq entries',
         \/ Live /\ d.consensus = 0 /\ (d.team \/ ~d.typed)
         \/ d.typed /\ (d.team => \E c \in entries' :
                                    c.round = d.consensus /\ c.target = d.target)
  PROVE  DecisionsInv'
<1>1. /\ decisions' \ Unfit' \subseteq (decisions \ Unfit) \cup {d}
      /\ d \in decisions' \ Unfit' => ~(Live /\ d.consensus = 0 /\ (d.team \/ ~d.typed))
  BY DEF Unfit, Live
<1>2. \A e \in decisions \ Unfit :
        e.typed /\ (e.team => \E c \in entries : c.round = e.consensus /\ c.target = e.target)
  BY DEF DecisionsInv, ValidDecisions, Typed, Linked
<1>3. \A e \in decisions' \ Unfit' :
        e.typed /\ (e.team => \E c \in entries' : c.round = e.consensus /\ c.target = e.target)
  BY <1>1, <1>2
<1>4. QED
  BY <1>3 DEF DecisionsInv, ValidDecisions, Typed, Linked

(* A step that logs one event which is no kill.                            *)
LEMMA EventLogged ==
  ASSUME ConsensusInv, Consensual, at \in 1..18, at' = at + 1, DecisionsInv',
         NEW target \in Players \cup {"none"}, log' = Append(log, Event(Now, target)),
         Now.type \notin {"werewolf_kill", "proposal"}, UNCHANGED <<said, lost, entries>>
  PROVE  TeamInv' /\ LogInv' /\ EntriesInv'
<1>1. Event(Now, target) \in EventSet /\ Event(Now, target).type # "werewolf_kill"
  BY ScriptIs DEF Event, EventSet, Rounds
<1>2. /\ log' \in Seq(EventSet) /\ VisibleToWolves \subseteq VisibleToWolves' /\ Kills' = Kills
      /\ \A i \in DOMAIN log' : \/ i \in DOMAIN log /\ log'[i] = log[i]
                                \/ i = Len(log) + 1 /\ log'[i] = Event(Now, target)
  BY <1>1, LogGrows DEF ConsensusInv, LogInv
<1>3. at \notin {1, 2, 3, 11, 12}
  BY ScriptIs
<1>4. \A round : Past(round) => Past(round)'
  BY DEF Past
<1>5. Asked' = Asked
  BY <1>3 DEF Asked
<1>6. TeamInv'
  <2>1. Proposers' = Proposers
    BY DEF Proposers
  <2>2. QED
    BY <1>3, <1>5, <2>1 DEF ConsensusInv, TeamInv
<1>7. LogInv'
  BY <1>1, <1>2, <1>4 DEF ConsensusInv, LogInv
<1>8. ValidLog(entries, Kills, VisibleToWolves')
  BY <1>2 DEF ConsensusInv, EntriesInv, ValidLog, ValidEntry, SeenBefore
<1>9. EntriesInv'
  BY <1>2, <1>4, <1>8 DEF ConsensusInv, EntriesInv
<1>10. QED
  BY <1>6, <1>7, <1>9

LEMMA ProposalStep ==
  ASSUME ConsensusInv, Consensual, NEW reply, Proposal(reply) PROVE ConsensusInv'
<1>0. at \in 1..18 /\ Now.type = "proposal"
  BY PlaceIs DEF Proposal
<1>1. /\ at \in {1, 2, 11} /\ at' = at + 1 /\ game' = game /\ alive' = alive
      /\ Now.round = IF at <= 10 THEN 1 ELSE 2
      /\ Now.who \in Players /\ (at = 1 => Now.who = "p1") /\ (at \in {2, 11} => Now.who = "p2")
  BY <1>0, ScriptIs DEF Proposal
<1>2. Consensual' /\ at' \in 1..19 /\ alive' \subseteq Players
  BY <1>1 DEF ConsensusInv, Consensual
<1>3. Asked' = Asked \cup {Now.who} /\ Now.who \notin Asked
  BY <1>1 DEF Asked
<1>4. TeamInv'
  <2>0. TeamInv
    BY DEF ConsensusInv
  <2>1. CASE reply \in alive \ ToSet(NightOf(Now.round))
    <3>1. /\ said' = Append(said, <<Now.who, reply>>) /\ lost' = lost
          /\ <<Now.who, reply>> \in Players \X Players
      BY <1>1, <2>1 DEF Proposal, ConsensusInv
    <3>2. reply # "p2" /\ (at' <= 3 => reply # "p1")
      <4>1. Now.round = 1 => {"p1", "p2"} \subseteq ToSet(NightOf(Now.round))
        BY DEF NightOf, ToSet
      <4>2. Now.round = 2 => "p2" \in ToSet(NightOf(Now.round))
        BY DEF NightOf, ToSet
      <4>3. QED
        BY <1>1, <2>1, <4>1, <4>2
    <3>3. /\ said' \in Seq(Players \X Players) /\ Len(said') = Len(said) + 1
          /\ \A i \in 1..Len(said) : said'[i] = said[i]
          /\ said'[Len(said) + 1] = <<Now.who, reply>>
      BY <2>0, <3>1, AppendProperties DEF TeamInv
    <3>4. DOMAIN said = 1..Len(said) /\ DOMAIN said' = 1..(Len(said) + 1) /\ Len(said) \in Nat
      BY <2>0, <3>3 DEF TeamInv
    <3>5. \A i \in DOMAIN said' : \/ i \in DOMAIN said /\ said'[i] = said[i]
                                  \/ i = Len(said) + 1 /\ said'[i] = <<Now.who, reply>>
      BY <3>3, <3>4
    <3>6. Proposers' = Proposers \cup {Now.who}
      BY <3>3, <3>4, <3>5 DEF Proposers
    <3>7. \A i \in DOMAIN said : said[i][1] \in Asked
      BY <2>0 DEF TeamInv, Proposers
    <3>8. \A i \in DOMAIN said' : said'[i][2] # "p2" /\ (at' <= 3 => said'[i][2] # "p1")
      BY <1>1, <2>0, <3>2, <3>5 DEF TeamInv
    <3>9. \A i, j \in DOMAIN said' : said'[i][1] = said'[j][1] => i = j
      BY <1>3, <2>0, <3>5, <3>7 DEF TeamInv
    <3>10. QED
      BY <1>3, <2>0, <3>1, <3>3, <3>6, <3>8, <3>9 DEF TeamInv
  <2>2. CASE reply \notin alive \ ToSet(NightOf(Now.round))
    <3>1. said' = said /\ lost' = lost \cup {Now.who}
      BY <2>2 DEF Proposal
    <3>2. Proposers' = Proposers
      BY <3>1 DEF Proposers
    <3>3. QED
      BY <1>1, <1>3, <2>0, <3>1, <3>2 DEF TeamInv
  <2>3. QED
    BY <2>1, <2>2
<1>5. \A round : Past(round) => Past(round)'
  BY <1>1 DEF Past
<1>6. LogInv' /\ EntriesInv'
  <2>1. log' = log /\ entries' = entries /\ decisions' = decisions
    BY DEF Proposal
  <2>2. Kills' = Kills /\ VisibleToWolves' = VisibleToWolves /\ DecisionsInv' = DecisionsInv
    BY <1>1, <2>1, SameDecisions DEF Kills, VisibleToWolves
  <2>3. QED
    BY <1>5, <2>1, <2>2 DEF ConsensusInv, LogInv, EntriesInv
<1>7. QED
  BY <1>2, <1>4, <1>6 DEF ConsensusInv

(* The entry of a night, by the wolves that were asked in it.              *)
LEMMA EntryFits ==
  ASSUME TeamInv, at \in {3, 12}, said # <<>>,
         Now.round = IF at <= 10 THEN 1 ELSE 2
  PROVE  /\ Chosen \in Players /\ Entry.target = Chosen /\ Entry.round = Now.round
         /\ MembersOnly(Entry) /\ OneActionEach(Entry) /\ Outsider(Entry)
         /\ AllCounted(Entry) /\ FitsStatus(Entry) /\ Entry.refs = PublicRefs
<1>1. /\ said \in Seq(Players \X Players) /\ 1 \in DOMAIN said
      /\ Proposers \cup lost = Asked /\ Proposers \cap lost = {}
      /\ \A i, j \in DOMAIN said : said[i][1] = said[j][1] => i = j
  BY DEF TeamInv
<1>2. ToSet(NightOf(Now.round)) = Asked
  <2>1. CASE at = 3
    BY <2>1 DEF NightOf, ToSet, Asked
  <2>2. CASE at = 12
    BY <2>2 DEF NightOf, ToSet, Asked
  <2>3. QED
    BY <2>1, <2>2
<1>3. Chosen \in Players /\ Chosen \notin Asked
  <2>1. said[1] \in Players \X Players /\ said[1][2] # "p2" /\ (at <= 3 => said[1][2] # "p1")
    BY <1>1 DEF TeamInv
  <2>2. QED
    BY <2>1 DEF Chosen, Asked
<1>4. Supporters \cup Disagreeing = Proposers /\ Supporters \cap Disagreeing = {}
  BY <1>1 DEF Supporters, Disagreeing, Proposers
<1>5. said[1][1] \in Supporters
  BY <1>1 DEF Supporters, Chosen
<1>6. /\ Entry.round = Now.round /\ Entry.participants = Asked /\ Entry.status = Agreement
      /\ Entry.primary = said[1][1] /\ Entry.target = Chosen
      /\ Entry.responders = Proposers \ {said[1][1]} /\ Entry.supporters = Supporters
      /\ Entry.dissenters = Disagreeing \cup lost /\ Entry.refs = PublicRefs
  BY <1>2 DEF Entry, Proposers
<1>7. MembersOnly(Entry) /\ OneActionEach(Entry) /\ Outsider(Entry) /\ AllCounted(Entry)
  BY <1>1, <1>3, <1>4, <1>5, <1>6 DEF MembersOnly, OneActionEach, Outsider, AllCounted
<1>8. FitsStatus(Entry)
  BY <1>6 DEF FitsStatus, Agreement
<1>9. QED
  BY <1>3, <1>6, <1>7, <1>8

LEMMA ConsensusStep ==
  ASSUME ConsensusInv, Consensual, Consensus PROVE ConsensusInv'
<1>0. at \in 1..18 /\ Now.type = "werewolf_kill"
  BY PlaceIs DEF Consensus
<1>1. /\ at \in {3, 12} /\ at' = at + 1 /\ game' = game /\ alive' = alive
      /\ Now.round = (IF at <= 10 THEN 1 ELSE 2) /\ Now.type = "werewolf_kill"
  BY <1>0, ScriptIs DEF Consensus
<1>2. Consensual' /\ at' \in 1..19 /\ alive' \subseteq Players
  BY <1>1 DEF ConsensusInv, Consensual
<1>3. TeamInv'
  <2>1. said' = <<>> /\ lost' = {} /\ Asked' = {}
    BY <1>1 DEF Consensus, Asked
  <2>2. Proposers' = {}
    BY <2>1 DEF Proposers
  <2>3. QED
    BY <2>1, <2>2 DEF TeamInv
<1>4. /\ \A round : Past(round) => Past(round)'
      /\ \A round : round = Now.round => Past(round)' /\ ~Past(round)
  BY <1>1 DEF Past
<1>5. CASE said = <<>>
  <2>1. log' = log /\ entries' = entries /\ decisions' = decisions
    BY <1>5 DEF Consensus
  <2>2. Kills' = Kills /\ VisibleToWolves' = VisibleToWolves /\ DecisionsInv' = DecisionsInv
    BY <1>1, <2>1, SameDecisions DEF Kills, VisibleToWolves
  <2>3. QED
    BY <1>2, <1>3, <1>4, <2>1, <2>2 DEF ConsensusInv, LogInv, EntriesInv
<1>6. CASE said # <<>>
  <2>1. /\ entries' = entries \cup {Entry} /\ log' = Append(log, Event(Now, Chosen))
        /\ decisions' = decisions \cup
             {[team |-> TRUE, typed |-> TRUE, consensus |-> Now.round, target |-> Chosen]}
    BY <1>6 DEF Consensus
  <2>2. /\ Chosen \in Players /\ Entry.target = Chosen /\ Entry.round = Now.round
        /\ MembersOnly(Entry) /\ OneActionEach(Entry) /\ Outsider(Entry)
        /\ AllCounted(Entry) /\ FitsStatus(Entry) /\ Entry.refs = PublicRefs
    BY <1>1, <1>6, EntryFits DEF ConsensusInv
  <2>3. /\ Event(Now, Chosen) \in EventSet /\ Event(Now, Chosen).type = "werewolf_kill"
        /\ Event(Now, Chosen).round = Now.round /\ Event(Now, Chosen).target = Chosen
    BY <1>1, <2>2 DEF Event, EventSet, Rounds, Visibility
  <2> DEFINE kill == [place |-> Len(log) + 1, round |-> Now.round, target |-> Chosen]
  <2>4. /\ log' \in Seq(EventSet) /\ VisibleToWolves \subseteq VisibleToWolves'
        /\ PublicRefs \subseteq VisibleToWolves /\ PublicRefs \subseteq 1..Len(log)
        /\ Kills' = Kills \cup {kill}
        /\ \A i \in DOMAIN log' : \/ i \in DOMAIN log /\ log'[i] = log[i]
                                  \/ i = Len(log) + 1 /\ log'[i] = Event(Now, Chosen)
    BY <2>1, <2>3, LogGrows DEF ConsensusInv, LogInv
  <2>5. LogInv'
    BY <1>4, <2>3, <2>4 DEF ConsensusInv, LogInv
  <2>6. \A k \in Kills : k.round # Now.round
    BY <1>4 DEF ConsensusInv, LogInv, Kills
  <2>7. \A c \in entries : c.round # Now.round
    BY <1>4 DEF ConsensusInv, EntriesInv
  <2>8. ValidEntry(Entry, Kills', VisibleToWolves')
    <3>1. \A k \in Kills' : k.round = Now.round => k.place = Len(log) + 1
      BY <2>4, <2>6
    <3>2. \A r \in PublicRefs : r \in VisibleToWolves' /\ r < Len(log) + 1
      BY <2>4 DEF ConsensusInv, LogInv
    <3>3. SeenBefore(Entry, Kills', VisibleToWolves')
      BY <2>2, <3>1, <3>2 DEF SeenBefore
    <3>4. kill \in Kills' /\ kill.round = Entry.round /\ kill.target = Entry.target
      BY <2>2, <2>4
    <3>5. QED
      BY <2>2, <3>3, <3>4 DEF ValidEntry
  <2>9. \A c \in entries : ValidEntry(c, Kills', VisibleToWolves')
    <3>1. \A c \in entries : ValidEntry(c, Kills, VisibleToWolves)
      BY DEF ConsensusInv, EntriesInv, ValidLog
    <3>2. \A k \in {kill} : k.round = Now.round
      OBVIOUS
    <3>3. QED
      BY <2>4, <2>7, <3>1, <3>2, StaysValid
  <2>10. CoversAllKills(entries', Kills')
    <3>1. CoversAllKills(entries, Kills)
      BY DEF ConsensusInv, EntriesInv, ValidLog
    <3>2. \A k \in Kills' : \E c \in entries' : c.round = k.round /\ c.target = k.target
      BY <2>1, <2>2, <2>4, <3>1 DEF CoversAllKills
    <3>3. \A c, d \in entries' : c.round = d.round => c = d
      BY <2>1, <2>2, <2>7, <3>1 DEF CoversAllKills
    <3>4. QED
      BY <3>2, <3>3 DEF CoversAllKills
  <2>11. DecisionsInv'
    <3> DEFINE d == [team |-> TRUE, typed |-> TRUE, consensus |-> Now.round, target |-> Chosen]
    <3>1. d.typed /\ (d.team => \E c \in entries' : c.round = d.consensus /\ c.target = d.target)
      BY <2>1, <2>2
    <3>2. decisions' = decisions \cup {d} /\ entries \subseteq entries'
      BY <2>1
    <3> HIDE DEF d
    <3>3. QED
      BY <1>1, <3>1, <3>2, MoreDecisions DEF ConsensusInv, EntriesInv
  <2>12. EntriesInv'
    <3>1. \A c \in entries' : Past(c.round)'
      BY <1>4, <2>1, <2>2 DEF ConsensusInv, EntriesInv
    <3>2. ValidLog(entries', Kills', VisibleToWolves')
      BY <2>1, <2>8, <2>9, <2>10 DEF ValidLog
    <3>3. QED
      BY <2>11, <3>1, <3>2 DEF EntriesInv
  <2>13. QED
    BY <1>2, <1>3, <2>5, <2>12 DEF ConsensusInv
<1>7. QED
  BY <1>5, <1>6

LEMMA SingleStep ==
  ASSUME ConsensusInv, Consensual, NEW reply, Single(reply) PROVE ConsensusInv'
<1>1. /\ at \in 1..18 /\ Now.type \notin {"werewolf_kill", "proposal"}
      /\ UNCHANGED <<game, alive, said, lost, entries>>
  BY PlaceIs DEF Single, night
<1>2. Consensual' /\ alive' \subseteq Players
  BY <1>1 DEF ConsensusInv, Consensual
<1>3. CASE reply \in alive
  <2>1. /\ log' = Append(log, Event(Now, "none")) /\ at' = at + 1
        /\ \E team \in (IF Live THEN BOOLEAN ELSE {FALSE}), typed \in BOOLEAN :
             Recorded(team, typed, "none")
    BY <1>3 DEF Single
  <2>2. PICK team \in (IF Live THEN BOOLEAN ELSE {FALSE}), typed \in BOOLEAN :
          Recorded(team, typed, "none")
    BY <2>1
  <2>3. DecisionsInv'
    <3> DEFINE d == [team |-> team, typed |-> typed, consensus |-> 0, target |-> "none"]
    <3>1. decisions' = decisions \cup {d} /\ (Live \/ (typed /\ ~team))
      BY <2>2 DEF Recorded
    <3>2. d.team = team /\ d.typed = typed /\ d.consensus = 0
      OBVIOUS
    <3> HIDE DEF d
    <3>3. \/ Live /\ d.consensus = 0 /\ (d.team \/ ~d.typed)
          \/ d.typed /\ ~d.team
      BY <3>1, <3>2
    <3>4. QED
      BY <1>1, <3>1, <3>3, MoreDecisions DEF ConsensusInv, EntriesInv
  <2>4. TeamInv' /\ LogInv' /\ EntriesInv' /\ at' \in 1..19
    BY <1>1, <2>1, <2>3, EventLogged
  <2>5. QED
    BY <1>2, <2>4 DEF ConsensusInv
<1>4. CASE reply \notin alive
  <2>1. log' = log /\ at' = at /\ decisions' = decisions
    BY <1>4 DEF Single, Raised
  <2>2. Kills' = Kills /\ VisibleToWolves' = VisibleToWolves /\ Proposers' = Proposers
        /\ Asked' = Asked /\ (\A round : Past(round)' = Past(round))
        /\ DecisionsInv' = DecisionsInv
    BY <1>1, <2>1, SameDecisions DEF Kills, VisibleToWolves, Proposers, Asked, Past
  <2>3. QED
    BY <1>1, <1>2, <2>1, <2>2 DEF ConsensusInv, TeamInv, LogInv, EntriesInv
<1>5. QED
  BY <1>3, <1>4

LEMMA ScriptedStep ==
  ASSUME ConsensusInv, Consensual, Scripted PROVE ConsensusInv'
<1>1. /\ at \in 1..18 /\ Now.type \notin {"werewolf_kill", "proposal"}
      /\ log' = Append(log, Event(Now, Now.who)) /\ at' = at + 1
      /\ UNCHANGED <<game, said, lost, entries, decisions>> /\ alive' \subseteq alive
  BY PlaceIs DEF Scripted, night
<1>2. Consensual' /\ alive' \subseteq Players /\ at' \in 1..19
  BY <1>1 DEF ConsensusInv, Consensual
<1>3. TeamInv' /\ LogInv' /\ EntriesInv'
  BY <1>1, ScriptIs, SameDecisions, EventLogged DEF ConsensusInv, EntriesInv
<1>4. QED
  BY <1>2, <1>3 DEF ConsensusInv

LEMMA ConsensusGoesOn == ConsensusInv /\ [Next]_vars => ConsensusInv'
<1> SUFFICES ASSUME ConsensusInv, [Next]_vars PROVE ConsensusInv' OBVIOUS
<1>1. CASE ~Consensual
  <2>1. game' = game
    BY DEF Next, Proposal, Single, TeamKill, Consensus, Scripted, WriteLogs, Classify, vars
  <2>2. QED
    BY <1>1, <2>1 DEF ConsensusInv, Consensual
<1>2. CASE Consensual /\ (UNCHANGED vars \/ WriteLogs \/ Classify)
  <2>1. UNCHANGED <<game, at, alive, log, said, lost, entries, decisions>>
    BY <1>2 DEF WriteLogs, Classify, vars, night
  <2>2. Kills' = Kills /\ VisibleToWolves' = VisibleToWolves /\ Proposers' = Proposers
        /\ Asked' = Asked /\ (\A round : Past(round)' = Past(round))
        /\ DecisionsInv' = DecisionsInv
    BY <2>1, SameDecisions DEF Kills, VisibleToWolves, Proposers, Asked, Past
  <2>3. QED
    BY <2>1, <2>2 DEF ConsensusInv, Consensual, TeamInv, LogInv, EntriesInv
<1>3. QED
  BY <1>1, <1>2, ProposalStep, SingleStep, ConsensusStep, ScriptedStep DEF Next, TeamKill

(* Whatever the wolves answer, and whoever fails to, the consensus log of  *)
(* a game is accepted by consensus_log.py, and so are by decision_log.py   *)
(* and the links of log_bundle.py all decisions but those a live seer,     *)
(* witch or voter worded unfit.                                            *)
THEOREM LogsAcceptedHolds == Spec => []LogsAccepted
<1>1. Init => ConsensusInv
  <2> SUFFICES ASSUME Init PROVE ConsensusInv OBVIOUS
  <2>1. /\ log = <<[round |-> 0, type |-> "role_assignment", target |-> "none"]>>
        /\ at = 1 /\ said = <<>> /\ lost = {} /\ entries = {} /\ decisions = {}
        /\ alive = Players
    BY DEF Init, Event, Step
  <2>2. log[1] \in EventSet /\ log \in Seq(EventSet) /\ DOMAIN log = {1}
        /\ log[1].type = "role_assignment"
    BY <2>1 DEF EventSet, Rounds, Visibility
  <2>3. Kills = {}
    BY <2>2 DEF Kills
  <2>4. Proposers = {} /\ Asked = {}
    BY <2>1 DEF Proposers, Asked
  <2>5. QED
    BY <2>1, <2>2, <2>3, <2>4
       DEF ConsensusInv, TeamInv, LogInv, EntriesInv, ValidLog, CoversAllKills, DecisionsInv,
           ValidDecisions, Typed, Linked
<1>2. ConsensusInv => LogsAccepted
  BY DEF ConsensusInv, EntriesInv, DecisionsInv, LogsAccepted
<1>3. QED
  BY <1>1, <1>2, ConsensusGoesOn, PTL DEF Spec

============================================================================
