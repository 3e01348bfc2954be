-------------------------- MODULE MCProfileLaunch --------------------------
(* Two seats and two providers for model checking ProfileLaunch.           *)
EXTENDS ProfileLaunch, TLC

CONSTANTS w, v, a, c, fake    \* two seats, two providers, the fake provider

SeatsOfTwo == {w, v}
RolesOfTwo == w :> "werewolf" @@ v :> "villager"

Profile(ps, human, shuffle, longRoles, longSeats) ==
  [defaults |-> "werewolf" :> ps[1] @@ "villager" :> ps[2], human |-> human,
   shuffle |-> shuffle, longRoles |-> longRoles, longSeats |-> longSeats]

(* Mixed providers, a person, a shuffle that may join two long texts, a    *)
(* fake provider and two people.                                           *)
Mixed   == Profile(<<a, c>>, {}, TRUE, {}, {})
Person  == Profile(<<a, c>>, {v}, FALSE, {}, {})
Long    == Profile(<<a, a>>, {}, TRUE, {"werewolf"}, {v})
Fake    == Profile(<<fake, fake>>, {}, FALSE, {}, {})
People  == Profile(<<a, c>>, {w, v}, FALSE, {}, {})

Launch(kind, mode, p, r) == [kind |-> kind, mode |-> mode, profile |-> p, run |-> r]

Asked(r) ==
  {Launch("inline", m, p, r) : m \in {"live", "fake"}, p \in {Mixed, Person, Fake}}
  \cup {Launch("named", "live", Long, r), Launch("missing", "live", Mixed, r),
        Launch("inline", "fake", People, r), Launch("template", "fake", Fake, r)}

AskedAll == UNION {Asked(r) : r \in Runs}

(* Neither requests nor run ids are told apart.                            *)
Symmetry == Permutations(Launches) \cup Permutations(Runs)
===========================================================================
