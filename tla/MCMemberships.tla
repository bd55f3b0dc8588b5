---------------------------- MODULE MCMemberships ----------------------------
(***************************************************************************)
(* Small instances of Memberships.  Two requests in two companies with the *)
(* portal and the administration of members are too many states at once: a *)
(* behaviour has a scene, chosen at its start, that says how many.         *)
(***************************************************************************)
EXTENDS Memberships, FiniteSets, TLC

VARIABLE scene

\* Races in one company; answers one at a time in two; and races in two
\* companies that the administration of members leaves alone.
Scenes ==
  LET Scene(r, c, e, o) == [requests |-> r, companies |-> c, edits |-> e, offers |-> o]
  IN  {Scene(2, 1, 1, 1), Scene(1, 2, 1, 1), Scene(2, 2, 0, 0)}

MCInit == Init /\ scene \in Scenes

MCNext ==
  /\ Next
  /\ LET busy == {r \in Request : proc'[r] # Idle} IN
     /\ Cardinality(busy) <= scene.requests
     /\ Cardinality(company' \cup {proc'[r].co : r \in busy}) <= scene.companies
  /\ edits' <= scene.edits
  /\ Cardinality(offered') <= scene.offers
  /\ UNCHANGED scene

MCSpec == MCInit /\ [][MCNext]_<<vars, scene>>

InterchangeableIds ==
  Permutations(Request) \cup Permutations(Person) \cup Permutations(Company)
=============================================================================
