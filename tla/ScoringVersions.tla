--------------------------- MODULE ScoringVersions ---------------------------
(***************************************************************************)
(* The scoring configurations of a company: one version after another for  *)
(* each type of person, of which one is in force, and the catalogue of the *)
(* dimensions they weigh.  A save reads the catalogue, then supersedes the *)
(* version in force and inserts its own in one transaction.                *)
(*                                                                         *)
(* The transaction is PostgreSQL's READ COMMITTED: the update sees the     *)
(* rows committed when it starts, waits for those another transaction is   *)
(* writing and looks at them again; a row inserted meanwhile stays unseen. *)
(* The newest version is the one inserted last: findActive orders by       *)
(* createdAt, which is taken to follow the order of the inserts.           *)
(* Left out: the weights, which Scoring has, and the company: a save of    *)
(* another one touches other rows.                                         *)
(***************************************************************************)
EXTENDS Integers

CONSTANTS
  PersonType,
  Dimension,
  Required,   \* dimensions every version must weigh
  Default,    \* dimensions the defaults weigh, by type of person
  Saver,      \* requests that save a version
  MaxVersions \* bound: rows of scoring_configurations

ASSUME VersionsAssumption ==
  /\ Required \subseteq Dimension /\ MaxVersions \in Nat
  /\ Default \in [PersonType -> SUBSET Dimension]
  /\ \A t \in PersonType : Required \subseteq Default[t]

VARIABLES
  version,   \* scoring_configurations, in the order they were inserted
  versions,  \* how many there are
  catalog,   \* dimensions of the catalogue that are active
  saving     \* locals of each request

versionVars == <<version, versions, catalog, saving>>

-----------------------------------------------------------------------------
VersionId == 1..MaxVersions
Version == [type : PersonType, weighed : SUBSET Dimension, active : BOOLEAN]
NoVersion == [active |-> FALSE]
NotSaving == [pc |-> "idle"]
Saving == [pc : {"look", "wait", "insert"}, type : PersonType, weighed : SUBSET Dimension,
           seen : SUBSET VersionId]

VersionsTypeOK ==
  /\ versions \in 0..MaxVersions
  /\ version \in [VersionId -> Version \cup {NoVersion}]
  /\ \A v \in VersionId : version[v] # NoVersion <=> v <= versions
  /\ catalog \subseteq Dimension
  /\ saving \in [Saver -> Saving \cup {NotSaving}]

\* A company may be older than the versions.
VersionsInit ==
  /\ versions = 0
  /\ version = [v \in VersionId |-> NoVersion]
  /\ catalog = Dimension
  /\ saving = [s \in Saver |-> NotSaving]

SaverAt(s, pc) == saving[s].pc = pc
StopSaving(s) == saving' = [saving EXCEPT ![s] = NotSaving]
InForce(t) == {v \in 1..versions : version[v].active /\ version[v].type = t}
\* getActive: the newest version in force, or the defaults.
ActiveWeights(t) ==
  IF InForce(t) = {} THEN Default[t]
  ELSE version[CHOOSE v \in InForce(t) : \A w \in InForce(t) : w <= v].weighed

-----------------------------------------------------------------------------
\* createVersion: the dimensions weighed are active in the catalogue and the
\* required ones are among them.
BeginSave(s, t, weighed) ==
  /\ SaverAt(s, "idle")
  /\ Required \subseteq weighed /\ weighed \subseteq catalog
  /\ saving' = [saving EXCEPT ![s] = [pc |-> "look", type |-> t, weighed |-> weighed, seen |-> {}]]
  /\ UNCHANGED <<version, versions, catalog>>

\* resetToDefaults: a version like another, unless the catalogue lacks a
\* dimension of the defaults.
BeginReset(s, t) == BeginSave(s, t, Default[t])

\* The update starts.
Look(s) ==
  /\ SaverAt(s, "look")
  /\ saving' = [saving EXCEPT ![s] = [saving[s] EXCEPT !.pc = "wait",
                                                       !.seen = InForce(saving[s].type)]]
  /\ UNCHANGED <<version, versions, catalog>>

\* It has the rows it saw, once nobody else has; those still active it holds.
Hold(s) ==
  /\ SaverAt(s, "wait")
  /\ \A q \in Saver : SaverAt(q, "insert") => saving[q].seen \cap saving[s].seen = {}
  /\ saving' = [saving EXCEPT ![s] =
                  [saving[s] EXCEPT !.pc = "insert",
                                    !.seen = {v \in saving[s].seen : version[v].active}]]
  /\ UNCHANGED <<version, versions, catalog>>

Superseded(held, v) == IF v \in held THEN [version[v] EXCEPT !.active = FALSE] ELSE version[v]

\* Mutant: the update comes after the insertion, and finds the new row.
CommitThenSupersede(s) ==
  LET l == saving[s] IN
  /\ SaverAt(s, "insert") /\ versions < MaxVersions
  /\ versions' = versions + 1
  /\ version' = [v \in VersionId |->
                   IF v = versions + 1
                   THEN [type |-> l.type, weighed |-> l.weighed, active |-> FALSE]
                   ELSE Superseded(l.seen, v)]
  /\ StopSaving(s)
  /\ UNCHANGED catalog

\* The new version is inserted, and the transaction ends.
Commit(s) ==
  LET l == saving[s] IN
  /\ SaverAt(s, "insert") /\ versions < MaxVersions
  /\ versions' = versions + 1
  /\ version' = [v \in VersionId |->
                   IF v = versions + 1
                   THEN [type |-> l.type, weighed |-> l.weighed, active |-> TRUE]
                   ELSE Superseded(l.seen, v)]
  /\ StopSaving(s)
  /\ UNCHANGED catalog

\* The transaction fails, or the server stops.
AbortSave(s) ==
  /\ ~SaverAt(s, "idle")
  /\ StopSaving(s)
  /\ UNCHANGED <<version, versions, catalog>>

\* updateDimension: a required dimension stays active.
EditDimension(d) ==
  /\ catalog' = IF d \in catalog \ Required THEN catalog \ {d} ELSE catalog \cup {d}
  /\ UNCHANGED <<version, versions, saving>>

VersionsNext ==
  \/ \E s \in Saver, t \in PersonType, weighed \in SUBSET Dimension : BeginSave(s, t, weighed)
  \/ \E s \in Saver, t \in PersonType : BeginReset(s, t)
  \/ \E s \in Saver : Look(s) \/ Hold(s) \/ Commit(s) \/ AbortSave(s)
  \/ \E d \in Dimension : EditDimension(d)

-----------------------------------------------------------------------------
\* The version last saved for a type of person is in force, so that findActive,
\* which takes the newest active one, takes what the company saved last and
\* never falls back to the defaults: two saves at once may leave two versions
\* active, but neither supersedes the later one.
NewestInForce ==
  \A v \in 1..versions :
    (\A w \in 1..versions : w > v => version[w].type # version[v].type) => version[v].active
=============================================================================
