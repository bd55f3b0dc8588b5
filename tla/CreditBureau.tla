---------------------------- MODULE CreditBureau ----------------------------
(***************************************************************************)
(* A credit study is born of a consultation of its customer in the credit  *)
(* bureau: createFromBureau passes the gate of the authorization, consults *)
(* (reusing the last consultation while it is fresh), stores the customer  *)
(* and takes one credit of a pack.  Each consultation of the bureau is     *)
(* paid for.                                                               *)
(*                                                                         *)
(* Time counts the parts of months: 2m is the month m up to its 10th, when *)
(* the bureau publishes, and 2m + 1 the rest of it.                        *)
(*                                                                         *)
(* Left out: what the bureau says of the customer (the mappers are in      *)
(* ExperianMapper), and the translations of codes, whose failure stops a   *)
(* consultation before it writes.                                          *)
(***************************************************************************)
EXTENDS CustomerAuthorizations, Sequences

CONSTANTS
  Email,     \* addresses a request may carry
  NoEmail,   \* null
  MaxTime,   \* bound: parts of months that pass
  MaxQuery,  \* bound: consultations charged
  Credits    \* credits in the packs of the company

VARIABLES
  now,
  customer,  \* the row of customers of this identity
  stored,    \* dates of its credit_bureau_consultations
  studies,   \* credit studies created
  credits,   \* credits left
  queries,   \* external: dates of the consultations the bureau charged
  job        \* locals of each createFromBureau

bureauVars == <<now, customer, stored, studies, credits, queries, job>>
vars == <<authVars, bureauVars>>

\* The requests in progress are finitely many.
ASSUME BureauAssumption ==
  /\ {MaxTime, MaxQuery, Credits} \subseteq Nat
  /\ IsFiniteSet(Request)
  /\ NoEmail \notin Email

Time == 0..MaxTime
\* No date.
Never == -1

Customer == [present : BOOLEAN, email : Email \cup {NoEmail}]
NoCustomer == [present |-> FALSE, email |-> NoEmail]

\* used: the date of the consultation a study is created from.  seen: the
\* address the customer had when the transaction read it.
JobPC == {"idle", "gate", "ensure", "cache", "backfill", "query", "read", "write", "link", "study"}
Job == [pc : JobPC, email : Email \cup {NoEmail}, seen : Email \cup {NoEmail},
        used : Time \cup {Never}, cached : BOOLEAN]
NoJob == [pc |-> "idle", email |-> NoEmail, seen |-> NoEmail, used |-> Never, cached |-> FALSE]

TypeOK ==
  /\ AuthType
  /\ now \in Time
  /\ customer \in Customer
  /\ stored \subseteq Time
  /\ studies \in 0..Credits /\ credits = Credits - studies
  /\ queries \in Seq(Time)
  /\ job \in [Request -> Job]

\* A customer stored before addresses were kept has none.
Init ==
  /\ AuthInit
  /\ now = 0
  /\ \/ customer = NoCustomer /\ stored = {}
     \/ customer = [present |-> TRUE, email |-> NoEmail] /\ stored = {0}
  /\ studies = 0
  /\ credits = Credits
  /\ queries = <<>>
  /\ job = [r \in Request |-> NoJob]

JobAt(r, pc) == job[r].pc = pc
JobGoto(r, pc) == job' = [job EXCEPT ![r] = [job[r] EXCEPT !.pc = pc]]
JobEnds(r) == job' = [job EXCEPT ![r] = NoJob]

-----------------------------------------------------------------------------
\* getConsultationExpiry: the 10th of the month after.
Expiry(date) == 2 * ((date \div 2) + 1)

\* Mutant: a consultation lasts a month.
FreshForAMonth(date) == now <= date + 1

\* isConsultationFresh.
Fresh(date) == now <= Expiry(date)

Latest(dates) == CHOOSE d \in dates : \A e \in dates : e <= d

-----------------------------------------------------------------------------
(***************************************************************************)
(* createFromBureau.                                                       *)
(***************************************************************************)
BeginStudy(r, email) ==
  /\ At(r, "idle") /\ JobAt(r, "idle")
  /\ job' = [job EXCEPT ![r] = [NoJob EXCEPT !.pc = "gate", !.email = email]]
  /\ UNCHANGED <<authVars, now, customer, stored, studies, credits, queries>>

\* resolveForConsult: without a signature the document is sent, if it is not
\* waiting, and the study is not created.
PassGate(r) ==
  /\ JobAt(r, "gate")
  /\ IF Authorized THEN JobGoto(r, "ensure") /\ UNCHANGED authVars
     ELSE /\ JobEnds(r)
          /\ IF AwaitingSignature THEN UNCHANGED authVars ELSE BeginRequest(r)
  /\ UNCHANGED <<now, customer, stored, studies, credits, queries>>

\* ensureCanConsult.
EnsureCanConsult(r) ==
  /\ JobAt(r, "ensure")
  /\ IF Authorized THEN JobGoto(r, "cache") ELSE JobEnds(r)
  /\ UNCHANGED <<authVars, now, customer, stored, studies, credits, queries>>

\* tryReuseCachedConsultation.
ReadCache(r) ==
  /\ JobAt(r, "cache")
  /\ IF customer.present /\ stored # {} /\ Fresh(Latest(stored))
     THEN job' = [job EXCEPT ![r] = [job[r] EXCEPT
                    !.pc = "link", !.used = Latest(stored), !.cached = TRUE, !.seen = customer.email]]
     ELSE JobGoto(r, "query")
  /\ UNCHANGED <<authVars, now, customer, stored, studies, credits, queries>>

\* provider.consult: it has information on the customer, or the request ends.
QueryBureau(r) ==
  /\ JobAt(r, "query")
  /\ \/ /\ Len(queries) < MaxQuery
        /\ queries' = Append(queries, now)
        /\ job' = [job EXCEPT ![r] = [job[r] EXCEPT !.pc = "read", !.used = now]]
     \/ JobEnds(r) /\ UNCHANGED queries
  /\ UNCHANGED <<authVars, now, customer, stored, studies, credits>>

-----------------------------------------------------------------------------
(***************************************************************************)
(* persistConsultation: one transaction, committed as a whole, that reads  *)
(* the address of the customer before it writes.                           *)
(***************************************************************************)
ReadCustomer(r) ==
  /\ JobAt(r, "read")
  /\ job' = [job EXCEPT ![r] = [job[r] EXCEPT !.pc = "write", !.seen = customer.email]]
  /\ UNCHANGED <<authVars, now, customer, stored, studies, credits, queries>>

\* Mutant: the snapshot is stored for a new customer only.
WriteNewCustomer(r) ==
  /\ JobAt(r, "write")
  /\ customer' = [present |-> TRUE,
                  email |-> IF job[r].seen = NoEmail THEN job[r].email ELSE customer.email]
  /\ stored' = IF customer.present THEN stored ELSE {job[r].used}
  /\ JobGoto(r, "link")
  /\ UNCHANGED <<authVars, now, studies, credits, queries>>

\* upsertCustomer: an address is only written when none was read.
WriteConsultation(r) ==
  /\ JobAt(r, "write")
  /\ customer' = [present |-> TRUE,
                  email |-> IF job[r].seen = NoEmail THEN job[r].email ELSE customer.email]
  /\ stored' = stored \cup {job[r].used}
  /\ JobGoto(r, "link")
  /\ UNCHANGED <<authVars, now, studies, credits, queries>>

\* linkConsultedCustomer: its failure is only logged.
Link(r) ==
  /\ JobAt(r, "link")
  /\ LinkCustomer \/ UNCHANGED auth
  /\ JobGoto(r, IF job[r].cached /\ job[r].seen = NoEmail THEN "backfill" ELSE "study")
  /\ UNCHANGED <<proc, faults, zapsignVars, now, customer, stored, studies, credits, queries>>

\* setCustomerEmailIfMissing.
BackfillEmail(r) ==
  /\ JobAt(r, "backfill")
  /\ customer' = IF customer.email = NoEmail THEN [customer EXCEPT !.email = job[r].email]
                 ELSE customer
  /\ JobGoto(r, "study")
  /\ UNCHANGED <<authVars, now, stored, studies, credits, queries>>

\* consumeCreditForStudy: the study and its credit in one transaction.
CreateStudy(r) ==
  /\ JobAt(r, "study")
  /\ IF credits > 0 THEN studies' = studies + 1 /\ credits' = credits - 1
     ELSE UNCHANGED <<studies, credits>>
  /\ JobEnds(r)
  /\ UNCHANGED <<authVars, now, customer, stored, queries>>

Consult(r) ==
  \/ PassGate(r) \/ EnsureCanConsult(r) \/ ReadCache(r) \/ QueryBureau(r)
  \/ ReadCustomer(r) \/ WriteConsultation(r) \/ Link(r) \/ BackfillEmail(r) \/ CreateStudy(r)

JobDies(r) ==
  /\ ~JobAt(r, "idle")
  /\ Fail
  /\ JobEnds(r)
  /\ UNCHANGED <<auth, proc, zapsignVars, now, customer, stored, studies, credits, queries>>

Tick ==
  /\ now < MaxTime
  /\ now' = now + 1
  /\ UNCHANGED <<authVars, customer, stored, studies, credits, queries, job>>

-----------------------------------------------------------------------------
\* A request of createFromBureau that does not pass the gate goes on as a
\* request of the authorization; a company may also ask for it alone.
Authorizing ==
  /\ \/ \E r \in Request : RequestStep(r) \/ (JobAt(r, "idle") /\ BeginRequest(r))
     \/ \E h \in Hook : Handle(h)
     \/ \E p \in Process : Die(p)
     \/ \E d \in Doc : HolderActs(d)
  /\ UNCHANGED bureauVars

Next ==
  \/ Authorizing
  \/ \E r \in Request : Consult(r) \/ JobDies(r)
  \/ \E r \in Request, email \in Email : BeginStudy(r, email)
  \/ Tick

Spec == Init /\ [][Next]_vars

-----------------------------------------------------------------------------
\* The bureau is never asked about a holder who has signed no authorization
\* for this company.
ConsultedWithConsent == queries # <<>> => \E d \in Doc : doc[d].client = "signed"

\* The consultations charged while that of date d is fresh.
InWindow(d) == {i \in DOMAIN queries : queries[i] >= d /\ queries[i] <= Expiry(d)}

\* A customer is paid for again while a consultation is fresh only by requests
\* that overlapped, or whose own consultation was lost before it was stored:
\* not more than one consultation for each request that can overlap, and one
\* for each failure.
PaidOncePerWindow ==
  \A d \in stored : Cardinality(InWindow(d)) <= Cardinality(Request) + faults

\* What the bureau charged is stored, or is about to be by the request that
\* asked, but for the requests that died.
PaidIsStored ==
  Cardinality({i \in DOMAIN queries :
                 /\ queries[i] \notin stored
                 /\ \A r \in Request : JobAt(r, "read") \/ JobAt(r, "write") => job[r].used # queries[i]})
    <= faults
=============================================================================
