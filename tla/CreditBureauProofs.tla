------------------------- MODULE CreditBureauProofs -------------------------
(***************************************************************************)
(* Consent comes first, for any number of requests, deliveries, documents  *)
(* and failures: what lies between a signature at Zapsign and a            *)
(* consultation of the bureau is a chain of reads, each of which a process *)
(* may remember after the row has changed, so the invariant says what      *)
(* every process that has passed a check may still count on.               *)
(***************************************************************************)
EXTENDS CreditBureau, FiniteSetTheorems, WellFoundedInduction, TLAPS

\* Some document of this holder and company is signed, and stays so.
Consent == \E d \in Doc : doc[d].client = "signed"

\* A delivery works on a document; once it marks one, it has seen it signed.
DeliveriesKnow ==
  \A h \in Process :
    /\ proc[h].pc \in {"state", "mark", "check", "refuse"} => proc[h].doc \in Doc
    /\ proc[h].pc = "mark" => Consent

\* The row is signed after the document.
SignatureIsReal == auth.signedAt => Consent

AuthInv == AuthType /\ DeliveriesKnow /\ SignatureIsReal

\* Whoever has passed the second check passed it on a signed row.
PastTheGate == JobPC \ {"idle", "gate", "ensure"}
GateHolds == \A r \in Request : job[r].pc \in PastTheGate => Consent
\* What is about to be stored has a date.
HasADate == \A r \in Request : job[r].pc \in {"read", "write"} => job[r].used \in Time

IInv == TypeOK /\ AuthInv /\ GateHolds /\ HasADate /\ ConsultedWithConsent

-----------------------------------------------------------------------------
(***************************************************************************)
(* The latest of a set of dates is one of them.                            *)
(***************************************************************************)
LEMMA NatIsWellFounded == IsWellFoundedOn({ss \in Nat \X Nat : ss[1] < ss[2]}, Nat)
  BY NatLessThanWellFounded DEF OpToRel

LEMMA LatestIsADate ==
  ASSUME NEW dates \in SUBSET Time, dates # {}
  PROVE  Latest(dates) \in dates /\ \A e \in dates : e <= Latest(dates)
  <1> DEFINE less == {ss \in Nat \X Nat : ss[1] < ss[2]}
             left == {MaxTime - d : d \in dates}
  <1>1. left \subseteq Nat
    <2>1. \A d \in dates : MaxTime - d \in Nat
      BY BureauAssumption DEF BureauAssumption, Time
    <2> QED  BY <2>1
  <1>2. left # {}
    OBVIOUS
  <1>3. PICK m \in left : \A y \in left : <<y, m>> \notin less
    <2> HIDE DEF left
    <2> QED  BY <1>1, <1>2, NatIsWellFounded, WFMin
  <1>4. \A y \in left : m <= y
    <2> HIDE DEF left
    <2>1. ASSUME NEW y \in left, y < m PROVE FALSE
      BY <1>1, <1>3, <2>1
    <2> QED  BY <1>1, <2>1
  <1>5. PICK d \in dates : m = MaxTime - d
    OBVIOUS
  <1>6. \A e \in dates : MaxTime - e \in left
    OBVIOUS
  <1>7. \A e \in dates : e <= d
    <2> HIDE DEF left
    <2> QED  BY <1>4, <1>5, <1>6, BureauAssumption DEF BureauAssumption, Time
  <1> QED  BY <1>7 DEF Latest

-----------------------------------------------------------------------------
(***************************************************************************)
(* The authorization.                                                      *)
(***************************************************************************)
\* A process has the fields of one.
LEMMA HasLocals ==
  ASSUME AuthType, NEW p \in Process
  PROVE  proc[p] \in AuthLocal /\ proc[p].doc \in Doc \cup {0} /\ proc[p].again \in BOOLEAN
  BY DEF AuthType, AuthLocal

\* A process changes its own locals; who marks a document has seen it signed.
LEMMA GoesOn ==
  ASSUME AuthInv, NEW p \in Process, NEW l \in AuthLocal, proc' = [proc EXCEPT ![p] = l],
         l.pc \in {"state", "mark", "check", "refuse"} => l.doc \in Doc,
         l.pc = "mark" => Consent', Consent => Consent'
  PROVE  proc' \in [Process -> AuthLocal] /\ DeliveriesKnow'
  <1>1. proc'[p] = l /\ \A q \in Process \ {p} : proc'[q] = proc[q]
    BY DEF AuthInv, AuthType
  <1>2. proc' \in [Process -> AuthLocal]
    BY DEF AuthInv, AuthType
  <1>3. DeliveriesKnow'
    BY <1>1 DEF AuthInv, DeliveriesKnow
  <1> QED  BY <1>2, <1>3

LEMMA IdleIsLocal == AuthIdle \in AuthLocal /\ AuthIdle.pc = "idle"
  BY DEF AuthIdle, AuthLocal, AuthPC

LEMMA Finishes ==
  ASSUME AuthInv, NEW p \in Process, Finish(p), Consent => Consent'
  PROVE  proc' \in [Process -> AuthLocal] /\ DeliveriesKnow'
  BY IdleIsLocal, GoesOn DEF Finish

LEMMA ChangesPC ==
  ASSUME AuthInv, NEW p \in Process, NEW pc \in AuthPC, Goto(p, pc),
         pc \in {"state", "mark", "check", "refuse"} => proc[p].doc \in Doc,
         pc = "mark" => Consent', Consent => Consent'
  PROVE  proc' \in [Process -> AuthLocal] /\ DeliveriesKnow'
  <1>1. PICK l \in AuthLocal : proc' = [proc EXCEPT ![p] = l] /\ l.pc = pc /\ l.doc = proc[p].doc
    <2>1. /\ [proc[p] EXCEPT !.pc = pc] \in AuthLocal
          /\ [proc[p] EXCEPT !.pc = pc].pc = pc
          /\ [proc[p] EXCEPT !.pc = pc].doc = proc[p].doc
      BY HasLocals DEF AuthInv, AuthLocal
    <2> QED  BY <2>1 DEF Goto
  <1> QED  BY <1>1, GoesOn

LEMMA BeginRequestPreserves ==
  ASSUME AuthInv, NEW r \in Request, BeginRequest(r)
  PROVE  AuthInv' /\ (Consent => Consent')
  <1>1. Goto(r, "request") /\ UNCHANGED <<auth, faults, zapsignVars>> /\ (Consent => Consent')
    BY DEF BeginRequest, Consent, zapsignVars
  <1>2. proc' \in [Process -> AuthLocal] /\ DeliveriesKnow'
    BY <1>1, ChangesPC DEF AuthPC, Process
  <1> QED  BY <1>1, <1>2 DEF AuthInv, AuthType, ZapsignType, zapsignVars, SignatureIsReal

LEMMA ReadIdentityPreserves ==
  ASSUME AuthInv, NEW r \in Request, ReadIdentity(r)
  PROVE  AuthInv' /\ (Consent => Consent')
  <1>1. UNCHANGED <<auth, faults, zapsignVars>> /\ (Consent => Consent') /\ r \in Process
    BY DEF ReadIdentity, Consent, zapsignVars, Process
  <1>2. PICK l \in AuthLocal : proc' = [proc EXCEPT ![r] = l] /\ l.pc \in {"idle", "create"}
    <2> DEFINE l == [AuthIdle EXCEPT !.pc = "create", !.again = auth.doc # 0]
    <2>1. l \in AuthLocal /\ l.pc = "create"
      BY DEF AuthIdle, AuthLocal, AuthPC
    <2> QED  BY <2>1, IdleIsLocal DEF ReadIdentity, Finish
  <1>3. proc' \in [Process -> AuthLocal] /\ DeliveriesKnow'
    BY <1>1, <1>2, GoesOn
  <1> QED  BY <1>1, <1>3 DEF AuthInv, AuthType, ZapsignType, zapsignVars, SignatureIsReal

\* A new document leaves the others as they are.
LEMMA CreateDocKeeps ==
  ASSUME AuthInv, NEW d \in Doc, CreateDoc(d)
  PROVE  doc' \in [Doc -> Document] /\ (Consent => Consent')
  <1> DEFINE new == [NoDocument EXCEPT !.client = "pending"]
  <1>1. new \in Document
    BY DEF Document, NoDocument, Answer
  <1>2. doc' = [doc EXCEPT ![d] = new] /\ doc[d].client = "absent"
    BY DEF CreateDoc
  <1> HIDE DEF new
  <1>3. doc' \in [Doc -> Document] /\ \A e \in Doc \ {d} : doc'[e] = doc[e]
    BY <1>1, <1>2 DEF AuthInv, AuthType, ZapsignType
  <1>4. Consent => Consent'
    BY <1>2, <1>3 DEF Consent
  <1> QED  BY <1>3, <1>4

LEMMA CreateDocumentPreserves ==
  ASSUME AuthInv, NEW r \in Request, NEW d \in Doc, CreateDocument(r, d)
  PROVE  AuthInv' /\ (Consent => Consent')
  <1>1. doc' \in [Doc -> Document] /\ (Consent => Consent') /\ r \in Process
        /\ UNCHANGED <<auth, faults, due>>
    BY CreateDocKeeps DEF CreateDocument, Process
  <1>2. PICK l \in AuthLocal : proc' = [proc EXCEPT ![r] = l] /\ l.pc = "save"
    <2> DEFINE l == [proc[r] EXCEPT !.pc = "save", !.doc = d]
    <2>1. l \in AuthLocal /\ l.pc = "save"
      BY <1>1, HasLocals DEF AuthInv, AuthLocal, AuthPC
    <2> QED  BY <2>1 DEF CreateDocument
  <1>3. proc' \in [Process -> AuthLocal] /\ DeliveriesKnow'
    BY <1>1, <1>2, GoesOn
  <1> QED  BY <1>1, <1>3 DEF AuthInv, AuthType, ZapsignType, SignatureIsReal

LEMMA SaveRequestPreserves ==
  ASSUME AuthInv, NEW r \in Request, SaveRequest(r)
  PROVE  AuthInv' /\ (Consent => Consent')
  <1>1. /\ auth' = IF proc[r].again \/ auth.doc = 0 THEN Sent(r) ELSE auth
        /\ Finish(r) /\ UNCHANGED <<faults, zapsignVars>> /\ (Consent => Consent') /\ r \in Process
    BY DEF SaveRequest, Consent, zapsignVars, Process
  <1>2. proc' \in [Process -> AuthLocal] /\ DeliveriesKnow'
    BY <1>1, Finishes
  <1>3. Sent(r) \in AuthRow /\ ~Sent(r).signedAt
    <2>1. proc[r].doc \in Doc \cup {0} /\ auth.customer \in BOOLEAN
      BY <1>1, HasLocals DEF AuthInv, AuthType, AuthRow
    <2> QED  BY <2>1 DEF Sent, NoAuth, AuthRow
  <1>4. auth' \in AuthRow /\ SignatureIsReal'
    BY <1>1, <1>3 DEF AuthInv, AuthType, SignatureIsReal
  <1> QED  BY <1>1, <1>2, <1>4 DEF AuthInv, AuthType, ZapsignType, zapsignVars

\* An answered delivery is one event less.
LEMMA AnsweredPreserves ==
  ASSUME AuthInv, NEW h \in Hook, NEW kind, Answered(h, kind), faults' = faults, doc' = doc,
         auth' \in AuthRow, auth'.signedAt => Consent
  PROVE  AuthInv' /\ (Consent => Consent')
  <1>1. Finish(h) /\ due' \subseteq due /\ (Consent => Consent') /\ h \in Process
    BY DEF Answered, Consent, Process
  <1>2. proc' \in [Process -> AuthLocal] /\ DeliveriesKnow'
    BY <1>1, Finishes
  <1> QED  BY <1>1, <1>2 DEF AuthInv, AuthType, ZapsignType, SignatureIsReal

LEMMA IgnoreEventPreserves ==
  ASSUME AuthInv, NEW h \in Hook, NEW e \in due, IgnoreEvent(h, e)
  PROVE  AuthInv' /\ (Consent => Consent')
  BY DEF IgnoreEvent, AuthInv, AuthType, ZapsignType, SignatureIsReal, DeliveriesKnow, Consent

LEMMA StartEventPreserves ==
  ASSUME AuthInv, NEW h \in Hook, NEW e \in due, StartEvent(h, e)
  PROVE  AuthInv' /\ (Consent => Consent')
  <1>1. UNCHANGED <<auth, faults, zapsignVars>> /\ (Consent => Consent') /\ h \in Process
        /\ e.doc \in Doc
    BY DEF StartEvent, Consent, zapsignVars, Process, AuthInv, AuthType, ZapsignType, Event
  <1>2. PICK l \in AuthLocal :
          proc' = [proc EXCEPT ![h] = l] /\ l.pc \in {"state", "check"} /\ l.doc = e.doc
    <2> DEFINE pc == IF e.kind = "signed" THEN "state" ELSE "check"
               l == [AuthIdle EXCEPT !.pc = pc, !.doc = e.doc]
    <2>1. pc \in {"state", "check"} /\ proc' = [proc EXCEPT ![h] = l]
      BY DEF StartEvent
    <2> HIDE DEF pc
    <2>2. l \in AuthLocal /\ l.pc = pc /\ l.doc = e.doc
      BY <1>1, <2>1 DEF AuthIdle, AuthLocal, AuthPC
    <2> HIDE DEF l
    <2> QED  BY <2>1, <2>2
  <1>3. proc' \in [Process -> AuthLocal] /\ DeliveriesKnow'
    BY <1>1, <1>2, GoesOn
  <1> QED  BY <1>1, <1>3 DEF AuthInv, AuthType, ZapsignType, zapsignVars, SignatureIsReal

\* The state of the document is read, not taken from the event.
LEMMA ReadStatePreserves ==
  ASSUME AuthInv, NEW h \in Hook, ReadState(h)
  PROVE  AuthInv' /\ (Consent => Consent')
  <1>1. UNCHANGED <<auth, faults, doc>> /\ (Consent => Consent') /\ h \in Process
        /\ proc[h].doc \in Doc
    BY DEF ReadState, At, Consent, Process, AuthInv, DeliveriesKnow
  <1>2. CASE DocStatus(proc[h].doc) = "signed"
    <2>1. Goto(h, "mark") /\ due' = due
      BY <1>2 DEF ReadState
    <2>2. Consent
      BY <1>1, <1>2 DEF DocStatus, Consent
    <2>3. proc' \in [Process -> AuthLocal] /\ DeliveriesKnow'
      BY <1>1, <2>1, <2>2, ChangesPC DEF AuthPC
    <2> QED  BY <1>1, <2>1, <2>3 DEF AuthInv, AuthType, ZapsignType, SignatureIsReal
  <1>3. CASE DocStatus(proc[h].doc) # "signed"
    <2>1. Answered(h, "signed") /\ auth' \in AuthRow /\ (auth'.signedAt => Consent)
      BY <1>1, <1>3 DEF ReadState, AuthInv, AuthType, SignatureIsReal
    <2> QED  BY <1>1, <2>1, AnsweredPreserves
  <1> QED  BY <1>2, <1>3

LEMMA MarkSignedPreserves ==
  ASSUME AuthInv, NEW h \in Hook, MarkSigned(h)
  PROVE  AuthInv' /\ (Consent => Consent')
  <1>1. Consent
    BY DEF MarkSigned, At, AuthInv, DeliveriesKnow, Process
  <1>2. auth' \in AuthRow
    BY DEF MarkSigned, AuthInv, AuthType, AuthRow
  <1> QED  BY <1>1, <1>2, AnsweredPreserves DEF MarkSigned

LEMMA CheckRefusalPreserves ==
  ASSUME AuthInv, NEW h \in Hook, CheckRefusal(h)
  PROVE  AuthInv' /\ (Consent => Consent')
  <1>1. UNCHANGED <<auth, faults, doc>> /\ (Consent => Consent') /\ h \in Process
        /\ proc[h].doc \in Doc
    BY DEF CheckRefusal, At, Consent, Process, AuthInv, DeliveriesKnow
  <1>2. CASE DocStatus(proc[h].doc) = "signed"
    <2>1. Answered(h, "refused") /\ auth' \in AuthRow /\ (auth'.signedAt => Consent)
      BY <1>1, <1>2 DEF CheckRefusal, AuthInv, AuthType, SignatureIsReal
    <2> QED  BY <1>1, <2>1, AnsweredPreserves
  <1>3. CASE DocStatus(proc[h].doc) # "signed"
    <2>1. Goto(h, "refuse") /\ due' = due
      BY <1>3 DEF CheckRefusal
    <2>2. proc' \in [Process -> AuthLocal] /\ DeliveriesKnow'
      BY <1>1, <2>1, ChangesPC DEF AuthPC
    <2> QED  BY <1>1, <2>1, <2>2 DEF AuthInv, AuthType, ZapsignType, SignatureIsReal
  <1> QED  BY <1>2, <1>3

LEMMA MarkRefusedPreserves ==
  ASSUME AuthInv, NEW h \in Hook, MarkRefused(h)
  PROVE  AuthInv' /\ (Consent => Consent')
  <1>1. auth' \in AuthRow /\ auth'.signedAt = auth.signedAt
    BY DEF MarkRefused, AuthInv, AuthType, AuthRow
  <1>2. auth'.signedAt => Consent
    BY <1>1 DEF AuthInv, SignatureIsReal
  <1> QED  BY <1>1, <1>2, AnsweredPreserves DEF MarkRefused

LEMMA FailCounts == ASSUME AuthType, Fail PROVE faults' \in 0..MaxFaults
  BY AuthorizationAssumption DEF AuthType, AuthorizationAssumption, Fail

LEMMA DiePreserves ==
  ASSUME AuthInv, NEW p \in Process, Die(p)
  PROVE  AuthInv' /\ (Consent => Consent')
  <1>1. Finish(p) /\ UNCHANGED <<auth, zapsignVars>> /\ faults' \in 0..MaxFaults /\ (Consent => Consent')
    BY FailCounts DEF Die, AuthInv, Consent, zapsignVars
  <1>2. proc' \in [Process -> AuthLocal] /\ DeliveriesKnow'
    BY <1>1, Finishes
  <1> QED  BY <1>1, <1>2 DEF AuthInv, AuthType, ZapsignType, zapsignVars, SignatureIsReal

\* A holder who has answered a document does not answer it again.
LEMMA HolderActsPreserves ==
  ASSUME AuthInv, NEW d \in Doc, HolderActs(d)
  PROVE  AuthInv' /\ (Consent => Consent')
  <1>1. PICK answer \in {"signed", "refused"} : ClientAnswers(d, answer)
    BY DEF HolderActs, ClientSigns, ClientRefuses
  <1> DEFINE new == [doc[d] EXCEPT !.client = answer]
             event == [kind |-> answer, doc |-> d, by |-> 0]
  <1>2. UNCHANGED <<auth, proc, faults>>
    BY DEF HolderActs
  <1>3. doc' = [doc EXCEPT ![d] = new] /\ doc[d].client = "pending" /\ due' = due \cup {event}
    BY <1>1 DEF ClientAnswers, Post
  <1>4. event \in Event
    BY ZapsignAssumption DEF ZapsignAssumption, Event
  <1>5. new \in Document /\ new.client = answer
    BY DEF AuthInv, AuthType, ZapsignType, Document, Answer
  <1> HIDE DEF new, event
  <1>6. ZapsignType'
    BY <1>3, <1>4, <1>5 DEF AuthInv, AuthType, ZapsignType
  <1>7. Consent => Consent'
    BY <1>3 DEF Consent, AuthInv, AuthType, ZapsignType
  <1> QED  BY <1>2, <1>6, <1>7 DEF AuthInv, AuthType, SignatureIsReal, DeliveriesKnow

LEMMA AuthorizingPreserves ==
  ASSUME AuthInv, Authorizing
  PROVE  AuthInv' /\ (Consent => Consent')
  BY BeginRequestPreserves, ReadIdentityPreserves, CreateDocumentPreserves, SaveRequestPreserves,
     IgnoreEventPreserves, StartEventPreserves, ReadStatePreserves, MarkSignedPreserves,
     CheckRefusalPreserves, MarkRefusedPreserves, DiePreserves, HolderActsPreserves
  DEF Authorizing, RequestStep, Handle

\* The authorization does not change.
LEMMA AuthStays == ASSUME AuthInv, UNCHANGED authVars PROVE AuthInv' /\ (Consent => Consent')
  BY DEF AuthInv, AuthType, ZapsignType, SignatureIsReal, DeliveriesKnow, Consent, authVars,
         zapsignVars

-----------------------------------------------------------------------------
(***************************************************************************)
(* The consultations.                                                      *)
(***************************************************************************)
BureauType == /\ now \in Time /\ customer \in Customer /\ stored \subseteq Time
              /\ studies \in 0..Credits /\ credits = Credits - studies
              /\ queries \in Seq(Time)

BureauInv == BureauType /\ job \in [Request -> Job] /\ GateHolds /\ HasADate /\ ConsultedWithConsent

LEMMA IInvParts == (IInv <=> AuthInv /\ BureauInv) /\ (IInv' <=> AuthInv' /\ BureauInv')
  BY DEF IInv, TypeOK, AuthInv, BureauInv, BureauType

LEMMA HasAJob ==
  ASSUME BureauInv, NEW r \in Request
  PROVE  job[r] \in Job /\ job[r].email \in Email \cup {NoEmail} /\ job[r].seen \in Email \cup {NoEmail}
         /\ job[r].used \in Time \cup {Never} /\ job[r].cached \in BOOLEAN
  BY DEF BureauInv, Job

\* A request changes its own job.
LEMMA JobGoesOn ==
  ASSUME BureauInv, BureauType', NEW r \in Request, NEW j \in Job, job' = [job EXCEPT ![r] = j],
         j.pc \in PastTheGate => Consent', j.pc \in {"read", "write"} => j.used \in Time,
         Consent => Consent', queries' # <<>> => Consent'
  PROVE  BureauInv'
  <1>1. job'[r] = j /\ \A q \in Request \ {r} : job'[q] = job[q]
    BY DEF BureauInv
  <1>2. job' \in [Request -> Job]
    BY DEF BureauInv
  <1>3. GateHolds' /\ HasADate'
    BY <1>1 DEF BureauInv, GateHolds, HasADate
  <1>4. ConsultedWithConsent'
    BY DEF ConsultedWithConsent, Consent
  <1> QED  BY <1>2, <1>3, <1>4 DEF BureauInv

LEMMA NoJobIsAJob == NoJob \in Job /\ NoJob.pc = "idle"
  BY DEF NoJob, Job, JobPC

LEMMA JobEnding ==
  ASSUME BureauInv, BureauType', NEW r \in Request, JobEnds(r), Consent => Consent', queries' = queries
  PROVE  BureauInv'
  <1>1. queries' # <<>> => Consent'
    BY DEF BureauInv, ConsultedWithConsent, Consent
  <1>2. job' = [job EXCEPT ![r] = NoJob] /\ NoJob.pc \notin PastTheGate
    BY NoJobIsAJob DEF JobEnds, PastTheGate
  <1> QED  BY <1>1, <1>2, NoJobIsAJob, JobGoesOn

LEMMA JobMoves ==
  ASSUME BureauInv, BureauType', NEW r \in Request, NEW pc \in JobPC, JobGoto(r, pc),
         pc \in PastTheGate => Consent', pc \notin {"read", "write"},
         Consent => Consent', queries' = queries
  PROVE  BureauInv'
  <1>1. PICK j \in Job : job' = [job EXCEPT ![r] = j] /\ j.pc = pc
    <2>1. [job[r] EXCEPT !.pc = pc] \in Job /\ [job[r] EXCEPT !.pc = pc].pc = pc
      BY HasAJob DEF Job
    <2> QED  BY <2>1 DEF JobGoto
  <1>2. queries' # <<>> => Consent'
    BY DEF BureauInv, ConsultedWithConsent, Consent
  <1> QED  BY <1>1, <1>2, JobGoesOn

LEMMA InitEstablishes == Init => IInv
  <1> SUFFICES ASSUME Init PROVE IInv
    OBVIOUS
  <1>1. AuthInv
    <2>1. ZapsignType
      BY DEF Init, AuthInit, ZapsignInit, ZapsignType, NoDocument, Document, Answer
    <2>2. auth \in AuthRow /\ faults \in 0..MaxFaults
      BY AuthorizationAssumption DEF AuthorizationAssumption, Init, AuthInit, NoAuth, AuthRow
    <2>3. proc \in [Process -> AuthLocal] /\ DeliveriesKnow
      BY IdleIsLocal DEF Init, AuthInit, DeliveriesKnow
    <2>4. SignatureIsReal
      BY DEF Init, AuthInit, NoAuth, SignatureIsReal
    <2> QED  BY <2>1, <2>2, <2>3, <2>4 DEF AuthInv, AuthType
  <1>2. BureauInv
    <2>1. BureauType
      <3>1. 0 \in Time /\ Credits \in Nat
        BY BureauAssumption DEF BureauAssumption, Time
      <3>2. customer \in Customer /\ stored \subseteq Time
        <4>1. {0} \subseteq Time /\ {} \subseteq Time
          BY <3>1
        <4>2. NoCustomer \in Customer /\ [present |-> TRUE, email |-> NoEmail] \in Customer
          BY DEF Customer, NoCustomer
        <4> QED  BY <4>1, <4>2 DEF Init
      <3>3. <<>> \in Seq(Time)
        OBVIOUS
      <3> QED  BY <3>1, <3>2, <3>3 DEF Init, BureauType
    <2>2. job \in [Request -> Job] /\ GateHolds /\ HasADate
      BY NoJobIsAJob DEF Init, GateHolds, HasADate, PastTheGate
    <2>3. ConsultedWithConsent
      BY DEF Init, ConsultedWithConsent
    <2> QED  BY <2>1, <2>2, <2>3 DEF BureauInv
  <1> QED  BY <1>1, <1>2, IInvParts

-----------------------------------------------------------------------------
(***************************************************************************)
(* The steps of createFromBureau.                                          *)
(***************************************************************************)
LEMMA BeginStudyPreserves ==
  ASSUME AuthInv, BureauInv, NEW r \in Request, NEW email \in Email, BeginStudy(r, email)
  PROVE  AuthInv' /\ BureauInv'
  <1>2. PICK j \in Job : job' = [job EXCEPT ![r] = j] /\ j.pc = "gate"
    <2> DEFINE j == [NoJob EXCEPT !.pc = "gate", !.email = email]
    <2>1. j \in Job /\ j.pc = "gate"
      BY DEF NoJob, Job, JobPC
    <2> QED  BY <2>1 DEF BeginStudy
  <1>3. AuthInv' /\ (Consent => Consent')
    BY AuthStays DEF BeginStudy
  <1>4. BureauType' /\ (queries' # <<>> => Consent')
    BY <1>3 DEF BeginStudy, BureauInv, BureauType, ConsultedWithConsent, Consent
  <1>5. BureauInv'
    BY <1>2, <1>3, <1>4, JobGoesOn DEF PastTheGate
  <1> QED  BY <1>3, <1>5

\* The gate lets pass whoever finds the row signed.
LEMMA PassGatePreserves ==
  ASSUME AuthInv, BureauInv, NEW r \in Request, PassGate(r)
  PROVE  AuthInv' /\ BureauInv'
  <1>1. BureauType' /\ queries' = queries
    BY DEF PassGate, BureauInv, BureauType
  <1>2. CASE Authorized
    <2>1. JobGoto(r, "ensure") /\ UNCHANGED authVars
      BY <1>2 DEF PassGate
    <2>2. AuthInv' /\ (Consent => Consent')
      BY <2>1, AuthStays
    <2>3. "ensure" \in JobPC /\ "ensure" \notin PastTheGate
      BY DEF JobPC, PastTheGate
    <2> QED  BY <1>1, <2>1, <2>2, <2>3, JobMoves
  <1>3. CASE ~Authorized
    <2>1. JobEnds(r) /\ (UNCHANGED authVars \/ BeginRequest(r))
      BY <1>3 DEF PassGate
    <2>2. AuthInv' /\ (Consent => Consent')
      BY <2>1, AuthStays, BeginRequestPreserves
    <2> QED  BY <1>1, <2>1, <2>2, JobEnding
  <1> QED  BY <1>2, <1>3

LEMMA EnsureCanConsultPreserves ==
  ASSUME AuthInv, BureauInv, NEW r \in Request, EnsureCanConsult(r)
  PROVE  AuthInv' /\ BureauInv'
  <1>1. BureauType' /\ queries' = queries /\ UNCHANGED authVars
    BY DEF EnsureCanConsult, BureauInv, BureauType
  <1>2. AuthInv' /\ (Consent => Consent')
    BY <1>1, AuthStays
  <1>3. CASE Authorized
    <2>1. Consent
      BY <1>3 DEF Authorized, AuthInv, SignatureIsReal
    <2>2. "cache" \in JobPC /\ JobGoto(r, "cache")
      BY <1>3 DEF JobPC, EnsureCanConsult
    <2> QED  BY <1>1, <1>2, <2>1, <2>2, JobMoves
  <1>4. CASE ~Authorized
    <2>1. JobEnds(r)
      BY <1>4 DEF EnsureCanConsult
    <2> QED  BY <1>1, <1>2, <2>1, JobEnding
  <1> QED  BY <1>3, <1>4

\* A request that is past the gate.
LEMMA IsPast ==
  ASSUME BureauInv, NEW r \in Request, job[r].pc \in PastTheGate
  PROVE  Consent
  BY DEF BureauInv, GateHolds

LEMMA ReadCachePreserves ==
  ASSUME AuthInv, BureauInv, NEW r \in Request, ReadCache(r)
  PROVE  AuthInv' /\ BureauInv'
  <1>1. BureauType' /\ queries' = queries /\ UNCHANGED authVars
    BY DEF ReadCache, BureauInv, BureauType
  <1>2. AuthInv' /\ (Consent => Consent') /\ Consent
    BY <1>1, AuthStays, IsPast DEF ReadCache, JobAt, PastTheGate, JobPC
  <1>3. CASE customer.present /\ stored # {} /\ Fresh(Latest(stored))
    <2>1. PICK j \in Job : job' = [job EXCEPT ![r] = j] /\ j.pc = "link"
      <3> DEFINE last == Latest(stored)  email == customer.email
                 j == [job[r] EXCEPT !.pc = "link", !.used = last, !.cached = TRUE, !.seen = email]
      <3>1. last \in Time /\ email \in Email \cup {NoEmail}
        BY <1>3, LatestIsADate DEF BureauInv, BureauType, Customer
      <3>2. job' = [job EXCEPT ![r] = j]
        BY <1>3 DEF ReadCache
      <3> HIDE DEF last, email
      <3>3. j \in Job /\ j.pc = "link"
        BY <3>1, HasAJob DEF Job, JobPC
      <3> HIDE DEF j
      <3> QED  BY <3>2, <3>3
    <2>2. queries' # <<>> => Consent'
      BY <1>2
    <2> QED  BY <1>1, <1>2, <2>1, <2>2, JobGoesOn
  <1>4. CASE ~(customer.present /\ stored # {} /\ Fresh(Latest(stored)))
    <2>1. JobGoto(r, "query") /\ "query" \in JobPC
      BY <1>4 DEF ReadCache, JobPC
    <2> QED  BY <1>1, <1>2, <2>1, JobMoves
  <1> QED  BY <1>3, <1>4

\* The bureau is asked past the gate.
LEMMA QueryBureauPreserves ==
  ASSUME AuthInv, BureauInv, NEW r \in Request, QueryBureau(r)
  PROVE  AuthInv' /\ BureauInv'
  <1>1. UNCHANGED <<authVars, now, customer, stored, studies, credits>>
    BY DEF QueryBureau
  <1>2. AuthInv' /\ (Consent => Consent') /\ Consent
    BY <1>1, AuthStays, IsPast DEF QueryBureau, JobAt, PastTheGate, JobPC
  <1>3. CASE queries' = Append(queries, now)
    <2>1. BureauType'
      BY <1>1, <1>3 DEF BureauInv, BureauType
    <2>2. CASE JobEnds(r) /\ UNCHANGED queries
      BY <1>2, <2>1, <2>2, JobEnding
    <2>3. CASE job' = [job EXCEPT ![r] = [job[r] EXCEPT !.pc = "read", !.used = now]]
      <3>1. PICK j \in Job : job' = [job EXCEPT ![r] = j] /\ j.pc = "read" /\ j.used = now
        <4> DEFINE j == [job[r] EXCEPT !.pc = "read", !.used = now]
        <4>1. j \in Job /\ j.pc = "read" /\ j.used = now
          BY HasAJob DEF Job, JobPC, BureauInv, BureauType
        <4> QED  BY <2>3, <4>1
      <3>2. now \in Time
        BY DEF BureauInv, BureauType
      <3> QED  BY <1>2, <2>1, <3>1, <3>2, JobGoesOn
    <2> QED  BY <1>2, <2>2, <2>3 DEF QueryBureau
  <1>4. CASE JobEnds(r) /\ UNCHANGED queries
    <2>1. BureauType'
      BY <1>1, <1>4 DEF BureauInv, BureauType
    <2> QED  BY <1>2, <1>4, <2>1, JobEnding
  <1> QED  BY <1>3, <1>4 DEF QueryBureau

LEMMA ReadCustomerPreserves ==
  ASSUME AuthInv, BureauInv, NEW r \in Request, ReadCustomer(r)
  PROVE  AuthInv' /\ BureauInv'
  <1>1. BureauType' /\ queries' = queries /\ UNCHANGED authVars
    BY DEF ReadCustomer, BureauInv, BureauType
  <1>2. AuthInv' /\ (Consent => Consent') /\ Consent
    BY <1>1, AuthStays, IsPast DEF ReadCustomer, JobAt, PastTheGate, JobPC
  <1>3. PICK j \in Job : job' = [job EXCEPT ![r] = j] /\ j.pc = "write" /\ j.used = job[r].used
    <2> DEFINE email == customer.email  j == [job[r] EXCEPT !.pc = "write", !.seen = email]
    <2>1. email \in Email \cup {NoEmail} /\ job' = [job EXCEPT ![r] = j]
      BY DEF BureauInv, BureauType, Customer, ReadCustomer
    <2> HIDE DEF email
    <2>2. j \in Job /\ j.pc = "write" /\ j.used = job[r].used
      BY <2>1, HasAJob DEF Job, JobPC
    <2> HIDE DEF j
    <2> QED  BY <2>1, <2>2
  <1>4. job[r].used \in Time
    BY DEF ReadCustomer, JobAt, BureauInv, HasADate
  <1>5. queries' # <<>> => Consent'
    BY <1>2
  <1> QED  BY <1>1, <1>2, <1>3, <1>4, <1>5, JobGoesOn

LEMMA WriteConsultationPreserves ==
  ASSUME AuthInv, BureauInv, NEW r \in Request, WriteConsultation(r)
  PROVE  AuthInv' /\ BureauInv'
  <1>1. queries' = queries /\ UNCHANGED authVars /\ JobGoto(r, "link") /\ "link" \in JobPC
    BY DEF WriteConsultation, JobPC
  <1>2. AuthInv' /\ (Consent => Consent') /\ Consent
    BY <1>1, AuthStays, IsPast DEF WriteConsultation, JobAt, PastTheGate, JobPC
  <1>3. customer' \in Customer /\ stored' \subseteq Time
    <2>1. job[r].used \in Time
      BY DEF WriteConsultation, JobAt, BureauInv, HasADate
    <2>2. job[r].email \in Email \cup {NoEmail} /\ customer.email \in Email \cup {NoEmail}
      BY HasAJob DEF BureauInv, BureauType, Customer
    <2> QED  BY <2>1, <2>2 DEF WriteConsultation, BureauInv, BureauType, Customer
  <1>4. BureauType'
    BY <1>3 DEF WriteConsultation, BureauInv, BureauType
  <1> QED  BY <1>1, <1>2, <1>4, JobMoves

\* Linking the customer leaves the signature.
LEMMA LinkPreserves ==
  ASSUME AuthInv, BureauInv, NEW r \in Request, Link(r)
  PROVE  AuthInv' /\ BureauInv'
  <1> DEFINE pc == IF job[r].cached /\ job[r].seen = NoEmail THEN "backfill" ELSE "study"
  <1>1. /\ UNCHANGED <<proc, faults, zapsignVars, queries>> /\ JobGoto(r, pc)
        /\ pc \in JobPC /\ pc \notin {"read", "write"}
    BY DEF Link, JobPC
  <1>2. auth' \in AuthRow /\ auth'.signedAt = auth.signedAt
    BY DEF Link, LinkCustomer, AuthInv, AuthType, AuthRow
  <1>3. AuthInv' /\ (Consent => Consent')
    BY <1>1, <1>2 DEF AuthInv, AuthType, ZapsignType, zapsignVars, SignatureIsReal, DeliveriesKnow, Consent
  <1>4. Consent
    BY IsPast DEF Link, JobAt, PastTheGate, JobPC
  <1>5. BureauType'
    BY DEF Link, BureauInv, BureauType
  <1> HIDE DEF pc
  <1> QED  BY <1>1, <1>3, <1>4, <1>5, JobMoves

LEMMA BackfillEmailPreserves ==
  ASSUME AuthInv, BureauInv, NEW r \in Request, BackfillEmail(r)
  PROVE  AuthInv' /\ BureauInv'
  <1>1. queries' = queries /\ UNCHANGED authVars /\ JobGoto(r, "study") /\ "study" \in JobPC
    BY DEF BackfillEmail, JobPC
  <1>2. AuthInv' /\ (Consent => Consent') /\ Consent
    BY <1>1, AuthStays, IsPast DEF BackfillEmail, JobAt, PastTheGate, JobPC
  <1>3. customer' \in Customer
    <2>1. job[r].email \in Email \cup {NoEmail}
      BY HasAJob
    <2> QED  BY <2>1 DEF BackfillEmail, BureauInv, BureauType, Customer
  <1>4. BureauType'
    BY <1>3 DEF BackfillEmail, BureauInv, BureauType
  <1> QED  BY <1>1, <1>2, <1>4, JobMoves

LEMMA CreateStudyPreserves ==
  ASSUME AuthInv, BureauInv, NEW r \in Request, CreateStudy(r)
  PROVE  AuthInv' /\ BureauInv'
  <1>1. queries' = queries /\ UNCHANGED authVars /\ JobEnds(r)
    BY DEF CreateStudy
  <1>2. AuthInv' /\ (Consent => Consent')
    BY <1>1, AuthStays
  <1>3. BureauType'
    BY BureauAssumption DEF CreateStudy, BureauInv, BureauType, BureauAssumption
  <1> QED  BY <1>1, <1>2, <1>3, JobEnding

LEMMA JobDiesPreserves ==
  ASSUME AuthInv, BureauInv, NEW r \in Request, JobDies(r)
  PROVE  AuthInv' /\ BureauInv'
  <1>1. queries' = queries /\ JobEnds(r) /\ UNCHANGED <<auth, proc, zapsignVars>>
        /\ faults' \in 0..MaxFaults
    BY FailCounts DEF JobDies, AuthInv
  <1>2. AuthInv' /\ (Consent => Consent')
    BY <1>1 DEF AuthInv, AuthType, ZapsignType, zapsignVars, SignatureIsReal, DeliveriesKnow, Consent
  <1>3. BureauType'
    BY DEF JobDies, BureauInv, BureauType
  <1> QED  BY <1>1, <1>2, <1>3, JobEnding

LEMMA TickPreserves ==
  ASSUME AuthInv, BureauInv, Tick
  PROVE  AuthInv' /\ BureauInv'
  <1>1. AuthInv' /\ (Consent => Consent')
    BY AuthStays DEF Tick
  <1>2. now' \in Time
    BY BureauAssumption DEF Tick, BureauInv, BureauType, Time, BureauAssumption
  <1>3. BureauInv'
    BY <1>1, <1>2 DEF Tick, BureauInv, BureauType, GateHolds, HasADate, ConsultedWithConsent, Consent
  <1> QED  BY <1>1, <1>3

\* Nothing of the bureau changes.
LEMMA BureauStays ==
  ASSUME BureauInv, UNCHANGED bureauVars, Consent => Consent'
  PROVE  BureauInv'
  <1>1. BureauType'
    BY DEF BureauInv, BureauType, bureauVars
  <1> QED
    BY <1>1 DEF BureauInv, bureauVars, GateHolds, HasADate, ConsultedWithConsent, Consent

LEMMA NextPreserves == IInv /\ [Next]_vars => IInv'
  <1> SUFFICES ASSUME AuthInv, BureauInv, [Next]_vars
               PROVE  AuthInv' /\ BureauInv'
    BY IInvParts
  <1>1. CASE Authorizing
    BY <1>1, AuthorizingPreserves, BureauStays DEF Authorizing
  <1>2. ASSUME NEW r \in Request, Consult(r)
        PROVE  AuthInv' /\ BureauInv'
    BY <1>2, PassGatePreserves, EnsureCanConsultPreserves, ReadCachePreserves, QueryBureauPreserves,
       ReadCustomerPreserves, WriteConsultationPreserves, LinkPreserves, BackfillEmailPreserves,
       CreateStudyPreserves DEF Consult
  <1>3. ASSUME NEW r \in Request, NEW email \in Email, BeginStudy(r, email)
        PROVE  AuthInv' /\ BureauInv'
    BY <1>3, BeginStudyPreserves
  <1>4. CASE UNCHANGED vars
    BY <1>4, AuthStays, BureauStays DEF vars
  <1> QED  BY <1>1, <1>2, <1>3, <1>4, JobDiesPreserves, TickPreserves DEF Next

-----------------------------------------------------------------------------
(***************************************************************************)
(* What the bureau is paid for.  A request holds the consultation it asked *)
(* for until it is stored; a date alone does not say whose a consultation  *)
(* is, so own says which one each request holds.                           *)
(***************************************************************************)
Holders == {r \in Request : job[r].pc \in {"read", "write"}}
Owned(own) == \A r \in Holders : own[r] \in DOMAIN queries /\ queries[own[r]] = job[r].used
Lost(own) == {i \in DOMAIN queries : queries[i] \notin stored /\ \A r \in Holders : own[r] # i}

\* Each failure loses at most one consultation.
FewLost == \E own \in [Request -> Nat] : Owned(own) /\ Cardinality(Lost(own)) <= faults

\* Requests about to ask; holders of a consultation that d's window counts.
AtQuery == {r \in Request : job[r].pc = "query"}
Holding(d) == {r \in Holders : d <= job[r].used /\ job[r].used <= Expiry(d)}

\* While a consultation of d or later is stored and that of d is fresh, nobody
\* comes to ask; before, whoever asked in the window still holds it.
Settled(d) == \E s \in stored : d <= s
Paid(d) ==
  /\ Cardinality(InWindow(d)) <= Cardinality(Request) + faults
  /\ now <= Expiry(d) /\ Settled(d) =>
       Cardinality(InWindow(d)) + Cardinality(AtQuery) <= Cardinality(Request) + faults
  /\ ~Settled(d) => Cardinality(InWindow(d)) <= Cardinality(Holding(d)) + faults

PaidInv ==
  /\ stored # {} => customer.present
  /\ \A r \in Holders : job[r].used <= now
  /\ FewLost
  /\ \A d \in Time : Paid(d)

\* A set that has at most one element that another has not.
LEMMA OneMore ==
  ASSUME NEW S, NEW T, NEW x, IsFiniteSet(S), T \subseteq S \cup {x}
  PROVE  Cardinality(T) <= Cardinality(S) + 1
  <1>1. IsFiniteSet(S \cup {x}) /\ Cardinality(S \cup {x}) <= Cardinality(S) + 1
    <2>1. Cardinality(S) \in Nat
      BY FS_CardinalityType
    <2> QED  BY <2>1, FS_AddElement
  <1>2. IsFiniteSet(T) /\ Cardinality(T) <= Cardinality(S \cup {x})
    BY <1>1, FS_Subset
  <1>3. {Cardinality(S), Cardinality(T), Cardinality(S \cup {x})} \subseteq Nat
    BY <1>1, <1>2, FS_CardinalityType
  <1> QED  BY <1>1, <1>2, <1>3

LEMMA ExpiryGrows ==
  ASSUME NEW d \in Time, NEW s \in Time, d <= s
  PROVE  Expiry(d) \in Int /\ Expiry(s) \in Int /\ Expiry(d) <= Expiry(s)
  BY BureauAssumption DEF Time, Expiry, BureauAssumption

\* The sets counted are finite.
LEMMA Counted ==
  ASSUME BureauInv, NEW d, NEW own
  PROVE  /\ \A S \in SUBSET DOMAIN queries : IsFiniteSet(S) /\ Cardinality(S) \in Nat
         /\ \A S \in SUBSET Request : IsFiniteSet(S) /\ Cardinality(S) \in Nat
         /\ InWindow(d) \subseteq DOMAIN queries /\ Lost(own) \subseteq DOMAIN queries
         /\ AtQuery \subseteq Request /\ Holding(d) \subseteq Request
         /\ Cardinality(Request) \in Nat
         /\ Cardinality(AtQuery) + Cardinality(Holding(d)) <= Cardinality(Request)
  <1>1. IsFiniteSet(DOMAIN queries)
    BY FS_Interval DEF BureauInv, BureauType
  <1>2. \A S \in SUBSET DOMAIN queries : IsFiniteSet(S) /\ Cardinality(S) \in Nat
    BY <1>1, FS_Subset, FS_CardinalityType
  <1>3. \A S \in SUBSET Request : IsFiniteSet(S) /\ Cardinality(S) \in Nat
    BY BureauAssumption, FS_Subset, FS_CardinalityType DEF BureauAssumption
  <1>4. InWindow(d) \subseteq DOMAIN queries /\ Lost(own) \subseteq DOMAIN queries
    BY DEF InWindow, Lost
  <1>5. AtQuery \subseteq Request /\ Holding(d) \subseteq Request /\ AtQuery \cap Holding(d) = {}
    BY DEF AtQuery, Holding, Holders
  <1>6. Cardinality(Request) \in Nat
    BY <1>3
  <1>7. Cardinality(AtQuery \cup Holding(d)) = Cardinality(AtQuery) + Cardinality(Holding(d))
    <2>1. Cardinality(AtQuery \cap Holding(d)) = 0
      BY <1>5, FS_EmptySet
    <2> QED  BY <1>3, <1>5, <2>1, FS_Union
  <1>8. Cardinality(AtQuery \cup Holding(d)) <= Cardinality(Request)
    BY <1>5, BureauAssumption, FS_Subset DEF BureauAssumption
  <1> QED  BY <1>2, <1>3, <1>4, <1>5, <1>6, <1>7, <1>8

\* Nothing is asked, stored or lost; the clock may move, and a request may
\* come to ask when nothing stored is fresh.
LEMMA NothingIsPaid ==
  ASSUME AuthInv, BureauInv, AuthInv', BureauInv', PaidInv,
         queries' = queries, stored' = stored, customer.present => customer'.present,
         now <= now', faults <= faults',
         Holders' = Holders, \A r \in Holders : job'[r].used = job[r].used,
         AtQuery' \subseteq AtQuery \/ \A d \in Time : Settled(d) => Expiry(d) < now
  PROVE  PaidInv'
  <1>1. faults \in Nat /\ faults' \in Nat /\ now \in Int /\ now' \in Int
    BY DEF AuthInv, AuthType, BureauInv, BureauType, Time
  <1>2. FewLost'
    <2>1. PICK own \in [Request -> Nat] : Owned(own) /\ Cardinality(Lost(own)) <= faults
      BY DEF PaidInv, FewLost
    <2>2. Owned(own)' /\ Lost(own)' = Lost(own)
      BY <2>1 DEF Owned, Lost
    <2>3. Cardinality(Lost(own)) \in Nat
      BY Counted
    <2>4. Cardinality(Lost(own)') <= faults'
      BY <1>1, <2>1, <2>2, <2>3
    <2> QED  BY <2>2, <2>4 DEF FewLost
  <1>3. ASSUME NEW d \in Time
        PROVE  Paid(d)'
    <2>1. InWindow(d)' = InWindow(d) /\ Holding(d)' = Holding(d) /\ (Settled(d)' <=> Settled(d))
      <3>1. Holding(d)' = Holding(d)
        BY DEF Holding, Expiry
      <3> QED  BY <3>1 DEF InWindow, Settled
    <2>2. /\ Cardinality(InWindow(d)) \in Nat /\ Cardinality(AtQuery) \in Nat
          /\ Cardinality(Holding(d)) \in Nat /\ Cardinality(Request) \in Nat
      BY Counted
    <2>3. Cardinality(AtQuery') \in Nat /\ AtQuery' \subseteq Request
      BY Counted DEF BureauInv, AtQuery
    <2>4. AtQuery' \subseteq AtQuery => Cardinality(AtQuery') <= Cardinality(AtQuery)
      BY Counted, FS_Subset
    <2>5. Expiry(d) \in Int
      BY ExpiryGrows DEF Time
    <2>6. Expiry(d)' = Expiry(d)
      BY DEF Expiry
    <2>7. now' <= Expiry(d) /\ Settled(d) => now <= Expiry(d) /\ AtQuery' \subseteq AtQuery
      BY <1>1, <2>5
    <2>8. Paid(d)
      BY DEF PaidInv
    <2> QED  BY <1>1, <2>1, <2>2, <2>3, <2>4, <2>6, <2>7, <2>8 DEF Paid
  <1>4. (stored' # {} => customer'.present) /\ \A r \in Holders' : job'[r].used <= now'
    <2>1. \A r \in Holders : job[r].used \in Int
      BY DEF Holders, BureauInv, HasADate, Time
    <2> QED  BY <1>1, <2>1 DEF PaidInv
  <1> QED  BY <1>2, <1>3, <1>4 DEF PaidInv

\* A request that neither asks nor stores changes no account.
LEMMA Unmoved ==
  ASSUME BureauInv, NEW r \in Request, NEW j, job' = [job EXCEPT ![r] = j],
         j.pc \in {"read", "write"} <=> job[r].pc \in {"read", "write"},
         j.pc \in {"read", "write"} => j.used = job[r].used
  PROVE  /\ Holders' = Holders /\ \A q \in Holders : job'[q].used = job[q].used
         /\ j.pc # "query" => AtQuery' \subseteq AtQuery
  <1>1. job'[r] = j /\ \A q \in Request \ {r} : job'[q] = job[q]
    BY DEF BureauInv
  <1> QED  BY <1>1 DEF Holders, AtQuery

\* Who dies may hold one consultation, and is one failure more.
LEMMA DyingLosesOne ==
  ASSUME AuthInv, BureauInv, AuthInv', BureauInv', PaidInv, NEW r \in Request, JobDies(r)
  PROVE  PaidInv'
  <1>1. /\ queries' = queries /\ stored' = stored /\ customer' = customer /\ now' = now
        /\ faults' = faults + 1 /\ faults \in Nat
    BY DEF JobDies, Fail, AuthInv, AuthType
  <1>2. job'[r].pc = "idle" /\ \A q \in Request \ {r} : job'[q] = job[q]
    BY DEF JobDies, JobEnds, BureauInv, NoJob
  <1>3. Holders' = Holders \ {r} /\ AtQuery' \subseteq AtQuery
    BY <1>2 DEF Holders, AtQuery
  <1>4. FewLost'
    <2>1. PICK own \in [Request -> Nat] : Owned(own) /\ Cardinality(Lost(own)) <= faults
      BY DEF PaidInv, FewLost
    <2>2. Owned(own)'
      <3>1. \A q \in Holders' : q \in Holders /\ job'[q] = job[q]
        BY <1>2, <1>3 DEF Holders
      <3> QED  BY <1>1, <2>1, <3>1 DEF Owned
    <2>3. Lost(own)' \subseteq Lost(own) \cup {own[r]}
      BY <1>1, <1>3 DEF Lost
    <2>4. IsFiniteSet(Lost(own)) /\ Cardinality(Lost(own)) \in Nat
          /\ Cardinality(Lost(own)') \in Nat
      <3>1. Lost(own)' \subseteq DOMAIN queries
        BY <1>1 DEF Lost
      <3> QED  BY <3>1, Counted
    <2>5. Cardinality(Lost(own)') <= Cardinality(Lost(own)) + 1
      BY <2>3, <2>4, OneMore
    <2>6. Cardinality(Lost(own)') <= faults'
      BY <1>1, <2>1, <2>4, <2>5
    <2> QED  BY <2>2, <2>6 DEF FewLost
  <1>5. ASSUME NEW d \in Time
        PROVE  Paid(d)'
    <2>1. /\ InWindow(d)' = InWindow(d) /\ (Settled(d)' <=> Settled(d)) /\ Expiry(d)' = Expiry(d)
          /\ Holding(d) \subseteq Holding(d)' \cup {r} /\ Holding(d)' \subseteq Holding(d)
      <3>1. Holding(d) \subseteq Holding(d)' \cup {r} /\ Holding(d)' \subseteq Holding(d)
        BY <1>2, <1>3 DEF Holding, Holders, Expiry
      <3> QED  BY <1>1, <3>1 DEF InWindow, Settled, Expiry
    <2>2. /\ Cardinality(InWindow(d)) \in Nat /\ Cardinality(AtQuery) \in Nat
          /\ Cardinality(Holding(d)) \in Nat /\ Cardinality(Request) \in Nat
          /\ AtQuery \subseteq Request /\ Holding(d) \subseteq Request
      BY Counted
    <2>3. IsFiniteSet(AtQuery) /\ IsFiniteSet(Holding(d)') /\ Cardinality(AtQuery') \in Nat
          /\ Cardinality(Holding(d)') \in Nat
      BY <1>3, <2>1, <2>2, Counted
    <2>4. Cardinality(AtQuery') <= Cardinality(AtQuery)
      BY <1>3, <2>3, FS_Subset
    <2>5. Cardinality(Holding(d)) <= Cardinality(Holding(d)') + 1
      BY <2>1, <2>3, OneMore
    <2>6. Paid(d)
      BY DEF PaidInv
    <2> QED  BY <1>1, <2>1, <2>2, <2>3, <2>4, <2>5, <2>6 DEF Paid
  <1> QED  BY <1>1, <1>2, <1>3, <1>4, <1>5 DEF PaidInv, Holders

\* Who asks holds what it is charged for.
LEMMA AskingHolds ==
  ASSUME AuthInv, BureauInv, AuthInv', BureauInv', PaidInv, NEW r \in Request, NEW j,
         JobAt(r, "query"), job' = [job EXCEPT ![r] = j], j.pc = "read", j.used = now,
         queries' = Append(queries, now), UNCHANGED <<faults, stored, customer, now>>
  PROVE  PaidInv'
  <1> DEFINE new == Len(queries) + 1
  <1>1. faults \in Nat /\ now \in Int /\ r \notin Holders
    BY DEF AuthInv, AuthType, BureauInv, BureauType, Time, Holders, JobAt
  <1>2. job'[r] = j /\ \A q \in Request \ {r} : job'[q] = job[q]
    BY DEF BureauInv
  <1>3. Holders' = Holders \cup {r} /\ AtQuery' = AtQuery \ {r} /\ r \in AtQuery
    BY <1>2 DEF Holders, AtQuery, JobAt
  <1>4. /\ DOMAIN queries' = DOMAIN queries \cup {new} /\ new \notin DOMAIN queries /\ new \in Nat
        /\ queries'[new] = now /\ \A i \in DOMAIN queries : queries'[i] = queries[i]
    BY DEF BureauInv, BureauType
  <1> HIDE DEF new
  <1>5. FewLost'
    <2>1. PICK own \in [Request -> Nat] : Owned(own) /\ Cardinality(Lost(own)) <= faults
      BY DEF PaidInv, FewLost
    <2>2. PICK mine \in [Request -> Nat] : mine[r] = new /\ \A q \in Holders : mine[q] = own[q]
      <3>1. [own EXCEPT ![r] = new] \in [Request -> Nat]
        BY <1>4
      <3> QED  BY <1>1, <3>1 DEF Holders
    <2>3. Owned(mine)'
      <3>1. \A q \in Holders : q # r /\ job'[q] = job[q]
        BY <1>1, <1>2 DEF Holders
      <3> QED  BY <1>2, <1>3, <1>4, <2>1, <2>2, <3>1 DEF Owned
    <2>4. Lost(mine)' \subseteq Lost(own)
      BY <1>3, <1>4, <2>2 DEF Lost
    <2>5. IsFiniteSet(Lost(own)) /\ Cardinality(Lost(own)) \in Nat /\ Lost(own) \subseteq DOMAIN queries
      BY Counted
    <2>6. Cardinality(Lost(mine)') <= Cardinality(Lost(own)) /\ Cardinality(Lost(mine)') \in Nat
      BY <2>4, <2>5, FS_Subset, FS_CardinalityType
    <2>7. Cardinality(Lost(mine)') <= faults'
      BY <1>1, <2>1, <2>5, <2>6
    <2> QED  BY <2>2, <2>3, <2>7 DEF FewLost
  <1>6. ASSUME NEW d \in Time
        PROVE  Paid(d)'
    <2>1. /\ Cardinality(InWindow(d)) \in Nat /\ Cardinality(AtQuery) \in Nat
          /\ Cardinality(Holding(d)) \in Nat /\ Cardinality(Request) \in Nat
          /\ IsFiniteSet(InWindow(d)) /\ IsFiniteSet(AtQuery) /\ IsFiniteSet(Holding(d))
          /\ Cardinality(AtQuery) + Cardinality(Holding(d)) <= Cardinality(Request)
      BY Counted
    <2>2. (Settled(d)' <=> Settled(d)) /\ Expiry(d)' = Expiry(d) /\ Expiry(d) \in Int /\ d \in Int
      BY ExpiryGrows DEF Settled, Expiry, Time
    <2>3. Cardinality(AtQuery') = Cardinality(AtQuery) - 1 /\ Cardinality(AtQuery') \in Nat
      BY <1>3, <2>1, FS_RemoveElement, FS_CardinalityType
    <2>4. Paid(d)
      BY DEF PaidInv
    <2>5. CASE d <= now /\ now <= Expiry(d)
      <3>1. InWindow(d)' = InWindow(d) \cup {new} /\ new \notin InWindow(d)
        BY <1>4, <2>2, <2>5 DEF InWindow
      <3>2. Holding(d)' = Holding(d) \cup {r} /\ r \notin Holding(d)
        <4>1. \A q \in Holders : q # r /\ job'[q] = job[q]
          BY <1>1, <1>2 DEF Holders
        <4> QED  BY <1>2, <1>3, <1>1, <2>2, <2>5, <4>1 DEF Holding
      <3>3. Cardinality(InWindow(d)') = Cardinality(InWindow(d)) + 1
        BY <2>1, <3>1, FS_AddElement
      <3>4. Cardinality(Holding(d)') = Cardinality(Holding(d)) + 1
        BY <2>1, <3>2, FS_AddElement
      <3>5. Cardinality(Holding(d)') <= Cardinality(Request)
        <4>1. Holding(d)' \subseteq Request
          BY DEF Holding, Holders
        <4> QED  BY <4>1, FS_Subset, BureauAssumption DEF BureauAssumption
      <3> QED  BY <1>1, <2>1, <2>2, <2>3, <2>4, <2>5, <3>3, <3>4, <3>5 DEF Paid
    <2>6. CASE ~(d <= now /\ now <= Expiry(d))
      <3>1. InWindow(d)' = InWindow(d)
        BY <1>4, <2>2, <2>6 DEF InWindow
      <3>2. Holding(d)' = Holding(d)
        <4>1. \A q \in Holders : q # r /\ job'[q] = job[q]
          BY <1>1, <1>2 DEF Holders
        <4> QED  BY <1>2, <1>3, <2>2, <2>6, <4>1 DEF Holding
      <3> QED  BY <1>1, <2>1, <2>2, <2>3, <2>4, <3>1, <3>2 DEF Paid
    <2> QED  BY <2>5, <2>6
  <1>7. \A q \in Holders' : job'[q].used <= now'
    <2>1. \A q \in Holders : q # r /\ job'[q] = job[q]
      BY <1>1, <1>2 DEF Holders
    <2> QED  BY <1>1, <1>2, <1>3, <2>1 DEF PaidInv
  <1> QED  BY <1>5, <1>6, <1>7 DEF PaidInv

\* What is stored settles the window of its date and of the earlier ones.
LEMMA StoringSettles ==
  ASSUME AuthInv, BureauInv, AuthInv', BureauInv', PaidInv, NEW r \in Request,
         WriteConsultation(r)
  PROVE  PaidInv'
  <1> DEFINE u == job[r].used
  <1>1. /\ UNCHANGED <<queries, faults, now>> /\ stored' = stored \cup {u} /\ customer'.present
        /\ faults \in Nat /\ now \in Int /\ r \in Holders
    BY DEF WriteConsultation, AuthInv, AuthType, BureauInv, BureauType, Time, authVars, Holders, JobAt
  <1>2. job'[r].pc = "link" /\ \A q \in Request \ {r} : job'[q] = job[q]
    BY HasAJob DEF WriteConsultation, JobGoto, BureauInv, Job
  <1>3. Holders' = Holders \ {r} /\ AtQuery' = AtQuery /\ \A q \in Holders' : job'[q] = job[q]
    BY <1>1, <1>2 DEF Holders, AtQuery
  <1>4. u \in Time /\ u <= now
    BY <1>1 DEF BureauInv, HasADate, Holders, PaidInv
  <1>5. FewLost'
    <2>1. PICK own \in [Request -> Nat] : Owned(own) /\ Cardinality(Lost(own)) <= faults
      BY DEF PaidInv, FewLost
    <2>2. Owned(own)'
      BY <1>1, <1>3, <2>1 DEF Owned
    <2>3. queries[own[r]] = u
      BY <1>1, <2>1 DEF Owned
    <2>4. Lost(own)' \subseteq Lost(own)
      BY <1>1, <1>3, <2>3 DEF Lost
    <2>5. IsFiniteSet(Lost(own)) /\ Cardinality(Lost(own)) \in Nat
      BY Counted
    <2>6. Cardinality(Lost(own)') <= Cardinality(Lost(own)) /\ Cardinality(Lost(own)') \in Nat
      BY <2>4, <2>5, FS_Subset, FS_CardinalityType
    <2>7. Cardinality(Lost(own)') <= faults'
      BY <1>1, <2>1, <2>5, <2>6
    <2> QED  BY <2>2, <2>7 DEF FewLost
  <1> HIDE DEF u
  <1>6. ASSUME NEW d \in Time
        PROVE  Paid(d)'
    <2>1. /\ Cardinality(InWindow(d)) \in Nat /\ Cardinality(AtQuery) \in Nat
          /\ Cardinality(Holding(d)) \in Nat /\ Cardinality(Request) \in Nat
          /\ Cardinality(AtQuery) + Cardinality(Holding(d)) <= Cardinality(Request)
      BY Counted
    <2>2. Expiry(d)' = Expiry(d) /\ Expiry(d) \in Int /\ d \in Int /\ u \in Int
          /\ InWindow(d)' = InWindow(d)
      BY <1>1, <1>4, ExpiryGrows DEF Expiry, Time, InWindow
    <2>3. Settled(d)' <=> Settled(d) \/ d <= u
      BY <1>1 DEF Settled
    <2>4. u < d => Holding(d)' = Holding(d)
      BY <1>1, <1>3, <2>2 DEF Holding, u
    <2>5. Paid(d)
      BY DEF PaidInv
    <2> QED  BY <1>1, <1>3, <1>4, <2>1, <2>2, <2>3, <2>4, <2>5 DEF Paid
  <1>7. \A q \in Holders' : job'[q].used <= now'
    BY <1>1, <1>3 DEF PaidInv
  <1> QED  BY <1>1, <1>5, <1>6, <1>7 DEF PaidInv

LEMMA PaidAtFirst == ASSUME Init, AuthInv, BureauInv PROVE PaidInv
  <1>1. queries = <<>> /\ Holders = {} /\ faults = 0 /\ (stored # {} => customer.present)
    BY DEF Init, AuthInit, Holders, NoJob, NoCustomer
  <1>2. ASSUME NEW d, NEW own
        PROVE  Cardinality(InWindow(d)) = 0 /\ Cardinality(Lost(own)) = 0
    <2>1. InWindow(d) = {} /\ Lost(own) = {}
      BY <1>1 DEF InWindow, Lost
    <2> QED  BY <2>1, FS_EmptySet
  <1>3. FewLost
    <2>1. [r \in Request |-> 0] \in [Request -> Nat] /\ Owned([r \in Request |-> 0])
      BY <1>1 DEF Owned
    <2> QED  BY <1>1, <1>2, <2>1 DEF FewLost
  <1>4. ASSUME NEW d \in Time
        PROVE  Paid(d)
    <2>1. Cardinality(AtQuery) + Cardinality(Holding(d)) <= Cardinality(Request)
          /\ {Cardinality(AtQuery), Cardinality(Holding(d)), Cardinality(Request)} \subseteq Nat
      BY Counted
    <2> QED  BY <1>1, <1>2, <2>1 DEF Paid
  <1> QED  BY <1>1, <1>3, <1>4 DEF PaidInv

\* A request finds what is stored, while it is fresh.
LEMMA LookingFinds ==
  ASSUME AuthInv, BureauInv, AuthInv', BureauInv', PaidInv, NEW r \in Request, ReadCache(r)
  PROVE  PaidInv'
  <1>1. /\ UNCHANGED <<now, customer, stored, queries, faults>> /\ job[r].pc = "cache"
        /\ now \in Int /\ faults \in Int
    BY DEF ReadCache, JobAt, authVars, BureauInv, BureauType, Time, AuthInv, AuthType
  <1>2. CASE customer.present /\ stored # {} /\ Fresh(Latest(stored))
    <2>1. PICK j : job' = [job EXCEPT ![r] = j] /\ j.pc = "link"
      <3> DEFINE j == [job[r] EXCEPT !.pc = "link", !.used = Latest(stored), !.cached = TRUE,
                                     !.seen = customer.email]
      <3>1. job' = [job EXCEPT ![r] = j]
        BY <1>2 DEF ReadCache
      <3>2. j.pc = "link"
        BY HasAJob DEF Job
      <3> HIDE DEF j
      <3> QED  BY <3>1, <3>2
    <2>2. Holders' = Holders /\ (\A q \in Holders : job'[q].used = job[q].used) /\ AtQuery' \subseteq AtQuery
      BY <1>1, <2>1, Unmoved
    <2> QED  BY <1>1, <2>2, NothingIsPaid
  <1>3. CASE ~(customer.present /\ stored # {} /\ Fresh(Latest(stored)))
    <2>1. ASSUME NEW d \in Time, Settled(d)
          PROVE  Expiry(d) < now
      <3>1. PICK s \in stored : d <= s
        BY <2>1 DEF Settled
      <3>2. stored \subseteq Time
        BY DEF BureauInv, BureauType
      <3>3. PICK last \in Time : last = Latest(stored) /\ s <= last
        BY <3>1, <3>2, LatestIsADate
      <3>4. d <= last
        <4>1. {d, s, last} \subseteq Int
          BY <3>1, <3>2 DEF Time
        <4> QED  BY <3>1, <3>3, <4>1
      <3>5. Expiry(d) \in Int /\ Expiry(last) \in Int /\ Expiry(d) <= Expiry(last)
        BY <3>4, ExpiryGrows
      <3>6. ~(now <= Expiry(last))
        BY <1>3, <3>1, <3>3 DEF PaidInv, Fresh
      <3> QED  BY <1>1, <3>5, <3>6
    <2>2. PICK j : job' = [job EXCEPT ![r] = j] /\ j.pc = "query"
      <3>1. [job[r] EXCEPT !.pc = "query"].pc = "query"
        BY HasAJob DEF Job
      <3> QED  BY <1>3, <3>1 DEF ReadCache, JobGoto
    <2>3. Holders' = Holders /\ (\A q \in Holders : job'[q].used = job[q].used)
      BY <1>1, <2>2, Unmoved
    <2> QED  BY <1>1, <2>1, <2>3, NothingIsPaid
  <1> QED  BY <1>2, <1>3

\* The other steps of a request: it is not about to ask, nor holds what it has
\* paid for, before the step or after it.
LEMMA ElsewhereNothingIsPaid ==
  ASSUME AuthInv, BureauInv, AuthInv', BureauInv', PaidInv, NEW r \in Request, NEW j,
         job' = [job EXCEPT ![r] = j], UNCHANGED <<now, stored, queries, faults>>,
         customer.present => customer'.present,
         job[r].pc \notin {"read", "write"}, j.pc \notin {"read", "write", "query"}
  PROVE  PaidInv'
  <1>1. Holders' = Holders /\ (\A q \in Holders : job'[q].used = job[q].used) /\ AtQuery' \subseteq AtQuery
    BY Unmoved
  <1>2. now <= now' /\ faults <= faults'
    BY DEF BureauInv, BureauType, Time, AuthInv, AuthType
  <1> QED  BY <1>1, <1>2, NothingIsPaid

\* The job a step leaves, by its place.
LEMMA Gone ==
  ASSUME BureauInv, NEW r \in Request, NEW pc \in JobPC, JobGoto(r, pc)
  PROVE  \E j : job' = [job EXCEPT ![r] = j] /\ j.pc = pc
  <1>1. [job[r] EXCEPT !.pc = pc].pc = pc
    BY HasAJob DEF Job
  <1> QED  BY <1>1 DEF JobGoto

LEMMA Ended ==
  ASSUME NEW r \in Request, JobEnds(r)
  PROVE  \E j : job' = [job EXCEPT ![r] = j] /\ j.pc = "idle"
  BY NoJobIsAJob DEF JobEnds

LEMMA ConsultingPays ==
  ASSUME AuthInv, BureauInv, AuthInv', BureauInv', PaidInv, NEW r \in Request, Consult(r)
  PROVE  PaidInv'
  <1>1. CASE PassGate(r)
    <2>1. PICK j : job' = [job EXCEPT ![r] = j] /\ j.pc \in {"idle", "ensure"}
      BY <1>1, Gone, Ended DEF PassGate, JobPC
    <2>2. UNCHANGED <<now, customer, stored, queries, faults>>
      BY <1>1 DEF PassGate, BeginRequest, authVars
    <2> QED  BY <1>1, <2>1, <2>2, ElsewhereNothingIsPaid DEF PassGate, JobAt
  <1>2. CASE EnsureCanConsult(r)
    <2>1. PICK j : job' = [job EXCEPT ![r] = j] /\ j.pc \in {"idle", "cache"}
      BY <1>2, Gone, Ended DEF EnsureCanConsult, JobPC
    <2> QED  BY <1>2, <2>1, ElsewhereNothingIsPaid DEF EnsureCanConsult, JobAt, authVars
  <1>3. CASE ReadCache(r)
    BY <1>3, LookingFinds
  <1>4. CASE QueryBureau(r)
    <2>1. UNCHANGED <<now, customer, stored, faults>> /\ JobAt(r, "query") /\ now \in Int /\ faults \in Int
      BY <1>4 DEF QueryBureau, authVars, BureauInv, BureauType, Time, AuthInv, AuthType
    <2>2. CASE JobEnds(r) /\ UNCHANGED queries
      <3>1. PICK j : job' = [job EXCEPT ![r] = j] /\ j.pc = "idle"
        BY <2>2, Ended
      <3> QED  BY <2>1, <2>2, <3>1, ElsewhereNothingIsPaid DEF JobAt
    <2>3. CASE queries' = Append(queries, now)
               /\ job' = [job EXCEPT ![r] = [job[r] EXCEPT !.pc = "read", !.used = now]]
      <3>1. PICK j : job' = [job EXCEPT ![r] = j] /\ j.pc = "read" /\ j.used = now
        <4> DEFINE j == [job[r] EXCEPT !.pc = "read", !.used = now]
        <4>1. j.pc = "read" /\ j.used = now
          BY HasAJob DEF Job
        <4> QED  BY <2>3, <4>1
      <3> QED  BY <2>1, <2>3, <3>1, AskingHolds
    <2> QED  BY <1>4, <2>2, <2>3 DEF QueryBureau
  <1>5. CASE ReadCustomer(r)
    <2>1. PICK j : job' = [job EXCEPT ![r] = j] /\ j.pc = "write" /\ j.used = job[r].used
      <3> DEFINE j == [job[r] EXCEPT !.pc = "write", !.seen = customer.email]
      <3>1. job' = [job EXCEPT ![r] = j]
        BY <1>5 DEF ReadCustomer
      <3>2. j.pc = "write" /\ j.used = job[r].used
        BY HasAJob DEF Job
      <3> HIDE DEF j
      <3> QED  BY <3>1, <3>2
    <2>2. /\ UNCHANGED <<now, customer, stored, queries, faults>> /\ job[r].pc = "read"
          /\ now \in Int /\ faults \in Int
      BY <1>5 DEF ReadCustomer, JobAt, authVars, BureauInv, BureauType, Time, AuthInv, AuthType
    <2>3. Holders' = Holders /\ (\A q \in Holders : job'[q].used = job[q].used) /\ AtQuery' \subseteq AtQuery
      BY <2>1, <2>2, Unmoved
    <2> QED  BY <2>2, <2>3, NothingIsPaid
  <1>6. CASE WriteConsultation(r)
    BY <1>6, StoringSettles
  <1>7. CASE Link(r)
    <2>1. PICK j : job' = [job EXCEPT ![r] = j] /\ j.pc \in {"backfill", "study"}
      BY <1>7, Gone DEF Link, JobPC
    <2> QED  BY <1>7, <2>1, ElsewhereNothingIsPaid DEF Link, JobAt
  <1>8. CASE BackfillEmail(r)
    <2>1. PICK j : job' = [job EXCEPT ![r] = j] /\ j.pc = "study"
      BY <1>8, Gone DEF BackfillEmail, JobPC
    <2>2. customer.present => customer'.present
      BY <1>8 DEF BackfillEmail, BureauInv, BureauType, Customer
    <2> QED  BY <1>8, <2>1, <2>2, ElsewhereNothingIsPaid DEF BackfillEmail, JobAt, authVars
  <1>9. CASE CreateStudy(r)
    <2>1. PICK j : job' = [job EXCEPT ![r] = j] /\ j.pc = "idle"
      BY <1>9, Ended DEF CreateStudy
    <2> QED  BY <1>9, <2>1, ElsewhereNothingIsPaid DEF CreateStudy, JobAt, authVars
  <1> QED  BY <1>1, <1>2, <1>3, <1>4, <1>5, <1>6, <1>7, <1>8, <1>9 DEF Consult

\* The steps of the authorization fail, and touch nothing that is paid.
LEMMA AuthorizingPaysNothing ==
  ASSUME AuthInv, BureauInv, AuthInv', BureauInv', PaidInv, Authorizing \/ UNCHANGED vars
  PROVE  PaidInv'
  <1>1. UNCHANGED bureauVars
    BY DEF Authorizing, vars
  <1>2. faults \in Int /\ (faults' = faults \/ faults' = faults + 1)
    <2>1. faults \in Int
      BY DEF AuthInv, AuthType
    <2>2. ASSUME NEW p \in Process, Die(p) PROVE faults' = faults + 1
      BY <2>2 DEF Die, Fail
    <2>3. ASSUME NEW r \in Request, RequestStep(r) \/ BeginRequest(r) PROVE faults' = faults
      BY <2>3 DEF RequestStep, BeginRequest, ReadIdentity, CreateDocument, SaveRequest
    <2>4. ASSUME NEW h \in Hook, Handle(h) PROVE faults' = faults
      BY <2>4 DEF Handle, IgnoreEvent, StartEvent, ReadState, MarkSigned, CheckRefusal, MarkRefused
    <2>5. ASSUME NEW d \in Doc, HolderActs(d) PROVE faults' = faults
      BY <2>5 DEF HolderActs
    <2>6. UNCHANGED vars => faults' = faults
      BY DEF vars, authVars
    <2> QED  BY <2>1, <2>2, <2>3, <2>4, <2>5, <2>6 DEF Authorizing
  <1>3. now \in Int /\ now' = now /\ queries' = queries /\ stored' = stored /\ customer' = customer
        /\ job' = job
    BY <1>1 DEF bureauVars, BureauInv, BureauType, Time
  <1>4. Holders' = Holders /\ AtQuery' = AtQuery
    BY <1>3 DEF Holders, AtQuery
  <1>5. now <= now' /\ faults <= faults'
    BY <1>2, <1>3
  <1> QED  BY <1>3, <1>4, <1>5, NothingIsPaid

LEMMA PaidPreserved == IInv /\ IInv' /\ PaidInv /\ [Next]_vars => PaidInv'
  <1> SUFFICES ASSUME AuthInv, BureauInv, AuthInv', BureauInv', PaidInv, [Next]_vars
               PROVE  PaidInv'
    BY IInvParts
  <1>1. ASSUME NEW r \in Request, NEW email \in Email, BeginStudy(r, email)
        PROVE  PaidInv'
    <2>1. PICK j : job' = [job EXCEPT ![r] = j] /\ j.pc = "gate"
      <3>1. [NoJob EXCEPT !.pc = "gate", !.email = email].pc = "gate"
        BY DEF NoJob
      <3> QED  BY <1>1, <3>1 DEF BeginStudy
    <2> QED  BY <1>1, <2>1, ElsewhereNothingIsPaid DEF BeginStudy, JobAt, authVars
  <1>2. CASE Tick
    <2>1. /\ now \in Int /\ now' = now + 1 /\ faults \in Int
          /\ UNCHANGED <<faults, queries, stored, customer, job>>
      BY <1>2 DEF Tick, authVars, AuthInv, AuthType, BureauInv, BureauType, Time
    <2>2. Holders' = Holders /\ AtQuery' = AtQuery
      BY <2>1 DEF Holders, AtQuery
    <2> QED  BY <2>1, <2>2, NothingIsPaid
  <1> QED  BY <1>1, <1>2, ConsultingPays, DyingLosesOne, AuthorizingPaysNothing DEF Next

LEMMA IInvHolds == Spec => []IInv
  BY InitEstablishes, NextPreserves, PTL DEF Spec

\* The rows, the consultations and the locals keep their types; studies and
\* credits add up to the credits there were.
THEOREM TypeHolds == Spec => []TypeOK
  <1>1. IInv => TypeOK
    BY DEF IInv
  <1> QED  BY <1>1, IInvHolds, PTL

\* The bureau is never asked about a holder who has not signed, whatever
\* refusals, re-sent documents and failures lie in between.
THEOREM ConsultedWithConsentHolds == Spec => []ConsultedWithConsent
  <1>1. IInv => ConsultedWithConsent
    BY DEF IInv
  <1> QED  BY <1>1, IInvHolds, PTL
LEMMA PaidInvHolds == Spec => []PaidInv
  <1>1. Init => PaidInv
    BY InitEstablishes, IInvParts, PaidAtFirst
  <1> QED  BY <1>1, IInvHolds, PaidPreserved, PTL DEF Spec

\* While a consultation is fresh its customer is paid for again only by the
\* requests that overlapped and by those that died before they stored theirs.
THEOREM PaidOncePerWindowHolds == Spec => []PaidOncePerWindow
  <1>1. IInv /\ PaidInv => PaidOncePerWindow
    BY IInvParts DEF BureauInv, BureauType, PaidInv, Paid, PaidOncePerWindow
  <1> QED  BY <1>1, IInvHolds, PaidInvHolds, PTL

\* What the bureau charged is stored or is about to be, but for one
\* consultation of each failure.
THEOREM PaidIsStoredHolds == Spec => []PaidIsStored
  <1>1. IInv /\ PaidInv => PaidIsStored
    <2> SUFFICES ASSUME AuthInv, BureauInv, PaidInv PROVE PaidIsStored
      BY IInvParts
    <2> DEFINE unclaimed ==
          {i \in DOMAIN queries :
             /\ queries[i] \notin stored
             /\ \A r \in Request : JobAt(r, "read") \/ JobAt(r, "write") => job[r].used # queries[i]}
    <2>1. PICK own \in [Request -> Nat] : Owned(own) /\ Cardinality(Lost(own)) <= faults
      BY DEF PaidInv, FewLost
    <2>2. unclaimed \subseteq Lost(own)
      BY <2>1 DEF Owned, Lost, Holders, JobAt
    <2>3. IsFiniteSet(Lost(own)) /\ Cardinality(Lost(own)) \in Nat /\ faults \in Nat
      BY Counted DEF AuthInv, AuthType
    <2> HIDE DEF unclaimed
    <2>4. Cardinality(unclaimed) <= Cardinality(Lost(own)) /\ Cardinality(unclaimed) \in Nat
      BY <2>2, <2>3, FS_Subset, FS_CardinalityType
    <2>5. Cardinality(unclaimed) <= faults
      BY <2>1, <2>3, <2>4
    <2> QED  BY <2>5 DEF unclaimed, PaidIsStored
  <1> QED  BY <1>1, IInvHolds, PaidInvHolds, PTL
=============================================================================
