----------------------- MODULE CustomerAuthorizations -----------------------
(***************************************************************************)
(* The authorization that the holder of an identity signs before a company *)
(* may consult them in the credit bureau: one row by company, identity and *)
(* type, so here one row.  A Request asks for it; a Hook handles an event  *)
(* of Zapsign.  An action is one database or Zapsign call.                 *)
(*                                                                         *)
(* Left out: the data of the template, the checks of the type of identity  *)
(* and of the company, which stop a request before its first write, and    *)
(* the backup of the PDF.  revoked_at is read and cleared by the code but  *)
(* nothing sets it, so no row is ever revoked.                             *)
(***************************************************************************)
EXTENDS Zapsign

CONSTANTS
  Request, Hook,
  MaxFaults  \* bound: calls that fail and processes that die

Process == Request \cup Hook

VARIABLES
  auth,   \* the row of customer_authorizations
  proc,   \* locals of each process
  faults

ASSUME AuthorizationAssumption == Request \cap Hook = {} /\ MaxFaults \in Nat

authVars == <<auth, proc, faults, zapsignVars>>

-----------------------------------------------------------------------------
\* doc: provider_doc_token, 0 without a row.  Dates are whether they are set;
\* customer: whether customer_id is.
AuthRow == [doc : Doc \cup {0}, status : {"none", "pending", "signed", "refused"},
            signedAt : BOOLEAN, refusedAt : BOOLEAN, customer : BOOLEAN]
NoAuth == [doc |-> 0, status |-> "none", signedAt |-> FALSE, refusedAt |-> FALSE,
           customer |-> FALSE]

AuthPC == {"idle", "request", "create", "save", "state", "mark", "check", "refuse"}
AuthLocal == [pc : AuthPC, doc : Doc \cup {0}, again : BOOLEAN]
AuthIdle == [pc |-> "idle", doc |-> 0, again |-> FALSE]

AuthType ==
  /\ ZapsignType
  /\ auth \in AuthRow
  /\ proc \in [Process -> AuthLocal]
  /\ faults \in 0..MaxFaults

AuthInit ==
  /\ ZapsignInit
  /\ auth = NoAuth
  /\ proc = [p \in Process |-> AuthIdle]
  /\ faults = 0

At(p, pc) == proc[p].pc = pc
Goto(p, pc) == proc' = [proc EXCEPT ![p] = [proc[p] EXCEPT !.pc = pc]]
Finish(p) == proc' = [proc EXCEPT ![p] = AuthIdle]
Fail == faults < MaxFaults /\ faults' = faults + 1

AwaitingSignature == auth.doc # 0 /\ ~auth.signedAt /\ ~auth.refusedAt

\* Mutant: a request that was answered authorizes.
AuthorizedOnceAnswered == auth.doc # 0 /\ ~AwaitingSignature

\* ensureCanConsult and resolveForConsult, as of this read.
Authorized == auth.signedAt

-----------------------------------------------------------------------------
(***************************************************************************)
(* requestAuthorization.                                                   *)
(***************************************************************************)
BeginRequest(r) ==
  /\ At(r, "idle")
  /\ Goto(r, "request")
  /\ UNCHANGED <<auth, faults, zapsignVars>>

\* findByIdentity: signed or waiting for the signature is not sent again.
ReadIdentity(r) ==
  /\ At(r, "request")
  /\ IF Authorized \/ AwaitingSignature
     THEN Finish(r)
     ELSE proc' = [proc EXCEPT ![r] = [AuthIdle EXCEPT !.pc = "create", !.again = auth.doc # 0]]
  /\ UNCHANGED <<auth, faults, zapsignVars>>

CreateDocument(r, d) ==
  /\ At(r, "create")
  /\ CreateDoc(d)
  /\ proc' = [proc EXCEPT ![r] = [proc[r] EXCEPT !.pc = "save", !.doc = d]]
  /\ UNCHANGED <<auth, faults, due>>

\* Mutant: the code of a contract.
SentAsContract(r) == [NoAuth EXCEPT !.doc = proc[r].doc, !.status = "pending_contract",
                                    !.customer = auth.customer]

Sent(r) == [NoAuth EXCEPT !.doc = proc[r].doc, !.status = "pending",
                          !.customer = auth.customer]

\* The row read is used again; a new one may be refused by the unique index.
SaveRequest(r) ==
  /\ At(r, "save")
  /\ auth' = IF proc[r].again \/ auth.doc = 0 THEN Sent(r) ELSE auth
  /\ Finish(r)
  /\ UNCHANGED <<faults, zapsignVars>>

RequestStep(r) ==
  \/ ReadIdentity(r) \/ SaveRequest(r)
  \/ \E d \in Doc : CreateDocument(r, d)

-----------------------------------------------------------------------------
(***************************************************************************)
(* handleDocSigned and handleDocRefused.                                   *)
(***************************************************************************)
Stale(e) ==
  \/ auth.doc # e.doc
  \/ auth.signedAt
  \/ e.kind = "refused" /\ auth.refusedAt
  \/ e.kind = "viewed"

IgnoreEvent(h, e) ==
  /\ At(h, "idle")
  /\ Stale(e)
  /\ due' = due \ {e}
  /\ UNCHANGED <<auth, proc, faults, doc>>

StartEvent(h, e) ==
  /\ At(h, "idle")
  /\ ~Stale(e)
  /\ proc' = [proc EXCEPT ![h] = [AuthIdle EXCEPT
                !.pc = IF e.kind = "signed" THEN "state" ELSE "check", !.doc = e.doc]]
  /\ UNCHANGED <<auth, faults, zapsignVars>>

Answered(h, kind) ==
  /\ Finish(h)
  /\ due' = due \ {[kind |-> kind, doc |-> proc[h].doc, by |-> 0]}

\* getDocState.
ReadState(h) ==
  /\ At(h, "state")
  /\ IF DocStatus(proc[h].doc) = "signed"
     THEN Goto(h, "mark") /\ UNCHANGED due
     ELSE Answered(h, "signed")
  /\ UNCHANGED <<auth, faults, doc>>

\* markSigned claims the row that was read if it is not signed.
MarkSigned(h) ==
  /\ At(h, "mark")
  /\ auth' = IF auth.signedAt THEN auth
             ELSE [auth EXCEPT !.status = "signed", !.signedAt = TRUE]
  /\ Answered(h, "signed")
  /\ UNCHANGED <<faults, doc>>

CheckRefusal(h) ==
  /\ At(h, "check")
  /\ IF DocStatus(proc[h].doc) = "signed"
     THEN Answered(h, "refused")
     ELSE Goto(h, "refuse") /\ UNCHANGED due
  /\ UNCHANGED <<auth, faults, doc>>

\* The row that was read is written by id.
MarkRefused(h) ==
  /\ At(h, "refuse")
  /\ auth' = [auth EXCEPT !.status = "refused", !.refusedAt = TRUE]
  /\ Answered(h, "refused")
  /\ UNCHANGED <<faults, doc>>

Handle(h) ==
  \/ ReadState(h) \/ MarkSigned(h) \/ CheckRefusal(h) \/ MarkRefused(h)
  \/ \E e \in due : IgnoreEvent(h, e) \/ StartEvent(h, e)

\* linkCustomer: only the row without a customer; nothing happens otherwise.
LinkCustomer == auth' = IF auth.doc = 0 THEN auth ELSE [auth EXCEPT !.customer = TRUE]

Die(p) ==
  /\ ~At(p, "idle")
  /\ Fail
  /\ Finish(p)
  /\ UNCHANGED <<auth, zapsignVars>>

HolderActs(d) ==
  /\ ClientSigns(d) \/ ClientRefuses(d)
  /\ UNCHANGED <<auth, proc, faults>>
=============================================================================
