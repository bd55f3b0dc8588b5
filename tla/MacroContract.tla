--------------------------- MODULE MacroContract ----------------------------
(***************************************************************************)
(* The macro contract of a company, one row by company id: it is sent when *)
(* a pack is paid (or asked for again by the company), signed by the       *)
(* client in Zapsign and by Creditia through the API, and its signature    *)
(* activates the company and opens the routes that require a contract.     *)
(* Rows of different companies share nothing, so there is one company.     *)
(*                                                                         *)
(* A Sender runs sendContractForCompany and a Hook handles a delivery of   *)
(* Zapsign; an action is one database or Zapsign call, decided by what was *)
(* read before.                                                            *)
(*                                                                         *)
(* Left out: the data of the template, the checks of configuration that    *)
(* stop a sending before its first write, the URL of the signature and the *)
(* backup of the signed PDF, whose failure is only logged.                 *)
(***************************************************************************)
EXTENDS Zapsign

CONSTANTS
  Sender, Hook,
  ApiSignature,  \* whether Creditia signs through the API
  MaxFaults      \* bound: calls that fail and processes that die

Process == Sender \cup Hook

VARIABLES
  row,     \* the row of contract_signatures
  active,  \* companies.is_active
  proc,    \* locals of each process
  faults,
  overtaken  \* history: a contract was sent again past work on the one before

ASSUME MacroContractAssumption ==
  /\ Sender \cap Hook = {}
  /\ ApiSignature \in BOOLEAN
  /\ MaxFaults \in Nat

vars == <<row, active, proc, faults, overtaken, zapsignVars>>

-----------------------------------------------------------------------------
\* doc: provider_doc_token, 0 when there is no row.  signer: the token of
\* Creditia's signer.  Dates are whether they are set.
Row == [doc : Doc \cup {0}, status : {"none", "pending_contract", "signed", "refused"},
        signer : 0..MaxSigners, creditiaSignedAt : BOOLEAN,
        signedAt : BOOLEAN, refusedAt : BOOLEAN,
        firstViewedAt : BOOLEAN, viewed : BOOLEAN]
NoRow == [doc |-> 0, status |-> "none", signer |-> 0, creditiaSignedAt |-> FALSE,
          signedAt |-> FALSE, refusedAt |-> FALSE, firstViewedAt |-> FALSE, viewed |-> FALSE]

PC == {"idle", "create", "add", "sign", "register",
       "state", "reconcile", "keep", "resign", "decide",
       "check", "refuse", "count"}

\* signer, confirmed: Creditia's signer and date in the row that was read.
\* status, signers, stamped: the document as getDocState answered.
Local == [pc : PC, doc : Doc \cup {0}, again : BOOLEAN, by : 0..MaxSigners,
          signer : 0..MaxSigners, confirmed : BOOLEAN,
          status : Answer, signers : SUBSET Signer, stamped : SUBSET Signer]
Idle == [pc |-> "idle", doc |-> 0, again |-> FALSE, by |-> 0, signer |-> 0,
         confirmed |-> FALSE, status |-> "absent", signers |-> {}, stamped |-> {}]

TypeOK ==
  /\ ZapsignType
  /\ row \in Row
  /\ active \in BOOLEAN
  /\ proc \in [Process -> Local]
  /\ faults \in 0..MaxFaults
  /\ overtaken \in BOOLEAN

Init ==
  /\ ZapsignInit
  /\ row = NoRow
  /\ active = FALSE
  /\ proc = [p \in Process |-> Idle]
  /\ faults = 0
  /\ overtaken = FALSE

At(p, pc) == proc[p].pc = pc
Goto(p, pc) == proc' = [proc EXCEPT ![p] = [proc[p] EXCEPT !.pc = pc]]
Finish(p) == proc' = [proc EXCEPT ![p] = Idle]
Fail == faults < MaxFaults /\ faults' = faults + 1

-----------------------------------------------------------------------------
(***************************************************************************)
(* sendContractForCompany.                                                 *)
(***************************************************************************)
\* Mutant: a contract is sent again whenever it is asked for.
StartSendAlways(s) ==
  /\ At(s, "idle")
  /\ proc' = [proc EXCEPT ![s] = [Idle EXCEPT !.pc = "create", !.again = row.doc # 0]]
  /\ UNCHANGED <<row, active, faults, zapsignVars>>

\* A contract that is pending or signed is not sent again.
StartSend(s) ==
  /\ At(s, "idle")
  /\ row.doc = 0 \/ row.refusedAt
  /\ proc' = [proc EXCEPT ![s] = [Idle EXCEPT !.pc = "create", !.again = row.doc # 0]]
  /\ UNCHANGED <<row, active, faults, zapsignVars>>

CreateDocument(s, d) ==
  /\ At(s, "create")
  /\ CreateDoc(d)
  /\ proc' = [proc EXCEPT ![s] = [proc[s] EXCEPT
                !.pc = IF ApiSignature THEN "add" ELSE "register", !.doc = d]]
  /\ UNCHANGED <<row, active, faults, due>>

\* ensureCreditiaSigner: a new document has no signer of Creditia.
AddCreditia(s) ==
  /\ At(s, "add")
  /\ AddSigner(proc[s].doc)
  /\ proc' = [proc EXCEPT ![s] = [proc[s] EXCEPT
                !.pc = "sign", !.signer = NewSigner(proc[s].doc)]]
  /\ UNCHANGED <<row, active, faults, due>>

\* A token that was answered is kept even if the signature fails.
SignCreditia(s) ==
  /\ At(s, "sign")
  /\ SignAsAccountUser(proc[s].doc, proc[s].signer)
  /\ Goto(s, "register")
  /\ UNCHANGED <<row, active, faults, due>>

\* The failure of either call is only logged; the signer may have been added.
CreditiaFails(s) ==
  /\ proc[s].pc \in {"add", "sign"}
  /\ Fail
  /\ \/ UNCHANGED doc
     \/ At(s, "add") /\ AddSigner(proc[s].doc)
  /\ Goto(s, "register")
  /\ UNCHANGED <<row, active, due>>

\* Mutants: the code of another parameter type; a refusal that is not cleared.
NewRowForeign(s) == [NoRow EXCEPT !.doc = proc[s].doc, !.status = "pending",
                                  !.signer = proc[s].signer]
NewRowRefused(s) == [row EXCEPT !.doc = proc[s].doc, !.status = "pending_contract",
                                !.signer = proc[s].signer]

NewRow(s) == [NoRow EXCEPT !.doc = proc[s].doc, !.status = "pending_contract",
                           !.signer = proc[s].signer]

\* What is at work, by id of the row, on a contract that s sends again: a
\* delivery of the document that is replaced, or another sending.
Overtakes(s) ==
  /\ proc[s].again
  /\ \/ \E h \in Hook : proc[h].doc = row.doc
     \/ \E other \in Sender \ {s} : proc[other].again

\* The row of a refused contract is used again; a new one is created, unless
\* the unique index on the company refuses it.
Register(s) ==
  /\ At(s, "register")
  /\ row' = IF proc[s].again \/ row.doc = 0 THEN NewRow(s) ELSE row
  /\ overtaken' = (overtaken \/ Overtakes(s))
  /\ Finish(s)
  /\ UNCHANGED <<active, faults, zapsignVars>>

\* The statements before the row is written.
Prepare(s) ==
  \/ StartSend(s) \/ AddCreditia(s) \/ SignCreditia(s) \/ CreditiaFails(s)
  \/ \E d \in Doc : CreateDocument(s, d)

Send(s) == Register(s) \/ (Prepare(s) /\ UNCHANGED overtaken)

-----------------------------------------------------------------------------
(***************************************************************************)
(* Deliveries.  findByDocToken, for the dispatcher and for the handler: an *)
(* event of no row, or that the row has already seen, is answered at once. *)
(***************************************************************************)
Stale(e) ==
  \/ row.doc # e.doc
  \/ e.kind = "signed" /\ row.signedAt
  \/ e.kind = "refused" /\ (row.signedAt \/ row.refusedAt)

IgnoreEvent(h, e) ==
  /\ At(h, "idle")
  /\ Stale(e)
  /\ due' = due \ {e}
  /\ UNCHANGED <<row, active, proc, faults, doc>>

StartEvent(h, e) ==
  /\ At(h, "idle")
  /\ ~Stale(e)
  /\ e.kind # "viewed"
  /\ proc' = [proc EXCEPT ![h] = [Idle EXCEPT
                !.pc = IF e.kind = "signed" THEN "state" ELSE "check",
                !.doc = e.doc, !.by = e.by,
                !.signer = row.signer, !.confirmed = row.creditiaSignedAt]]
  /\ UNCHANGED <<row, active, faults, zapsignVars>>

Answered(h, kind) ==
  /\ Finish(h)
  /\ due' = due \ {[kind |-> kind, doc |-> proc[h].doc, by |-> proc[h].by]}

\* Mutant: the status is taken from the event.
ReadPayload(h) ==
  /\ At(h, "state")
  /\ proc' = [proc EXCEPT ![h] = [proc[h] EXCEPT !.pc = "decide", !.status = "signed"]]
  /\ UNCHANGED <<row, active, faults, zapsignVars>>

\* getDocState in handleDocSigned.
ReadState(h) ==
  /\ At(h, "state")
  /\ proc' = [proc EXCEPT ![h] = [proc[h] EXCEPT
                !.pc = IF ApiSignature /\ ~proc[h].confirmed THEN "reconcile" ELSE "decide",
                !.status = DocStatus(proc[h].doc),
                !.signers = doc[proc[h].doc].signers,
                !.stamped = doc[proc[h].doc].stamped]]
  /\ UNCHANGED <<row, active, faults, zapsignVars>>

-----------------------------------------------------------------------------
(***************************************************************************)
(* reconcileCreditiaSignature.                                             *)
(***************************************************************************)
Stamped(h) == proc[h].signer \in proc[h].stamped

ConfirmCreditia(h) ==
  /\ At(h, "reconcile")
  /\ Stamped(h)
  /\ row' = [row EXCEPT !.creditiaSignedAt = TRUE]
  /\ Goto(h, "decide")
  /\ UNCHANGED <<active, faults, zapsignVars>>

\* Mutant: the signers of the document are not looked at.
EnsureNewSigner(h) ==
  /\ At(h, "reconcile")
  /\ ~Stamped(h)
  /\ AddSigner(proc[h].doc)
  /\ proc' = [proc EXCEPT ![h] = [proc[h] EXCEPT
                !.pc = "keep", !.signer = NewSigner(proc[h].doc)]]
  /\ UNCHANGED <<row, active, faults, due>>

\* ensureCreditiaSigner: the token known, a signer found in the state that was
\* read, or a new one.
EnsureSigner(h) ==
  /\ At(h, "reconcile")
  /\ ~Stamped(h)
  /\ \/ /\ proc[h].signer # 0
        /\ Goto(h, "resign")
        /\ UNCHANGED doc
     \/ /\ proc[h].signer = 0
        /\ \E signer \in proc[h].signers :
              /\ \A other \in proc[h].signers : signer <= other
              /\ proc' = [proc EXCEPT ![h] = [proc[h] EXCEPT !.pc = "keep", !.signer = signer]]
        /\ UNCHANGED doc
     \/ /\ proc[h].signer = 0 /\ proc[h].signers = {}
        /\ AddSigner(proc[h].doc)
        /\ proc' = [proc EXCEPT ![h] = [proc[h] EXCEPT
                      !.pc = "keep", !.signer = NewSigner(proc[h].doc)]]
  /\ UNCHANGED <<row, active, faults, due>>

\* The token is stored, by id of the row, before signing.
KeepSigner(h) ==
  /\ At(h, "keep")
  /\ row' = [row EXCEPT !.signer = proc[h].signer]
  /\ Goto(h, "resign")
  /\ UNCHANGED <<active, faults, zapsignVars>>

\* Mutant: the signer is stored and its signature is not asked for.
SignLater(h) ==
  /\ At(h, "resign")
  /\ Goto(h, "decide")
  /\ UNCHANGED <<row, active, faults, zapsignVars>>

SignAgain(h) ==
  /\ At(h, "resign")
  /\ SignAsAccountUser(proc[h].doc, proc[h].signer)
  /\ Goto(h, "decide")
  /\ UNCHANGED <<row, active, faults, due>>

\* A repair that fails is only logged; the signer may have been added.
ReconcileFails(h) ==
  /\ proc[h].pc \in {"reconcile", "keep", "resign"}
  /\ ~(At(h, "reconcile") /\ Stamped(h))
  /\ Fail
  /\ \/ UNCHANGED doc
     \/ /\ At(h, "reconcile") /\ proc[h].signer = 0 /\ proc[h].signers = {}
        /\ AddSigner(proc[h].doc)
  /\ Goto(h, "decide")
  /\ UNCHANGED <<row, active, overtaken, due>>

-----------------------------------------------------------------------------
\* Not every signer has signed: wait for the next event.
StillPending(h) ==
  /\ At(h, "decide")
  /\ proc[h].status # "signed"
  /\ Answered(h, "signed")
  /\ UNCHANGED <<row, active, faults, doc>>

\* Mutant: any signature activates the company.
MarkOnAnySignature(h) ==
  /\ At(h, "decide")
  /\ row' = [row EXCEPT !.status = "signed", !.signedAt = TRUE]
  /\ active' = TRUE
  /\ Answered(h, "signed")
  /\ UNCHANGED <<faults, doc>>

\* markSignedAndActivate: one transaction, on the row that was read.
MarkSignedAndActivate(h) ==
  /\ At(h, "decide")
  /\ proc[h].status = "signed"
  /\ IF row.signedAt
     THEN UNCHANGED <<row, active>>
     ELSE /\ row' = [row EXCEPT !.status = "signed", !.signedAt = TRUE]
          /\ active' = TRUE
  /\ Answered(h, "signed")
  /\ UNCHANGED <<faults, doc>>

-----------------------------------------------------------------------------
\* handleDocRefused, after the row was found neither signed nor refused.
CheckRefusal(h) ==
  /\ At(h, "check")
  /\ IF DocStatus(proc[h].doc) = "signed"
     THEN Answered(h, "refused")
     ELSE Goto(h, "refuse") /\ UNCHANGED due
  /\ UNCHANGED <<row, active, faults, doc>>

MarkRefused(h) ==
  /\ At(h, "refuse")
  /\ row' = [row EXCEPT !.status = "refused", !.refusedAt = TRUE]
  /\ Answered(h, "refused")
  /\ UNCHANGED <<active, faults, doc>>

\* handleDocViewed and registerView: the first view, then the counter.
FirstView(h, e) ==
  /\ At(h, "idle")
  /\ e.kind = "viewed"
  /\ ~Stale(e)
  /\ row' = [row EXCEPT !.firstViewedAt = TRUE]
  /\ proc' = [proc EXCEPT ![h] = [Idle EXCEPT !.pc = "count", !.doc = e.doc]]
  /\ UNCHANGED <<active, faults, zapsignVars>>

CountView(h) ==
  /\ At(h, "count")
  /\ row' = [row EXCEPT !.viewed = TRUE]
  /\ Answered(h, "viewed")
  /\ UNCHANGED <<active, faults, doc>>

Handle(h) ==
  /\ \/ ReadState(h) \/ ConfirmCreditia(h) \/ EnsureSigner(h) \/ KeepSigner(h) \/ SignAgain(h)
     \/ StillPending(h) \/ MarkSignedAndActivate(h)
     \/ CheckRefusal(h) \/ MarkRefused(h) \/ CountView(h)
     \/ \E e \in due : IgnoreEvent(h, e) \/ StartEvent(h, e) \/ FirstView(h, e)
  /\ UNCHANGED overtaken

-----------------------------------------------------------------------------
\* A process dies, or a call it does not protect fails: it goes no further.
Die(p) ==
  /\ ~At(p, "idle")
  /\ Fail
  /\ Finish(p)
  /\ UNCHANGED <<row, active, overtaken, zapsignVars>>

ClientActs(d) ==
  /\ ClientOpens(d) \/ ClientSigns(d) \/ ClientRefuses(d)
  /\ UNCHANGED <<row, active, proc, faults, overtaken>>

CreditiaStamp(d) ==
  /\ \E signer \in Signer : Stamp(d, signer)
  /\ UNCHANGED <<row, active, proc, faults, overtaken>>

Next ==
  \/ \E s \in Sender : Send(s)
  \/ \E h \in Hook : Handle(h) \/ ReconcileFails(h)
  \/ \E p \in Process : Die(p)
  \/ \E d \in Doc : ClientActs(d) \/ CreditiaStamp(d)

Spec == Init /\ [][Next]_vars

\* Zapsign repeats an event until it is answered and stamps what it queued; a
\* handler that has begun goes on.  Nobody must send, sign or refuse.
FairSpec ==
  /\ Spec
  /\ \A h \in Hook : WF_vars(Handle(h))
  /\ \A d \in Doc : WF_vars(CreditiaStamp(d))

-----------------------------------------------------------------------------
\* A company is activated by a signature: some document of it was signed by
\* the client, whatever the deliveries that raced for it.
ActiveBySignature == active => \E d \in Doc : doc[d].client = "signed"

\* The contract that opens the company's routes is the one in the row: the
\* document whose token it holds was signed by the client.  Every statement is
\* by id of the row, so this fails in one way only: the contract is sent again
\* past a delivery, or another sending, of the contract that was refused.
SignedByClient == row.signedAt => overtaken \/ doc[row.doc].client = "signed"

\* The row of an active company stays signed, with the same document, and is
\* not refused afterwards: ContractSignedGuard closes again only when a
\* sending overtakes another one.
SignatureKept ==
  [][row.signedAt /\ ~overtaken' => row'.signedAt /\ row'.doc = row.doc]_vars

\* A refusal in the row is that of its own document, not of the document that
\* was replaced when the contract was sent again, unless overtaken by it.
RefusalIsReal == row.refusedAt => overtaken \/ doc[row.doc].client = "refused"

\* Creditia is added to a document once, and again only by deliveries that are
\* handled at the same time: a repair whose answer was lost, or that died, is
\* not repeated by a later delivery.  A second signer would never sign.
SignersOfDeliveries ==
  \A d \in Doc : \/ Cardinality(doc[d].signers) <= 1
                 \/ Cardinality(doc[d].signers) <= Cardinality(Hook)

\* A signature of the client whose event finds the row ends in an active
\* company, though Creditia's own signature failed when the document was sent:
\* the deliveries repair it.
SignedActivates ==
  \A d \in Doc :
    (row.doc = d /\ [kind |-> "signed", doc |-> d, by |-> 0] \in due) ~> active

\* The same of a company that has refused no contract, unless two deliveries
\* at once have added Creditia twice.
FirstContractActivates ==
  \A d \in Doc :
    (/\ row.doc = d
     /\ [kind |-> "signed", doc |-> d, by |-> 0] \in due
     /\ \A e \in Doc : doc[e].client # "refused")
    ~> (active \/ Cardinality(doc[d].signers) > 1)
=============================================================================
