------------------------ MODULE MacroContractProofs -------------------------
(***************************************************************************)
(* The macro contract, for any number of documents, signers, senders,      *)
(* deliveries and failures.                                                *)
(***************************************************************************)
EXTENDS MacroContract, FiniteSetTheorems, TLAPS

-----------------------------------------------------------------------------
(***************************************************************************)
(* Types, and the signature that activates.                                *)
(***************************************************************************)
\* What the client did to a document is not undone.
DocsLast ==
  \A d \in Doc : /\ doc[d].client \in {"signed", "refused"} => doc'[d].client = doc[d].client
                 /\ doc[d].client # "absent" => doc'[d].client # "absent"

\* What a process holds: a status that was read signed is that of a document
\* the client has signed, and it works on a document, for a signer.
Sound(l, docs) ==
  /\ l.status = "signed" => docs[l.doc].client = "signed"
  /\ IF l.pc \in {"idle", "create"} THEN l.status = "absent" ELSE l.doc \in Doc
  /\ l.pc \in {"sign", "keep", "resign"} => l.signer \in Signer

LocalsSound == \A p \in Process : Sound(proc[p], doc)

IInv == TypeOK /\ LocalsSound /\ ActiveBySignature

LEMMA HasLocals ==
  ASSUME TypeOK, NEW p \in Process
  PROVE  /\ proc[p] \in Local /\ proc[p].doc \in Doc \cup {0} /\ proc[p].signer \in 0..MaxSigners
         /\ proc[p].by \in 0..MaxSigners /\ proc[p].again \in BOOLEAN /\ proc[p].confirmed \in BOOLEAN
         /\ proc[p].status \in Answer /\ proc[p].signers \in SUBSET Signer
         /\ proc[p].stamped \in SUBSET Signer
  BY DEF TypeOK, Local

LEMMA HasFields ==
  ASSUME ZapsignType, NEW d \in Doc
  PROVE  /\ doc[d] \in Document /\ doc[d].client \in Answer /\ doc[d].opened \in BOOLEAN
         /\ doc[d].signers \in SUBSET Signer /\ doc[d].queued \in SUBSET Signer
         /\ doc[d].stamped \in SUBSET Signer
  BY DEF ZapsignType, Document

LEMMA IdleIsLocal == Idle \in Local /\ Idle.pc = "idle" /\ Idle.status = "absent"
  <1>1. 0 \in 0..MaxSigners
    BY ZapsignAssumption DEF ZapsignAssumption
  <1> QED  BY <1>1 DEF Idle, Local, PC, Answer

\* A document is replaced by another that keeps what the client did.
LEMMA DocChanges ==
  ASSUME ZapsignType, NEW d \in Doc, NEW new \in Document, doc' = [doc EXCEPT ![d] = new],
         doc[d].client \in {"signed", "refused"} => new.client = doc[d].client,
         doc[d].client # "absent" => new.client # "absent"
  PROVE  doc' \in [Doc -> Document] /\ DocsLast /\ doc'[d] = new
         /\ \A e \in Doc \ {d} : doc'[e] = doc[e]
  BY DEF ZapsignType, DocsLast

LEMMA AddSignerKeeps ==
  ASSUME ZapsignType, NEW d \in Doc, AddSigner(d)
  PROVE  /\ NewSigner(d) \in Signer
         /\ doc' \in [Doc -> Document] /\ DocsLast
         /\ doc'[d].signers = doc[d].signers \cup {NewSigner(d)} /\ doc'[d].client = doc[d].client
         /\ \A e \in Doc \ {d} : doc'[e] = doc[e]
  <1> DEFINE signers == doc[d].signers \cup {NewSigner(d)}  new == [doc[d] EXCEPT !.signers = signers]
  <1>1. NewSigner(d) \in Signer /\ signers \in SUBSET Signer /\ doc' = [doc EXCEPT ![d] = new]
    BY HasFields DEF AddSigner
  <1> HIDE DEF signers
  <1>2. new \in Document /\ new.client = doc[d].client /\ new.signers = signers
    BY <1>1, HasFields DEF Document
  <1> HIDE DEF new
  <1>3. doc' \in [Doc -> Document] /\ DocsLast /\ doc'[d] = new /\ \A e \in Doc \ {d} : doc'[e] = doc[e]
    BY <1>1, <1>2, DocChanges
  <1> QED  BY <1>1, <1>2, <1>3 DEF signers

LEMMA SignKeeps ==
  ASSUME ZapsignType, NEW d \in Doc, NEW signer \in Signer, SignAsAccountUser(d, signer)
  PROVE  /\ doc' \in [Doc -> Document] /\ DocsLast
         /\ \A e \in Doc : doc'[e].signers = doc[e].signers /\ doc'[e].client = doc[e].client
  <1> DEFINE queued == doc[d].queued \cup ({signer} \ doc[d].stamped)
             new == [doc[d] EXCEPT !.queued = queued]
  <1>1. queued \in SUBSET Signer /\ doc' = [doc EXCEPT ![d] = new]
    BY HasFields DEF SignAsAccountUser
  <1> HIDE DEF queued
  <1>2. new \in Document /\ new.client = doc[d].client /\ new.signers = doc[d].signers
    BY <1>1, HasFields DEF Document
  <1> HIDE DEF new
  <1>3. doc' \in [Doc -> Document] /\ DocsLast /\ doc'[d] = new /\ \A e \in Doc \ {d} : doc'[e] = doc[e]
    BY <1>1, <1>2, DocChanges
  <1> QED  BY <1>2, <1>3

LEMMA CreateDocKeeps ==
  ASSUME ZapsignType, NEW d \in Doc, CreateDoc(d)
  PROVE  /\ doc' \in [Doc -> Document] /\ DocsLast
         /\ doc'[d].signers = {} /\ doc'[d].client = "pending" /\ doc[d].client = "absent"
         /\ \A e \in Doc \ {d} : doc'[e] = doc[e]
  <1> DEFINE new == [NoDocument EXCEPT !.client = "pending"]
  <1>1. doc[d].client = "absent" /\ doc' = [doc EXCEPT ![d] = new]
    BY DEF CreateDoc
  <1>2. new \in Document /\ new.client = "pending" /\ new.signers = {}
    BY DEF NoDocument, Document, Answer
  <1> HIDE DEF new
  <1>3. doc' \in [Doc -> Document] /\ DocsLast /\ doc'[d] = new /\ \A e \in Doc \ {d} : doc'[e] = doc[e]
    BY <1>1, <1>2, DocChanges
  <1> QED  BY <1>1, <1>2, <1>3

\* The client acts, or a signature of Creditia is stamped.
LEMMA ZapsignKeeps ==
  ASSUME ZapsignType, NEW d \in Doc, ClientActs(d) \/ CreditiaStamp(d)
  PROVE  /\ ZapsignType' /\ DocsLast /\ \A e \in Doc : doc'[e].signers = doc[e].signers
         /\ \A e \in due' \ due : e.kind = "refused" => doc'[e.doc].client = "refused"
  <1>1. ASSUME ClientOpens(d)
        PROVE  \E new \in Document, event \in Event :
                 /\ doc' = [doc EXCEPT ![d] = new] /\ due' = due \cup {event}
                 /\ new.client = doc[d].client /\ new.signers = doc[d].signers
                 /\ event.kind = "viewed"
    <2> DEFINE new == [doc[d] EXCEPT !.opened = TRUE]  event == [kind |-> "viewed", doc |-> d, by |-> 0]
    <2>1. new \in Document /\ new.client = doc[d].client /\ new.signers = doc[d].signers
      BY HasFields DEF Document
    <2>2. event \in Event /\ event.kind = "viewed"
      BY ZapsignAssumption DEF ZapsignAssumption, Event
    <2>3. doc' = [doc EXCEPT ![d] = new] /\ due' = due \cup {event}
      BY <1>1 DEF ClientOpens, Post
    <2> HIDE DEF new, event
    <2> QED  BY <2>1, <2>2, <2>3
  <1>2. ASSUME NEW answer \in {"signed", "refused"}, ClientAnswers(d, answer)
        PROVE  \E new \in Document, event \in Event :
                 /\ doc' = [doc EXCEPT ![d] = new] /\ due' = due \cup {event}
                 /\ new.client = answer /\ doc[d].client = "pending" /\ new.signers = doc[d].signers
                 /\ event.kind = answer /\ event.doc = d
    <2> DEFINE new == [doc[d] EXCEPT !.client = answer]  event == [kind |-> answer, doc |-> d, by |-> 0]
    <2>1. new \in Document /\ new.client = answer /\ new.signers = doc[d].signers
      BY HasFields DEF Document, Answer
    <2>2. event \in Event /\ event.kind = answer /\ event.doc = d
      BY ZapsignAssumption DEF ZapsignAssumption, Event
    <2>3. doc' = [doc EXCEPT ![d] = new] /\ due' = due \cup {event} /\ doc[d].client = "pending"
      BY <1>2 DEF ClientAnswers, Post
    <2> HIDE DEF new, event
    <2> QED  BY <2>1, <2>2, <2>3
  <1>3. ASSUME NEW signer \in Signer, Stamp(d, signer)
        PROVE  \E new \in Document, event \in Event :
                 /\ doc' = [doc EXCEPT ![d] = new] /\ due' = due \cup {event}
                 /\ new.client = doc[d].client /\ new.signers = doc[d].signers
                 /\ event.kind = "signed"
    <2> DEFINE queued == doc[d].queued \ {signer}  stamped == doc[d].stamped \cup {signer}
               new == [doc[d] EXCEPT !.queued = queued, !.stamped = stamped]
               event == [kind |-> "signed", doc |-> d, by |-> signer]
    <2>1. doc' = [doc EXCEPT ![d] = new] /\ due' = due \cup {event}
      BY <1>3 DEF Stamp, Post
    <2>2. queued \in SUBSET Signer /\ stamped \in SUBSET Signer
      BY HasFields
    <2> HIDE DEF queued, stamped
    <2>3. new \in Document /\ new.client = doc[d].client /\ new.signers = doc[d].signers
      BY <2>2, HasFields DEF Document
    <2>4. event \in Event /\ event.kind = "signed"
      BY ZapsignAssumption DEF ZapsignAssumption, Event, Signer
    <2> HIDE DEF new, event
    <2> QED  BY <2>1, <2>3, <2>4
  <1>4. PICK new \in Document, event \in Event :
          /\ doc' = [doc EXCEPT ![d] = new] /\ due' = due \cup {event}
          /\ new.signers = doc[d].signers
          /\ new.client = doc[d].client \/ (doc[d].client = "pending" /\ new.client \in {"signed", "refused"})
          /\ event.kind = "refused" => event.doc = d /\ new.client = "refused"
    <2>1. CASE ClientOpens(d)
      BY <1>1, <2>1
    <2>2. CASE ClientAnswers(d, "signed") \/ ClientAnswers(d, "refused")
      BY <1>2, <2>2
    <2>3. CASE \E signer \in Signer : Stamp(d, signer)
      BY <1>3, <2>3
    <2> QED  BY <2>1, <2>2, <2>3 DEF ClientActs, CreditiaStamp, ClientSigns, ClientRefuses
  <1>5. doc' \in [Doc -> Document] /\ DocsLast /\ doc'[d] = new /\ \A e \in Doc \ {d} : doc'[e] = doc[e]
    BY <1>4, DocChanges
  <1>6. ZapsignType'
    BY <1>4, <1>5 DEF ZapsignType
  <1> QED  BY <1>4, <1>5, <1>6

-----------------------------------------------------------------------------
LEMMA DocSame ==
  ASSUME UNCHANGED doc
  PROVE  DocsLast
  BY DEF DocsLast

LEMMA SignerIsANumber == Signer \subseteq 0..MaxSigners
  BY ZapsignAssumption DEF ZapsignAssumption, Signer

LEMMA IdleIsSound == \A docs : Sound(Idle, docs)
  BY DEF Sound, Idle

\* What is left to show of the step of a process.
LEMMA ProcessKeeps ==
  ASSUME IInv, DocsLast, doc' \in [Doc -> Document], due' \subseteq Event, row' \in Row,
         faults' \in 0..MaxFaults, active' \in BOOLEAN, overtaken' \in BOOLEAN,
         active' => active \/ \E d \in Doc : doc'[d].client = "signed",
         NEW p \in Process, NEW new \in Local, proc' = [proc EXCEPT ![p] = new], Sound(new, doc')
  PROVE  IInv'
  <1>1. TypeOK'
    BY DEF IInv, TypeOK, ZapsignType
  <1>2. ASSUME NEW q \in Process PROVE Sound(proc'[q], doc')
    <2>1. CASE q = p
      BY <2>1 DEF IInv, TypeOK, Sound
    <2>2. CASE q # p
      <3>1. proc'[q] = proc[q] /\ Sound(proc[q], doc)
        BY <2>2 DEF IInv, TypeOK, LocalsSound
      <3> QED  BY <3>1 DEF Sound, DocsLast
    <2> QED  BY <2>1, <2>2
  <1>3. ActiveBySignature'
    BY DEF IInv, ActiveBySignature, DocsLast
  <1> QED  BY <1>1, <1>2, <1>3 DEF IInv, LocalsSound

LEMMA GotoKeeps ==
  ASSUME IInv, NEW p \in Process, NEW pc \in PC \ {"idle", "create"}, Goto(p, pc),
         ~At(p, "idle"), ~At(p, "create"),
         pc \in {"sign", "keep", "resign"} => proc[p].signer \in Signer,
         DocsLast, doc' \in [Doc -> Document], due' \subseteq Event, row' \in Row,
         faults' \in 0..MaxFaults, overtaken' \in BOOLEAN, UNCHANGED active
  PROVE  IInv'
  <1> DEFINE new == [proc[p] EXCEPT !.pc = pc]
  <1>1. new \in Local /\ new.doc = proc[p].doc /\ new.status = proc[p].status
        /\ new.signer = proc[p].signer /\ new.pc = pc
    BY HasLocals DEF IInv, Local
  <1>2. proc' = [proc EXCEPT ![p] = new]
    BY DEF Goto
  <1>3. Sound(proc[p], doc)
    BY DEF IInv, LocalsSound
  <1> HIDE DEF new
  <1>4. Sound(new, doc')
    BY <1>1, <1>3 DEF Sound, DocsLast, At
  <1>5. active' \in BOOLEAN /\ (active' => active)
    BY DEF IInv, TypeOK
  <1> QED  BY <1>1, <1>2, <1>4, <1>5, ProcessKeeps

LEMMA FinishKeeps ==
  ASSUME IInv, NEW p \in Process, Finish(p), UNCHANGED doc,
         due' \subseteq Event, row' \in Row, faults' \in 0..MaxFaults, active' \in BOOLEAN,
         overtaken' \in BOOLEAN,
         active' => active \/ \E d \in Doc : doc[d].client = "signed"
  PROVE  IInv'
  <1>1. doc' \in [Doc -> Document] /\ proc' = [proc EXCEPT ![p] = Idle]
    BY DEF IInv, TypeOK, ZapsignType, Finish
  <1> QED  BY <1>1, DocSame, IdleIsLocal, IdleIsSound, ProcessKeeps

-----------------------------------------------------------------------------
\* The steps of a sender.
LEMMA SendKeeps ==
  ASSUME IInv, NEW s \in Sender, Send(s)
  PROVE  IInv'
  <1> s \in Process
    BY DEF Process
  <1> USE DEF IInv
  <1>1. ZapsignType /\ row \in Row /\ active \in BOOLEAN /\ faults \in 0..MaxFaults
        /\ doc \in [Doc -> Document] /\ due \subseteq Event /\ overtaken' \in BOOLEAN
    BY DEF TypeOK, ZapsignType, Send, Register
  <1>2. CASE StartSend(s)
    <2> DEFINE again == row.doc # 0  new == [Idle EXCEPT !.pc = "create", !.again = again]
    <2>1. again \in BOOLEAN /\ proc' = [proc EXCEPT ![s] = new]
      BY <1>2 DEF StartSend
    <2> HIDE DEF again
    <2>2. new \in Local /\ new.pc = "create" /\ new.status = "absent"
      BY <2>1, IdleIsLocal DEF Local, PC, Idle
    <2> HIDE DEF new
    <2>3. Sound(new, doc')
      BY <2>2 DEF Sound
    <2>4. UNCHANGED <<row, active, faults, doc, due>>
      BY <1>2 DEF StartSend, zapsignVars
    <2> QED  BY <1>1, <2>1, <2>2, <2>3, <2>4, DocSame, ProcessKeeps
  <1>3. ASSUME NEW d \in Doc, CreateDocument(s, d) PROVE IInv'
    <2> DEFINE pc == IF ApiSignature THEN "add" ELSE "register"
               new == [proc[s] EXCEPT !.pc = pc, !.doc = d]
    <2>1. proc' = [proc EXCEPT ![s] = new] /\ At(s, "create") /\ CreateDoc(d)
          /\ UNCHANGED <<row, active, faults, due>>
      BY <1>3 DEF CreateDocument
    <2>2. pc \in PC /\ pc \in {"add", "register"}
      BY DEF PC
    <2> HIDE DEF pc
    <2>3. new \in Local /\ new.pc = pc /\ new.doc = d /\ new.status = proc[s].status
      BY <2>2, HasLocals DEF Local
    <2> HIDE DEF new
    <2>4. doc' \in [Doc -> Document] /\ DocsLast /\ doc'[d].client = "pending" /\ doc[d].client = "absent"
      BY <1>1, <2>1, CreateDocKeeps
    <2>5. Sound(proc[s], doc) /\ proc[s].status = "absent"
      BY <2>1 DEF LocalsSound, Sound, At
    <2>6. Sound(new, doc')
      BY <2>2, <2>3, <2>5 DEF Sound
    <2> QED  BY <1>1, <2>1, <2>3, <2>4, <2>6, ProcessKeeps
  <1>4. CASE AddCreditia(s)
    <2> DEFINE signer == NewSigner(proc[s].doc)  new == [proc[s] EXCEPT !.pc = "sign", !.signer = signer]
    <2>1. proc' = [proc EXCEPT ![s] = new] /\ At(s, "add") /\ AddSigner(proc[s].doc)
          /\ UNCHANGED <<row, active, faults, due>>
      BY <1>4 DEF AddCreditia
    <2>2. Sound(proc[s], doc) /\ proc[s].doc \in Doc
      BY <2>1 DEF LocalsSound, Sound, At
    <2>3. signer \in Signer /\ doc' \in [Doc -> Document] /\ DocsLast
      BY <1>1, <2>1, <2>2, AddSignerKeeps
    <2> HIDE DEF signer
    <2>4. "sign" \in PC /\ signer \in 0..MaxSigners
      BY <2>3, SignerIsANumber DEF PC
    <2>5. new \in Local /\ new.pc = "sign" /\ new.doc = proc[s].doc /\ new.status = proc[s].status
          /\ new.signer = signer
      BY <2>4, HasLocals DEF Local
    <2> HIDE DEF new
    <2>6. Sound(new, doc')
      BY <2>2, <2>3, <2>5 DEF Sound, DocsLast
    <2> QED  BY <1>1, <2>1, <2>3, <2>5, <2>6, ProcessKeeps
  <1>5. CASE SignCreditia(s)
    <2>1. At(s, "sign") /\ SignAsAccountUser(proc[s].doc, proc[s].signer) /\ Goto(s, "register")
          /\ UNCHANGED <<row, active, faults, due>>
      BY <1>5 DEF SignCreditia
    <2>2. proc[s].doc \in Doc /\ proc[s].signer \in Signer
      BY <2>1 DEF LocalsSound, Sound, At
    <2>3. doc' \in [Doc -> Document] /\ DocsLast
      BY <1>1, <2>1, <2>2, SignKeeps
    <2> QED  BY <1>1, <2>1, <2>3, GotoKeeps DEF PC, At
  <1>6. CASE CreditiaFails(s)
    <2>1. proc[s].pc \in {"add", "sign"} /\ Goto(s, "register") /\ Fail /\ UNCHANGED <<row, active, due>>
          /\ (UNCHANGED doc \/ AddSigner(proc[s].doc))
      BY <1>6 DEF CreditiaFails
    <2>2. proc[s].doc \in Doc /\ faults' \in 0..MaxFaults
      BY <1>1, <2>1, MacroContractAssumption DEF LocalsSound, Sound, Fail, MacroContractAssumption
    <2>3. doc' \in [Doc -> Document] /\ DocsLast
      BY <1>1, <2>1, <2>2, AddSignerKeeps, DocSame
    <2> QED  BY <1>1, <2>1, <2>2, <2>3, GotoKeeps DEF PC, At
  <1>7. CASE Register(s)
    <2>1. NewRow(s) \in Row
      <3>1. NoRow \in Row
        BY ZapsignAssumption DEF ZapsignAssumption, NoRow, Row
      <3> QED  BY <3>1, HasLocals DEF NewRow, Row
    <2>2. row' \in Row /\ Finish(s) /\ UNCHANGED <<active, faults, doc, due>>
      BY <1>1, <1>7, <2>1 DEF Register, zapsignVars
    <2> QED  BY <1>1, <2>2, FinishKeeps
  <1> QED  BY <1>2, <1>3, <1>4, <1>5, <1>6, <1>7 DEF Send, Prepare

-----------------------------------------------------------------------------
\* The row as the statements of a delivery leave it.
LEMMA RowsStay ==
  ASSUME row \in Row, NEW signer \in 0..MaxSigners
  PROVE  /\ [row EXCEPT !.creditiaSignedAt = TRUE] \in Row
         /\ [row EXCEPT !.signer = signer] \in Row
         /\ [row EXCEPT !.status = "signed", !.signedAt = TRUE] \in Row
         /\ [row EXCEPT !.status = "refused", !.refusedAt = TRUE] \in Row
         /\ [row EXCEPT !.firstViewedAt = TRUE] \in Row
         /\ [row EXCEPT !.viewed = TRUE] \in Row
  BY DEF Row

\* The steps of a delivery that has begun.
LEMMA DeliveryKeeps ==
  ASSUME IInv, NEW h \in Hook, Handle(h) \/ ReconcileFails(h)
  PROVE  IInv'
  <1> h \in Process
    BY DEF Process
  <1> USE DEF IInv
  <1>1. ZapsignType /\ row \in Row /\ active \in BOOLEAN /\ faults \in 0..MaxFaults
        /\ doc \in [Doc -> Document] /\ due \subseteq Event /\ Sound(proc[h], doc)
        /\ UNCHANGED overtaken /\ overtaken' \in BOOLEAN
    BY DEF TypeOK, ZapsignType, LocalsSound, Handle, ReconcileFails
  <1>2. CASE ReadState(h)
    <2> DEFINE pc == IF ApiSignature /\ ~proc[h].confirmed THEN "reconcile" ELSE "decide"
               status == DocStatus(proc[h].doc)
               signers == doc[proc[h].doc].signers
               stamped == doc[proc[h].doc].stamped
               new == [proc[h] EXCEPT !.pc = pc, !.status = status,
                                      !.signers = signers, !.stamped = stamped]
    <2>1. At(h, "state") /\ proc' = [proc EXCEPT ![h] = new] /\ UNCHANGED <<row, active, faults, doc, due>>
      BY <1>2 DEF ReadState, zapsignVars
    <2>2. proc[h].doc \in Doc
      BY <1>1, <2>1 DEF Sound, At
    <2>3. /\ signers \in SUBSET Signer /\ stamped \in SUBSET Signer
          /\ status \in Answer /\ (status = "signed" => doc[proc[h].doc].client = "signed")
      BY <1>1, <2>2, HasFields DEF DocStatus, Answer
    <2>4. pc \in PC /\ pc \in {"reconcile", "decide"}
      BY DEF PC
    <2> HIDE DEF pc, status, signers, stamped
    <2>5. new \in Local /\ new.doc = proc[h].doc /\ new.status = status /\ new.pc = pc
      BY <2>3, <2>4, HasLocals DEF Local
    <2> HIDE DEF new
    <2>6. Sound(new, doc')
      BY <2>1, <2>2, <2>3, <2>4, <2>5 DEF Sound
    <2> QED  BY <1>1, <2>1, <2>5, <2>6, DocSame, ProcessKeeps
  <1>3. CASE ConfirmCreditia(h)
    <2>1. At(h, "reconcile") /\ Goto(h, "decide") /\ UNCHANGED <<active, faults, doc, due>> /\ row' \in Row
      BY <1>1, <1>3, RowsStay, HasLocals DEF ConfirmCreditia, zapsignVars
    <2> QED  BY <1>1, <2>1, DocSame, GotoKeeps DEF PC, At
  <1>4. CASE EnsureSigner(h)
    <2>1. At(h, "reconcile") /\ UNCHANGED <<row, active, faults, due>>
      BY <1>4 DEF EnsureSigner
    <2>2. proc[h].doc \in Doc
      BY <1>1, <2>1 DEF Sound, At
    <2>3. CASE proc[h].signer # 0 /\ Goto(h, "resign") /\ UNCHANGED doc
      <3>1. proc[h].signer \in Signer
        BY <2>3, HasLocals, ZapsignAssumption DEF Signer, ZapsignAssumption
      <3> QED  BY <1>1, <2>1, <2>3, <3>1, DocSame, GotoKeeps DEF PC, At
    <2>4. ASSUME NEW signer \in Signer, DocsLast, doc' \in [Doc -> Document],
                 proc' = [proc EXCEPT ![h] = [proc[h] EXCEPT !.pc = "keep", !.signer = signer]]
          PROVE  IInv'
      <3> DEFINE new == [proc[h] EXCEPT !.pc = "keep", !.signer = signer]
      <3>1. new \in Local /\ new.pc = "keep" /\ new.doc = proc[h].doc
            /\ new.status = proc[h].status /\ new.signer = signer
        BY SignerIsANumber, HasLocals DEF Local, PC
      <3> HIDE DEF new
      <3>2. Sound(new, doc') /\ proc' = [proc EXCEPT ![h] = new]
        BY <1>1, <2>2, <2>4, <3>1 DEF Sound, DocsLast, new
      <3> QED  BY <1>1, <2>1, <2>4, <3>1, <3>2, ProcessKeeps
    <2>5. ASSUME AddSigner(proc[h].doc)
          PROVE  NewSigner(proc[h].doc) \in Signer /\ DocsLast /\ doc' \in [Doc -> Document]
      BY <1>1, <2>2, <2>5, AddSignerKeeps
    <2>6. \A signer \in proc[h].signers : signer \in Signer
      BY HasLocals
    <2> QED  BY <1>1, <1>4, <2>3, <2>4, <2>5, <2>6, DocSame DEF EnsureSigner
  <1>5. CASE KeepSigner(h)
    <2>1. At(h, "keep") /\ Goto(h, "resign") /\ UNCHANGED <<active, faults, doc, due>> /\ row' \in Row
      BY <1>1, <1>5, RowsStay, HasLocals DEF KeepSigner, zapsignVars
    <2>2. proc[h].signer \in Signer
      BY <1>1, <2>1 DEF Sound, At
    <2> QED  BY <1>1, <2>1, <2>2, DocSame, GotoKeeps DEF PC, At
  <1>6. CASE SignAgain(h)
    <2>1. At(h, "resign") /\ SignAsAccountUser(proc[h].doc, proc[h].signer) /\ Goto(h, "decide")
          /\ UNCHANGED <<row, active, faults, due>>
      BY <1>6 DEF SignAgain
    <2>2. proc[h].doc \in Doc /\ proc[h].signer \in Signer
      BY <1>1, <2>1 DEF Sound, At
    <2>3. doc' \in [Doc -> Document] /\ DocsLast
      BY <1>1, <2>1, <2>2, SignKeeps
    <2> QED  BY <1>1, <2>1, <2>3, GotoKeeps DEF PC, At
  <1>7. CASE StillPending(h)
    <2>1. Finish(h) /\ due' \subseteq due /\ UNCHANGED <<row, active, faults, doc>>
      BY <1>7 DEF StillPending, Answered
    <2> QED  BY <1>1, <2>1, FinishKeeps
  <1>8. CASE MarkSignedAndActivate(h)
    <2>1. At(h, "decide") /\ proc[h].status = "signed" /\ Finish(h) /\ due' \subseteq due
          /\ UNCHANGED <<faults, doc>>
      BY <1>8 DEF MarkSignedAndActivate, Answered
    <2>2. doc[proc[h].doc].client = "signed" /\ proc[h].doc \in Doc
      BY <1>1, <2>1 DEF Sound, At
    <2>3. row' \in Row
      BY <1>1, <1>8, RowsStay, HasLocals DEF MarkSignedAndActivate
    <2>4. active' \in BOOLEAN
      BY <1>1, <1>8 DEF MarkSignedAndActivate
    <2> QED  BY <1>1, <2>1, <2>2, <2>3, <2>4, FinishKeeps
  <1>9. CASE CheckRefusal(h)
    <2>1. At(h, "check") /\ UNCHANGED <<row, active, faults, doc>>
          /\ \/ Finish(h) /\ due' \subseteq due
             \/ Goto(h, "refuse") /\ UNCHANGED due
      BY <1>9 DEF CheckRefusal, Answered
    <2>2. CASE Finish(h) /\ due' \subseteq due
      BY <1>1, <2>1, <2>2, FinishKeeps
    <2>3. CASE Goto(h, "refuse") /\ UNCHANGED due
      BY <1>1, <2>1, <2>3, DocSame, GotoKeeps DEF PC, At
    <2> QED  BY <2>1, <2>2, <2>3
  <1>10. CASE MarkRefused(h) \/ CountView(h)
    <2>1. Finish(h) /\ due' \subseteq due /\ UNCHANGED <<active, faults, doc>> /\ row' \in Row
      BY <1>1, <1>10, RowsStay, HasLocals DEF MarkRefused, CountView, Answered
    <2> QED  BY <1>1, <2>1, FinishKeeps
  <1>11. ASSUME NEW e \in due, IgnoreEvent(h, e) PROVE IInv'
    <2>1. due' \subseteq due /\ UNCHANGED <<row, active, proc, faults, doc>>
      BY <1>11 DEF IgnoreEvent
    <2>2. TypeOK' /\ LocalsSound' /\ ActiveBySignature'
      BY <1>1, <2>1 DEF TypeOK, ZapsignType, LocalsSound, ActiveBySignature
    <2> QED  BY <2>2
  <1>12. ASSUME NEW e \in due, StartEvent(h, e) \/ FirstView(h, e) PROVE IInv'
    <2> DEFINE pc == IF e.kind = "viewed" THEN "count" ELSE IF e.kind = "signed" THEN "state" ELSE "check"
               confirmed == row.creditiaSignedAt
               signer == row.signer
               start == [Idle EXCEPT !.pc = pc, !.doc = e.doc, !.by = e.by,
                                     !.signer = signer, !.confirmed = confirmed]
               view == [Idle EXCEPT !.pc = pc, !.doc = e.doc]
    <2>1. proc' = [proc EXCEPT ![h] = start] \/ proc' = [proc EXCEPT ![h] = view]
      BY <1>12 DEF StartEvent, FirstView
    <2>2. UNCHANGED <<active, faults, doc, due>> /\ row' \in Row
      BY <1>1, <1>12, RowsStay, HasLocals DEF StartEvent, FirstView, zapsignVars
    <2>3. pc \in {"count", "state", "check"} /\ pc \in PC
      BY DEF PC
    <2>4. e.doc \in Doc /\ e.by \in 0..MaxSigners /\ signer \in 0..MaxSigners /\ confirmed \in BOOLEAN
      BY <1>1 DEF Event, Row
    <2> HIDE DEF pc, confirmed, signer
    <2>5. start \in Local /\ start.pc = pc /\ start.doc = e.doc /\ start.status = "absent"
      BY <2>3, <2>4, IdleIsLocal DEF Local, Idle
    <2>6. view \in Local /\ view.pc = pc /\ view.doc = e.doc /\ view.status = "absent"
      BY <2>3, <2>4, IdleIsLocal DEF Local, Idle
    <2> HIDE DEF start, view
    <2>7. Sound(start, doc') /\ Sound(view, doc')
      BY <2>3, <2>4, <2>5, <2>6 DEF Sound
    <2> QED  BY <1>1, <2>1, <2>2, <2>5, <2>6, <2>7, DocSame, ProcessKeeps
  <1>13. CASE ReconcileFails(h)
    <2>1. proc[h].pc \in {"reconcile", "keep", "resign"} /\ Goto(h, "decide") /\ Fail
          /\ UNCHANGED <<row, active, due>> /\ (UNCHANGED doc \/ AddSigner(proc[h].doc))
      BY <1>13 DEF ReconcileFails
    <2>2. proc[h].doc \in Doc /\ faults' \in 0..MaxFaults
      BY <1>1, <2>1, MacroContractAssumption DEF Sound, Fail, MacroContractAssumption
    <2>3. doc' \in [Doc -> Document] /\ DocsLast
      BY <1>1, <2>1, <2>2, AddSignerKeeps, DocSame
    <2> QED  BY <1>1, <2>1, <2>2, <2>3, GotoKeeps DEF PC, At
  <1> QED
    BY <1>2, <1>3, <1>4, <1>5, <1>6, <1>7, <1>8, <1>9, <1>10, <1>11, <1>12, <1>13 DEF Handle

\* The steps of no process, and a process that dies.
LEMMA OthersKeep ==
  ASSUME IInv,
         \/ \E p \in Process : Die(p)
         \/ \E d \in Doc : ClientActs(d) \/ CreditiaStamp(d)
         \/ UNCHANGED vars
  PROVE  IInv'
  <1> USE DEF IInv
  <1>1. ZapsignType /\ row \in Row /\ active \in BOOLEAN /\ faults \in 0..MaxFaults
        /\ doc \in [Doc -> Document] /\ due \subseteq Event /\ overtaken \in BOOLEAN
    BY DEF TypeOK, ZapsignType
  <1>2. ASSUME NEW p \in Process, Die(p) PROVE IInv'
    <2>1. Finish(p) /\ UNCHANGED <<row, active, overtaken, doc, due>> /\ faults' \in 0..MaxFaults
      BY <1>1, <1>2, MacroContractAssumption DEF Die, Fail, zapsignVars, MacroContractAssumption
    <2> QED  BY <1>1, <2>1, FinishKeeps
  <1>3. ASSUME NEW d \in Doc, ClientActs(d) \/ CreditiaStamp(d) PROVE IInv'
    <2>1. ZapsignType' /\ DocsLast
      BY <1>1, <1>3, ZapsignKeeps
    <2>2. UNCHANGED <<row, active, proc, faults, overtaken>>
      BY <1>3 DEF ClientActs, CreditiaStamp
    <2>3. TypeOK'
      BY <2>1, <2>2 DEF TypeOK
    <2>4. LocalsSound'
      BY <2>1, <2>2 DEF LocalsSound, Sound, DocsLast
    <2>5. ActiveBySignature'
      BY <2>1, <2>2 DEF ActiveBySignature, DocsLast
    <2> QED  BY <2>3, <2>4, <2>5
  <1>4. CASE UNCHANGED vars
    <2>1. UNCHANGED <<row, active, proc, faults, overtaken, doc, due>>
      BY <1>4 DEF vars, zapsignVars
    <2> QED  BY <2>1 DEF TypeOK, ZapsignType, LocalsSound, ActiveBySignature
  <1> QED  BY <1>2, <1>3, <1>4

LEMMA Begins == Init => IInv
  <1> SUFFICES ASSUME Init PROVE IInv
    OBVIOUS
  <1>1. ZapsignType
    BY DEF Init, ZapsignInit, ZapsignType, NoDocument, Document, Answer
  <1>2. NoRow \in Row
    BY ZapsignAssumption DEF ZapsignAssumption, NoRow, Row
  <1>3. TypeOK
    <2>1. proc \in [Process -> Local]
      BY IdleIsLocal DEF Init
    <2>2. faults \in 0..MaxFaults
      BY MacroContractAssumption DEF Init, MacroContractAssumption
    <2> QED  BY <1>1, <1>2, <2>1, <2>2 DEF Init, TypeOK
  <1>4. LocalsSound
    BY IdleIsSound DEF Init, LocalsSound
  <1> QED  BY <1>3, <1>4 DEF Init, IInv, ActiveBySignature

LEMMA Steps == IInv /\ [Next]_vars => IInv'
  BY SendKeeps, DeliveryKeeps, OthersKeep DEF Next

LEMMA Inductive == Spec => []IInv
  BY Begins, Steps, PTL DEF Spec

\* Every variable keeps its type, for any number of documents and processes.
THEOREM TypeHolds == Spec => []TypeOK
  BY Inductive, PTL DEF IInv

\* Whatever deliveries and sendings race, and whatever fails, a company is
\* only activated when the client has signed one of its documents.
THEOREM ActiveBySignatureHolds == Spec => []ActiveBySignature
  BY Inductive, PTL DEF IInv

-----------------------------------------------------------------------------
(***************************************************************************)
(* What a step of a process does, whichever step it is.                    *)
(***************************************************************************)
\* A document that only its sender knows.
Private(l) == l.pc \in {"add", "sign", "register"}

\* The deliveries that are about to add Creditia, having seen no signer.
IsBlind(l, d) == l.pc = "reconcile" /\ l.doc = d /\ l.signer = 0 /\ l.signers = {}

\* The row holds a document that exists, and a refusal is that of its document.
RowExists == row.doc \in Doc => doc[row.doc].client # "absent"

EventsAreReal == \A e \in due : e.kind = "refused" => doc[e.doc].client = "refused"

Delivers(h) ==
  /\ proc[h].pc # "idle" => proc[h].doc \in Doc /\ doc[proc[h].doc].client # "absent"
  /\ proc[h].pc \in {"check", "refuse"} => doc[proc[h].doc].client = "refused"

\* Nobody else knows the document of a sender, and it has no signer at first.
Owns(s) ==
  /\ Private(proc[s]) =>
       /\ proc[s].doc \in Doc
       /\ doc[proc[s].doc].client # "absent"
       /\ proc[s].doc # row.doc
       /\ \A h \in Hook : proc[h].pc # "idle" => proc[h].doc # proc[s].doc
       /\ \A other \in Sender \ {s} : Private(proc[other]) => proc[other].doc # proc[s].doc
  /\ proc[s].pc = "add" => doc[proc[s].doc].signers = {}

WorkInv == /\ RowExists /\ EventsAreReal
           /\ \A h \in Hook : Delivers(h)
           /\ \A s \in Sender : Owns(s)

\* A statement of a sender before its last one.
SenderMoves(s, new) ==
  /\ proc' = [proc EXCEPT ![s] = new]
  /\ DocsLast /\ UNCHANGED <<row, due, overtaken>>
  /\ new.pc \notin {"idle", "check", "refuse", "reconcile"}
  /\ new.again => row.refusedAt \/ (proc[s].again /\ proc[s].pc # "idle")
  /\ Private(new) =>
       \/ /\ new.doc = proc[s].doc /\ Private(proc[s])
          /\ new.pc # "add"
       \/ /\ new.doc \in Doc /\ doc[new.doc].client = "absent"
          /\ doc'[new.doc].client # "absent" /\ doc'[new.doc].signers = {}
  /\ \A e \in Doc : \/ doc'[e].signers = doc[e].signers
                    \/ doc'[e].signers = {}
                    \/ /\ proc[s].pc = "add" /\ e = proc[s].doc
                       /\ \E signer \in Signer : doc'[e].signers = doc[e].signers \cup {signer}

\* A statement of a delivery.
HookMoves(h, new) ==
  /\ proc' = [proc EXCEPT ![h] = new]
  /\ DocsLast /\ due' \subseteq due /\ row'.doc = row.doc /\ UNCHANGED overtaken
  /\ \/ new.pc = "idle"
     \/ new.doc = proc[h].doc /\ proc[h].pc # "idle"
     \/ new.doc = row.doc /\ row.doc \in Doc
  /\ new.pc \in {"check", "refuse"} => doc[new.doc].client = "refused"
  /\ row.refusedAt => row'.refusedAt
  /\ row'.refusedAt => row.refusedAt \/ proc[h].pc = "refuse"
  /\ row.signedAt => row'.signedAt
  /\ row'.signedAt => row.signedAt \/ (proc[h].pc = "decide" /\ proc[h].status = "signed")
  /\ \/ /\ \A e \in Doc : doc'[e].signers = doc[e].signers
        /\ new.pc = "reconcile" => new.signers = doc[new.doc].signers
     \/ /\ IsBlind(proc[h], proc[h].doc) /\ new.pc # "reconcile"
        /\ \A e \in Doc : \/ doc'[e].signers = doc[e].signers
                          \/ /\ e = proc[h].doc
                             /\ \E signer \in Signer : doc'[e].signers = doc[e].signers \cup {signer}

\* A process that goes on keeps what it holds.
LEMMA GoesOn ==
  ASSUME IInv, NEW p \in Process, NEW pc \in PC, Goto(p, pc)
  PROVE  \E new \in Local :
           /\ proc' = [proc EXCEPT ![p] = new]
           /\ new.pc = pc /\ new.doc = proc[p].doc /\ new.again = proc[p].again
           /\ new.signers = proc[p].signers /\ new.signer = proc[p].signer
  <1> DEFINE new == [proc[p] EXCEPT !.pc = pc]
  <1>1. new \in Local /\ new.pc = pc /\ new.doc = proc[p].doc /\ new.again = proc[p].again
        /\ new.signers = proc[p].signers /\ new.signer = proc[p].signer
    BY HasLocals DEF IInv, Local
  <1>2. proc' = [proc EXCEPT ![p] = new]
    BY DEF Goto
  <1> HIDE DEF new
  <1> QED  BY <1>1, <1>2

\* The statements of a sender.
LEMMA SenderEffect ==
  ASSUME IInv, NEW s \in Sender, Prepare(s), UNCHANGED overtaken
  PROVE  \E new \in Local : SenderMoves(s, new)
  <1> s \in Process
    BY DEF Process
  <1>1. ZapsignType /\ Sound(proc[s], doc) /\ proc \in [Process -> Local]
    BY DEF IInv, TypeOK, LocalsSound
  <1>2. CASE StartSend(s)
    <2> DEFINE again == row.doc # 0  new == [Idle EXCEPT !.pc = "create", !.again = again]
    <2>1. proc' = [proc EXCEPT ![s] = new] /\ UNCHANGED <<row, doc, due>> /\ (again => row.refusedAt)
      BY <1>2 DEF StartSend, zapsignVars
    <2>2. again \in BOOLEAN
      OBVIOUS
    <2> HIDE DEF again
    <2>3. new \in Local /\ new.pc = "create" /\ new.again = again
      BY <2>2, IdleIsLocal DEF Local, PC, Idle
    <2> HIDE DEF new
    <2> QED  BY <2>1, <2>3, DocSame DEF SenderMoves, Private
  <1>3. ASSUME NEW d \in Doc, CreateDocument(s, d)
        PROVE  \E new \in Local : SenderMoves(s, new)
    <2> DEFINE pc == IF ApiSignature THEN "add" ELSE "register"
               new == [proc[s] EXCEPT !.pc = pc, !.doc = d]
    <2>1. proc' = [proc EXCEPT ![s] = new] /\ At(s, "create") /\ CreateDoc(d) /\ UNCHANGED <<row, due>>
      BY <1>3 DEF CreateDocument
    <2>2. pc \in PC /\ pc \in {"add", "register"}
      BY DEF PC
    <2> HIDE DEF pc
    <2>3. new \in Local /\ new.pc = pc /\ new.doc = d /\ new.again = proc[s].again
      BY <2>2, HasLocals DEF Local, IInv
    <2> HIDE DEF new
    <2>4. DocsLast /\ doc'[d].client = "pending" /\ doc'[d].signers = {} /\ doc[d].client = "absent"
          /\ \A e \in Doc \ {d} : doc'[e] = doc[e]
      BY <1>1, <2>1, CreateDocKeeps
    <2> QED  BY <2>1, <2>2, <2>3, <2>4 DEF SenderMoves, At
  \* The document of the sender gets its signer, which is asked to sign.
  <1>4. ASSUME NEW new \in Local, proc' = [proc EXCEPT ![s] = new], UNCHANGED <<row, due>>,
               proc[s].pc \in {"add", "sign"}, new.pc \in {"sign", "register"},
               new.doc = proc[s].doc, new.again = proc[s].again,
               \/ UNCHANGED doc
               \/ At(s, "add") /\ AddSigner(proc[s].doc)
               \/ DocsLast /\ \A e \in Doc : doc'[e].signers = doc[e].signers
        PROVE  SenderMoves(s, new)
    <2>1. proc[s].doc \in Doc
      BY <1>1, <1>4 DEF Sound
    <2>2. DocsLast
      BY <1>1, <1>4, <2>1, AddSignerKeeps, DocSame
    <2>3. \A e \in Doc : \/ doc'[e].signers = doc[e].signers
                         \/ /\ proc[s].pc = "add" /\ e = proc[s].doc
                            /\ \E signer \in Signer : doc'[e].signers = doc[e].signers \cup {signer}
      BY <1>1, <1>4, <2>1, AddSignerKeeps DEF At
    <2> QED  BY <1>4, <2>2, <2>3 DEF SenderMoves, Private
  <1>5. CASE AddCreditia(s)
    <2> DEFINE signer == NewSigner(proc[s].doc)  new == [proc[s] EXCEPT !.pc = "sign", !.signer = signer]
    <2>1. proc' = [proc EXCEPT ![s] = new] /\ At(s, "add") /\ AddSigner(proc[s].doc) /\ UNCHANGED <<row, due>>
      BY <1>5 DEF AddCreditia
    <2>2. signer \in 0..MaxSigners /\ "sign" \in PC
      BY <2>1, SignerIsANumber DEF AddSigner, PC
    <2> HIDE DEF signer
    <2>3. new \in Local /\ new.pc = "sign" /\ new.doc = proc[s].doc /\ new.again = proc[s].again
      BY <2>2, HasLocals DEF Local, IInv
    <2> HIDE DEF new
    <2> QED  BY <1>4, <2>1, <2>3 DEF At
  <1>6. CASE SignCreditia(s)
    <2>1. At(s, "sign") /\ SignAsAccountUser(proc[s].doc, proc[s].signer) /\ Goto(s, "register")
          /\ UNCHANGED <<row, due>>
      BY <1>6 DEF SignCreditia
    <2>2. proc[s].doc \in Doc /\ proc[s].signer \in Signer
      BY <1>1, <2>1 DEF Sound, At
    <2>3. DocsLast /\ \A e \in Doc : doc'[e].signers = doc[e].signers
      BY <1>1, <2>1, <2>2, SignKeeps
    <2> QED  BY <1>4, <2>1, <2>3, GoesOn DEF At, PC
  <1>7. CASE CreditiaFails(s)
    <2>1. proc[s].pc \in {"add", "sign"} /\ Goto(s, "register") /\ UNCHANGED <<row, due>>
          /\ (UNCHANGED doc \/ (At(s, "add") /\ AddSigner(proc[s].doc)))
      BY <1>7 DEF CreditiaFails
    <2> QED  BY <1>4, <2>1, GoesOn DEF PC
  <1> QED  BY <1>2, <1>3, <1>5, <1>6, <1>7 DEF Prepare

\* The statements of a delivery.
LEMMA HookEffect ==
  ASSUME IInv, WorkInv, NEW h \in Hook, Handle(h) \/ ReconcileFails(h)
  PROVE  \E new \in Local : HookMoves(h, new)
  <1> h \in Process
    BY DEF Process
  <1>1. /\ ZapsignType /\ Delivers(h) /\ EventsAreReal /\ UNCHANGED overtaken
        /\ Sound(proc[h], doc) /\ proc \in [Process -> Local] /\ row \in Row /\ due \subseteq Event
    BY DEF IInv, TypeOK, ZapsignType, WorkInv, LocalsSound, Handle, ReconcileFails
  <1>2. CASE ReadState(h)
    <2> DEFINE pc == IF ApiSignature /\ ~proc[h].confirmed THEN "reconcile" ELSE "decide"
               status == DocStatus(proc[h].doc)
               signers == doc[proc[h].doc].signers
               stamped == doc[proc[h].doc].stamped
               new == [proc[h] EXCEPT !.pc = pc, !.status = status,
                                      !.signers = signers, !.stamped = stamped]
    <2>1. At(h, "state") /\ proc' = [proc EXCEPT ![h] = new] /\ UNCHANGED <<row, doc, due>>
      BY <1>2 DEF ReadState, zapsignVars
    <2>2. proc[h].doc \in Doc
      BY <1>1, <2>1 DEF Sound, At
    <2>3. signers \in SUBSET Signer /\ stamped \in SUBSET Signer /\ status \in Answer
      BY <1>1, <2>2, HasFields DEF DocStatus, Answer
    <2>4. pc \in PC /\ pc \in {"reconcile", "decide"} /\ signers = doc[proc[h].doc].signers
      BY DEF PC
    <2> HIDE DEF pc, status, signers, stamped
    <2>5. new \in Local /\ new.doc = proc[h].doc /\ new.pc = pc /\ new.signers = signers
      BY <2>3, <2>4, HasLocals DEF Local, IInv
    <2> HIDE DEF new
    <2> QED  BY <1>1, <2>1, <2>4, <2>5, DocSame DEF HookMoves, At
  \* The statements of the repair.
  <1>3. ASSUME NEW new \in Local, proc' = [proc EXCEPT ![h] = new], proc[h].pc # "idle",
               new.pc \in {"keep", "resign", "decide"}, new.doc = proc[h].doc, due' = due,
               row'.doc = row.doc, UNCHANGED <<row.refusedAt, row.signedAt>>,
               \/ DocsLast /\ \A e \in Doc : doc'[e].signers = doc[e].signers
               \/ /\ At(h, "reconcile") /\ proc[h].signer = 0 /\ proc[h].signers = {}
                  /\ AddSigner(proc[h].doc)
        PROVE  HookMoves(h, new)
    <2>1. DocsLast
      BY <1>1, <1>3, AddSignerKeeps DEF Delivers, At
    <2>2. \/ \A e \in Doc : doc'[e].signers = doc[e].signers
          \/ /\ IsBlind(proc[h], proc[h].doc)
             /\ \A e \in Doc : \/ doc'[e].signers = doc[e].signers
                               \/ /\ e = proc[h].doc
                                  /\ \E signer \in Signer :
                                       doc'[e].signers = doc[e].signers \cup {signer}
      BY <1>1, <1>3, AddSignerKeeps DEF Delivers, At, IsBlind
    <2> QED  BY <1>1, <1>3, <2>1, <2>2 DEF HookMoves
  <1>4. UNCHANGED doc => DocsLast /\ \A e \in Doc : doc'[e].signers = doc[e].signers
    BY DocSame
  <1>5. CASE ConfirmCreditia(h) \/ KeepSigner(h)
    <2>1. /\ proc[h].pc # "idle" /\ (Goto(h, "decide") \/ Goto(h, "resign")) /\ UNCHANGED <<doc, due>>
          /\ row'.doc = row.doc /\ row'.refusedAt = row.refusedAt /\ row'.signedAt = row.signedAt
      BY <1>1, <1>5 DEF ConfirmCreditia, KeepSigner, At, zapsignVars, Row
    <2> QED  BY <1>3, <1>4, <2>1, GoesOn DEF PC
  <1>6. CASE EnsureSigner(h)
    <2>1. At(h, "reconcile") /\ UNCHANGED <<row, due>>
      BY <1>6 DEF EnsureSigner
    <2>2. CASE Goto(h, "resign") /\ UNCHANGED doc
      BY <1>3, <1>4, <2>1, <2>2, GoesOn DEF At, PC
    <2>3. ASSUME NEW signer \in Signer,
                 proc' = [proc EXCEPT ![h] = [proc[h] EXCEPT !.pc = "keep", !.signer = signer]],
                 \/ UNCHANGED doc
                 \/ proc[h].signer = 0 /\ proc[h].signers = {} /\ AddSigner(proc[h].doc)
          PROVE  \E new \in Local : HookMoves(h, new)
      <3> DEFINE new == [proc[h] EXCEPT !.pc = "keep", !.signer = signer]
      <3>1. "keep" \in PC /\ signer \in 0..MaxSigners
        BY SignerIsANumber DEF PC
      <3>2. new \in Local /\ new.pc = "keep" /\ new.doc = proc[h].doc
        BY <3>1, HasLocals DEF Local, IInv
      <3>3. proc' = [proc EXCEPT ![h] = new]
        BY <2>3
      <3> HIDE DEF new
      <3> QED  BY <1>3, <1>4, <2>1, <2>3, <3>2, <3>3 DEF At
    <2>4. AddSigner(proc[h].doc) => NewSigner(proc[h].doc) \in Signer
      BY DEF AddSigner
    <2>5. \A signer \in proc[h].signers : signer \in Signer
      BY HasLocals DEF IInv
    <2> QED  BY <1>6, <2>2, <2>3, <2>4, <2>5 DEF EnsureSigner
  <1>7. CASE SignAgain(h)
    <2>1. At(h, "resign") /\ SignAsAccountUser(proc[h].doc, proc[h].signer) /\ Goto(h, "decide")
          /\ UNCHANGED <<row, due>>
      BY <1>7 DEF SignAgain
    <2>2. proc[h].doc \in Doc /\ proc[h].signer \in Signer
      BY <1>1, <2>1 DEF Sound, At
    <2>3. DocsLast /\ \A e \in Doc : doc'[e].signers = doc[e].signers
      BY <1>1, <2>1, <2>2, SignKeeps
    <2> QED  BY <1>3, <2>1, <2>3, GoesOn DEF At, PC
  <1>8. CASE ReconcileFails(h)
    <2>1. /\ proc[h].pc \in {"reconcile", "keep", "resign"} /\ Goto(h, "decide") /\ UNCHANGED <<row, due>>
          /\ \/ UNCHANGED doc
             \/ /\ At(h, "reconcile") /\ proc[h].signer = 0 /\ proc[h].signers = {}
                /\ AddSigner(proc[h].doc)
      BY <1>8 DEF ReconcileFails
    <2> QED  BY <1>3, <1>4, <2>1, GoesOn DEF PC
  \* The last statement of a delivery.
  <1>9. ASSUME Finish(h), due' \subseteq due, UNCHANGED doc, row'.doc = row.doc,
               row.refusedAt => row'.refusedAt, row.signedAt => row'.signedAt,
               row'.refusedAt => row.refusedAt \/ proc[h].pc = "refuse",
               row'.signedAt => row.signedAt \/ (proc[h].pc = "decide" /\ proc[h].status = "signed")
        PROVE  \E new \in Local : HookMoves(h, new)
    <2>1. HookMoves(h, Idle)
      BY <1>1, <1>4, <1>9, IdleIsLocal DEF Finish, HookMoves
    <2> QED  BY <2>1, IdleIsLocal
  <1>10. CASE StillPending(h)
    BY <1>9, <1>10 DEF StillPending, Answered
  <1>11. CASE MarkSignedAndActivate(h)
    <2>1. At(h, "decide") /\ proc[h].status = "signed" /\ Finish(h) /\ due' \subseteq due /\ UNCHANGED doc
      BY <1>11 DEF MarkSignedAndActivate, Answered
    <2>2. row' = row \/ row' = [row EXCEPT !.status = "signed", !.signedAt = TRUE]
      BY <1>11 DEF MarkSignedAndActivate
    <2>3. row'.doc = row.doc /\ row'.refusedAt = row.refusedAt /\ (row.signedAt => row'.signedAt)
      BY <1>1, <2>2 DEF Row
    <2> QED  BY <1>9, <2>1, <2>3 DEF At
  <1>12. CASE CheckRefusal(h)
    <2>1. At(h, "check") /\ UNCHANGED <<row, doc>>
          /\ \/ Finish(h) /\ due' \subseteq due
             \/ Goto(h, "refuse") /\ UNCHANGED due
      BY <1>12 DEF CheckRefusal, Answered
    <2>2. CASE Finish(h) /\ due' \subseteq due
      BY <1>9, <2>1, <2>2
    <2>3. CASE Goto(h, "refuse") /\ UNCHANGED due
      <3>1. PICK new \in Local :
              proc' = [proc EXCEPT ![h] = new] /\ new.pc = "refuse" /\ new.doc = proc[h].doc
        BY <2>3, GoesOn DEF PC
      <3>2. HookMoves(h, new)
        BY <1>1, <1>4, <2>1, <2>3, <3>1 DEF HookMoves, Delivers, At
      <3> QED  BY <3>2
    <2> QED  BY <2>1, <2>2, <2>3
  <1>13. CASE MarkRefused(h) \/ CountView(h)
    <2>1. /\ Finish(h) /\ due' \subseteq due /\ UNCHANGED doc /\ row'.doc = row.doc
          /\ row'.refusedAt = row.refusedAt \/ (row'.refusedAt /\ proc[h].pc = "refuse")
          /\ row'.signedAt = row.signedAt
      BY <1>1, <1>13 DEF MarkRefused, CountView, Answered, Row, At
    <2> QED  BY <1>9, <2>1
  <1>14. ASSUME NEW e \in due, IgnoreEvent(h, e) PROVE \E new \in Local : HookMoves(h, new)
    <2>1. due' \subseteq due /\ UNCHANGED <<row, proc, doc>> /\ At(h, "idle")
      BY <1>14 DEF IgnoreEvent
    <2>2. proc' = [proc EXCEPT ![h] = proc[h]] /\ proc[h] \in Local
      BY <1>1, <2>1
    <2>3. HookMoves(h, proc[h])
      BY <1>1, <1>4, <2>1, <2>2 DEF HookMoves, At
    <2> QED  BY <2>2, <2>3
  <1>15. ASSUME NEW e \in due, StartEvent(h, e) \/ FirstView(h, e)
         PROVE  \E new \in Local : HookMoves(h, new)
    <2> DEFINE pc == IF e.kind = "viewed" THEN "count" ELSE IF e.kind = "signed" THEN "state" ELSE "check"
               confirmed == row.creditiaSignedAt
               signer == row.signer
               start == [Idle EXCEPT !.pc = pc, !.doc = e.doc, !.by = e.by,
                                     !.signer = signer, !.confirmed = confirmed]
               view == [Idle EXCEPT !.pc = pc, !.doc = e.doc]
    <2>1. proc' = [proc EXCEPT ![h] = start] \/ proc' = [proc EXCEPT ![h] = view]
      BY <1>15 DEF StartEvent, FirstView
    <2>2. UNCHANGED <<doc, due>> /\ row'.doc = row.doc /\ row'.refusedAt = row.refusedAt
          /\ row'.signedAt = row.signedAt
      BY <1>1, <1>15 DEF StartEvent, FirstView, zapsignVars, Row
    <2>3. pc \in {"count", "state", "check"} /\ pc \in PC
      BY DEF PC
    <2>4. e.doc \in Doc /\ e.by \in 0..MaxSigners /\ signer \in 0..MaxSigners /\ confirmed \in BOOLEAN
          /\ e.kind \in {"signed", "refused", "viewed"}
      BY <1>1 DEF Event, Row
    <2>5. row.doc = e.doc /\ (pc = "check" => doc[e.doc].client = "refused")
      BY <1>1, <1>15, <2>4 DEF StartEvent, FirstView, Stale, EventsAreReal
    <2> HIDE DEF pc, confirmed, signer
    <2>6. start \in Local /\ start.pc = pc /\ start.doc = e.doc
      BY <2>3, <2>4, IdleIsLocal DEF Local, Idle
    <2>7. view \in Local /\ view.pc = pc /\ view.doc = e.doc
      BY <2>3, <2>4, IdleIsLocal DEF Local, Idle
    <2> HIDE DEF start, view
    <2>8. PICK new \in Local : proc' = [proc EXCEPT ![h] = new] /\ new.pc = pc /\ new.doc = e.doc
      BY <2>1, <2>6, <2>7
    <2>9. HookMoves(h, new)
      BY <1>1, <1>4, <2>2, <2>3, <2>4, <2>5, <2>8 DEF HookMoves
    <2> QED  BY <2>9
  <1> QED
    BY <1>2, <1>5, <1>6, <1>7, <1>8, <1>10, <1>11, <1>12, <1>13, <1>14, <1>15 DEF Handle

-----------------------------------------------------------------------------
(***************************************************************************)
(* A document has one sender, and deliveries only once it is in the row.   *)
(***************************************************************************)
\* Senders are not deliveries.
LEMMA OthersStay ==
  ASSUME IInv, NEW p \in Process, NEW new, proc' = [proc EXCEPT ![p] = new]
  PROVE  /\ proc'[p] = new /\ \A q \in Process \ {p} : proc'[q] = proc[q]
         /\ p \in Sender => \A h \in Hook : proc'[h] = proc[h]
         /\ p \in Hook => \A s \in Sender : proc'[s] = proc[s]
  BY MacroContractAssumption DEF IInv, TypeOK, Process, MacroContractAssumption

LEMMA EventsStayReal ==
  ASSUME IInv, EventsAreReal, DocsLast, due' \subseteq due
  PROVE  EventsAreReal'
  BY DEF EventsAreReal, DocsLast, IInv, TypeOK, ZapsignType, Event

LEMMA SenderWorks ==
  ASSUME IInv, WorkInv, NEW s \in Sender, NEW new \in Local, SenderMoves(s, new)
  PROVE  WorkInv'
  <1>1. /\ proc'[s] = new /\ DocsLast /\ UNCHANGED <<row, due>>
        /\ \A h \in Hook : proc'[h] = proc[h]
        /\ \A other \in Sender \ {s} : proc'[other] = proc[other]
    BY OthersStay DEF SenderMoves, Process
  <1>2. RowExists' /\ EventsAreReal'
    BY <1>1, EventsStayReal DEF WorkInv, RowExists, DocsLast
  <1>3. ASSUME NEW h \in Hook PROVE Delivers(h)'
    <2>1. Delivers(h)
      BY DEF WorkInv
    <2> QED  BY <1>1, <2>1 DEF Delivers, DocsLast
  \* A new document is known to nobody.
  <1>4. Private(new) =>
          /\ new.doc \in Doc /\ doc'[new.doc].client # "absent" /\ new.doc # row.doc
          /\ \A h \in Hook : proc[h].pc # "idle" => proc[h].doc # new.doc
          /\ \A other \in Sender \ {s} : Private(proc[other]) => proc[other].doc # new.doc
    <2>1. CASE Private(proc[s]) /\ new.doc = proc[s].doc
      BY <1>1, <2>1 DEF WorkInv, Owns, DocsLast
    <2>2. CASE new.doc \in Doc /\ doc[new.doc].client = "absent" /\ doc'[new.doc].client # "absent"
      BY <2>2 DEF WorkInv, RowExists, Delivers, Owns
    <2> QED  BY <2>1, <2>2 DEF SenderMoves
  <1>5. new.pc = "add" => doc'[new.doc].signers = {}
    BY DEF SenderMoves, Private
  <1>6. Owns(s)'
    BY <1>1, <1>4, <1>5 DEF Owns
  <1>7. ASSUME NEW other \in Sender \ {s} PROVE Owns(other)'
    <2>1. Owns(other) /\ proc'[other] = proc[other]
      BY <1>1 DEF WorkInv
    <2>2. proc[other].pc = "add" => doc'[proc[other].doc].signers = {}
      <3>1. SUFFICES ASSUME proc[other].pc = "add" PROVE doc'[proc[other].doc].signers = {}
        OBVIOUS
      <3>2. proc[other].doc \in Doc /\ doc[proc[other].doc].signers = {}
            /\ (proc[s].pc = "add" => proc[s].doc # proc[other].doc)
        BY <2>1, <3>1 DEF Owns, Private
      <3> QED  BY <3>2 DEF SenderMoves
    <2>3. Private(proc[other]) /\ Private(new) => new.doc # proc[other].doc
      BY <1>4
    <2> QED  BY <1>1, <2>1, <2>2, <2>3 DEF Owns, DocsLast, Private
  <1> QED  BY <1>2, <1>3, <1>6, <1>7 DEF WorkInv

\* The row takes the document of the sender, or stays.
LEMMA RegisterWorks ==
  ASSUME IInv, WorkInv, NEW s \in Sender, Register(s)
  PROVE  WorkInv'
  <1>1. /\ UNCHANGED <<doc, due>> /\ proc' = [proc EXCEPT ![s] = Idle]
        /\ row'.doc = row.doc \/ row'.doc = proc[s].doc
    BY DEF Register, Finish, zapsignVars, NewRow, NoRow
  <1>2. /\ proc'[s] = Idle /\ \A h \in Hook : proc'[h] = proc[h]
        /\ \A other \in Sender \ {s} : proc'[other] = proc[other]
    BY <1>1, OthersStay DEF Process
  <1>3. Private(proc[s]) /\ Owns(s) /\ ~Private(Idle) /\ Idle.pc # "add"
    BY IdleIsLocal DEF WorkInv, Register, At, Private
  <1>4. RowExists' /\ EventsAreReal'
    BY <1>1, <1>3 DEF WorkInv, RowExists, EventsAreReal, Owns
  <1>5. ASSUME NEW h \in Hook PROVE Delivers(h)'
    BY <1>1, <1>2 DEF WorkInv, Delivers
  <1>6. ASSUME NEW other \in Sender PROVE Owns(other)'
    <2>1. CASE other = s
      BY <1>2, <1>3, <2>1 DEF Owns
    <2>2. CASE other # s
      <3>1. Owns(other) /\ proc'[other] = proc[other]
        BY <1>2, <2>2 DEF WorkInv
      <3>2. Private(proc[other]) => proc[other].doc # row'.doc
        BY <1>1, <1>3, <2>2, <3>1 DEF Owns
      <3>3. \A third \in Sender \ {other} : Private(proc'[third]) =>
               Private(proc[third]) /\ proc'[third].doc = proc[third].doc
        BY <1>2, <1>3
      <3> QED  BY <1>1, <1>2, <3>1, <3>2, <3>3 DEF Owns
    <2> QED  BY <2>1, <2>2
  <1> QED  BY <1>4, <1>5, <1>6 DEF WorkInv

LEMMA HookWorks ==
  ASSUME IInv, WorkInv, NEW h \in Hook, NEW new \in Local, HookMoves(h, new)
  PROVE  WorkInv'
  <1>1. /\ proc'[h] = new /\ DocsLast /\ due' \subseteq due /\ row'.doc = row.doc
        /\ \A s \in Sender : proc'[s] = proc[s]
        /\ \A other \in Hook \ {h} : proc'[other] = proc[other]
    BY OthersStay DEF HookMoves, Process
  <1>2. RowExists' /\ EventsAreReal'
    BY <1>1, EventsStayReal DEF WorkInv, RowExists, DocsLast
  <1>3. new.pc # "idle" => new.doc \in Doc /\ doc[new.doc].client # "absent"
    BY DEF HookMoves, WorkInv, RowExists, Delivers
  <1>4. Delivers(h)'
    BY <1>1, <1>3 DEF HookMoves, Delivers, DocsLast
  <1>5. ASSUME NEW other \in Hook \ {h} PROVE Delivers(other)'
    <2>1. Delivers(other)
      BY DEF WorkInv
    <2> QED  BY <1>1, <2>1 DEF Delivers, DocsLast
  <1>6. ASSUME NEW s \in Sender PROVE Owns(s)'
    <2>1. Owns(s)
      BY DEF WorkInv
    <2>2. Private(proc[s]) /\ new.pc # "idle" => new.doc # proc[s].doc
      BY <2>1 DEF HookMoves, Owns
    <2>3. proc[s].pc = "add" => doc'[proc[s].doc].signers = {}
      <3>1. SUFFICES ASSUME proc[s].pc = "add" PROVE doc'[proc[s].doc].signers = {}
        OBVIOUS
      <3>2. proc[s].doc \in Doc /\ doc[proc[s].doc].signers = {}
            /\ (IsBlind(proc[h], proc[h].doc) => proc[h].doc # proc[s].doc)
        BY <2>1, <3>1 DEF Owns, Private, IsBlind
      <3> QED  BY <3>2 DEF HookMoves
    <2> QED  BY <1>1, <2>1, <2>2, <2>3 DEF Owns, DocsLast
  <1> QED  BY <1>2, <1>4, <1>5, <1>6 DEF WorkInv

LEMMA OthersWork ==
  ASSUME IInv, WorkInv,
         \/ \E p \in Process : Die(p)
         \/ \E d \in Doc : ClientActs(d) \/ CreditiaStamp(d)
         \/ UNCHANGED vars
  PROVE  WorkInv'
  <1>1. ASSUME NEW p \in Process, Die(p) PROVE WorkInv'
    <2>1. proc' = [proc EXCEPT ![p] = Idle] /\ UNCHANGED <<row, doc, due>>
      BY <1>1 DEF Die, Finish, zapsignVars
    <2>2. \A q \in Process : proc'[q] = proc[q] \/ proc'[q].pc = "idle"
      BY <2>1, OthersStay, IdleIsLocal
    <2>3. RowExists' /\ EventsAreReal'
      BY <2>1 DEF WorkInv, RowExists, EventsAreReal
    <2>4. ASSUME NEW h \in Hook PROVE Delivers(h)'
      BY <2>1, <2>2 DEF WorkInv, Delivers, Process
    <2>5. ASSUME NEW s \in Sender PROVE Owns(s)'
      BY <2>1, <2>2 DEF WorkInv, Owns, Private, Process
    <2> QED  BY <2>3, <2>4, <2>5 DEF WorkInv
  <1>2. ASSUME NEW d \in Doc, ClientActs(d) \/ CreditiaStamp(d) PROVE WorkInv'
    <2>1. /\ ZapsignType /\ ZapsignType' /\ DocsLast /\ \A e \in Doc : doc'[e].signers = doc[e].signers
          /\ \A e \in due' \ due : e.kind = "refused" => doc'[e.doc].client = "refused"
      BY <1>2, ZapsignKeeps DEF IInv, TypeOK
    <2>2. UNCHANGED <<row, proc>>
      BY <1>2 DEF ClientActs, CreditiaStamp
    <2>3. RowExists'
      BY <2>1, <2>2 DEF WorkInv, RowExists, DocsLast
    <2>4. EventsAreReal'
      BY <2>1 DEF WorkInv, EventsAreReal, DocsLast, ZapsignType, Event
    <2>5. ASSUME NEW h \in Hook PROVE Delivers(h)'
      BY <2>1, <2>2 DEF WorkInv, Delivers, DocsLast
    <2>6. ASSUME NEW s \in Sender PROVE Owns(s)'
      BY <2>1, <2>2 DEF WorkInv, Owns, Private, DocsLast
    <2> QED  BY <2>3, <2>4, <2>5, <2>6 DEF WorkInv
  <1>3. CASE UNCHANGED vars
    <2>1. UNCHANGED <<row, proc, doc, due>>
      BY <1>3 DEF vars, zapsignVars
    <2> QED  BY <2>1 DEF WorkInv, RowExists, EventsAreReal, Delivers, Owns
  <1> QED  BY <1>1, <1>2, <1>3

-----------------------------------------------------------------------------
(***************************************************************************)
(* The row agrees with the documents, until a sending overtakes.           *)
(***************************************************************************)
\* What the row says of its document, who works on it, and who sends again.
Agrees ==
  /\ row.refusedAt => row.doc \in Doc /\ doc[row.doc].client = "refused"
  /\ row.signedAt => row.doc \in Doc /\ doc[row.doc].client = "signed"
  /\ \A h \in Hook : proc[h].pc # "idle" => proc[h].doc = row.doc
  /\ \A s \in Sender : proc[s].again /\ proc[s].pc # "idle" => row.refusedAt

AgreesUntilOvertaken == ~overtaken => Agrees

LEMMA SenderAgrees ==
  ASSUME IInv, AgreesUntilOvertaken, NEW s \in Sender, NEW new \in Local, SenderMoves(s, new)
  PROVE  AgreesUntilOvertaken'
  <1> SUFFICES ASSUME ~overtaken' PROVE Agrees'
    BY DEF AgreesUntilOvertaken
  <1>1. /\ proc'[s] = new /\ DocsLast /\ UNCHANGED row /\ Agrees
        /\ \A h \in Hook : proc'[h] = proc[h]
        /\ \A other \in Sender \ {s} : proc'[other] = proc[other]
        /\ new.again => row.refusedAt \/ (proc[s].again /\ proc[s].pc # "idle")
    BY OthersStay DEF SenderMoves, Process, AgreesUntilOvertaken
  <1> QED  BY <1>1 DEF Agrees, DocsLast

\* A contract sent again past nobody's work finds no delivery under way and no
\* other sending: nobody is left who works on what was replaced.
LEMMA RegisterAgrees ==
  ASSUME IInv, WorkInv, AgreesUntilOvertaken, NEW s \in Sender, Register(s)
  PROVE  AgreesUntilOvertaken'
  <1> SUFFICES ASSUME ~overtaken' PROVE Agrees'
    BY DEF AgreesUntilOvertaken
  <1>1. /\ UNCHANGED doc /\ proc' = [proc EXCEPT ![s] = Idle]
        /\ row' = IF proc[s].again \/ row.doc = 0 THEN NewRow(s) ELSE row
        /\ Agrees /\ ~Overtakes(s) /\ proc[s].pc = "register"
    BY DEF Register, Finish, zapsignVars, AgreesUntilOvertaken, At
  <1>2. /\ proc'[s] = Idle /\ \A h \in Hook : proc'[h] = proc[h]
        /\ \A other \in Sender \ {s} : proc'[other] = proc[other]
        /\ 0 \notin Doc /\ Idle.pc = "idle"
    BY <1>1, OthersStay, IdleIsLocal, ZapsignAssumption DEF Process, ZapsignAssumption
  <1>3. CASE row' = row
    BY <1>1, <1>2, <1>3 DEF Agrees
  <1>4. CASE proc[s].again \/ row.doc = 0
    <2>1. ~row'.refusedAt /\ ~row'.signedAt
      BY <1>1, <1>4 DEF NewRow, NoRow
    <2>2. ASSUME NEW h \in Hook PROVE proc[h].pc = "idle"
      <3>1. proc[h].pc # "idle" => proc[h].doc = row.doc /\ proc[h].doc \in Doc
        BY <1>1 DEF Agrees, WorkInv, Delivers
      <3> QED  BY <1>1, <1>2, <1>4, <3>1 DEF Overtakes
    <2>3. ASSUME NEW other \in Sender \ {s} PROVE ~(proc[other].again /\ proc[other].pc # "idle")
      BY <1>1, <1>2, <1>4 DEF Overtakes, Agrees
    <2> QED  BY <1>2, <2>1, <2>2, <2>3 DEF Agrees
  <1> QED  BY <1>1, <1>3, <1>4

LEMMA HookAgrees ==
  ASSUME IInv, WorkInv, AgreesUntilOvertaken, NEW h \in Hook, NEW new \in Local, HookMoves(h, new)
  PROVE  AgreesUntilOvertaken'
  <1> SUFFICES ASSUME ~overtaken' PROVE Agrees'
    BY DEF AgreesUntilOvertaken
  <1>1. /\ proc'[h] = new /\ DocsLast /\ row'.doc = row.doc /\ Agrees
        /\ \A s \in Sender : proc'[s] = proc[s]
        /\ \A other \in Hook \ {h} : proc'[other] = proc[other]
    BY OthersStay DEF HookMoves, Process, AgreesUntilOvertaken
  <1>2. proc[h].pc = "refuse" => row.doc \in Doc /\ doc[row.doc].client = "refused"
    BY <1>1 DEF WorkInv, Delivers, Agrees
  <1>3. proc[h].pc = "decide" /\ proc[h].status = "signed" =>
          row.doc \in Doc /\ doc[row.doc].client = "signed"
    BY <1>1 DEF WorkInv, Delivers, Agrees, IInv, LocalsSound, Sound, Process
  <1>4. new.pc # "idle" => new.doc = row.doc
    BY <1>1 DEF HookMoves, Agrees
  <1> QED  BY <1>1, <1>2, <1>3, <1>4 DEF HookMoves, Agrees, DocsLast

LEMMA OthersAgree ==
  ASSUME IInv, AgreesUntilOvertaken,
         \/ \E p \in Process : Die(p)
         \/ \E d \in Doc : ClientActs(d) \/ CreditiaStamp(d)
         \/ UNCHANGED vars
  PROVE  AgreesUntilOvertaken'
  <1> SUFFICES ASSUME ~overtaken' PROVE Agrees'
    BY DEF AgreesUntilOvertaken
  <1>1. ASSUME NEW p \in Process, Die(p) PROVE Agrees'
    <2>1. proc' = [proc EXCEPT ![p] = Idle] /\ UNCHANGED <<row, doc, overtaken>>
      BY <1>1 DEF Die, Finish, zapsignVars
    <2>2. \A q \in Process : proc'[q] = proc[q] \/ proc'[q].pc = "idle"
      BY <2>1, OthersStay, IdleIsLocal
    <2> QED  BY <2>1, <2>2 DEF AgreesUntilOvertaken, Agrees, Process
  <1>2. ASSUME NEW d \in Doc, ClientActs(d) \/ CreditiaStamp(d) PROVE Agrees'
    <2>1. DocsLast /\ UNCHANGED <<row, proc, overtaken>>
      BY <1>2, ZapsignKeeps DEF IInv, TypeOK, ClientActs, CreditiaStamp
    <2> QED  BY <2>1 DEF AgreesUntilOvertaken, Agrees, DocsLast
  <1>3. CASE UNCHANGED vars
    <2>1. UNCHANGED <<row, proc, doc, overtaken>>
      BY <1>3 DEF vars, zapsignVars
    <2> QED  BY <2>1 DEF AgreesUntilOvertaken, Agrees
  <1> QED  BY <1>1, <1>2, <1>3

RowInv == IInv /\ WorkInv /\ AgreesUntilOvertaken

LEMMA RowBegins == Init => RowInv
  <1> SUFFICES ASSUME Init PROVE RowInv
    OBVIOUS
  <1>1. \A p \in Process : proc[p].pc = "idle"
    BY IdleIsLocal DEF Init
  <1>2. RowExists /\ EventsAreReal
    BY ZapsignAssumption DEF Init, ZapsignInit, NoRow, RowExists, EventsAreReal, ZapsignAssumption
  <1>3. WorkInv
    BY <1>1, <1>2 DEF WorkInv, Delivers, Owns, Private, Process
  <1>4. AgreesUntilOvertaken
    BY <1>1 DEF Init, NoRow, AgreesUntilOvertaken, Agrees, Process
  <1> QED  BY <1>3, <1>4, Begins DEF RowInv

LEMMA RowSteps == RowInv /\ [Next]_vars => RowInv'
  <1> SUFFICES ASSUME RowInv, [Next]_vars PROVE RowInv'
    OBVIOUS
  <1> USE DEF RowInv
  <1>1. IInv'
    BY Steps
  <1>2. ASSUME NEW s \in Sender, Send(s) PROVE WorkInv' /\ AgreesUntilOvertaken'
    <2>1. CASE Register(s)
      BY <2>1, RegisterWorks, RegisterAgrees
    <2>2. CASE Prepare(s) /\ UNCHANGED overtaken
      BY <2>2, SenderEffect, SenderWorks, SenderAgrees
    <2> QED  BY <1>2, <2>1, <2>2 DEF Send
  <1>3. ASSUME NEW h \in Hook, Handle(h) \/ ReconcileFails(h)
        PROVE  WorkInv' /\ AgreesUntilOvertaken'
    BY <1>3, HookEffect, HookWorks, HookAgrees
  <1>4. CASE \/ \E p \in Process : Die(p)
             \/ \E d \in Doc : ClientActs(d) \/ CreditiaStamp(d)
             \/ UNCHANGED vars
    BY <1>1, <1>4, OthersWork, OthersAgree
  <1> QED  BY <1>1, <1>2, <1>3, <1>4 DEF Next

LEMMA RowInductive == Spec => []RowInv
  BY RowBegins, RowSteps, PTL DEF Spec

\* The signature in the row is that of the client on the document the row
\* holds, whatever deliveries and sendings are under way and whatever fails,
\* while no sending overtakes the work on what it replaces.
THEOREM SignedByClientHolds == Spec => []SignedByClient
  <1>1. RowInv => SignedByClient
    BY DEF RowInv, AgreesUntilOvertaken, Agrees, SignedByClient
  <1> QED  BY <1>1, RowInductive, PTL

\* The refusal in the row is that of the document the row holds, in the same
\* conditions.
THEOREM RefusalIsRealHolds == Spec => []RefusalIsReal
  <1>1. RowInv => RefusalIsReal
    BY DEF RowInv, AgreesUntilOvertaken, Agrees, RefusalIsReal
  <1> QED  BY <1>1, RowInductive, PTL

\* The row of an active company stays signed, with the same document, in the
\* same conditions.
THEOREM SignatureKeptHolds == Spec => SignatureKept
  <1>1. ASSUME RowInv, [Next]_vars, row.signedAt, ~overtaken'
        PROVE  row'.signedAt /\ row'.doc = row.doc
    <2> USE DEF RowInv
    <2>1. ASSUME NEW s \in Sender, Send(s) PROVE row' = row
      <3>1. CASE Register(s)
        <4>1. Agrees /\ proc[s].pc = "register" /\ 0 \notin Doc
          BY <1>1, <3>1, ZapsignAssumption
             DEF Register, AgreesUntilOvertaken, At, ZapsignAssumption
        <4>2. row.doc \in Doc /\ row.doc # 0 /\ ~row.refusedAt
          BY <1>1, <4>1 DEF Agrees
        <4>3. ~proc[s].again
          BY <4>1, <4>2 DEF Agrees
        <4> QED  BY <3>1, <4>2, <4>3 DEF Register
      <3>2. CASE Prepare(s) /\ UNCHANGED overtaken
        BY <1>1, <3>2, SenderEffect DEF SenderMoves
      <3> QED  BY <2>1, <3>1, <3>2 DEF Send
    <2>2. ASSUME NEW h \in Hook, Handle(h) \/ ReconcileFails(h)
          PROVE  row'.signedAt /\ row'.doc = row.doc
      BY <1>1, <2>2, HookEffect DEF HookMoves
    <2> QED  BY <1>1, <2>1, <2>2 DEF Next, vars, Die, ClientActs, CreditiaStamp
  <1> QED  BY <1>1, RowInductive, PTL DEF Spec, SignatureKept

-----------------------------------------------------------------------------
(***************************************************************************)
(* Signers of Creditia.  The first one is added by the sender, before any  *)
(* delivery knows the document, or by a delivery; a second one only by a   *)
(* delivery that had read, before, that there was none.                    *)
(***************************************************************************)
Blind(d) == {h \in Hook : IsBlind(proc[h], d)}

Limit == IF Hook = {} THEN 1 ELSE Cardinality(Hook)

\* A delivery that is blind will add one signer at most, once.
SignersAndBlind(d) ==
  \/ doc[d].signers = {}
  \/ Cardinality(doc[d].signers) + Cardinality(Blind(d)) <= Limit

SignersBounded == \A d \in Doc : SignersAndBlind(d)

LEMMA SignersAreFew ==
  ASSUME IsFiniteSet(Hook), IInv, NEW d \in Doc
  PROVE  /\ IsFiniteSet(doc[d].signers) /\ Cardinality(doc[d].signers) \in Nat
         /\ IsFiniteSet(Blind(d)) /\ Cardinality(Blind(d)) \in Nat
         /\ Cardinality(Blind(d)) <= Cardinality(Hook)
         /\ Cardinality(Hook) \in Nat /\ Limit \in Nat /\ 1 <= Limit
  <1>1. doc[d].signers \in SUBSET Signer
    BY HasFields DEF IInv, TypeOK
  <1>2. IsFiniteSet(Signer)
    BY ZapsignAssumption, FS_Interval DEF ZapsignAssumption, Signer
  <1>3. Blind(d) \in SUBSET Hook
    BY DEF Blind
  <1>4. Cardinality(Hook) \in Nat /\ (Hook # {} => Cardinality(Hook) # 0)
    BY FS_CardinalityType, FS_EmptySet
  <1> QED  BY <1>1, <1>2, <1>3, <1>4, FS_Subset, FS_CardinalityType DEF Limit

\* The signers stay, and no other delivery becomes blind.
LEMMA CountStays ==
  ASSUME IsFiniteSet(Hook), IInv, NEW d \in Doc, SignersAndBlind(d),
         doc'[d].signers = doc[d].signers,
         doc[d].signers # {} => Blind(d)' \subseteq Blind(d)
  PROVE  SignersAndBlind(d)'
  <1>1. CASE doc[d].signers = {}
    BY <1>1 DEF SignersAndBlind
  <1>2. CASE doc[d].signers # {}
    <2>1. Cardinality(Blind(d)') <= Cardinality(Blind(d)) /\ Cardinality(Blind(d)') \in Nat
      BY <1>2, SignersAreFew, FS_Subset, FS_CardinalityType
    <2>2. Cardinality(doc[d].signers) + Cardinality(Blind(d)) <= Limit
      BY <1>2 DEF SignersAndBlind
    <2>3. Limit' = Limit
      BY DEF Limit
    <2>4. Cardinality(doc[d].signers) + Cardinality(Blind(d)') <= Limit
      BY <2>1, <2>2, SignersAreFew
    <2>5. Cardinality(doc'[d].signers) + Cardinality(Blind(d)') <= Limit'
      BY <2>3, <2>4
    <2> QED  BY <2>5 DEF SignersAndBlind
  <1> QED  BY <1>1, <1>2

LEMMA SenderCounts ==
  ASSUME IsFiniteSet(Hook), RowInv, SignersBounded,
         NEW s \in Sender, NEW new \in Local, SenderMoves(s, new)
  PROVE  SignersBounded'
  <1> SUFFICES ASSUME NEW d \in Doc PROVE SignersAndBlind(d)'
    BY DEF SignersBounded
  <1>1. IInv /\ Owns(s) /\ SignersAndBlind(d) /\ \A h \in Hook : proc'[h] = proc[h]
    BY OthersStay DEF RowInv, WorkInv, SignersBounded, SenderMoves, Process
  <1>2. Blind(d)' = Blind(d)
    BY <1>1 DEF Blind
  <1>3. CASE doc'[d].signers = doc[d].signers
    BY <1>1, <1>2, <1>3, CountStays
  <1>4. CASE doc'[d].signers = {}
    BY <1>4 DEF SignersAndBlind
  <1>5. ASSUME NEW signer \in Signer, proc[s].pc = "add", d = proc[s].doc,
               doc'[d].signers = doc[d].signers \cup {signer}
        PROVE  SignersAndBlind(d)'
    <2>1. Blind(d) = {} /\ doc[d].signers = {}
      BY <1>1, <1>5 DEF Blind, IsBlind, Owns, Private
    <2>2. doc'[d].signers = {signer} /\ Blind(d)' = {} /\ Limit' = Limit
      BY <1>2, <1>5, <2>1 DEF Limit
    <2>3. Cardinality(doc'[d].signers) = 1 /\ Cardinality(Blind(d)') = 0
      BY <2>2, FS_Singleton, FS_EmptySet
    <2>4. 1 <= Limit /\ Limit \in Nat
      BY <1>1, SignersAreFew
    <2>5. Cardinality(doc'[d].signers) + Cardinality(Blind(d)') <= Limit'
      BY <2>2, <2>3, <2>4
    <2> QED  BY <2>5 DEF SignersAndBlind
  <1> QED  BY <1>3, <1>4, <1>5 DEF SenderMoves

LEMMA HookCounts ==
  ASSUME IsFiniteSet(Hook), RowInv, SignersBounded,
         NEW h \in Hook, NEW new \in Local, HookMoves(h, new)
  PROVE  SignersBounded'
  <1> SUFFICES ASSUME NEW d \in Doc PROVE SignersAndBlind(d)'
    BY DEF SignersBounded
  <1>1. IInv /\ SignersAndBlind(d) /\ proc'[h] = new
        /\ \A other \in Hook \ {h} : proc'[other] = proc[other]
    BY OthersStay DEF RowInv, SignersBounded, HookMoves, Process
  <1>2. CASE doc'[d].signers = doc[d].signers
    <2>1. doc[d].signers # {} => ~IsBlind(new, d)
      BY <1>2 DEF HookMoves, IsBlind
    <2>2. doc[d].signers # {} => Blind(d)' \subseteq Blind(d)
      BY <1>1, <2>1 DEF Blind
    <2> QED  BY <1>1, <1>2, <2>2, CountStays
  <1>3. ASSUME NEW signer \in Signer, IsBlind(proc[h], d), new.pc # "reconcile",
               doc'[d].signers = doc[d].signers \cup {signer}
        PROVE  SignersAndBlind(d)'
    <2>1. Blind(d)' = Blind(d) \ {h} /\ h \in Blind(d)
      BY <1>1, <1>3 DEF Blind, IsBlind
    <2>2. /\ IsFiniteSet(doc[d].signers) /\ Cardinality(doc[d].signers) \in Nat
          /\ IsFiniteSet(Blind(d)) /\ Cardinality(Blind(d)) \in Nat
          /\ Cardinality(Blind(d)) <= Cardinality(Hook) /\ Cardinality(Hook) \in Nat
          /\ Limit \in Nat
      BY <1>1, SignersAreFew
    <2>3. Cardinality(Blind(d)') = Cardinality(Blind(d)) - 1
      BY <2>1, <2>2, FS_RemoveElement
    <2>4. Cardinality(doc'[d].signers) \in Nat
          /\ Cardinality(doc'[d].signers) <= Cardinality(doc[d].signers) + 1
      <3> DEFINE old == doc[d].signers
      <3> HIDE DEF old
      <3>1. IsFiniteSet(old) /\ Cardinality(old) \in Nat
        BY <2>2 DEF old
      <3>2. Cardinality(old \cup {signer}) =
              IF signer \in old THEN Cardinality(old) ELSE Cardinality(old) + 1
        BY <3>1, FS_AddElement
      <3>3. /\ Cardinality(old \cup {signer}) \in Nat
            /\ Cardinality(old \cup {signer}) <= Cardinality(old) + 1
        BY <3>1, <3>2
      <3> QED  BY <1>3, <3>3 DEF old
    <2>5. Limit' = Limit /\ Limit = Cardinality(Hook)
      BY DEF Limit
    <2>6. Cardinality(doc[d].signers) + Cardinality(Blind(d)) <= Limit
      <3>1. CASE doc[d].signers = {}
        BY <2>2, <2>5, <3>1, FS_EmptySet
      <3>2. CASE doc[d].signers # {}
        BY <1>1, <3>2 DEF SignersAndBlind
      <3> QED  BY <3>1, <3>2
    <2>7. Cardinality(doc'[d].signers) + Cardinality(Blind(d)') <= Limit'
      BY <2>2, <2>3, <2>4, <2>5, <2>6
    <2> QED  BY <2>7 DEF SignersAndBlind
  <1> QED  BY <1>2, <1>3 DEF HookMoves

LEMMA OthersCount ==
  ASSUME IsFiniteSet(Hook), RowInv, SignersBounded,
         \/ \E s \in Sender : Register(s)
         \/ \E p \in Process : Die(p)
         \/ \E d \in Doc : ClientActs(d) \/ CreditiaStamp(d)
         \/ UNCHANGED vars
  PROVE  SignersBounded'
  <1> SUFFICES ASSUME NEW d \in Doc PROVE SignersAndBlind(d)'
    BY DEF SignersBounded
  <1>1. IInv /\ SignersAndBlind(d)
    BY DEF RowInv, SignersBounded
  <1>2. doc'[d].signers = doc[d].signers
    BY ZapsignKeeps DEF RowInv, IInv, TypeOK, Register, Die, vars, zapsignVars
  <1>3. \A h \in Hook : proc'[h] = proc[h] \/ proc'[h].pc = "idle"
    <2>1. ASSUME NEW p \in Process, Finish(p)
          PROVE  \A h \in Hook : proc'[h] = proc[h] \/ proc'[h].pc = "idle"
      BY <1>1, <2>1, OthersStay, IdleIsLocal DEF Finish, Process
    <2> QED  BY <2>1 DEF Register, Die, ClientActs, CreditiaStamp, vars, Process
  <1>4. Blind(d)' \subseteq Blind(d)
    BY <1>3 DEF Blind, IsBlind
  <1> QED  BY <1>1, <1>2, <1>4, CountStays

\* Creditia is a signer of a document once, or as many times as deliveries can
\* be handled at the same moment: the repair is not repeated by a later
\* delivery, whatever fails on the way.  With one delivery at a time, once.
THEOREM SignersOfDeliveriesHold ==
  ASSUME IsFiniteSet(Hook)
  PROVE  Spec => []SignersOfDeliveries
  <1>1. Init => SignersBounded
    BY DEF Init, ZapsignInit, NoDocument, SignersBounded, SignersAndBlind
  <1>2. ASSUME RowInv, SignersBounded, [Next]_vars PROVE SignersBounded'
    <2>1. ASSUME NEW s \in Sender, Send(s) PROVE SignersBounded'
      BY <1>2, <2>1, SenderEffect, SenderCounts, OthersCount DEF Send, RowInv
    <2>2. ASSUME NEW h \in Hook, Handle(h) \/ ReconcileFails(h) PROVE SignersBounded'
      BY <1>2, <2>2, HookEffect, HookCounts DEF RowInv
    <2> QED  BY <1>2, <2>1, <2>2, OthersCount DEF Next
  <1>3. ASSUME RowInv, SignersBounded PROVE SignersOfDeliveries
    <2> SUFFICES ASSUME NEW d \in Doc
                 PROVE  \/ Cardinality(doc[d].signers) <= 1
                        \/ Cardinality(doc[d].signers) <= Cardinality(Hook)
      BY DEF SignersOfDeliveries
    <2>1. /\ Cardinality(doc[d].signers) \in Nat /\ Cardinality(Blind(d)) \in Nat
          /\ Cardinality(Hook) \in Nat
      BY <1>3, SignersAreFew DEF RowInv
    <2>2. doc[d].signers = {} => Cardinality(doc[d].signers) = 0
      BY FS_EmptySet
    <2> QED  BY <1>3, <2>1, <2>2 DEF SignersBounded, SignersAndBlind, Limit
  <1> QED  BY <1>1, <1>2, <1>3, RowInductive, PTL DEF Spec
=============================================================================
