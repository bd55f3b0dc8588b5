--------------------------- MODULE CreditStudies ---------------------------
(***************************************************************************)
(* The life of the credit studies of a company and of their promissory     *)
(* notes: statements are extracted from a PDF, the study is performed,     *)
(* support may reset it, a note is issued and sent to be signed in         *)
(* Zapsign, and it is declined by the company or signed or refused by the  *)
(* debtor.  Five services write credit_studies.status_id and none of them  *)
(* guards its write: each checks what it read one or more awaits before.   *)
(*                                                                         *)
(* A Request is a request of a user and a Hook the delivery of a webhook;  *)
(* both are processes, and one action is one database call or one call     *)
(* outside, with what was read before it.                                  *)
(*                                                                         *)
(* Left out: figures, indicators and the score (only whether the study is  *)
(* viable), the text of the note and the checks of its data (amount,       *)
(* e-mail, bank), which change nothing; the archive of resets and the log  *)
(* of extractions, which nothing reads back; the states confirmed and      *)
(* rejected of a study, which nothing writes.                              *)
(***************************************************************************)
EXTENDS Integers, FiniteSets

CONSTANTS
  Study,
  Note,           \* ids of promissory_notes, numbered in order of creation
  Request, Hook,  \* requests of users, deliveries of webhooks
  None,           \* null
  Reported,       \* studies whose customer's last consultation has statements
  MaxNumber,      \* bound: numbers of the notes of the company
  MaxFaults       \* bound: processes that die and calls that fail

Process == Request \cup Hook

VARIABLES
  study,   \* rows of credit_studies
  frozen,  \* how many analyses of each source the study has frozen
  note,    \* rows of promissory_notes
  proc,    \* locals of each process
  doc,     \* external: the document of each note at Zapsign
  due,     \* external: notes whose doc_signed or doc_refused is to be posted
  faults

ASSUME StudyAssumption ==
  /\ Note \subseteq Nat \ {0}
  /\ None \notin Study \cup Note
  /\ Request \cap Hook = {}
  /\ Reported \subseteq Study
  /\ {MaxNumber, MaxFaults} \subseteq Nat

externalVars == <<doc, due>>
vars == <<study, frozen, note, proc, faults, externalVars>>

-----------------------------------------------------------------------------
StudyStatus == {"absent", "pendingFinancialStatements", "pendingStudyAnalysis",
                "studyCompleted", "pendingSignature", "closed"}

\* LOCKED_STUDY_STATUSES.
Locked == {"pendingSignature", "closed"}

Viability == {"none", "viable", "rejected"}
StudyRow == [status : StudyStatus, viability : Viability]

Source == {"pdf_upload", "datacredito"}
NoSources == [src \in Source |-> 0]

NoteStatus == {"absent", "pending", "signed", "declined", "deleted"}

\* token: whether provider_doc_token is stored, so that webhooks find the row.
NoteRow == [status : NoteStatus, study : Study \cup {None}, number : Nat,
            token : BOOLEAN, signedAt : BOOLEAN, declinedAt : BOOLEAN]
NoNote == [status |-> "absent", study |-> None, number |-> 0,
           token |-> FALSE, signedAt |-> FALSE, declinedAt |-> FALSE]

DocState == {"none", "pending", "signed", "refused"}

PC == {"idle", "unfreeze", "pdf", "bureau", "advance", "inputs", "score", "reset",
       "count", "number", "insert", "send", "store", "undo", "lock",
       "decline", "reopen", "claim", "close"}

\* first: the study was waiting for its statements when the request began.
ProcState == [pc : PC, study : Study \cup {None}, note : Note \cup {None},
              number : Nat, tries : 0..2, first : BOOLEAN]
Idle == [pc |-> "idle", study |-> None, note |-> None,
         number |-> 0, tries |-> 0, first |-> FALSE]

Init ==
  /\ study = [s \in Study |-> [status |-> "absent", viability |-> "none"]]
  /\ frozen = [s \in Study |-> NoSources]
  /\ note = [n \in Note |-> NoNote]
  /\ proc = [p \in Process |-> Idle]
  /\ doc = [n \in Note |-> "none"]
  /\ due = {}
  /\ faults = 0

-----------------------------------------------------------------------------
(***************************************************************************)
(* Steps of a process.                                                     *)
(***************************************************************************)
At(p, pc) == proc[p].pc = pc
Begin(p, pc, s) == /\ At(p, "idle")
                   /\ proc' = [proc EXCEPT ![p] = [Idle EXCEPT !.pc = pc, !.study = s]]
Goto(p, pc) == proc' = [proc EXCEPT ![p].pc = pc]
Finish(p) == proc' = [proc EXCEPT ![p] = Idle]

Fail == faults < MaxFaults /\ faults' = faults + 1

SetStatus(s, status) == study' = [study EXCEPT ![s].status = status]

\* A webhook is answered when its handler returns.
Answer(p) == /\ Finish(p)
             /\ due' = IF p \in Hook THEN due \ {proc[p].note} ELSE due

\* A study that exists and may still be worked on, as of this read.
Open(s) == study[s].status \notin Locked \cup {"absent"}

\* createFromBureau, past the gate, the bureau and the credit.
CreateStudy(s) ==
  /\ study[s].status = "absent"
  /\ SetStatus(s, "pendingFinancialStatements")
  /\ UNCHANGED <<frozen, note, proc, faults, externalVars>>

-----------------------------------------------------------------------------
(***************************************************************************)
(* extractPdfForStudy.  The PDF is read, for minutes, between the check    *)
(* and the first write.                                                    *)
(***************************************************************************)
StartExtract(p, s) ==
  /\ Open(s)
  /\ At(p, "idle")
  /\ proc' = [proc EXCEPT ![p] =
                [Idle EXCEPT !.pc = "unfreeze", !.study = s,
                             !.first = study[s].status = "pendingFinancialStatements"]]
  /\ UNCHANGED <<study, frozen, note, faults, externalVars>>

\* unfreezeStudyAnalyses: one transaction.
Unfreeze(p) ==
  /\ At(p, "unfreeze")
  /\ frozen' = [frozen EXCEPT ![proc[p].study] = NoSources]
  /\ Goto(p, "pdf")
  /\ UNCHANGED <<study, note, faults, externalVars>>

\* persistAnalysis: one transaction.
Persist(s, src) == frozen' = [frozen EXCEPT ![s][src] = @ + 1]

PersistPdf(p) ==
  /\ At(p, "pdf")
  /\ Persist(proc[p].study, "pdf_upload")
  /\ Goto(p, "bureau")
  /\ UNCHANGED <<study, note, faults, externalVars>>

\* buildDataCreditoAnalysis: only if the last consultation brought statements.
PersistBureau(p) ==
  /\ At(p, "bureau")
  /\ IF proc[p].study \in Reported
     THEN Persist(proc[p].study, "datacredito") ELSE UNCHANGED frozen
  /\ IF proc[p].first THEN Goto(p, "advance") ELSE Finish(p)
  /\ UNCHANGED <<study, note, faults, externalVars>>

Advance(p) ==
  /\ At(p, "advance")
  /\ SetStatus(proc[p].study, "pendingStudyAnalysis")
  /\ Finish(p)
  /\ UNCHANGED <<frozen, note, faults, externalVars>>

-----------------------------------------------------------------------------
(***************************************************************************)
(* performStudy and resetCreditStudy.                                      *)
(***************************************************************************)
StartPerform(p, s) ==
  /\ Open(s)
  /\ Begin(p, "inputs", s)
  /\ UNCHANGED <<study, frozen, note, faults, externalVars>>

\* findFrozenAnalyses: the source asked for is needed, or any if none is.
ReadInputs(p) ==
  /\ At(p, "inputs")
  /\ \E asked \in {Source} \cup {{src} : src \in Source} :
       IF \E src \in asked : frozen[proc[p].study][src] > 0
       THEN Goto(p, "score") ELSE Finish(p)
  /\ UNCHANGED <<study, frozen, note, faults, externalVars>>

Score(p) ==
  /\ At(p, "score")
  /\ \E v \in Viability \ {"none"} :
       study' = [study EXCEPT ![proc[p].study] = [status |-> "studyCompleted", viability |-> v]]
  /\ Finish(p)
  /\ UNCHANGED <<frozen, note, faults, externalVars>>

StartReset(p, s) ==
  /\ Open(s)
  /\ Begin(p, "reset", s)
  /\ UNCHANGED <<study, frozen, note, faults, externalVars>>

\* One transaction.
Reset(p) ==
  /\ At(p, "reset")
  /\ frozen' = [frozen EXCEPT ![proc[p].study] = NoSources]
  /\ study' = [study EXCEPT ![proc[p].study] =
                 [status |-> "pendingFinancialStatements", viability |-> "none"]]
  /\ Finish(p)
  /\ UNCHANGED <<note, faults, externalVars>>

-----------------------------------------------------------------------------
(***************************************************************************)
(* issue.                                                                  *)
(***************************************************************************)
\* The gate is the viability; the state of the study is not looked at.
StartIssue(p, s) ==
  /\ study[s].viability = "viable"
  /\ Begin(p, "count", s)
  /\ UNCHANGED <<study, frozen, note, faults, externalVars>>

Rows == {n \in Note : note[n].status \notin {"absent", "deleted"}}
Active == {n \in Note : note[n].status \in {"pending", "signed"}}

\* countActiveByCreditStudy.
CountActive(p) ==
  /\ At(p, "count")
  /\ IF \E n \in Active : note[n].study = proc[p].study
     THEN Finish(p) ELSE Goto(p, "number")
  /\ UNCHANGED <<study, frozen, note, faults, externalVars>>

\* nextNoteNumber: one more than the largest number of the company.
NextNumber(k) == /\ \A n \in Rows : note[n].number < k
                 /\ k = 1 \/ \E n \in Rows : note[n].number = k - 1

ReadNumber(p) ==
  /\ At(p, "number")
  /\ \E k \in 1..MaxNumber :
       /\ NextNumber(k)
       /\ proc' = [proc EXCEPT ![p] = [@ EXCEPT !.pc = "insert", !.number = k]]
  /\ UNCHANGED <<study, frozen, note, faults, externalVars>>

Taken(k) == \E n \in Rows : note[n].number = k

Fresh(n) == /\ note[n].status = "absent"
            /\ \A m \in Note : note[m].status = "absent" => n <= m

\* Mutant: the row does not name its study.
LooseNote(p) == [NoNote EXCEPT !.status = "pending", !.number = proc[p].number]

NewNote(p) == [NoNote EXCEPT !.status = "pending", !.study = proc[p].study,
                             !.number = proc[p].number]

\* Mutant: the study waits for a signature from the moment there is a row.
InsertAndLock(p) ==
  /\ At(p, "insert")
  /\ ~Taken(proc[p].number)
  /\ \E n \in Note :
       /\ Fresh(n)
       /\ note' = [note EXCEPT ![n] = NewNote(p)]
       /\ proc' = [proc EXCEPT ![p] = [@ EXCEPT !.pc = "send", !.note = n]]
  /\ SetStatus(proc[p].study, "pendingSignature")
  /\ UNCHANGED <<frozen, faults, externalVars>>

InsertNote(p) ==
  /\ At(p, "insert")
  /\ ~Taken(proc[p].number)
  /\ \E n \in Note :
       /\ Fresh(n)
       /\ note' = [note EXCEPT ![n] = NewNote(p)]
       /\ proc' = [proc EXCEPT ![p] = [@ EXCEPT !.pc = "send", !.note = n]]
  /\ UNCHANGED <<study, frozen, faults, externalVars>>

\* The unique (company, noteNumber) failed: three attempts in all.
RetryNumber(p) ==
  /\ At(p, "insert")
  /\ Taken(proc[p].number)
  /\ IF proc[p].tries < 2
     THEN proc' = [proc EXCEPT ![p] = [@ EXCEPT !.pc = "number", !.tries = proc[p].tries + 1]]
     ELSE Finish(p)
  /\ UNCHANGED <<study, frozen, note, faults, externalVars>>

\* createDocFromTemplate.  When it fails the document may exist all the same.
SendDocument(p) ==
  /\ At(p, "send")
  /\ \/ /\ doc' = [doc EXCEPT ![proc[p].note] = "pending"]
        /\ Goto(p, "store")
        /\ UNCHANGED faults
     \/ /\ Fail
        /\ doc' \in {doc, [doc EXCEPT ![proc[p].note] = "pending"]}
        /\ Goto(p, "undo")
  /\ UNCHANGED <<study, frozen, note, due>>

StoreToken(p) ==
  /\ At(p, "store")
  /\ \/ /\ note' = [note EXCEPT ![proc[p].note].token = TRUE]
        /\ Goto(p, "lock")
        /\ UNCHANGED faults
     \/ /\ Fail
        /\ Goto(p, "undo")
        /\ UNCHANGED note
  /\ UNCHANGED <<study, frozen, externalVars>>

\* Mutant: every note of the study that is not signed is deleted.
UndoByStudy(p) ==
  /\ At(p, "undo")
  /\ note' = [n \in Note |-> IF note[n].study = proc[p].study /\ ~note[n].signedAt
                             THEN [note[n] EXCEPT !.status = "deleted"] ELSE note[n]]
  /\ Finish(p)
  /\ UNCHANGED <<study, frozen, faults, externalVars>>

\* The row is deleted, best effort, and its number is free again.
UndoIssue(p) ==
  /\ At(p, "undo")
  /\ \/ /\ note' = [note EXCEPT ![proc[p].note].status = "deleted"]
        /\ UNCHANGED faults
     \/ Fail /\ UNCHANGED note
  /\ Finish(p)
  /\ UNCHANGED <<study, frozen, externalVars>>

LockStudy(p) ==
  /\ At(p, "lock")
  /\ SetStatus(proc[p].study, "pendingSignature")
  /\ Finish(p)
  /\ UNCHANGED <<frozen, note, faults, externalVars>>

-----------------------------------------------------------------------------
(***************************************************************************)
(* decline, and the webhooks doc_refused and doc_signed.  What Zapsign     *)
(* says of a document is read again by each handler; a document signed or  *)
(* refused stays so, thus that read and the read of the note are one step. *)
(***************************************************************************)
StartDecline(p, n) ==
  /\ At(p, "idle")
  /\ note[n].status = "pending"
  /\ proc' = [proc EXCEPT ![p] = [Idle EXCEPT !.pc = "decline", !.note = n,
                                              !.study = note[n].study]]
  /\ UNCHANGED <<study, frozen, note, faults, externalVars>>

\* The handlers find the row by its token and ignore one that is settled.
Settled(n) == \/ note[n].signedAt
              \/ doc[n] = "refused" /\ note[n].declinedAt

\* doc_refused goes on as a decline, doc_signed claims the signature.
Deliver(p, n) ==
  /\ At(p, "idle")
  /\ n \in due
  /\ note[n].token
  /\ ~Settled(n)
  /\ proc' = [proc EXCEPT ![p] =
                [Idle EXCEPT !.pc = IF doc[n] = "signed" THEN "claim" ELSE "decline",
                             !.note = n, !.study = note[n].study]]
  /\ UNCHANGED <<study, frozen, note, faults, externalVars>>

\* A row that is settled, or no row with that token: nothing to do.
IgnoreWebhook(n) ==
  /\ n \in due
  /\ note[n].token => Settled(n)
  /\ due' = due \ {n}
  /\ UNCHANGED <<study, frozen, note, proc, faults, doc>>

\* markDeclined: the note by its id, whatever it has become, then the study;
\* the update of a row that an issue deleted meanwhile fails.
MarkDeclined(p) ==
  /\ At(p, "decline")
  /\ IF note[proc[p].note].status = "deleted"
     THEN Finish(p) /\ UNCHANGED note
     ELSE /\ note' = [note EXCEPT ![proc[p].note] = [@ EXCEPT !.status = "declined",
                                                              !.declinedAt = TRUE]]
          /\ Goto(p, "reopen")
  /\ UNCHANGED <<study, frozen, faults, externalVars>>

ReopenStudy(p) ==
  /\ At(p, "reopen")
  /\ SetStatus(proc[p].study, "studyCompleted")
  /\ Answer(p)
  /\ UNCHANGED <<frozen, note, faults, doc>>

\* Mutant: the pending notes of the study are marked, whichever was signed.
MarkSignedByStudy(p) ==
  /\ At(p, "claim")
  /\ note' = [n \in Note |-> IF note[n].study = proc[p].study /\ note[n].status = "pending"
                             THEN [note[n] EXCEPT !.status = "signed", !.signedAt = TRUE]
                             ELSE note[n]]
  /\ Goto(p, "close")
  /\ UNCHANGED <<study, frozen, faults, externalVars>>

\* markSigned: only if it was not signed yet.
MarkSigned(p) ==
  /\ At(p, "claim")
  /\ IF note[proc[p].note].signedAt
     THEN Answer(p) /\ UNCHANGED note
     ELSE /\ note' = [note EXCEPT ![proc[p].note] = [@ EXCEPT !.status = "signed",
                                                              !.signedAt = TRUE]]
          /\ Goto(p, "close")
          /\ UNCHANGED due
  /\ UNCHANGED <<study, frozen, faults, doc>>

\* Mutant: a study that is not waiting for a signature is left alone.
CloseWaiting(p) ==
  /\ At(p, "close")
  /\ IF study[proc[p].study].status = "pendingSignature"
     THEN SetStatus(proc[p].study, "closed") ELSE UNCHANGED study
  /\ Answer(p)
  /\ UNCHANGED <<frozen, note, faults, doc>>

CloseStudy(p) ==
  /\ At(p, "close")
  /\ SetStatus(proc[p].study, "closed")
  /\ Answer(p)
  /\ UNCHANGED <<frozen, note, faults, doc>>

\* Mutant: a webhook is answered before it is handled.
DieAnswered(p) ==
  /\ proc[p].pc # "idle"
  /\ Fail
  /\ Answer(p)
  /\ UNCHANGED <<study, frozen, note, doc>>

\* A process dies between two calls, or one fails and ends it.
Die(p) ==
  /\ proc[p].pc # "idle"
  /\ Fail
  /\ Finish(p)
  /\ UNCHANGED <<study, frozen, note, externalVars>>

-----------------------------------------------------------------------------
(***************************************************************************)
(* Zapsign and the debtor.                                                 *)
(***************************************************************************)
Settle(n, state) ==
  /\ doc[n] = "pending"
  /\ doc' = [doc EXCEPT ![n] = state]
  /\ due' = due \cup {n}
  /\ UNCHANGED <<study, frozen, note, proc, faults>>

DebtorSigns(n) == Settle(n, "signed")
DebtorRefuses(n) == Settle(n, "refused")

\* A webhook is posted once more.
PostAgain(n) ==
  /\ doc[n] \in {"signed", "refused"}
  /\ n \notin due
  /\ due' = due \cup {n}
  /\ UNCHANGED <<study, frozen, note, proc, faults, doc>>

Start(p, s) == \/ StartExtract(p, s) \/ StartPerform(p, s) \/ StartReset(p, s)
               \/ StartIssue(p, s)

Continue(p) ==
  \/ Unfreeze(p) \/ PersistPdf(p) \/ PersistBureau(p) \/ Advance(p)
  \/ ReadInputs(p) \/ Score(p) \/ Reset(p)
  \/ CountActive(p) \/ ReadNumber(p) \/ InsertNote(p) \/ RetryNumber(p)
  \/ SendDocument(p) \/ StoreToken(p) \/ UndoIssue(p) \/ LockStudy(p)
  \/ MarkDeclined(p) \/ ReopenStudy(p) \/ MarkSigned(p) \/ CloseStudy(p)

Next ==
  \/ \E s \in Study : CreateStudy(s)
  \/ \E p \in Request, s \in Study : Start(p, s)
  \/ \E p \in Request, n \in Note : StartDecline(p, n)
  \/ \E p \in Hook, n \in Note : Deliver(p, n)
  \/ \E p \in Process : Continue(p) \/ Die(p)
  \/ \E n \in Note : \/ IgnoreWebhook(n) \/ DebtorSigns(n) \/ DebtorRefuses(n)
                     \/ PostAgain(n)

Spec == Init /\ [][Next]_vars

(***************************************************************************)
(* Requests in progress go on and Zapsign posts what is due.  Nobody has   *)
(* to start anything or to sign.                                           *)
(***************************************************************************)
Fairness ==
  /\ \A p \in Process : WF_vars(Continue(p))
  /\ \A n \in Note : WF_vars(IgnoreWebhook(n) \/ \E p \in Hook : Deliver(p, n))

FairSpec == Spec /\ Fairness

-----------------------------------------------------------------------------
(***************************************************************************)
(* Properties.                                                             *)
(***************************************************************************)
\* Rows and locals have the values declared for them, a row of a note names
\* its study, and a process in progress names what its next step needs.
TypeOK ==
  /\ study \in [Study -> StudyRow]
  /\ frozen \in [Study -> [Source -> Nat]]
  /\ note \in [Note -> NoteRow]
  /\ \A n \in Note : note[n].status # "absent" => note[n].study # None
  /\ proc \in [Process -> ProcState]
  /\ \A p \in Process : proc[p].pc # "idle" => proc[p].study # None
  /\ doc \in [Note -> DocState]
  /\ due \subseteq Note
  /\ faults \in Nat

\* A note is recorded as signed only if its own document was signed, however
\* many notes the study has had and whoever declined them meanwhile.
SignatureIsReal == \A n \in Note : note[n].signedAt => doc[n] = "signed"

\* A study that waits for a signature has a note whose document was sent and
\* whose webhooks will be recognised; one that is closed has a signed note.
LockedByNote ==
  \A s \in Study :
    /\ study[s].status = "pendingSignature" =>
         \E n \in Note : note[n].study = s /\ note[n].token /\ doc[n] # "none"
    /\ study[s].status = "closed" =>
         \E n \in Note : note[n].study = s /\ note[n].signedAt

\* What was sent to be signed is never lost: no failed issue, decline or other
\* webhook deletes its row, renumbers it or drops its signature.
SentNotesKept ==
  [][\A n \in Note : note[n].token =>
       /\ note'[n].token
       /\ note'[n].status # "deleted"
       /\ note'[n].study = note[n].study
       /\ note'[n].number = note[n].number
       /\ note[n].signedAt => note'[n].signedAt]_vars

\* The signature of a note that was sent is recorded in the end, though the
\* note was declined meanwhile and though a delivery may be cut short.
SignatureRecorded ==
  \A n \in Note :
    n \in due /\ doc[n] = "signed" /\ note[n].token ~> note[n].signedAt

\* A signed note closes its study, if nothing failed: after a crash between
\* the two commits the webhook finds a signed note and is ignored.
SignedCloses ==
  \A n \in Note, s \in Study :
    <>(note[n].signedAt /\ note[n].study = s)
      => <>(study[s].status = "closed" \/ faults > 0)
=============================================================================
