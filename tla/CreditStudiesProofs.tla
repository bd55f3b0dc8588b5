------------------------ MODULE CreditStudiesProofs -------------------------
(***************************************************************************)
(* Safety of CreditStudies, for any number of studies, notes and processes *)
(* and whatever fails.                                                     *)
(*                                                                         *)
(* No write of a handler is guarded, so a step is right only because of    *)
(* what earlier steps of the same process left true and no other process   *)
(* may undo.  Sane says it: an issue owns its note until the token is      *)
(* stored, a signature claimed was seen at Zapsign, a study about to be    *)
(* locked or closed has its note.  KeepsNotes says what no step undoes.    *)
(***************************************************************************)
EXTENDS CreditStudies, TLAPS

-----------------------------------------------------------------------------
(***************************************************************************)
(* The invariant.                                                          *)
(***************************************************************************)
StudyOK == /\ study \in [Study -> StudyRow]
           /\ frozen \in [Study -> [Source -> Nat]]

\* An id not used yet has neither row nor document; a row whose document was
\* sent is not deleted; and a signature is one that the debtor made.
NoteOK ==
  /\ note \in [Note -> NoteRow]
  /\ doc \in [Note -> DocState]
  /\ \A n \in Note :
       /\ IF note[n].status = "absent" THEN note[n] = NoNote /\ doc[n] = "none"
          ELSE note[n].study # None
       /\ note[n].token => note[n].status # "deleted"
       /\ note[n].signedAt => doc[n] = "signed"

\* Where an issue owns its note, and where a process holds one.
Owning == {"send", "store", "undo"}
Holding == Owning \cup {"lock", "decline", "reopen", "claim", "close"}

\* What a process may rely on at each of its steps.
Knows(r, rows, docs) ==
  /\ r.pc # "idle" => r.study # None
  /\ r.pc \in Holding => /\ r.note # None
                         /\ rows[r.note].status # "absent"
                         /\ rows[r.note].study = r.study
  /\ r.pc \in Owning => ~rows[r.note].token /\ rows[r.note].status # "deleted"
  /\ r.pc = "send" => docs[r.note] = "none"
  /\ r.pc \in {"store", "lock"} => docs[r.note] # "none"
  /\ r.pc = "lock" => rows[r.note].token
  /\ r.pc = "claim" => docs[r.note] = "signed"
  /\ r.pc = "close" => rows[r.note].signedAt

\* No two issues own one note.
Exclusive ==
  \A p, q \in Process :
    /\ p # q
    /\ proc[p].pc \in Owning
    /\ proc[q].pc \in Owning
    => proc[p].note # proc[q].note

ProcOK == /\ proc \in [Process -> ProcState]
          /\ \A p \in Process : Knows(proc[p], note, doc)
          /\ Exclusive

RestOK == due \subseteq Note /\ faults \in Nat

Sane == StudyOK /\ NoteOK /\ ProcOK /\ RestOK

(***************************************************************************)
(* What a step may not undo.                                               *)
(***************************************************************************)
KeepsNotes ==
  \A n \in Note :
    /\ note[n].status # "absent" => /\ note'[n].status # "absent"
                                    /\ note'[n].study = note[n].study
                                    /\ note'[n].number = note[n].number
    /\ note[n].token => note'[n].token /\ note'[n].status # "deleted"
    /\ note[n].signedAt => note'[n].signedAt
    /\ doc[n] # "none" => doc'[n] # "none"
    /\ doc[n] = "signed" => doc'[n] = "signed"

\* A document is sent, its token stored or its row deleted only by the issue
\* that owns the note.
OwnersSend(p) ==
  \A n \in Note :
    \/ /\ note'[n].token = note[n].token
       /\ doc[n] = "none" => doc'[n] = "none"
       /\ note'[n].status = "deleted" => note[n].status = "deleted"
    \/ proc[p].pc \in Owning /\ proc[p].note = n

LEMMA SaneTyped == ASSUME Sane PROVE TypeOK /\ SignatureIsReal
  <1>1. \A n \in Note : note[n].status # "absent" => note[n].study # None
    BY DEF Sane, NoteOK
  <1>2. \A p \in Process : proc[p].pc # "idle" => proc[p].study # None
    BY DEF Sane, ProcOK, Knows
  <1>3. TypeOK
    BY <1>1, <1>2 DEF Sane, StudyOK, NoteOK, ProcOK, RestOK, TypeOK
  <1>4. SignatureIsReal
    BY DEF Sane, NoteOK, SignatureIsReal
  <1> QED  BY <1>3, <1>4

LEMMA NoneApart ==
  ASSUME StudyAssumption
  PROVE  /\ \A s \in Study : s # None
         /\ \A n \in Note : n # None
  BY DEF StudyAssumption

LEMMA InitSane == ASSUME StudyAssumption, Init PROVE Sane
  <1>1. StudyOK
    BY DEF Init, StudyOK, StudyRow, StudyStatus, Viability, NoSources
  <1>2. NoteOK
    BY DEF Init, NoteOK, NoteRow, NoteStatus, NoNote, DocState
  <1>3. ProcOK
    BY DEF Init, ProcOK, ProcState, PC, Idle, Knows, Exclusive, Owning, Holding
  <1>4. RestOK
    BY DEF Init, RestOK
  <1> QED  BY <1>1, <1>2, <1>3, <1>4 DEF Sane

-----------------------------------------------------------------------------
(***************************************************************************)
(* What a change of one part asks of the others.                           *)
(***************************************************************************)
\* Nothing happens to notes and documents.
LEMMA NotesStay ==
  ASSUME NoteOK, UNCHANGED <<note, doc>>
  PROVE  NoteOK' /\ KeepsNotes /\ \A p : OwnersSend(p)
  BY DEF NoteOK, KeepsNotes, OwnersSend

LEMMA StudiesStay ==
  ASSUME StudyOK, UNCHANGED <<study, frozen>>
  PROVE  StudyOK'
  BY DEF StudyOK

\* The others keep what they know when one process goes on.
LEMMA ProcChanges ==
  ASSUME NoteOK, ProcOK, KeepsNotes,
         NEW p \in Process, OwnersSend(p),
         NEW r \in ProcState, Knows(r, note', doc'),
         r.pc \in Owning => \A q \in Process \ {p} :
                              proc[q].pc \in Owning => proc[q].note # r.note,
         proc' = [proc EXCEPT ![p] = r]
  PROVE  ProcOK'
  <1>1. proc' \in [Process -> ProcState]
    BY DEF ProcOK
  <1>2. ASSUME NEW q \in Process PROVE Knows(proc'[q], note', doc')
    <2>1. CASE q = p
      BY <2>1 DEF ProcOK
    <2>2. CASE q # p
      <3>1. proc'[q] = proc[q] /\ proc[q] \in ProcState /\ Knows(proc[q], note, doc)
        BY <2>2 DEF ProcOK
      <3>2. proc[q].pc \in Owning => ~(proc[p].pc \in Owning /\ proc[p].note = proc[q].note)
        BY <2>2 DEF ProcOK, Exclusive
      <3>3. proc[q].pc \in Holding => proc[q].note \in Note
        BY <3>1 DEF ProcState, Knows
      <3> QED  BY <3>1, <3>2, <3>3 DEF Knows, KeepsNotes, OwnersSend, Owning, Holding
    <2> QED  BY <2>1, <2>2
  <1>3. Exclusive'
    BY DEF ProcOK, Exclusive
  <1> QED  BY <1>1, <1>2, <1>3 DEF ProcOK

\* A process that owns no note more than before goes on; notes stay.
LEMMA ProcMoves ==
  ASSUME NoteOK, ProcOK, UNCHANGED <<note, doc>>,
         NEW p \in Process,
         NEW r \in ProcState, Knows(r, note, doc),
         r.pc \in Owning => proc[p].pc \in Owning /\ r.note = proc[p].note,
         proc' = [proc EXCEPT ![p] = r]
  PROVE  ProcOK'
  <1>1. KeepsNotes /\ OwnersSend(p)
    BY NotesStay
  <1>2. r.pc \in Owning => \A q \in Process \ {p} :
                             proc[q].pc \in Owning => proc[q].note # r.note
    BY DEF ProcOK, Exclusive
  <1> QED  BY <1>1, <1>2, ProcChanges

\* Processes stay, and nobody sends or stores.
LEMMA ProcsStay ==
  ASSUME NoteOK, ProcOK, KeepsNotes, UNCHANGED proc,
         \A n \in Note : /\ note'[n].token = note[n].token
                         /\ doc[n] = "none" => doc'[n] = "none"
                         /\ note'[n].status = "deleted" => note[n].status = "deleted"
  PROVE  ProcOK'
  <1>1. ASSUME NEW q \in Process PROVE Knows(proc'[q], note', doc')
    <2>1. proc'[q] = proc[q] /\ proc[q] \in ProcState /\ Knows(proc[q], note, doc)
      BY DEF ProcOK
    <2>2. proc[q].pc \in Holding => proc[q].note \in Note
      BY <2>1 DEF ProcState, Knows
    <2> QED  BY <2>1, <2>2 DEF Knows, KeepsNotes, Owning, Holding
  <1> QED  BY <1>1 DEF ProcOK, Exclusive

-----------------------------------------------------------------------------
(***************************************************************************)
(* The ways a process goes on without touching notes.                      *)
(***************************************************************************)
LEMMA FinishProc ==
  ASSUME NoteOK, ProcOK, KeepsNotes, NEW p \in Process, OwnersSend(p), Finish(p)
  PROVE  ProcOK'
  <1>1. Idle \in ProcState /\ Idle.pc = "idle"
    BY DEF Idle, ProcState, PC
  <1>2. Knows(Idle, note', doc') /\ Idle.pc \notin Owning
    BY <1>1 DEF Knows, Owning, Holding
  <1>3. proc' = [proc EXCEPT ![p] = Idle]
    BY DEF Finish
  <1> QED  BY <1>1, <1>2, <1>3, ProcChanges

LEMMA GotoProc ==
  ASSUME NoteOK, ProcOK, UNCHANGED <<note, doc>>,
         NEW p \in Process, NEW pc \in PC \ {"idle"}, Goto(p, pc),
         proc[p].pc # "idle",
         pc \in Holding => pc = "undo" /\ proc[p].pc \in Owning
  PROVE  ProcOK'
  <1> DEFINE r == [proc[p] EXCEPT !.pc = pc]
  <1>1. proc[p] \in ProcState /\ Knows(proc[p], note, doc)
    BY DEF ProcOK
  <1>2. r \in ProcState /\ r.pc = pc /\ r.note = proc[p].note /\ r.study = proc[p].study
    BY <1>1 DEF ProcState
  <1>3. Knows(r, note, doc)
    BY <1>1, <1>2 DEF Knows, Holding, Owning
  <1>4. r.pc \in Owning => proc[p].pc \in Owning /\ r.note = proc[p].note
    BY <1>2 DEF Holding
  <1>5. proc' = [proc EXCEPT ![p] = r]
    BY DEF Goto, ProcOK
  <1> QED  BY <1>2, <1>3, <1>4, <1>5, ProcMoves

LEMMA BeginProc ==
  ASSUME StudyAssumption, NoteOK, ProcOK, UNCHANGED <<note, doc>>,
         NEW p \in Process, NEW r \in ProcState,
         r.pc \notin Holding, r.study \in Study,
         proc' = [proc EXCEPT ![p] = r]
  PROVE  ProcOK'
  <1>1. Knows(r, note, doc) /\ r.pc \notin Owning
    BY NoneApart DEF Knows, Holding, Owning
  <1> QED  BY <1>1, ProcMoves

\* What is left to show of a step that leaves notes and documents alone.
LEMMA QuietStep ==
  ASSUME Sane, UNCHANGED <<note, doc>>, StudyOK', ProcOK', RestOK'
  PROVE  Sane' /\ KeepsNotes
  BY NotesStay DEF Sane

-----------------------------------------------------------------------------
(***************************************************************************)
(* The actions on a study.                                                 *)
(***************************************************************************)
LEMMA SetStatusOK ==
  ASSUME StudyOK, NEW s \in Study, NEW status \in StudyStatus,
         SetStatus(s, status), UNCHANGED frozen
  PROVE  StudyOK'
  BY DEF StudyOK, StudyRow, SetStatus

LEMMA ProcTyped ==
  ASSUME ProcOK, NEW p \in Process
  PROVE  /\ proc[p] \in ProcState
         /\ proc[p].pc # "idle" => proc[p].study \in Study
         /\ proc[p].pc \in Holding => proc[p].note \in Note
  BY DEF ProcOK, Knows, ProcState

LEMMA CreateStudySane ==
  ASSUME Sane, NEW s \in Study, CreateStudy(s)
  PROVE  Sane' /\ KeepsNotes
  <1>1. StudyOK'
    BY SetStatusOK DEF CreateStudy, StudyStatus, Sane
  <1>2. UNCHANGED <<note, doc, due, proc, faults>>
    BY DEF CreateStudy, externalVars
  <1>3. ProcOK' /\ RestOK'
    BY <1>2 DEF Sane, ProcOK, RestOK, Exclusive
  <1> QED  BY <1>1, <1>2, <1>3, QuietStep

LEMMA StartSane ==
  ASSUME StudyAssumption, Sane, NEW p \in Request, NEW s \in Study, Start(p, s)
  PROVE  Sane' /\ KeepsNotes
  <1> USE DEF Sane
  <1>p. p \in Process
    BY DEF Process
  <1>1. UNCHANGED <<study, frozen, note, doc, due, faults>>
    BY DEF Start, StartExtract, StartPerform, StartReset, StartIssue, externalVars
  <1>2. Idle \in ProcState
    BY DEF Idle, ProcState, PC
  <1>3. ASSUME NEW pc \in {"inputs", "reset", "count"}, Begin(p, pc, s) PROVE ProcOK'
    <2> DEFINE r == [Idle EXCEPT !.pc = pc, !.study = s]
    <2>1. pc \in PC /\ pc \notin Holding
      BY DEF PC, Holding, Owning
    <2>2. r \in ProcState /\ r.pc = pc /\ r.study = s
      BY <1>2, <2>1 DEF ProcState
    <2>3. proc' = [proc EXCEPT ![p] = r]
      BY <1>3 DEF Begin
    <2> QED  BY <1>p, <1>1, <2>1, <2>2, <2>3, BeginProc
  <1>4. ASSUME StartExtract(p, s) PROVE ProcOK'
    <2> DEFINE first == study[s].status = "pendingFinancialStatements"
               r == [Idle EXCEPT !.pc = "unfreeze", !.study = s, !.first = first]
    <2>1. "unfreeze" \in PC /\ "unfreeze" \notin Holding
      BY DEF PC, Holding, Owning
    <2>2. r \in ProcState /\ r.pc = "unfreeze" /\ r.study = s
      BY <1>2, <2>1 DEF ProcState
    <2>3. proc' = [proc EXCEPT ![p] = r]
      BY <1>4 DEF StartExtract
    <2> QED  BY <1>p, <1>1, <2>1, <2>2, <2>3, BeginProc
  <1>5. ProcOK'
    BY <1>3, <1>4 DEF Start, StartPerform, StartReset, StartIssue
  <1> QED  BY <1>1, <1>5, QuietStep, StudiesStay DEF RestOK

\* The steps of extraction, scoring and reset: the study is written, notes are
\* not, and the process goes on.
LEMMA StudyStepSane ==
  ASSUME Sane, NEW p \in Process,
         \/ Unfreeze(p) \/ PersistPdf(p) \/ PersistBureau(p) \/ Advance(p)
         \/ ReadInputs(p) \/ Score(p) \/ Reset(p)
  PROVE  Sane' /\ KeepsNotes
  <1> USE DEF Sane
  <1> DEFINE s == proc[p].study
  <1>0. UNCHANGED <<note, doc, due, faults>>
    BY DEF Unfreeze, PersistPdf, PersistBureau, Advance, ReadInputs, Score, Reset, externalVars
  <1>1. KeepsNotes /\ OwnersSend(p)
    BY <1>0, NotesStay
  <1>2. proc[p].pc # "idle" /\ s \in Study
    BY ProcTyped DEF At, Unfreeze, PersistPdf, PersistBureau, Advance, ReadInputs, Score, Reset
  <1>3. ProcOK'
    <2>1. ASSUME NEW pc \in {"pdf", "bureau", "advance", "score"}, Goto(p, pc) PROVE ProcOK'
      <3>1. pc \in PC \ {"idle"} /\ pc \notin Holding
        BY DEF PC, Holding, Owning
      <3> QED  BY <1>0, <1>2, <2>1, <3>1, GotoProc
    <2>2. Finish(p) \/ \E pc \in {"pdf", "bureau", "advance", "score"} : Goto(p, pc)
      BY DEF Unfreeze, PersistPdf, PersistBureau, Advance, ReadInputs, Score, Reset
    <2> QED  BY <1>1, <2>1, <2>2, FinishProc
  <1>4. StudyOK'
    <2>1. CASE Unfreeze(p) \/ ReadInputs(p)
      BY <2>1 DEF Unfreeze, ReadInputs, StudyOK, NoSources
    <2>2. ASSUME NEW src \in Source, Persist(s, src), UNCHANGED study PROVE StudyOK'
      BY <1>2, <2>2 DEF Persist, StudyOK
    <2>3. CASE PersistPdf(p) \/ PersistBureau(p)
      BY <2>2, <2>3 DEF PersistPdf, PersistBureau, Source, StudyOK
    <2>4. CASE Advance(p)
      BY <1>2, <2>4, SetStatusOK DEF Advance, StudyStatus
    <2>5. CASE Score(p)
      BY <1>2, <2>5 DEF Score, StudyOK, StudyRow, StudyStatus, Viability
    <2>6. CASE Reset(p)
      BY <1>2, <2>6 DEF Reset, StudyOK, StudyRow, StudyStatus, Viability, NoSources
    <2> QED  BY <2>1, <2>3, <2>4, <2>5, <2>6
  <1> QED  BY <1>0, <1>3, <1>4, QuietStep DEF RestOK

-----------------------------------------------------------------------------
(***************************************************************************)
(* issue.                                                                  *)
(***************************************************************************)
LEMMA NumberSane ==
  ASSUME StudyAssumption, Sane, NEW p \in Process,
         CountActive(p) \/ ReadNumber(p) \/ RetryNumber(p)
  PROVE  Sane' /\ KeepsNotes
  <1> USE DEF Sane
  <1>0. UNCHANGED <<study, frozen, note, doc, due, faults>>
    BY DEF CountActive, ReadNumber, RetryNumber, externalVars
  <1>1. KeepsNotes /\ OwnersSend(p)
    BY <1>0, NotesStay
  <1>2. proc[p].pc # "idle" /\ proc[p] \in ProcState /\ Knows(proc[p], note, doc)
    BY DEF At, CountActive, ReadNumber, RetryNumber, ProcOK
  <1>3. ASSUME NEW r \in ProcState, r.pc \in {"insert", "number"}, r.study = proc[p].study,
               proc' = [proc EXCEPT ![p] = r]
        PROVE  ProcOK'
    <2>1. Knows(r, note, doc) /\ r.pc \notin Owning
      BY <1>2, <1>3 DEF Knows, Holding, Owning
    <2> QED  BY <1>0, <1>3, <2>1, ProcMoves
  <1>4. ASSUME CountActive(p) PROVE ProcOK'
    <2>1. "number" \in PC \ {"idle"} /\ "number" \notin Holding
      BY DEF PC, Holding, Owning
    <2> QED  BY <1>0, <1>1, <1>2, <1>4, <2>1, FinishProc, GotoProc DEF CountActive
  <1>5. ASSUME ReadNumber(p) PROVE ProcOK'
    <2>1. PICK k \in 1..MaxNumber :
            proc' = [proc EXCEPT ![p] = [@ EXCEPT !.pc = "insert", !.number = k]]
      BY <1>5 DEF ReadNumber
    <2> DEFINE r == [proc[p] EXCEPT !.pc = "insert", !.number = k]
    <2>2. k \in Nat /\ "insert" \in PC
      BY DEF StudyAssumption, PC
    <2>3. r \in ProcState /\ r.pc = "insert" /\ r.study = proc[p].study
      BY <1>2, <2>2 DEF ProcState
    <2>4. proc' = [proc EXCEPT ![p] = r]
      BY <2>1 DEF ProcOK
    <2> QED  BY <1>3, <2>3, <2>4
  <1>6. ASSUME RetryNumber(p) PROVE ProcOK'
    <2> DEFINE r == [proc[p] EXCEPT !.pc = "number", !.tries = proc[p].tries + 1]
    <2>1. CASE proc[p].tries < 2
      <3>0. proc[p].tries + 1 \in 0..2 /\ "number" \in PC
        BY <1>2, <2>1 DEF ProcState, PC
      <3>1. r \in ProcState /\ r.pc = "number" /\ r.study = proc[p].study
        BY <1>2, <3>0 DEF ProcState
      <3>2. proc' = [proc EXCEPT ![p] = r]
        BY <1>6, <2>1 DEF RetryNumber, ProcOK
      <3> QED  BY <1>3, <3>1, <3>2
    <2>2. CASE ~(proc[p].tries < 2)
      BY <1>1, <1>6, <2>2, FinishProc DEF RetryNumber
    <2> QED  BY <2>1, <2>2
  <1>7. ProcOK'
    BY <1>4, <1>5, <1>6
  <1> QED  BY <1>0, <1>7, QuietStep, StudiesStay DEF RestOK

\* The new row has an id that nobody holds.
LEMMA InsertNoteSane ==
  ASSUME StudyAssumption, Sane, NEW p \in Process, InsertNote(p)
  PROVE  Sane' /\ KeepsNotes
  <1> USE DEF Sane
  <1>0. UNCHANGED <<study, frozen, doc, due, faults>>
    BY DEF InsertNote, externalVars
  <1>1. PICK n \in Note :
          /\ Fresh(n)
          /\ note' = [note EXCEPT ![n] = NewNote(p)]
          /\ proc' = [proc EXCEPT ![p] = [proc[p] EXCEPT !.pc = "send", !.note = n]]
    BY DEF InsertNote, ProcOK
  <1> DEFINE r == [proc[p] EXCEPT !.pc = "send", !.note = n]
  <1>2. proc[p] \in ProcState /\ proc[p].study \in Study /\ proc[p].pc = "insert"
    BY ProcTyped DEF InsertNote, At
  <1>3. note[n].status = "absent" /\ note[n] = NoNote /\ doc[n] = "none" /\ n # None
    BY <1>1, NoneApart DEF Fresh, NoteOK
  <1>4. /\ NewNote(p) \in NoteRow
        /\ NewNote(p).status = "pending" /\ NewNote(p).study = proc[p].study
        /\ ~NewNote(p).token /\ ~NewNote(p).signedAt
    BY <1>2 DEF NewNote, NoNote, NoteRow, NoteStatus, ProcState
  <1>5. NoteOK'
    BY <1>0, <1>1, <1>2, <1>4, NoneApart DEF NoteOK
  <1>6. note[n].token = FALSE /\ note[n].signedAt = FALSE /\ NewNote(p).token = FALSE
    BY <1>3 DEF NoNote, NewNote
  <1>7. KeepsNotes /\ OwnersSend(p)
    <2>1. note'[n] = NewNote(p) /\ \A k \in Note \ {n} : note'[k] = note[k]
      BY <1>1 DEF NoteOK
    <2> QED  BY <1>0, <1>3, <1>4, <1>6, <2>1 DEF KeepsNotes, OwnersSend, NoteOK
  <1>8. r \in ProcState /\ r.pc = "send" /\ r.note = n /\ r.study = proc[p].study
    BY <1>2 DEF ProcState, PC
  <1>9. Knows(r, note', doc')
    <2>1. note'[n] = NewNote(p)
      BY <1>1 DEF NoteOK
    <2> QED  BY <1>0, <1>2, <1>3, <1>4, <1>8, <2>1, NoneApart DEF Knows, Holding, Owning
  <1>10. \A q \in Process \ {p} : proc[q].pc \in Owning => proc[q].note # n
    BY <1>3 DEF ProcOK, Knows, Holding
  <1>11. ProcOK'
    BY <1>1, <1>7, <1>8, <1>9, <1>10, ProcChanges
  <1> QED  BY <1>0, <1>5, <1>7, <1>11, StudiesStay DEF RestOK

LEMMA SendDocumentSane ==
  ASSUME StudyAssumption, Sane, NEW p \in Process, SendDocument(p)
  PROVE  Sane' /\ KeepsNotes
  <1> USE DEF Sane
  <1> DEFINE m == proc[p].note
             sent == [doc EXCEPT ![m] = "pending"]
  <1>0. UNCHANGED <<study, frozen, note, due>> /\ proc[p].pc = "send"
    BY DEF SendDocument, At
  <1>1. /\ proc[p] \in ProcState /\ Knows(proc[p], note, doc) /\ m \in Note
        /\ doc[m] = "none" /\ ~note[m].token /\ ~note[m].signedAt /\ note[m].status # "absent"
    BY <1>0, ProcTyped DEF ProcOK, Knows, Holding, Owning, NoteOK
  <1>2. doc' \in {doc, sent} /\ faults' \in Nat
    BY DEF SendDocument, Fail, RestOK
  <1>3. NoteOK' /\ KeepsNotes /\ OwnersSend(p)
    BY <1>0, <1>1, <1>2 DEF NoteOK, KeepsNotes, OwnersSend, DocState, Owning
  <1>4. ASSUME NEW pc \in {"store", "undo"}, Goto(p, pc), pc = "store" => doc' = sent
        PROVE  ProcOK'
    <2> DEFINE r == [proc[p] EXCEPT !.pc = pc]
    <2>1. r \in ProcState /\ r.pc = pc /\ r.note = m /\ r.study = proc[p].study
      BY <1>1 DEF ProcState, PC
    <2>2. Knows(r, note', doc')
      BY <1>0, <1>1, <1>4, <2>1 DEF Knows, Holding, Owning, NoteOK
    <2>3. \A q \in Process \ {p} : proc[q].pc \in Owning => proc[q].note # r.note
      BY <1>0, <2>1 DEF ProcOK, Exclusive, Owning
    <2>4. proc' = [proc EXCEPT ![p] = r]
      BY <1>4 DEF Goto, ProcOK
    <2> QED  BY <1>3, <2>1, <2>2, <2>3, <2>4, ProcChanges
  <1>5. ProcOK'
    BY <1>4 DEF SendDocument
  <1> QED  BY <1>0, <1>2, <1>3, <1>5, StudiesStay DEF RestOK

LEMMA StoreTokenSane ==
  ASSUME StudyAssumption, Sane, NEW p \in Process, StoreToken(p)
  PROVE  Sane' /\ KeepsNotes
  <1> USE DEF Sane
  <1> DEFINE m == proc[p].note
  <1>0. UNCHANGED <<study, frozen, doc, due>> /\ proc[p].pc = "store"
    BY DEF StoreToken, At, externalVars
  <1>1. /\ proc[p] \in ProcState /\ Knows(proc[p], note, doc) /\ m \in Note
        /\ doc[m] # "none" /\ note[m].status \notin {"absent", "deleted"} /\ ~note[m].token
    BY <1>0, ProcTyped DEF ProcOK, Knows, Holding, Owning
  <1>2. faults' \in Nat
    BY DEF StoreToken, Fail, RestOK
  <1>3. ASSUME Fail, Goto(p, "undo"), UNCHANGED note PROVE Sane' /\ KeepsNotes
    <2>1. "undo" \in PC \ {"idle"}
      BY DEF PC
    <2>2. ProcOK'
      BY <1>0, <1>3, <2>1, GotoProc DEF Owning
    <2> QED  BY <1>0, <1>2, <1>3, <2>2, QuietStep, StudiesStay DEF RestOK
  <1>4. ASSUME note' = [note EXCEPT ![m].token = TRUE], Goto(p, "lock") PROVE Sane' /\ KeepsNotes
    <2> DEFINE r == [proc[p] EXCEPT !.pc = "lock"]
    <2>1. /\ note' \in [Note -> NoteRow] /\ note'[m] = [note[m] EXCEPT !.token = TRUE]
          /\ \A n \in Note \ {m} : note'[n] = note[n]
      BY <1>1, <1>4 DEF NoteOK, NoteRow
    <2>2. NoteOK' /\ KeepsNotes /\ OwnersSend(p)
      BY <1>0, <1>1, <2>1 DEF NoteOK, NoteRow, KeepsNotes, OwnersSend, Owning
    <2>3. r \in ProcState /\ r.pc = "lock" /\ r.note = m /\ r.study = proc[p].study
      BY <1>1 DEF ProcState, PC
    <2>4. Knows(r, note', doc') /\ r.pc \notin Owning
      BY <1>0, <1>1, <2>1, <2>3 DEF Knows, Holding, Owning, NoteOK, NoteRow
    <2>5. proc' = [proc EXCEPT ![p] = r]
      BY <1>4 DEF Goto, ProcOK
    <2>6. ProcOK'
      BY <2>2, <2>3, <2>4, <2>5, ProcChanges
    <2> QED  BY <1>0, <1>2, <2>2, <2>6, StudiesStay DEF RestOK
  <1> QED  BY <1>3, <1>4 DEF StoreToken

LEMMA UndoIssueSane ==
  ASSUME StudyAssumption, Sane, NEW p \in Process, UndoIssue(p)
  PROVE  Sane' /\ KeepsNotes
  <1> USE DEF Sane
  <1> DEFINE m == proc[p].note
  <1>0. UNCHANGED <<study, frozen, doc, due>> /\ proc[p].pc = "undo" /\ Finish(p)
    BY DEF UndoIssue, At, externalVars
  <1>1. m \in Note /\ ~note[m].token /\ note[m].status # "absent"
    BY <1>0, ProcTyped DEF ProcOK, Knows, Holding, Owning
  <1>2. faults' \in Nat
    BY DEF UndoIssue, Fail, RestOK
  <1>3. note' = note \/ note' = [note EXCEPT ![m].status = "deleted"]
    BY DEF UndoIssue
  <1>4. NoteOK' /\ KeepsNotes /\ OwnersSend(p)
    <2>1. CASE note' = note
      BY <1>0, <2>1, NotesStay
    <2>2. CASE note' = [note EXCEPT ![m].status = "deleted"]
      <3>1. /\ note' \in [Note -> NoteRow] /\ note'[m] = [note[m] EXCEPT !.status = "deleted"]
            /\ \A n \in Note \ {m} : note'[n] = note[n]
        BY <1>1, <2>2 DEF NoteOK, NoteRow, NoteStatus
      <3> QED  BY <1>0, <1>1, <3>1 DEF NoteOK, NoteRow, KeepsNotes, OwnersSend, Owning
    <2> QED  BY <1>3, <2>1, <2>2
  <1>5. ProcOK'
    BY <1>0, <1>4, FinishProc
  <1> QED  BY <1>0, <1>2, <1>4, <1>5, StudiesStay DEF RestOK

LEMMA LockStudySane ==
  ASSUME Sane, NEW p \in Process, LockStudy(p)
  PROVE  Sane' /\ KeepsNotes
  <1> USE DEF Sane
  <1>1. UNCHANGED <<frozen, note, doc, due, faults>>
    BY DEF LockStudy, externalVars
  <1>2. ProcOK'
    BY <1>1, NotesStay, FinishProc DEF LockStudy
  <1>3. StudyOK'
    BY <1>1, ProcTyped, SetStatusOK DEF LockStudy, StudyStatus, At
  <1> QED  BY <1>1, <1>2, <1>3, QuietStep DEF RestOK

-----------------------------------------------------------------------------
(***************************************************************************)
(* decline and the webhooks.                                               *)
(***************************************************************************)
LEMMA HoldSane ==
  ASSUME StudyAssumption, Sane, NEW p \in Process, NEW n \in Note,
         StartDecline(p, n) \/ Deliver(p, n)
  PROVE  Sane' /\ KeepsNotes
  <1> USE DEF Sane
  <1>1. UNCHANGED <<study, frozen, note, doc, due, faults>>
    BY DEF StartDecline, Deliver, externalVars
  <1>2. PICK pc \in {"claim", "decline"} :
          /\ pc = "claim" => doc[n] = "signed"
          /\ proc' = [proc EXCEPT ![p] =
                         [Idle EXCEPT !.pc = pc, !.note = n, !.study = note[n].study]]
    BY DEF StartDecline, Deliver
  <1> DEFINE r == [Idle EXCEPT !.pc = pc, !.note = n, !.study = note[n].study]
  <1>3. note[n].status # "absent" /\ note[n].study \in Study /\ n # None
    BY NoneApart DEF StartDecline, Deliver, NoteOK, NoteRow, NoNote
  <1>4. pc \in PC /\ pc \notin Owning /\ Idle \in ProcState
    BY DEF PC, Owning, Idle, ProcState
  <1>5. r \in ProcState /\ r.pc = pc /\ r.note = n /\ r.study = note[n].study
    BY <1>3, <1>4 DEF ProcState
  <1>6. Knows(r, note, doc)
    BY <1>2, <1>3, <1>4, <1>5, NoneApart DEF Knows, Owning
  <1>7. ProcOK'
    BY <1>1, <1>2, <1>4, <1>5, <1>6, ProcMoves
  <1> QED  BY <1>1, <1>7, QuietStep, StudiesStay DEF RestOK

LEMMA MarkSane ==
  ASSUME StudyAssumption, Sane, NEW p \in Process, MarkDeclined(p) \/ MarkSigned(p)
  PROVE  Sane' /\ KeepsNotes
  <1> USE DEF Sane
  <1> DEFINE m == proc[p].note
  <1>0. /\ UNCHANGED <<study, frozen, doc, faults>>
        /\ MarkDeclined(p) => proc[p].pc = "decline"
        /\ MarkSigned(p) => proc[p].pc = "claim"
    BY DEF MarkDeclined, MarkSigned, At, externalVars
  <1>1. /\ proc[p] \in ProcState /\ Knows(proc[p], note, doc) /\ m \in Note
        /\ note[m].status # "absent" /\ note[m].study = proc[p].study
        /\ MarkSigned(p) => doc[m] = "signed"
    BY <1>0, ProcTyped DEF ProcOK, Knows, Holding
  <1>2. RestOK'
    BY <1>0 DEF MarkDeclined, MarkSigned, Answer, RestOK, externalVars
  <1>3. ASSUME UNCHANGED note, Finish(p) PROVE Sane' /\ KeepsNotes
    BY <1>0, <1>2, <1>3, NotesStay, FinishProc, QuietStep, StudiesStay
  <1>4. ASSUME NEW pc \in {"reopen", "close"}, NEW row \in NoteRow,
               note' = [note EXCEPT ![m] = row], Goto(p, pc),
               row.status \in {"declined", "signed"},
               row.study = note[m].study, row.number = note[m].number,
               row.token = note[m].token,
               note[m].signedAt => row.signedAt,
               row.signedAt => doc[m] = "signed",
               pc = "close" => row.signedAt
        PROVE  Sane' /\ KeepsNotes
    <2> DEFINE r == [proc[p] EXCEPT !.pc = pc]
    <2>1. /\ note' \in [Note -> NoteRow] /\ note'[m] = row
          /\ \A n \in Note \ {m} : note'[n] = note[n]
      BY <1>1, <1>4 DEF NoteOK
    <2>2. NoteOK' /\ KeepsNotes /\ OwnersSend(p)
      BY <1>0, <1>1, <1>4, <2>1 DEF NoteOK, KeepsNotes, OwnersSend
    <2>3. r \in ProcState /\ r.pc = pc /\ r.note = m /\ r.study = proc[p].study
      BY <1>1 DEF ProcState, PC
    <2>4. Knows(r, note', doc') /\ r.pc \notin Owning
      BY <1>0, <1>1, <1>4, <2>1, <2>3 DEF Knows, Holding, Owning
    <2>5. proc' = [proc EXCEPT ![p] = r]
      BY <1>4 DEF Goto, ProcOK
    <2>6. ProcOK'
      BY <2>2, <2>3, <2>4, <2>5, ProcChanges
    <2> QED  BY <1>0, <1>2, <2>2, <2>6, StudiesStay
  <1>5. CASE MarkDeclined(p)
    <2> DEFINE row == [note[m] EXCEPT !.status = "declined", !.declinedAt = TRUE]
    <2>0. note[m] \in NoteRow /\ "declined" \in NoteStatus
      BY <1>1 DEF NoteOK, NoteStatus
    <2>1. /\ row \in NoteRow /\ row.status = "declined" /\ row.study = note[m].study
          /\ row.number = note[m].number
      BY <2>0 DEF NoteRow
    <2>2. row.token = note[m].token /\ row.signedAt = note[m].signedAt
      BY <1>1 DEF NoteOK, NoteRow
    <2>3. note[m].signedAt => doc[m] = "signed"
      BY <1>1 DEF NoteOK
    <2>4. \/ UNCHANGED note /\ Finish(p)
          \/ note' = [note EXCEPT ![m] = row] /\ Goto(p, "reopen")
      BY <1>1, <1>5 DEF MarkDeclined, NoteOK
    <2> QED  BY <1>3, <1>4, <2>1, <2>2, <2>3, <2>4
  <1>6. CASE MarkSigned(p)
    <2> DEFINE row == [note[m] EXCEPT !.status = "signed", !.signedAt = TRUE]
    <2>0. note[m] \in NoteRow /\ "signed" \in NoteStatus
      BY <1>1 DEF NoteOK, NoteStatus
    <2>1. /\ row \in NoteRow /\ row.status = "signed" /\ row.study = note[m].study
          /\ row.number = note[m].number /\ row.signedAt
      BY <2>0 DEF NoteRow
    <2>2. row.token = note[m].token
      BY <1>1 DEF NoteOK, NoteRow
    <2>3. \/ UNCHANGED note /\ Finish(p)
          \/ note' = [note EXCEPT ![m] = row] /\ Goto(p, "close")
      BY <1>1, <1>6 DEF MarkSigned, Answer, NoteOK
    <2> QED  BY <1>1, <1>3, <1>4, <1>6, <2>1, <2>2, <2>3
  <1> QED  BY <1>5, <1>6

LEMMA StudyEndSane ==
  ASSUME Sane, NEW p \in Process, ReopenStudy(p) \/ CloseStudy(p)
  PROVE  Sane' /\ KeepsNotes
  <1> USE DEF Sane
  <1>1. UNCHANGED <<frozen, note, doc, faults>> /\ Finish(p)
    BY DEF ReopenStudy, CloseStudy, Answer
  <1>2. ProcOK'
    BY <1>1, NotesStay, FinishProc
  <1>3. proc[p].study \in Study
    BY ProcTyped DEF ReopenStudy, CloseStudy, At
  <1>4. StudyOK'
    BY <1>1, <1>3, SetStatusOK DEF ReopenStudy, CloseStudy, StudyStatus
  <1>5. RestOK'
    BY <1>1 DEF ReopenStudy, CloseStudy, Answer, RestOK
  <1> QED  BY <1>1, <1>2, <1>4, <1>5, QuietStep

LEMMA DieSane ==
  ASSUME Sane, NEW p \in Process, Die(p)
  PROVE  Sane' /\ KeepsNotes
  <1> USE DEF Sane
  <1>1. UNCHANGED <<study, frozen, note, doc, due>> /\ Finish(p)
    BY DEF Die, externalVars
  <1>2. ProcOK'
    BY <1>1, NotesStay, FinishProc
  <1>3. RestOK'
    BY <1>1 DEF Die, Fail, RestOK
  <1> QED  BY <1>1, <1>2, <1>3, QuietStep, StudiesStay

LEMMA OutsideSane ==
  ASSUME Sane, NEW n \in Note,
         IgnoreWebhook(n) \/ DebtorSigns(n) \/ DebtorRefuses(n) \/ PostAgain(n)
  PROVE  Sane' /\ KeepsNotes
  <1> USE DEF Sane
  <1>1. UNCHANGED <<study, frozen, note, proc, faults>> /\ due' \subseteq Note
    BY DEF IgnoreWebhook, DebtorSigns, DebtorRefuses, Settle, PostAgain, RestOK
  <1>2. \/ doc' = doc
        \/ \E state \in {"signed", "refused"} :
             doc[n] = "pending" /\ doc' = [doc EXCEPT ![n] = state]
    BY DEF IgnoreWebhook, DebtorSigns, DebtorRefuses, Settle, PostAgain
  <1>3. /\ doc' \in [Note -> DocState]
        /\ \A m \in Note : \/ doc'[m] = doc[m]
                           \/ doc[m] = "pending" /\ doc'[m] \in {"signed", "refused"}
    <2>1. doc \in [Note -> DocState] /\ {"signed", "refused"} \subseteq DocState
      BY DEF NoteOK, DocState
    <2>2. CASE doc' = doc
      BY <2>1, <2>2
    <2>3. CASE doc' # doc
      <3>1. PICK state \in {"signed", "refused"} :
              doc[n] = "pending" /\ doc' = [doc EXCEPT ![n] = state]
        BY <1>2, <2>3
      <3> QED  BY <2>1, <3>1
    <2> QED  BY <2>2, <2>3
  <1>4. NoteOK' /\ KeepsNotes
    BY <1>1, <1>3 DEF NoteOK, KeepsNotes
  <1>5. \A m \in Note : doc[m] = "none" => doc'[m] = "none"
    BY <1>3
  <1>6. ProcOK'
    BY <1>1, <1>4, <1>5, ProcsStay
  <1> QED  BY <1>1, <1>4, <1>6, StudiesStay DEF RestOK

-----------------------------------------------------------------------------
(***************************************************************************)
(* The theorems.                                                           *)
(***************************************************************************)
LEMMA NextSane ==
  ASSUME StudyAssumption, Sane, [Next]_vars
  PROVE  Sane' /\ KeepsNotes
  <1>1. ASSUME NEW s \in Study, CreateStudy(s) PROVE Sane' /\ KeepsNotes
    BY <1>1, CreateStudySane
  <1>2. ASSUME NEW p \in Request, NEW s \in Study, Start(p, s) PROVE Sane' /\ KeepsNotes
    BY <1>2, StartSane
  <1>3. ASSUME NEW p \in Process, NEW n \in Note, StartDecline(p, n) \/ Deliver(p, n)
        PROVE  Sane' /\ KeepsNotes
    BY <1>3, HoldSane
  <1>4. ASSUME NEW p \in Process, Continue(p) PROVE Sane' /\ KeepsNotes
    BY <1>4, StudyStepSane, NumberSane, InsertNoteSane, SendDocumentSane, StoreTokenSane,
       UndoIssueSane, LockStudySane, MarkSane, StudyEndSane DEF Continue
  <1>5. ASSUME NEW p \in Process, Die(p) PROVE Sane' /\ KeepsNotes
    BY <1>5, DieSane
  <1>6. ASSUME NEW n \in Note,
               IgnoreWebhook(n) \/ DebtorSigns(n) \/ DebtorRefuses(n) \/ PostAgain(n)
        PROVE  Sane' /\ KeepsNotes
    BY <1>6, OutsideSane
  <1>7. ASSUME UNCHANGED vars PROVE Sane' /\ KeepsNotes
    BY <1>7 DEF vars, externalVars, Sane, StudyOK, NoteOK, ProcOK, Exclusive, RestOK, KeepsNotes
  <1> QED  BY <1>1, <1>2, <1>3, <1>4, <1>5, <1>6, <1>7 DEF Next, Process

\* Every state is typed, whatever the number of studies, notes and requests,
\* and the types hold of what each handler keeps between its awaits.
THEOREM TypeCorrect == ASSUME StudyAssumption PROVE Spec => []TypeOK
  <1>1. Init => Sane
    BY InitSane
  <1>2. Sane /\ [Next]_vars => Sane'
    BY NextSane
  <1>3. Sane => TypeOK
    BY SaneTyped
  <1> QED  BY <1>1, <1>2, <1>3, PTL DEF Spec

\* markSigned never records a signature that the debtor of that very note did
\* not make: what a webhook read at Zapsign is still true when it writes.
THEOREM SignatureCorrect == ASSUME StudyAssumption PROVE Spec => []SignatureIsReal
  <1>1. Init => Sane
    BY InitSane
  <1>2. Sane /\ [Next]_vars => Sane'
    BY NextSane
  <1>3. Sane => SignatureIsReal
    BY SaneTyped
  <1> QED  BY <1>1, <1>2, <1>3, PTL DEF Spec

\* A note that was sent keeps its row, number and signature: only an issue
\* whose token is not stored deletes a row, and only its own.
THEOREM SentNotesCorrect == ASSUME StudyAssumption PROVE Spec => SentNotesKept
  <1>1. Init => Sane
    BY InitSane
  <1>2. Sane /\ [Next]_vars => Sane'
    BY NextSane
  <1>3. Sane /\ [Next]_vars =>
          [\A n \in Note : note[n].token =>
             /\ note'[n].token
             /\ note'[n].status # "deleted"
             /\ note'[n].study = note[n].study
             /\ note'[n].number = note[n].number
             /\ note[n].signedAt => note'[n].signedAt]_vars
    <2> SUFFICES ASSUME Sane, [Next]_vars, NEW n \in Note, note[n].token
                 PROVE  /\ note'[n].token
                        /\ note'[n].status # "deleted"
                        /\ note'[n].study = note[n].study
                        /\ note'[n].number = note[n].number
                        /\ note[n].signedAt => note'[n].signedAt
      OBVIOUS
    <2>1. note[n].status # "absent"
      BY DEF Sane, NoteOK, NoNote
    <2> QED  BY <2>1, NextSane DEF KeepsNotes
  <1> QED  BY <1>1, <1>2, <1>3, PTL DEF Spec, SentNotesKept

-----------------------------------------------------------------------------
(***************************************************************************)
(* A locked study has its note.                                            *)
(***************************************************************************)
Locks(s) == \E n \in Note : note[n].study = s /\ note[n].token /\ doc[n] # "none"
Closes(s) == \E n \in Note : note[n].study = s /\ note[n].signedAt

\* Who locks or closes a study: the issue and the webhook that got there.
LEMMA WhoLocks ==
  ASSUME Sane, [Next]_vars, NEW s \in Study
  PROVE  \/ study'[s].status = study[s].status
         \/ study'[s].status \notin Locked
         \/ /\ study'[s].status = "pendingSignature"
            /\ \E p \in Process : proc[p].pc = "lock" /\ proc[p].study = s
         \/ /\ study'[s].status = "closed"
            /\ \E p \in Process : proc[p].pc = "close" /\ proc[p].study = s
  <1> DEFINE Goal == \/ study'[s].status = study[s].status
                     \/ study'[s].status \notin Locked
                     \/ /\ study'[s].status = "pendingSignature"
                        /\ \E p \in Process : proc[p].pc = "lock" /\ proc[p].study = s
                     \/ /\ study'[s].status = "closed"
                        /\ \E p \in Process : proc[p].pc = "close" /\ proc[p].study = s
  <1>0. study \in [Study -> StudyRow]
    BY DEF Sane, StudyOK
  <1>1. ASSUME UNCHANGED study PROVE Goal
    BY <1>1
  <1>2. ASSUME NEW t, NEW status \in StudyStatus \ Locked, SetStatus(t, status) PROVE Goal
    BY <1>0, <1>2 DEF SetStatus, StudyRow
  <1>3. ASSUME NEW t \in Study, CreateStudy(t) PROVE Goal
    BY <1>2, <1>3 DEF CreateStudy, StudyStatus, Locked
  <1>4. ASSUME NEW p \in Process, Continue(p) PROVE Goal
    <2>1. CASE Advance(p) \/ ReopenStudy(p)
      BY <1>2, <2>1 DEF Advance, ReopenStudy, StudyStatus, Locked
    <2>2. CASE Score(p) \/ Reset(p)
      <3>1. ASSUME NEW status \in {"studyCompleted", "pendingFinancialStatements"},
                   NEW v \in Viability,
                   study' = [study EXCEPT ![proc[p].study] = [status |-> status, viability |-> v]]
            PROVE  Goal
        <4>1. study'[s] = study[s] \/ study'[s].status = status
          BY <1>0, <3>1
        <4> QED  BY <4>1 DEF Locked
      <3>2. CASE Score(p)
        BY <3>1, <3>2 DEF Score
      <3>3. CASE Reset(p)
        BY <3>1, <3>3 DEF Reset, Viability
      <3> QED  BY <2>2, <3>2, <3>3
    <2>3. CASE LockStudy(p)
      BY <1>0, <1>4, <2>3 DEF LockStudy, SetStatus, At, StudyRow
    <2>4. CASE CloseStudy(p)
      BY <1>0, <1>4, <2>4 DEF CloseStudy, SetStatus, At, StudyRow
    <2>5. CASE UNCHANGED study
      BY <1>1, <2>5
    <2> QED  BY <1>4, <2>1, <2>2, <2>3, <2>4, <2>5
             DEF Continue, Unfreeze, PersistPdf, PersistBureau, ReadInputs, CountActive,
                 ReadNumber, InsertNote, RetryNumber, SendDocument, StoreToken, UndoIssue,
                 MarkDeclined, MarkSigned
  <1>5. CASE UNCHANGED study
    BY <1>1, <1>5
  <1> QED
    BY <1>3, <1>4, <1>5
    DEF Next, Process, vars, Start, StartExtract, StartPerform, StartReset, StartIssue,
        StartDecline, Deliver, Die, IgnoreWebhook, DebtorSigns, DebtorRefuses, Settle,
        PostAgain, Begin

\* A study that waits for a signature has a note that was sent and will be
\* recognised, and one that is closed has a signed note, with any number of
\* concurrent issues, declines, resets and webhooks.
THEOREM LockCorrect == ASSUME StudyAssumption PROVE Spec => []LockedByNote
  <1> DEFINE Inv == Sane /\ LockedByNote
  <1>1. Init => Inv
    BY InitSane DEF Init, LockedByNote
  <1>2. Inv /\ [Next]_vars => Inv'
    <2> SUFFICES ASSUME Sane, LockedByNote, [Next]_vars PROVE Inv'
      OBVIOUS
    <2>1. Sane' /\ KeepsNotes
      BY NextSane
    <2>2. \A s \in Study : (Locks(s) => Locks(s)') /\ (Closes(s) => Closes(s)')
      <3>1. \A n \in Note : note[n].token \/ note[n].signedAt => note[n].status # "absent"
        BY DEF Sane, NoteOK, NoNote
      <3> QED  BY <2>1, <3>1 DEF KeepsNotes, Locks, Closes
    <2>3. ASSUME NEW p \in Process, NEW s \in Study, proc[p].study = s
          PROVE  /\ proc[p].pc = "lock" => Locks(s)
                 /\ proc[p].pc = "close" => Closes(s)
      <3>1. Knows(proc[p], note, doc) /\ (proc[p].pc \in Holding => proc[p].note \in Note)
        BY ProcTyped DEF Sane, ProcOK
      <3> QED  BY <2>3, <3>1 DEF Knows, Holding, Locks, Closes
    <2>4. ASSUME NEW s \in Study
          PROVE  /\ study'[s].status = "pendingSignature" => Locks(s)'
                 /\ study'[s].status = "closed" => Closes(s)'
      <3>1. /\ study[s].status = "pendingSignature" => Locks(s)
            /\ study[s].status = "closed" => Closes(s)
        BY DEF LockedByNote, Locks, Closes
      <3> QED  BY <2>2, <2>3, <3>1, WhoLocks DEF Locked
    <2> QED  BY <2>1, <2>4 DEF LockedByNote, Locks, Closes
  <1> QED  BY <1>1, <1>2, PTL DEF Spec
=============================================================================
