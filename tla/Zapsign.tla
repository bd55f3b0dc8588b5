------------------------------ MODULE Zapsign -------------------------------
(***************************************************************************)
(* The electronic signature provider as the services of documents see it,  *)
(* and the calls ZapsignService makes to it.  A document is created from a *)
(* template with one signer, the client; Creditia may be added as a signer *)
(* and signs through the API, which only queues the signature.  Zapsign    *)
(* posts an event for each signature, refusal and view until it is         *)
(* answered, in any order and also while a delivery is being handled.      *)
(***************************************************************************)
EXTENDS Integers, FiniteSets

CONSTANTS
  Doc,        \* tokens of documents, numbered in order of creation
  MaxSigners  \* bound: signers of Creditia in one document

VARIABLES
  doc,  \* the documents
  due   \* events that have not been answered

ASSUME ZapsignAssumption == Doc \subseteq Nat \ {0} /\ MaxSigners \in Nat

zapsignVars == <<doc, due>>

-----------------------------------------------------------------------------
\* A signer of Creditia is known by its token, a number from 1 on; 0 is null.
Signer == 1..MaxSigners

Answer == {"absent", "pending", "signed", "refused"}

\* client: what the client did.  opened: bound, one view of each document.
\* signers: the signers of Creditia, and those whose signature is queued or
\* stamped.
Document == [client : Answer, opened : BOOLEAN, signers : SUBSET Signer,
             queued : SUBSET Signer, stamped : SUBSET Signer]
NoDocument == [client |-> "absent", opened |-> FALSE,
               signers |-> {}, queued |-> {}, stamped |-> {}]

Event == [kind : {"signed", "refused", "viewed"}, doc : Doc, by : 0..MaxSigners]

ZapsignType == /\ doc \in [Doc -> Document]
               /\ due \subseteq Event

ZapsignInit == /\ doc = [d \in Doc |-> NoDocument]
               /\ due = {}

\* The status of a document: signed when all its signers have signed.
DocStatus(d) ==
  IF doc[d].client = "signed" /\ doc[d].stamped # doc[d].signers
  THEN "pending" ELSE doc[d].client

Post(kind, d, by) == due' = due \cup {[kind |-> kind, doc |-> d, by |-> by]}

-----------------------------------------------------------------------------
(***************************************************************************)
(* Calls of ZapsignService.                                                *)
(***************************************************************************)
\* createDocFromTemplate.
CreateDoc(d) ==
  /\ doc[d].client = "absent"
  /\ \A e \in Doc : e < d => doc[e].client # "absent"
  /\ doc' = [doc EXCEPT ![d] = [NoDocument EXCEPT !.client = "pending"]]

\* addSigner answers the token of the new signer.
NewSigner(d) == Cardinality(doc[d].signers) + 1
AddSigner(d) ==
  /\ NewSigner(d) \in Signer
  /\ doc' = [doc EXCEPT ![d] = [doc[d] EXCEPT !.signers = doc[d].signers \cup {NewSigner(d)}]]

\* signAsAccountUser: the answer says queued, not signed.
SignAsAccountUser(d, signer) ==
  doc' = [doc EXCEPT ![d] = [doc[d] EXCEPT
            !.queued = doc[d].queued \cup ({signer} \ doc[d].stamped)]]

-----------------------------------------------------------------------------
(***************************************************************************)
(* What happens at Zapsign.                                                *)
(***************************************************************************)
ClientOpens(d) ==
  /\ doc[d].client = "pending" /\ ~doc[d].opened
  /\ doc' = [doc EXCEPT ![d] = [doc[d] EXCEPT !.opened = TRUE]]
  /\ Post("viewed", d, 0)

ClientAnswers(d, answer) ==
  /\ doc[d].client = "pending"
  /\ doc' = [doc EXCEPT ![d] = [doc[d] EXCEPT !.client = answer]]
  /\ Post(answer, d, 0)

ClientSigns(d) == ClientAnswers(d, "signed")
ClientRefuses(d) == ClientAnswers(d, "refused")

Stamp(d, signer) ==
  /\ signer \in doc[d].queued
  /\ doc[d].client # "refused"
  /\ doc' = [doc EXCEPT ![d] = [doc[d] EXCEPT
               !.queued = doc[d].queued \ {signer},
               !.stamped = doc[d].stamped \cup {signer}]]
  /\ Post("signed", d, signer)
=============================================================================
