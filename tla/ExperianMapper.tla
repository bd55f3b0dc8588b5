--------------------------- MODULE ExperianMapper ---------------------------
(***************************************************************************)
(* The frontier with DataCredito: which user asks for a customer, and from *)
(* the raw report of MiDecisor to the customer and the snapshot of risk of *)
(* the domain, with its names and in whole pesos.  A field that the report *)
(* leaves out is Missing.  The labels of the catalogues are only shown:    *)
(* what matters here is whether a code has one.  Dates are left out.       *)
(***************************************************************************)
EXTENDS Integers, Sequences, TLC

Missing == -1000000   \* null, undefined or not a number: no figure takes it

\* What a report may have, here with nothing in it: the identity, and the risk.
EmptyIdentity ==
  [informed |-> FALSE, typed |-> Missing, number |-> Missing, doc |-> [kind |-> "none", form |-> "code"],
   companyName |-> "", personName |-> "", nameParts |-> {}, demographics |-> {}, profile |-> {}]
EmptyRisk ==
  [score |-> Missing, companyScore |-> Missing, viability |-> "", level |-> "", sector |-> "",
   suggested |-> Missing, balance |-> Missing, overdue |-> Missing, debt |-> Missing,
   income |-> Missing, quota |-> Missing, behaviour |-> <<>>, links |-> <<>>, texts |-> <<>>]
EmptyReport == EmptyIdentity @@ EmptyRisk

\* The document of a customer, as a code of the bureau ("2"), as initials in
\* either case, as a long label, or as initials with spaces around them.
DocKind == {"cc", "nit", "ce", "pas", "pje"}
DocForm == {"code", "initials", "label", "padded"}

-----------------------------------------------------------------------------
(***************************************************************************)
(* The query.                                                              *)
(***************************************************************************)
\* PARAM_CODE_TO_EXPERIAN_DOC: the codes of the system that the bureau knows.
ExperianDocType(kind) == IF kind \in {"cc", "nit", "ce", "pas"} THEN kind ELSE "none"
\* The bureau has a user for natural persons and another for legal entities.
Credentials(docType) == IF docType = "nit" THEN "PJ" ELSE "PN"

\* A query that gets no token, or no answer, ends in an error.
QueryMiDecisor(docType, configured, answer) ==
  IF Credentials(docType) \notin configured \/ answer = <<>> THEN <<>> ELSE answer

\* The check of the connection says which of its steps failed.
CheckConnection(person, configured, status, token) ==
  CASE person \notin configured -> "not configured"
    [] status = Missing -> "no answer"
    [] status \notin 200..299 -> IF status \in {401, 403} THEN "refused" ELSE "error"
    [] ~token -> "no token"
    [] OTHER -> "ok"

-----------------------------------------------------------------------------
(***************************************************************************)
(* Identity.                                                               *)
(***************************************************************************)
\* The code of the document in the system.  A long label is searched for
\* words: the label of a foreign company has "extranjer" in it.
DocParamCode(doc) ==
  IF doc.kind = "pje" THEN IF doc.form = "label" THEN "ce" ELSE "none" ELSE doc.kind

\* Mutant: only the code of the NIT is of a legal entity.
PersonByCode(doc) == IF doc.form = "code" /\ doc.kind = "nit" THEN "PJ" ELSE "PN"

\* The type of person: neither labels nor spaces are expected here.
PersonOf(doc) ==
  IF doc.kind \in {"nit", "pje"} /\ doc.form \in {"code", "initials"} THEN "PJ" ELSE "PN"

\* A part of a report that only one kind of person has; {} when it has none.
Only(person, r, value) == IF PersonOf(r.doc) = person THEN value ELSE {}

\* The profile of a legal entity: of its blocks, what decides.
BureauProfile(r) == Only("PJ", r, r.profile)

\* The number is the one that was typed, if the bureau repeats it.
MapCustomer(r) ==
  [identificationType |-> DocParamCode(r.doc),
   identificationNumber |-> IF r.typed = Missing THEN r.number ELSE r.typed,
   businessName |-> IF PersonOf(r.doc) = "PJ" THEN r.companyName ELSE r.personName,
   nameParts |-> Only("PN", r, r.nameParts),
   demographics |-> Only("PN", r, r.demographics),
   bureauProfile |-> BureauProfile(r)]

-----------------------------------------------------------------------------
(***************************************************************************)
(* Risk.                                                                   *)
(***************************************************************************)
\* Balances come in thousands; the income and the suggested amount do not.
ThousandsToPesos(n) == IF n = Missing THEN Missing ELSE 1000 * n

\* The network of links of a legal entity: a tree, its nodes numbered from the
\* root in the order they are visited, each with its number of alerts.
LinkNetwork(r) == IF PersonOf(r.doc) = "PJ" THEN r.links ELSE <<>>

\* The alerted nodes of the network; or the texts that are not blank.  Each
\* with its place, which is all their order.
Alerted(links) ==
  {[place |-> i, source |-> IF i = 1 THEN "self" ELSE "linked", count |-> links[i].alerts] :
     i \in {i \in 1..Len(links) : links[i].alerts > 0}}
Alerts(r) ==
  IF PersonOf(r.doc) = "PJ" THEN Alerted(r.links)
  ELSE {[place |-> i, source |-> "self", count |-> Missing] :
          i \in {i \in 1..Len(r.texts) : r.texts[i] # ""}}

MapRisk(r) ==
  LET person == PersonOf(r.doc) IN
  [score |-> IF person = "PN" THEN r.score ELSE r.companyScore,
   viability |-> IF person = "PN" THEN r.viability ELSE "",
   level |-> IF person = "PJ" THEN r.level ELSE "",
   sector |-> IF person = "PJ" THEN r.sector ELSE "",
   suggested |-> r.suggested,
   balance |-> ThousandsToPesos(r.balance),
   overdue |-> ThousandsToPesos(r.overdue),
   debt |-> r.debt,
   alerts |-> Alerts(r), hasAlerts |-> Alerts(r) # {},
   income |-> r.income, quota |-> r.quota,
   behaviour |-> r.behaviour,
   linkNetwork |-> LinkNetwork(r)]

\* Without information there is neither customer nor snapshot.
MapMiDecisorResponse(r) ==
  IF r.informed
  THEN [person |-> PersonOf(r.doc), customer |-> <<MapCustomer(r)>>, risk |-> <<MapRisk(r)>>]
  ELSE [person |-> PersonOf(r.doc), customer |-> <<>>, risk |-> <<>>]

\* Tables 1 and 5 to 15: the label of a code, if the catalogue has it.
Translate(catalog, code) == IF code \in DOMAIN catalog THEN catalog[code] ELSE ""
DescribeTxCode(n) ==
  IF n \in 1..8 THEN "successful" ELSE IF n \in 9..16 THEN "failed" ELSE "other"

-----------------------------------------------------------------------------
(***************************************************************************)
(* A property of every report.                                             *)
(***************************************************************************)
\* A report is read as of one kind of person throughout, when its document
\* comes as a code or as initials: what identifies the customer, the profile
\* of a company, the alerts and the network are all of that kind; and the
\* snapshot says that there are alerts when some node of the network has them.
ReadAsOnePerson(r) ==
  LET m == MapMiDecisorResponse(r) IN
  r.informed /\ r.doc.form \in {"code", "initials"} =>
    LET c == m.customer[1]  s == m.risk[1] IN
    /\ c.identificationType = "nit" => m.person = "PJ"
    /\ m.person = "PJ" => c.identificationType \in {"nit", "none"} /\ c.nameParts = {}
    /\ m.person = "PN" => c.bureauProfile = {} /\ s.linkNetwork = <<>>
    /\ m.person = "PJ" => (s.hasAlerts <=> \E i \in 1..Len(s.linkNetwork) :
                                              s.linkNetwork[i].alerts > 0)
    /\ m.person = Credentials(ExperianDocType(c.identificationType))
       \/ c.identificationType = "none"
=============================================================================
