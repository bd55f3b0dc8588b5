# Formal model of the credit-study platform

The program is a NestJS API (`src/src`) over one PostgreSQL database reached
through Prisma. Companies buy prepaid packs of analyses, pay them with ePayco,
ask a customer for an authorization signed in Zapsign, consult a credit bureau,
upload financial statements, score a credit study and issue a promissory note.
There is no queue and no lock beyond the database's: every request and every
webhook is a Node handler whose `await`s interleave with those of all others,
and every database call outside an explicit `$transaction` is a commit of its
own. That is where this system is hard: reads that are stale when used,
webhooks that are repeated, late or out of order, and effects made one after
the other with nothing to undo them.

## Inventory

| Component | State it keeps | Operations | Talks to |
|---|---|---|---|
| Analysis packs (`analysis-packs`) | `analysis_packs` (status, consumed, expiry, payment, code), `analysis_consumptions` | `purchase`, `purchaseFree`, `handleConfirmation`, `consumeCreditForStudy`, `markCancelled` (never called) | offerings, prices, promo codes, ePayco, alerts, macro contract, companies |
| Promotional codes (`promo-codes`) | `promo_codes` (active, window, counter), `promo_code_redemptions` | `create`, `update`, `validateForPurchase`, `redeem`, `release` | packs |
| Pack offerings, consultation prices | catalogue rows, one active price | panel CRUD, quote | packs |
| Pack pricing (`common/utils/pack-pricing.ts`) | none | price, charm rounding, tax | packs, catalogue |
| ePayco (external) | checkout sessions, charges | open session, post confirmation until answered | packs |
| Payment alerts, invoices (`admin`) | `payment_alerts`, the invoice columns of a pack | create, resolve; mark, unmark | packs |
| Credit studies (`credit-studies`, `scoring`) | status, viability, frozen scoring | `createFromBureau`, `performStudy`, admin reset | packs, bureau, statements, notes |
| Financial statements (`financial-statements`, `ai-analyses`) | frozen analyses of a study by source | `extractPdfForStudy` | studies, AI model |
| Promissory notes (`documents/promissory-notes`) | note: number, status, document | `issue`, `decline`, webhooks signed and refused | studies, Zapsign |
| Macro contract (`documents/macro-contract`) | one contract of each company | send, resend, webhooks | packs, companies, Zapsign |
| Customer authorizations | one authorization of each (company, person) | request, webhooks, gate | bureau, Zapsign |
| Credit bureau (`credit-bureau`) | customers, consultations, risk snapshots | `consult` behind the gate and a monthly cache | authorizations, studies |
| Invitations, onboarding, memberships | invitations, user-company rows, companies, profiles | invite, accept, register, reject, respond, toggle; onboard; join, edit, remove | mail |
| Scoring (`scoring`) | versions of the configuration of each company and type of person, the catalogue of dimensions | save, reset, edit a dimension; `runScoring` | studies |
| Calculations (`financial-statements/utils`, `scoring.engine`, `experian.mapper`, `common/utils`) | none | periods, indicators, score, report of the bureau, prices, amounts in words | studies, packs, documents |
| Account views (`dashboard`, `customers`, `admin`) | none | balances, usage, receipts, queue of invoices, dashboards, figures of a customer | packs, studies |
| Portal administrators (`admin`) | `platform_admins` and accounts at Supabase Auth | create with rollback, edit, deactivate | Supabase, tickets |
| Support tickets, blog | tickets and the counter of each year; posts | open, handle; create, update, archive | portal administrators, mail |
| Contact requests, notifications, parameters, auth | rows of their own | CRUD, best-effort mail | nothing else reads them back |

What makes each correct:

* **Packs**: a credit is spent only against money collected, at most as many as
  were bought, each by one study; neither a refund nor a retry gives credits
  back or loses them; a payment collected becomes a usable pack whatever fails.
* **Codes**: the quota of a code is never exceeded, its counter counts its
  redemptions, one of each company in scope; a free pack and its redemption
  exist together.
* **Catalogue**: there is always a price to quote; what a pack froze never changes.
* **Pricing**: base plus tax is what is charged; the total is between 0 and the subtotal.
* **Studies and notes**: a study has at most one live note, its state agrees with
  the note's, and a locked study is not changed under a note.
* **Documents and authorizations**: a signature is never lost or taken for that of
  another document; no bureau query without a standing authorization.
* **Memberships**: nobody has access to a company without having said yes or having
  founded it, and nobody administers one without having founded it, been appointed, or
  accepted an invitation that offered that role.
* **Scoring and figures**: the score lies between the worst and the best of its
  parts, the bureau's bounds hold on every input, a year is compared with an earlier
  one, and what the report says reaches the verdict.
* **Views**: two screens that show one thing show the same, and what is shown as
  available can be consumed.
* **Back office**: accounts at Supabase and rows of administrators go together, tickets
  are numbered without gaps, a public post has a date, the configuration saved last
  is in force.

## Modules

| Module | What it is |
|---|---|
| `PromoCodes` | codes and redemptions: the operations of `promo-codes.repository.ts`, each one transaction |
| `CreditAccounts` | abstract specification of a pack as an account of credits: opened, spent, suspended, resumed |
| `AnalysisPacks` | purchases, confirmations, consumption, ePayco, the catalogue and the clock; works on the variables of `PromoCodes` by `INSTANCE`, and refines `CreditAccounts` |
| `CreditStudies` | credit studies, their statements and their promissory notes, with Zapsign and the debtor |
| `Zapsign` | the signature provider as contracts and authorizations meet it: documents, signers, stamps that are queued, events that are repeated |
| `MacroContract` | the contract of a company: sending, sending again after a refusal, webhooks, repair of Creditia's own signature; extends `Zapsign` |
| `CustomerAuthorizations` | the authorization of the holder of an identity; extends `Zapsign` |
| `CreditBureau` | `createFromBureau` and `consult` behind that authorization, with the cache; extends `CustomerAuthorizations`, so the two are checked composed |
| `Memberships` | onboarding, invitations and the administration of `user_companies` |
| `PortalAdmins`, `SupportTickets`, `BlogPosts`, `ScoringVersions`, `BackOffice` | what works beside the studies, and the module that composes them |
| `Scoring` | the engine: six dimensions, caps, vetoes, amounts, flags, validation of weights |
| `Figures` | periods from a PDF or from the bureau, normalisation, indicators |
| `ExperianMapper` | a raw report of DataCrédito to the customer and the snapshot of risk |
| `Evaluation` | what `performStudy` hands to the engine and what is made of its result; composes `Scoring` and `ExperianMapper` |
| `PackPricing`, `NumberWords`, `AccountViews` | prices; amounts in words; what is shown of an account |
| `Calculations` | the pure modules together: a behaviour picks the input of a calculation and computes; states what is assumed of the inputs |
| `MC...` | the instances that TLC checks; `MCCalculations` enumerates the inputs of the calculations |
| `...Proofs` | theorems and proofs |

`AnalysisPacks` and `CreditStudies` meet in one transaction only: the one that
takes a credit creates the study, in its first state (`Consume`, `CreateStudy`).
After it neither reads what the other writes, so they are checked apart.
`CreditBureau` takes that credit from a counter (`Credits`) for the same reason.

### How `AnalysisPacks` follows the code

A handler is a process with a program counter. `Buyer` runs `purchase()`:
`StartPurchase` (every read and check up to the quote), `FindPending`,
`RefreshPending` or `CreatePending`, `OpenCheckout`; or, when a code covers the
whole price, `GrantFree` / `RefuseFree` (the transaction of
`createFreeActivePack`) and `FreeEffects`. `Hook` runs `handleConfirmation()`:
`Receive` (reads the pack, answers duplicates, and looks at the response code)
and then `Activate`, `PaidEffects`, `NotifyPaid`, `RedeemCode` or
`ReportOversold`; `RecordFailed`; or `Revert`, `AlertReversal`, `ReleaseCode`.
What a handler read at its start (`hook[h].code`, `hook[h].consumed`,
`buyer[b].found`) is kept in its locals and used later as it was, stale or not.
`Consume` is the transaction of `consumeCreditForStudy`.

ePayco is external: a session is opened with the id of the pack and an amount,
may be declined, paid and refunded, and each of these posts a confirmation that
stays in `due` until a handler answers it. Delivery is in any order, by any
number of handlers at once, and again after an answer (`Resend`).

`AbandonPurchase` and `CrashHook` stop a handler between any two commits;
`MaxFaults` counts them together with the best-effort calls that fail.

The status is one of `pending_payment`, `active` and `depleted` (`absent` for
an id not used yet). `cancelled` is left out: only `markCancelled` writes it and
nothing calls it. Money is a natural number; the price of an offering with a
code is the constant `Charge`, and how it is worked out is `PackPricing`.

### How `CreditStudies` follows the code

Five services write `credit_studies.status_id`, each after checking what it read
some awaits before, and none of the writes is guarded. So every request
(`Request`) and every webhook (`Hook`) is a process, and each action is one
database call or one call outside:

| Code | Actions |
|---|---|
| `createFromBureau` | `CreateStudy` |
| `extractPdfForStudy` | `StartExtract`, `Unfreeze`, `PersistPdf`, `PersistBureau`, `Advance` |
| `performStudy` | `StartPerform`, `ReadInputs`, `Score` |
| `resetCreditStudy` | `StartReset`, `Reset` |
| `issue` | `StartIssue`, `CountActive`, `ReadNumber`, `InsertNote` or `RetryNumber`, `SendDocument`, `StoreToken`, `LockStudy`; `UndoIssue` after a failure |
| `decline`, `markDeclined` | `StartDecline`, `MarkDeclined`, `ReopenStudy` |
| `handleDocSigned` | `Deliver`, `MarkSigned`, `CloseStudy` |
| `handleDocRefused` | `Deliver`, `MarkDeclined`, `ReopenStudy` |
| a webhook of an unknown or settled document | `IgnoreWebhook` |

A note is a row with its status, study, number, whether its `provider_doc_token`
is stored, and the two dates. A study keeps its status, whether it is viable,
and how many frozen analyses it has of each source. `doc` is what Zapsign knows
of the document of a note; `due` is what it has to post. A webhook does not trust
its payload, it asks Zapsign again: since a document signed or refused stays so,
that question and the read of the row are one step. `Die` ends a process between
any two calls, or stands for a call that fails and ends it; a database call that
fails did nothing. A call to Zapsign that fails may have created the document.

### How the documents and the bureau follow the code

`Zapsign` keeps of a document what the client did with it, its added signers, which
of them have signed (or are queued to), and the events to be posted. A signer that
the API adds may be added though the answer is lost.

| Code | Actions |
|---|---|
| `sendContractForCompany` | `StartSend`, `CreateDocument`, `AddCreditia`, `SignCreditia` or `CreditiaFails`, `Register` |
| contract webhook, `doc_signed` | `StartEvent`, `ReadState` (the client's own question to Zapsign), then `reconcileCreditiaSignature` as `ConfirmCreditia`, `EnsureSigner`, `KeepSigner`, `SignAgain`, or `ReconcileFails`; `StillPending` or `MarkSignedAndActivate` |
| contract webhook, `doc_refused`, `doc_viewed` | `StartEvent`, `CheckRefusal`, `MarkRefused`; `FirstView`, `CountView` |
| an event of a document no row has, or of a settled one | `IgnoreEvent` |
| `requestAuthorization` | `BeginRequest`, `ReadIdentity`, `CreateDocument`, `SaveRequest` |
| authorization webhook | `StartEvent`, `ReadState`, `MarkSigned`; `CheckRefusal`, `MarkRefused` |
| `createFromBureau`, `consult` | `BeginStudy`, `PassGate`, `EnsureCanConsult`, `ReadCache`, `QueryBureau`, `ReadCustomer`, `WriteNewCustomer`, `WriteConsultation`, `Link`, `BackfillEmail`, `CreateStudy` |

A row is what a handler reads first and writes last, by id; `proc` keeps the row it
read. `Die` and `JobDies` stop a process between two calls. Time in `CreditBureau`
counts the parts of months that the cache tells apart: up to the day the bureau
publishes, and after it.

### How `Memberships` follows the code

A request reads and checks in a `Begin...` action and writes in the ones that follow,
one for each statement or transaction: `Onboard` for `onboard`; `InsertInvitation` or
`ReopenInvitation`, then `HoldMembership`, for `create`; `Register` for
`acceptAndRegister`; `AcceptInvitation`, `RefuseInvitation` for `respond`;
`ReadMembership`, then `RejectInvitation`, for `rejectPublic`: `cancelInvitation` looks
at the membership and deletes it in two statements of one READ COMMITTED transaction, so
what it deletes may have changed (`DeleteMember`: the second of two deletions by one id
finds no row and rolls back). `ToggleMembership`, `SettleInvitation` are
`toggleUserStatus`; then there are `Join`, and `UpdateMember`, `RemoveMember`,
`RemoveProfile` for the administration. A request that fails is one that never goes on.

`create` writes every invitation with the role `invitado`, while `acceptAndRegister`
keeps the role the invitation has, for those of the portal's onboarding. No code here
writes those, so `PortalInvites` is external: it is taken to offer `administrator`, as
the comment of `acceptAndRegister` says (see the disagreements). `offered`, `agreed` and
`appointed` remember, for the properties, to whom the portal offered that role, who has
said yes and who was given a role by a right.

### How the back office follows the code

`PortalAdmins` is `createPlatformAdmin` call by call (`AskAccount`, `InsertAdmin`, and
`DeleteAccount` when the row fails), and the edits of an administrator.
`SupportTickets` takes the number of a ticket from the counter of its year and inserts
the row in the same transaction (`TakeNumber`, `InsertTicket`, `AbandonTicket` for a
rollback): the counter's row is locked in between. `BlogPosts` works out
`publishedAt` from the row it read and writes by id. `ScoringVersions` models a save
under READ COMMITTED: what the update sees when it starts (`Look`), the rows it waits
for (`Hold`), and the insert (`Commit`). `BackOffice` puts them in one specification in
which a behaviour is at one desk: they share only the administrators, so the states
of the desks add up instead of multiplying.

### How the calculations follow the code

Each function of the source is one operator. The code computes in floating point
and the models exactly: a ratio is counted in parts of its denominator, a percentage
in tenths, the score in hundredths, and rounding is what `Math.round`, `toFixed` or
`Math.ceil` does to the exact quotient. An amount in words is a sequence of words, not
of letters. `null` is a number that no figure takes.

In `AccountViews` a table is a sequence of rows and a query is a set of places of it:
what a view asks of a query is a sum of a column, a count, or its places in the order of
a column. Among rows with the same key the code leaves the order to the database
(`admin.service.ts:1286` sorts the invoice queue by `paidAt` alone, and pages it with
`skip` and `take`); the model takes the database to break ties alike in every query.
Were it not so, two sales paid at the same instant could be shown twice or not at all
at the border of two pages.

`Evaluation` composes them the way `performStudy` does: the report becomes a
snapshot, the sources chosen become figures, the configuration becomes weights, and
the result is read back by the stepper, the list and the prompt of the report.

## Runs

| Run | Instance | Shows |
|---|---|---|
| `packs_payments` | 1 pack of 2 credits, 2 sessions, 2 handlers, 3 studies | ledger = counters, no overspending, paid before used, nothing consumed is lost, refinement of `CreditAccounts` |
| `packs_codes` | 2 companies, 2 buyers, 2 packs, a free and a half-price code of one redemption, 2 edits of the panel | scope, quota, free packs leave redemptions |
| `packs_live` | 1 pack, 1 session, 1 failure, 1 repetition, 2 days, 2 prices | a payment collected becomes a usable pack, every confirmation is answered, under fairness |
| `studies` | 1 study, 2 notes, 1 webhook at a time, and either 1 request with 1 failure or 2 requests that issue with none | signatures are real, a locked study has its note, what was sent is kept, its signature is recorded and closes the study, under fairness |
| `contracts` | casts of up to 2 senders, 2 webhooks and 3 documents, 1 failure | what the row says is what its document says and a signature stays, unless a sending overtakes work on the contract before; Creditia is added again only by deliveries that overlap; the first contract's signature activates the company, under fairness |
| `consultations` | 2 documents, 2 requests, 1 webhook, 1 failure, 3 parts of a month | no consultation without consent, what is paid for is stored, and not paid for again but by requests that overlap |
| `memberships` | 2 people, 2 companies, 2 requests, 2 invitations, 1 edit, 1 offer of the portal, in three scenes | access only by a yes or a right; an administrator founded, was appointed or accepted that offer |
| `back_office` | 2 requests at each desk, 2 failures, 2 tickets, 2 years, 3 versions | accounts and administrators go together, tickets are numbered without gaps, a public post has a date, the last configuration is in force |
| `calculations` | some hundred thousand inputs of the pure modules | the bounds of the score, what the bureau imposes, the year compared with, prices to the peso, words that read back, views that agree |
| `contracts_stuck` | violation | 1 sender, 1 webhook, 2 documents: Creditia's stamp on a refused document is confirmed on the row of the next one |
| `figures_spending` | violation | more administrative expenses make a company look more stable |
| `levels_of_risk` | violation | a company of the highest level of risk is approved without conditions |

### Bounds

Packs: two sessions of one pack are the least with which payments of one pack
overlap; two handlers the least with which confirmations do; an offering of two
credits and three studies let a pack be active, used, depleted, and one study more
than it has credits for. A quota of one with two buyers is the smallest race for a
last redemption. One fault is enough for a lost effect, because every property is
about what is left after a failure.

Studies: a study with two notes is the smallest where one is declined and another
issued; a request racing with a webhook is the smallest race of a note, two issues the
smallest for one number. Both with a failure are beyond TLC's minutes, so
`MCCreditStudies` has two kinds of study, of which a behaviour creates one: with one of
`Contested` a second request issues beside the first and nothing fails; with the other
there is one request at a time and a failure anywhere. `OneScene` is an action
constraint that only holds back what requests begin and what fails, so no step that
fairness is about is cut. The theorems cover any number of requests and failures.
`MaxNumber` is one more than the notes, so that no number is refused because of the
bound.

Contracts: nothing in the code keeps two requests to send, or two deliveries, of one
company apart, so the run has them, in casts of which a behaviour has one: a contract
refused and sent again while two deliveries are handled, with a failure; one delivery at
a time with the views, with a failure; two requests, the first time and after a refusal,
which takes three documents; and two of each. A failure in the last two, or
everything in one cast, is beyond TLC's minutes; the theorems have no such bounds. Three signers let both
deliveries and the request add Creditia. The properties of the row fail in one way, by a
contract sent again past a delivery or another sending that is still at work on the one
before (see the disagreements), and that is the only excuse they admit: `overtaken`
records it. With two failures the repair of Creditia's signature can fail for good, so
liveness is stated with one, and excuses a document to which two deliveries at once added
Creditia twice.

Consultations: three parts of a month are a consultation, its last fresh day and
the day after. Two requests overlap; one failure loses one consultation. One credit
suffices to have it and not to have it.

Memberships: two people in two companies with two invitations give every pair of
an old and a new invitation, and a person who is a member elsewhere; two requests
are the smallest race. One edit of the administration suffices to remove an invited
or active member, one offer of the portal to be answered beside an invitation of the
company. All at once are too many states, so a behaviour has one of three scenes: two
requests in one company with an edit and an offer; one request at a time in two companies
with both; two requests in two companies with neither. The theorems have no such bounds.

Back office: two requests race at each desk; two failures let a rollback fail after
the insert did; three versions let two saves meet one in force.

Calculations: amounts are small, because TLC's integers have 32 bits, but every
comparison of the code is met from both sides, with nulls, zero and negative amounts;
words cover the boundaries of the hundreds, thousands and millions in every position, together.

`CHECK_DEADLOCK FALSE`: ids are finite, and nobody has to buy, sign or ask, so an
instance may really stop.

### Fairness

`BuyerStep` and `HookStep` are weakly fair, because Node runs a request to its end
unless it dies (`CrashHook`, `AbandonPurchase`); the delivery of what is due is weakly
fair, because ePayco repeats a confirmation until it is answered. Nothing is assumed
of buyers, cards, refunds, studies, the panel or the clock. In `CreditStudies` the
next await of a process (`Continue`) is weakly fair for the same reason, and so is
the delivery of a webhook that Zapsign has not had answered; nobody has to start a
request, sign or refuse. A webhook that found no token was answered, so
`SignatureRecorded` speaks of those due when the token is stored. In `MacroContract`
the same holds of `Handle`, and `CreditiaStamp` is weakly fair because Zapsign applies
the signatures it has queued. `FirstContractActivates` speaks of an event that finds
its row, for the same reason as `SignatureRecorded`.

## Disagreements between the code and what is said of it

Three have a run that shows a trace of the code's own steps, and a finding in
`PROJECT.json` that quotes the comment or the document: `contracts_stuck`,
`figures_spending` and `levels_of_risk`. The others were met while modelling. Those of
the modules with steps are traces that TLC finds when the property is stated on
their instance; those of the calculations are values.

Packs

* `refreshPendingPurchase` updates by id alone (`analysis-packs.repository.ts:134`): an
  attempt that read the pack as pending rewrites the expiry, the amount and the code
  of one that a webhook has activated, against "Solo aplica sobre bolsas en
  pending_payment" (line 108). Hence a redemption may survive the reversal of its
  pack, and `totalPaid` may be that of a later attempt.
* An approval delivered after the reversal of the same payment is no duplicate and
  activates the pack (`analysis-packs.service.ts:951`).
* `revertToPending` clears whatever payment the pack holds (`repository.ts:598`): the
  reversal of a second payment takes back a pack paid by the first.
* `releaseRedemption` deletes by code and company (`promo-codes.repository.ts:194`), so
  a pack that did not redeem frees the redemption of another.
* The severity of a reversal's alert uses the credits consumed when the handler began.

Studies

* A declined note can still be signed, after another was issued, and two issues both
  count no active note before either inserts its own: two active notes, against "Un
  solo pagaré activo" (`promissory-notes.service.ts:154`).
* `issue` sets `pendingSignature` in a write of its own (line 393): a study that was
  closed in between waits for ever. A crash between `markSigned` and the close leaves
  it open too, since the repeated webhook finds the note signed; `SignedCloses`
  excuses a failure for this reason.
* Two extractions leave two frozen sources of one kind
  (`financial-statements.service.ts:105`), and an extraction, a score or a reset that
  was checked before a note was issued sets its study back.

Contracts, authorizations and consultations

* The client may sign before the row of the contract is written; the event finds no
  row, is answered, and only another event records the signature.
* Two senders leave a document that nobody owns. Both registering after a refusal, or
  one registering past a delivery that has read the refused document, writes what
  happened to the old document on the row of the new one: a contract that nobody signed
  opens the routes, or a signed one is marked refused or loses its signature.
* Two deliveries that repair Creditia's signature at once both find no signer and both
  add one; the second never signs, so the document stays pending at Zapsign.
* Nothing sets `revokedAt`, which the gate reads. Two requests after a refusal may
  replace an authorization that was signed in between.
* An email may be overwritten by a consultation that read none, against "NUNCA pisa un
  email ya guardado" (`credit-bureau.repository.ts:22`).

Memberships

* Two invitations of one email may both be pending. One that expired pending blocks
  inviting again.
* `rejectPublic` deletes an inactive membership "ya que nunca se activó"
  (`invitations.repository.ts:172`). It looks at line 178 and deletes by id at line 179,
  under READ COMMITTED: an acceptance or a switch that commits in between loses an active
  membership. And one that was accepted and switched off before had been active. A
  refusal in `respond` leaves it, so `create` then answers that the person already is a
  member.
* What role an invitation may carry is told in three ways. The comment at
  `invitations.service.ts:361` says `administrator` for those of the portal's onboarding,
  and `auxiliar` or `invitado` for others; section 5.1 of
  `docs/admin-portal-backend-design.md` has them written by
  `POST /api/admin/companies/onboard` with the role `owner`; the code has neither that
  route nor that role, and `create` always writes `invitado`
  (`invitations.service.ts:99`, `147`, `158`). So with this code alone no invitation makes
  an administrator; with the portal that the comment describes, only those do
  (`AdministratorByRight`).
* `respond` keeps the role `invitado` of a membership that waits for the answer, though the comment at
  `invitations.service.ts:509` says `auxiliar`. An old accepted invitation can switch on
  a newer inactive membership. The last administrator of a company can be removed, and
  a company cannot be removed once it has scoring configurations.

Calculations

* The rounded contributions of the dimensions need not add up to the total. An
  amount suggested for the level `MAXIMO` starts from one half. A month of mild arrears
  in place of an unknown one can lower the index of arrears.
* A date of a balance sheet that is no date gives the year `NaN`
  (`extracted-periods.ts:117`), which passes for a year; `Figures` has a year or null.
* Expenses of DataCrédito are not normalised as those of a PDF are. Turnover over a
  base of zero is not finite.
* In the calculator the floor of a price may be pierced by one peso, and the saving
  shown may be negative (`pricing-calculator.service.ts:33`, `133`; for instance a
  floor of 50001, a price of 50400 and 2 analyses).

Reports

* The long label of a NIT makes a natural person of a company, and that of a foreign
  identity a `ce`: `ReportReachesTheScore` speaks of documents that come as codes.
  Old results with a negative capacity read differently. An error row of an AI run
  loses its cost, and a report may be of a study that was performed again.

Views

* Approval rates of the dashboard and of a customer count different studies; a study of
  the boundary day counts in two ranges, and one of the last day in one count and not
  in the other; a rejected study keeps its recommended amount in the sums.
* `revertToPending` resets neither the mark of the invoice nor its date,
  `markEinvoiceSent` checks neither, and the totals of the queue skip the packs without
  tax base (`admin.service.ts:1313`). `totalPurchased` counts pending packs. The
  projection of when credits run out loses a day.
* What has expired is judged by `new Date()` in the dashboard (`dashboard.repository.ts:194`),
  by the server's midnight in the packs (`analysis-packs.repository.ts:422`) and by
  `CURRENT_DATE` when a credit is taken (line 651). `AccountViews` has one `today`: they are
  the same in a deployment whose server and database run in UTC, with the `Date` sent
  to a DATE column cut to its day. In another time zone a pack may be shown for some hours
  as usable, or as expired, that is not.
* A list ordered by a name that is not unique may repeat a row on the next page.

Back office

* Two saves at once leave two configurations active (the schema says one is), as two
  prices; `findActive` takes the newest, hence `NewestInForce`. It orders by `createdAt`,
  the model by insert: they agree while the clock does not put two saves in another
  order. Two deactivations may leave no active price, against
  `consultation-prices.service.ts:83`.
* A post's date is worked out from a row that another editor may have published. Its
  cover is stored under a slug that may change.
* A ticket may be assigned to an administrator who was deactivated in between; the last
  administrator may deactivate themselves; an account may be left at Supabase when
  the rollback fails or the creation times out (`AccountsBelong` names these failures).

## Proofs

Everything is proved for any number of packs, sessions, requests, handlers,
companies, people, documents and codes, any number of failures and any input of a
calculation, under the named assumptions of the modules (ids are not `None`, quantities and quotas are positive,
the kinds of process do not overlap).

* `PromoCodesProofs`: the counter of a code equals the cardinality of its
  redemptions and is within the quota. The invariant needs that the set of
  redemptions is finite and that each row is of a declared code and company.
* `AnalysisPacksProofs`: `TypeCorrect`. `TypeOK` is not inductive: a step of a
  handler needs what an earlier step left in its locals. `Sane` adds that a buyer
  past its first read has a company and an offering, that one who is about to
  open a checkout found a pack, that a handler in progress has a session whose
  pack exists, and that a session that was opened has a pack. `NextSane` proves
  that every action keeps it, one step per action. `LedgerCorrect`, `QuantityCorrect` and `PaymentCorrect` share
  one lemma that says what a step may do to one pack (create, freeze, activate,
  revert, grant, consume, or nothing), so each proof is by those cases instead of by
  all actions. `ConsumptionCorrect` and `CreditsImplemented` (refinement of
  `CreditAccounts`) follow from the same lemma. Codes are touched by the operations of
  `PromoCodes` only (the lemma `KeepsToCodes`), so `QuotaCorrect` is `PromoCorrect`.
  `ScopeCorrect` needs that a code held by a handler or stored on a pack was
  validated for the company; `FreeGrantCorrect` is a step property.
* `CreditStudiesProofs`: none of its properties is inductive, because no write is
  guarded: a step is right because of what the process knew some awaits before.
  `Sane` says what each step may rely on (`Knows`) and that no two issues own one note
  (`Exclusive`); `KeepsNotes` says what no step undoes. `ProcChanges` is the
  heart: what the others know survives a step, because only the issue that owns a
  note sends its document, stores its token or deletes its row. `LockCorrect`
  adds `WhoLocks`: only an issue at its last step locks a study, and only a
  webhook that claimed the signature closes it.
* `MacroContractProofs`: for any number of senders, deliveries, documents and failures.
  `IInv` has the types, `ActiveBySignature`, and that a status a webhook has read as signed
  stays so at Zapsign (`LocalsSound`). `WorkInv` adds that a document being sent is its
  sender's alone until it is in the row, and that an event is of what its document saw.
  `AgreesUntilOvertaken` is what makes the row right: as long as no sending has overtaken
  another process, whoever is about to write by id works on the document the row holds;
  `SignedByClient`, `RefusalIsReal` and `SignatureKept` follow. `SignersOfDeliveries`
  is a count: the signers of a document, and the deliveries that are about to add one
  without having seen any, are together at most the deliveries handled at once (or one,
  the sender's). It is the one theorem that takes the deliveries to be finitely many.
* `CreditBureauProofs`: `ConsultedWithConsentHolds`. What lies between a signature and a
  consultation is a chain of reads that a process remembers after the row has changed,
  so `AuthInv` and `GateHolds` say what each process that passed a check may count on.
  `LatestIsADate` is by well-founded induction over the consultations.
  `PaidOncePerWindow` and `PaidIsStored` compare counts, and neither is inductive: a
  consultation is paid some steps before it is stored, and a date alone does not say
  whose it is. `PaidInv` gives each request in between the consultation it holds
  (`FewLost`: each failure loses at most one), and counts by the window of a
  consultation (`Paid`): before one of that window is stored whoever asked still holds
  its own, and after it nobody new comes to ask.
* `MembershipsProofs`: an invitation that was accepted, or switched after that, is of
  someone who agreed (`InvitationsInv`); the locals of a request still say which company
  exists and who has agreed, though the rows changed (`RequestsInv`); from them
  `MembersInv`, of which the properties are parts. An offer of the portal is traced the
  same way: an invitation, or a request that has read one, that carries `administrator` is
  of someone to whom it was offered.
* `BackOfficeProofs`: an invariant for each desk. A creation that has made its account
  owns it; a ticket's number is taken by one transaction at a time; a version saved
  later than one that is looking is not superseded by it. A step at one desk leaves
  the others' invariants alone.

* `CalculationsProofs`: a calculation keeps its input (`InputInv`), so each property is
  a fact about a pure function for every input that is well formed, of any length and
  size. `ScoreIsAnAverageHolds` rests on a lemma about weighted means (a sum of weighted
  parts lies between the least and the greatest part times the sum of the weights),
  `BureauIsRespectedHolds` on the order of caps and vetoes, `PricesAddUpHolds` on how a
  price is rounded, `PriorYearIsEarlierHolds` on the sort of the periods,
  `ReportReachesTheScoreHolds` on all of these, and `WordsReadBackHolds` on where the only
  "mil" and the only "millon" of an amount are. Recursive functions are opened by the
  least place where they would not be what they should (the naturals are well founded):
  that replaces the induction the provers cannot do. A sort is opened by the rank of a
  period, the number of periods that come before it.

  `ViewsAgreeHolds` is the longest. A view of an account asks for sums, counts and orders
  of the places of a table, so it rests on a small theory of them: a sum over some places
  is the sum of the column with zeros elsewhere (`SumSplits`), a sum over a set is the sum
  of the sums over its parts (`PartsAddUp`: by customer, status, month, band and page),
  and an order of the places, opened by rank, is a way of enumerating them, so reading a
  column in that order keeps its sum (`OrderAddsUp`). From these: the views add the
  credits left of the same packs; taking a credit lowers the balance by one
  (`CreditIsTaken`) and leaves the account well formed, so the history of credits taken
  ends when the balance does; the pages are disjoint parts of the queue; and each study is
  in one pipeline step, in one customer's figures and in one month. The calendar is in
  closed form (years of 365 days), which makes it true of any day.

  What is assumed of the inputs, and why: the weights were validated when they were saved
  (`StudyAssumption`); an offering has at least one consultation and prices are not
  negative, as its DTOs and columns require (`PriceAssumption`, `MenuAssumption`); what is
  read in a PDF has years and figures or null (`StatementAssumption`); a report is of one
  company or person, and its study is of the customer that was made of it, with the
  periods of an analysis in their years (`ReportAssumption`); an amount of 10^12 or more
  is refused with a `RangeError` (`AmountAssumption`, `number-to-words.ts:101`); an account
  is rows that other modules make sure of (`AccountAssumption`): ids are primary keys, a
  status is one of the parameters that the migration seeds, what is consumed of a pack was
  bought (`LedgerCorrect`, proved of `AnalysisPacks`), the base and the tax of a charged
  pack were frozen with its price (`PricesAddUp`), and a study is of a customer of its
  company, at a step of the process. TLC evaluates them for the inputs of the run.

Every safety property that a run finds to hold is proved. Only model-checked:

* The liveness properties (`PaidBecomesUsable`, `ConfirmationsAnswered`,
  `UsableIsOnboarded`, `SignatureRecorded`, `SignedCloses`, `FirstContractActivates`),
  which depend on fairness and `ENABLED`.

## Not modelled

* HTTP, the signatures of webhooks, tokens and sessions (Supabase's), mails and
  notifications: best-effort output that nothing reads back.
* The PDF report of a study, the exports to spreadsheets, the texts of prompts and
  explanations: layout and wording.
* The call to the AI model: its answer is an input of `Figures` and `Evaluation`.
* The panel's CRUD of prices, offerings and parameters, contact requests, the
  resolution of an alert, and the columns of companies, profiles and customers that
  nothing decides on: writes of one row. The race of two deactivations of a price
  is described above.
* Ratios of `Figures` that are only shown.
* `confirmed` and `rejected` of a study, `cancelled` of a pack: nothing writes them.

What would come next: the interplay of a reversal with the invoice queue as steps
instead of values.
