--------------------------- MODULE AnalysisPacks ---------------------------
(***************************************************************************)
(* Prepaid packs of analyses (analysis-packs.service.ts and                *)
(* analysis-packs.repository.ts): a company starts a purchase, pays it in  *)
(* an ePayco checkout session, ePayco confirms by webhook, the pack turns  *)
(* active and each credit study takes one credit of it.                    *)
(*                                                                         *)
(* Every await of a handler is a commit of its own, so a handler is a      *)
(* process: a Buyer runs purchase(), a Hook runs handleConfirmation(), and *)
(* one action is one database call (or one call outside) with the values   *)
(* the handler had read before it.  consumeCreditForStudy and              *)
(* createFreeActivePack are single transactions and single actions.        *)
(*                                                                         *)
(* ePayco is external: it opens sessions, charges them, and posts          *)
(* confirmations until one is answered, so confirmations arrive late, out  *)
(* of order and more than once.                                            *)
(*                                                                         *)
(* Left out: the receipt columns, providerSessionId and providerInvoice,   *)
(* and the rows of payment_events, which no decision of these handlers     *)
(* reads; e-mails; confirmations with a bad signature or an unknown pack   *)
(* and those with codes other than 1, 2, 4 and 6, which change nothing     *)
(* but that log.                                                           *)
(***************************************************************************)
EXTENDS Integers, FiniteSets

CONSTANTS
  Company, Offering, Study, Code, Price,
  Pack,           \* pack ids, numbered in order of creation
  Session,        \* checkout sessions, one invoice each
  Buyer, Hook,    \* requests that run purchase() and handleConfirmation()
  None,           \* null
  Quantity,       \* credits of each offering: frozen by pack-offerings
  ValidityDays,   \* days of validity of each offering: frozen too
  Charge,         \* totalToCharge of <<offering, price, code or None>>
  MinCharge,      \* MIN_CHARGE_AMOUNT
  MaxRedemptions, Scope,  \* of the promotional codes
  ReversalKeepsTxnId,     \* does a reversal carry the id of the payment?
  MaxDay,         \* bound: last day
  MaxEdits,       \* bound: changes by administrators
  MaxFaults,      \* bound: handlers that die and best-effort calls that fail
  MaxResends      \* bound: answered confirmations posted once more

Codes == Code \cup {None}

VARIABLES
  pack,      \* rows of analysis_packs
  ledger,    \* rows of analysis_consumptions
  alerts,    \* rows of payment_alerts
  onboarded, \* companies whose is_onboarding_ready is true
  contracted,\* companies the macro contract was sent to
  offered,   \* offerings whose is_active is true
  price,     \* the active consultation price
  today,     \* the current date
  buyer,     \* locals of each purchase request
  hook,      \* locals of each confirmation handler
  session,   \* external: ePayco's checkout sessions
  posted,    \* external: confirmations ePayco has issued
  due,       \* external: confirmations ePayco still has to post
  edits, faults, resends,                                    \* bounds
  listed, enabled, inWindow, redemptionsCount, redemptions   \* promo codes

Promo == INSTANCE PromoCodes

ASSUME PackAssumption ==
  /\ Pack \subseteq Nat \ {0}
  /\ None \notin Company \cup Offering \cup Code \cup Price \cup Pack \cup Session
  /\ Quantity \in [Offering -> Nat \ {0}]
  /\ ValidityDays \in [Offering -> Nat]
  /\ Charge \in [Offering \X Price \X Codes -> Nat]
  /\ Promo!PromoAssumption
  /\ MinCharge \in Nat \ {0}
  /\ ReversalKeepsTxnId \in BOOLEAN
  /\ {MaxDay, MaxEdits, MaxFaults, MaxResends} \subseteq Nat

promoVars  == <<listed, enabled, inWindow, redemptionsCount, redemptions>>
adminVars  == <<offered, price, edits>>
ePaycoVars == <<session, posted, due, resends>>
effectVars == <<alerts, onboarded, contracted>>
vars == <<pack, ledger, today, faults, buyer, hook,
          promoVars, adminVars, ePaycoVars, effectVars>>

-----------------------------------------------------------------------------
(***************************************************************************)
(* Rows, messages and locals.                                              *)
(***************************************************************************)
Status == {"absent", "pending_payment", "active", "depleted"}

\* quantityPurchased is Quantity[offering]; payment is providerTransactionId,
\* named by the session it charged; free is provider = 'promo'.
PackRow == [status : Status, company : Company \cup {None},
            offering : Offering \cup {None}, consumed : Nat, endDate : Nat,
            totalPaid : Nat, code : Codes, payment : Session \cup {None},
            free : BOOLEAN]

Absent == [status |-> "absent", company |-> None, offering |-> None,
           consumed |-> 0, endDate |-> 0, totalPaid |-> 0, code |-> None,
           payment |-> None, free |-> FALSE]

Usable == {"active", "depleted"}

Purchased(row) == IF row.offering = None THEN 0 ELSE Quantity[row.offering]

\* A confirmation: cod_response 1, 2 or 4, and 6.
Verdict == {"accepted", "rejected", "reversed"}
Confirmation == [session : Session, verdict : Verdict]

\* What ePayco knows of a session: the pack in extra1 and the amount.
SessionRow == [state : {"unused", "open", "paid", "refunded"},
               pack : Pack \cup {None}, amount : Nat]

BuyerPC == {"idle", "find", "write", "checkout", "grant", "effects"}
BuyerState == [pc : BuyerPC, company : Company \cup {None},
               offering : Offering \cup {None}, code : Codes, amount : Nat,
               endDate : Nat, found : Pack \cup {None}]
IdleBuyer == [pc |-> "idle", company |-> None, offering |-> None,
              code |-> None, amount |-> 0, endDate |-> 0, found |-> None]

\* code and consumed: the columns of the pack the handler read at its start.
HookPC == {"idle", "activate", "effects", "notify", "redeem", "failed",
           "revert", "alert", "release"}
HookState == [pc : HookPC, session : Session \cup {None},
              verdict : Verdict \cup {"none"}, activated : BOOLEAN,
              code : Codes, consumed : Nat]
IdleHook == [pc |-> "idle", session |-> None, verdict |-> "none",
             activated |-> FALSE, code |-> None, consumed |-> 0]

AlertType == {"payment_approved", "payment_failed", "payment_reversed",
              "promo_code_oversold"}
Alert == [type : AlertType, severity : {"info", "warning", "critical"},
          pack : Pack, session : Session]

Init ==
  /\ pack = [p \in Pack |-> Absent]
  /\ ledger = {}
  /\ alerts = {}
  /\ onboarded = {}
  /\ contracted = {}
  /\ offered = Offering
  /\ price \in Price
  /\ today = 0
  /\ buyer = [b \in Buyer |-> IdleBuyer]
  /\ hook = [h \in Hook |-> IdleHook]
  /\ session = [s \in Session |-> [state |-> "unused", pack |-> None, amount |-> 0]]
  /\ posted = {}
  /\ due = {}
  /\ edits = 0 /\ faults = 0 /\ resends = 0
  /\ Promo!PromoInit

-----------------------------------------------------------------------------
(***************************************************************************)
(* purchase() and purchaseFree().                                          *)
(***************************************************************************)
\* An offering and a code the request may use; what it will be charged.
Quoted(o, c) == Charge[<<o, price, c>>]

\* The reads before the pack is looked for.  A price of 0 needs a code; any
\* other must reach the minimum of the gateway.
StartPurchase(b, co, o, c) ==
  /\ buyer[b].pc = "idle"
  /\ o \in offered
  /\ c = None \/ Promo!ValidForPurchase(c, co)
  /\ IF Quoted(o, c) = 0 THEN c # None ELSE Quoted(o, c) >= MinCharge
  /\ buyer' = [buyer EXCEPT ![b] =
                 [pc |-> "find", company |-> co, offering |-> o, code |-> c,
                  amount |-> Quoted(o, c), endDate |-> today + ValidityDays[o],
                  found |-> None]]
  /\ UNCHANGED <<pack, ledger, today, faults, hook>>
  /\ UNCHANGED <<promoVars, adminVars, ePaycoVars, effectVars>>

PendingOf(co, o) == {p \in Pack : /\ pack[p].status = "pending_payment"
                                  /\ pack[p].company = co
                                  /\ pack[p].offering = o}

\* findPendingByCompanyAndOffering: the latest one.
FindPending(b) ==
  LET pending == PendingOf(buyer[b].company, buyer[b].offering)
  IN  /\ buyer[b].pc = "find"
      /\ \E p \in pending \cup {None} :
           /\ IF pending = {} THEN p = None
              ELSE p \in pending /\ \A q \in pending : q <= p
           /\ buyer' = [buyer EXCEPT
                          ![b] = [@ EXCEPT !.pc = IF buyer[b].amount = 0 THEN "grant" ELSE "write",
                                           !.found = p]]
      /\ UNCHANGED <<pack, ledger, today, faults, hook>>
      /\ UNCHANGED <<promoVars, adminVars, ePaycoVars, effectVars>>

\* The next id the table would give.
Fresh(p) == /\ pack[p].status = "absent"
            /\ \A q \in Pack : pack[q].status = "absent" => p <= q

\* Mutant: a retry starts the counter of the reused pack over.
FrozenFromZero(b, row) == [row EXCEPT !.endDate = buyer[b].endDate,
                                      !.totalPaid = buyer[b].amount,
                                      !.code = buyer[b].code,
                                      !.consumed = 0]

\* The columns both paths of the purchase freeze.
Frozen(b, row) == [row EXCEPT !.endDate = buyer[b].endDate,
                              !.totalPaid = buyer[b].amount,
                              !.code = buyer[b].code]

\* refreshPendingPurchase: by id, whatever the status is by now.
RefreshPending(b) ==
  /\ buyer[b].pc = "write"
  /\ buyer[b].found # None
  /\ pack' = [pack EXCEPT ![buyer[b].found] = Frozen(b, @)]
  /\ buyer' = [buyer EXCEPT ![b].pc = "checkout"]
  /\ UNCHANGED <<ledger, today, faults, hook>>
  /\ UNCHANGED <<promoVars, adminVars, ePaycoVars, effectVars>>

\* Mutant: the new row misses the company.
UnownedRow(b) == [Frozen(b, Absent) EXCEPT !.status = "pending_payment",
                                           !.offering = buyer[b].offering]

NewRow(b) == [Frozen(b, Absent) EXCEPT !.status = "pending_payment",
                                       !.company = buyer[b].company,
                                       !.offering = buyer[b].offering]

CreatePending(b) ==
  /\ buyer[b].pc = "write"
  /\ buyer[b].found = None
  /\ \E p \in Pack :
       /\ Fresh(p)
       /\ pack' = [pack EXCEPT ![p] = NewRow(b)]
       /\ buyer' = [buyer EXCEPT ![b] = [@ EXCEPT !.pc = "checkout", !.found = p]]
  /\ UNCHANGED <<ledger, today, faults, hook>>
  /\ UNCHANGED <<promoVars, adminVars, ePaycoVars, effectVars>>

\* createCheckoutSession: a session with an invoice of its own, the id of the
\* pack and the amount of this attempt.
OpenCheckout(b) ==
  /\ buyer[b].pc = "checkout"
  /\ \E s \in Session :
       /\ session[s].state = "unused"
       /\ session' = [session EXCEPT ![s] = [state |-> "open", pack |-> buyer[b].found,
                                             amount |-> buyer[b].amount]]
  /\ buyer' = [buyer EXCEPT ![b] = IdleBuyer]
  /\ UNCHANGED <<pack, ledger, today, faults, hook, posted, due, resends>>
  /\ UNCHANGED <<promoVars, adminVars, effectVars>>

\* The row createFreeActivePack writes over one it claims or over a new one.
FreeRow(b, row) == [Frozen(b, row) EXCEPT !.status = "active",
                                          !.company = buyer[b].company,
                                          !.offering = buyer[b].offering,
                                          !.payment = None,
                                          !.free = TRUE]

\* The pack the free purchase takes: the one found if still pending, or a new one.
Granted(b, p) ==
  IF buyer[b].found # None /\ pack[buyer[b].found].status = "pending_payment"
  THEN p = buyer[b].found ELSE Fresh(p)

\* createFreeActivePack: the pack found if it is still pending, else a new one,
\* and the redemption, in one transaction.
GrantFree(b) ==
  /\ buyer[b].pc = "grant"
  /\ \E p \in Pack :
       /\ Granted(b, p)
       /\ Promo!Redeem(buyer[b].code, buyer[b].company, p)
       /\ pack' = [pack EXCEPT ![p] = FreeRow(b, @)]
  /\ buyer' = [buyer EXCEPT ![b].pc = "effects"]
  /\ UNCHANGED <<ledger, today, faults, hook>>
  /\ UNCHANGED <<adminVars, ePaycoVars, effectVars>>

\* PromoRedemptionFailedError: everything is rolled back.
RefuseFree(b) ==
  /\ buyer[b].pc = "grant"
  /\ ~Promo!CanRedeem(buyer[b].code, buyer[b].company)
  /\ buyer' = [buyer EXCEPT ![b] = IdleBuyer]
  /\ UNCHANGED <<pack, ledger, today, faults, hook>>
  /\ UNCHANGED <<promoVars, adminVars, ePaycoVars, effectVars>>

\* Mutant: the contract waits for a company that is ready already.
OnboardThenContract(co) ==
  \E onboardFails \in {0, 1} :
    /\ faults + onboardFails <= MaxFaults
    /\ faults' = faults + onboardFails
    /\ onboarded' = IF onboardFails = 0 THEN onboarded \cup {co} ELSE onboarded
    /\ contracted' = IF co \in onboarded THEN contracted \cup {co} ELSE contracted

\* markOnboardingReady and sendContractForCompany: either may fail, which is
\* logged and forgotten.  The contract is sent once per company.
OnboardAndContract(co) ==
  \E onboardFails, contractFails \in {0, 1} :
    /\ faults + onboardFails + contractFails <= MaxFaults
    /\ faults' = faults + onboardFails + contractFails
    /\ onboarded' = IF onboardFails = 0 THEN onboarded \cup {co} ELSE onboarded
    /\ contracted' = IF contractFails = 0 THEN contracted \cup {co} ELSE contracted

FreeEffects(b) ==
  /\ buyer[b].pc = "effects"
  /\ OnboardAndContract(buyer[b].company)
  /\ buyer' = [buyer EXCEPT ![b] = IdleBuyer]
  /\ UNCHANGED <<pack, ledger, today, hook, alerts>>
  /\ UNCHANGED <<promoVars, adminVars, ePaycoVars>>

\* A request dies, or a call of it fails and the rest of it is skipped.
AbandonPurchase(b) ==
  /\ buyer[b].pc # "idle"
  /\ faults < MaxFaults
  /\ faults' = faults + 1
  /\ buyer' = [buyer EXCEPT ![b] = IdleBuyer]
  /\ UNCHANGED <<pack, ledger, today, hook>>
  /\ UNCHANGED <<promoVars, adminVars, ePaycoVars, effectVars>>

BuyerStep(b) ==
  \/ FindPending(b) \/ RefreshPending(b) \/ CreatePending(b) \/ OpenCheckout(b)
  \/ GrantFree(b) \/ RefuseFree(b) \/ FreeEffects(b)

-----------------------------------------------------------------------------
(***************************************************************************)
(* handleConfirmation.  The row of the pack is read once, at the start;    *)
(* the rest of the handler decides with that copy.  A confirmation is      *)
(* answered by the last step of the handler, and a handler that dies       *)
(* leaves it to be posted again.                                           *)
(***************************************************************************)
Paying(h) == session[hook[h].session].pack
Handled(h) == [session |-> hook[h].session, verdict |-> hook[h].verdict]

Continue(h, pc) == hook' = [hook EXCEPT ![h].pc = pc] /\ UNCHANGED due

\* Mutant: the handler ends without an answer.
AnswerLost(h) == hook' = [hook EXCEPT ![h] = IdleHook] /\ UNCHANGED due

Answer(h) == hook' = [hook EXCEPT ![h] = IdleHook] /\ due' = due \ {Handled(h)}

\* Mutant: any earlier confirmation of the session makes this one a duplicate.
DuplicateBySession(m) ==
  \E n \in posted \ due : n.session = m.session

\* The pack already carries the id of this transaction.  A confirmation of a
\* declined card has an id of its own; a reversal may repeat that of the payment.
Duplicate(m) ==
  /\ pack[session[m.session].pack].payment = m.session
  /\ m.verdict = "accepted" \/ (m.verdict = "reversed" /\ ReversalKeepsTxnId)

\* Mutant: a declined card is taken for a payment.
FirstStepUnread(verdict) == IF verdict = "reversed" THEN "revert" ELSE "activate"

FirstStep(verdict) == CASE verdict = "accepted" -> "activate"
                        [] verdict = "rejected" -> "failed"
                        [] verdict = "reversed" -> "revert"

\* findById, the duplicate check and the dispatch on the response code.
Receive(h, m) ==
  LET row == pack[session[m.session].pack]
  IN  /\ hook[h].pc = "idle"
      /\ m \in due
      /\ ~Duplicate(m)
      /\ hook' = [hook EXCEPT ![h] =
                    [pc |-> FirstStep(m.verdict), session |-> m.session,
                     verdict |-> m.verdict, activated |-> FALSE,
                     code |-> row.code, consumed |-> row.consumed]]
      /\ UNCHANGED <<pack, ledger, today, faults, buyer>>
      /\ UNCHANGED <<promoVars, adminVars, ePaycoVars, effectVars>>

\* A duplicate is answered without effects.
ReceiveDuplicate(h, m) ==
  /\ hook[h].pc = "idle"
  /\ m \in due
  /\ Duplicate(m)
  /\ due' = due \ {m}
  /\ UNCHANGED <<pack, ledger, today, faults, buyer, hook, session, posted, resends>>
  /\ UNCHANGED <<promoVars, adminVars, effectVars>>

PaidRow(row, s) == [row EXCEPT !.status = "active", !.payment = s]

\* activateAfterConfirmation: an update whose WHERE asks for pending_payment.
Activate(h) ==
  LET claims == pack[Paying(h)].status = "pending_payment"
  IN  /\ hook[h].pc = "activate"
      /\ pack' = IF claims
                 THEN [pack EXCEPT ![Paying(h)] = PaidRow(@, hook[h].session)]
                 ELSE pack
      /\ hook' = [hook EXCEPT ![h] = [@ EXCEPT !.pc = "effects", !.activated = claims]]
      /\ UNCHANGED <<ledger, today, faults, buyer>>
      /\ UNCHANGED <<promoVars, adminVars, ePaycoVars, effectVars>>

PaidEffects(h) ==
  /\ hook[h].pc = "effects"
  /\ OnboardAndContract(pack[Paying(h)].company)
  /\ IF hook[h].activated THEN Continue(h, "notify") ELSE Answer(h)
  /\ UNCHANGED <<pack, ledger, today, buyer, alerts, session, posted, resends>>
  /\ UNCHANGED <<promoVars, adminVars>>

\* createAlert inside a try: it may fail.  An alert raised again for the same
\* pack and session is the same element.
Raise(type, severity, h) ==
  \/ /\ alerts' = alerts \cup {[type |-> type, severity |-> severity,
                                pack |-> Paying(h), session |-> hook[h].session]}
     /\ UNCHANGED faults
  \/ /\ faults < MaxFaults
     /\ faults' = faults + 1
     /\ UNCHANGED alerts

NotifyPaid(h) ==
  /\ hook[h].pc = "notify"
  /\ Raise("payment_approved", "info", h)
  /\ IF hook[h].code # None THEN Continue(h, "redeem") ELSE Answer(h)
  /\ UNCHANGED <<pack, ledger, today, buyer, onboarded, contracted>>
  /\ UNCHANGED <<promoVars, adminVars, session, posted, resends>>

\* promoCodesService.redeem with the code read at the start.
RedeemCode(h) ==
  /\ hook[h].pc = "redeem"
  /\ Promo!Redeem(hook[h].code, pack[Paying(h)].company, Paying(h))
  /\ Answer(h)
  /\ UNCHANGED <<pack, ledger, today, faults, buyer, session, posted, resends>>
  /\ UNCHANGED <<adminVars, effectVars>>

\* The code cannot be redeemed any more: the pack stays active and the panel
\* is told; or the redemption itself fails, and nothing tells.
ReportOversold(h) ==
  /\ hook[h].pc = "redeem"
  /\ IF Promo!CanRedeem(hook[h].code, pack[Paying(h)].company)
     THEN faults < MaxFaults /\ faults' = faults + 1 /\ UNCHANGED alerts
     ELSE Raise("promo_code_oversold", "warning", h)
  /\ Answer(h)
  /\ UNCHANGED <<pack, ledger, today, buyer, onboarded, contracted>>
  /\ UNCHANGED <<promoVars, adminVars, session, posted, resends>>

\* recordFailedAttempt touches the reason of the last attempt only.
RecordFailed(h) ==
  /\ hook[h].pc = "failed"
  /\ Raise("payment_failed", "info", h)
  /\ Answer(h)
  /\ UNCHANGED <<pack, ledger, today, buyer, onboarded, contracted>>
  /\ UNCHANGED <<promoVars, adminVars, session, posted, resends>>

\* Mutant: a reversal gives the credits back.
RestoredRow(row) == [row EXCEPT !.status = "pending_payment", !.payment = None, !.consumed = 0]

RevertedRow(row) == [row EXCEPT !.status = "pending_payment", !.payment = None]

\* revertToPending: by id, from whatever status; quantityConsumed stays.
Revert(h) ==
  /\ hook[h].pc = "revert"
  /\ pack' = [pack EXCEPT ![Paying(h)] = RevertedRow(@)]
  /\ Continue(h, "alert")
  /\ UNCHANGED <<ledger, today, faults, buyer, session, posted, resends>>
  /\ UNCHANGED <<promoVars, adminVars, effectVars>>

\* Critical if credits had been consumed when the handler started.
AlertReversal(h) ==
  /\ hook[h].pc = "alert"
  /\ Raise("payment_reversed", IF hook[h].consumed > 0 THEN "critical" ELSE "warning", h)
  /\ IF hook[h].code # None THEN Continue(h, "release") ELSE Answer(h)
  /\ UNCHANGED <<pack, ledger, today, buyer, onboarded, contracted>>
  /\ UNCHANGED <<promoVars, adminVars, session, posted, resends>>

\* promoCodesService.release with the code read at the start: best effort.
ReleaseCode(h) ==
  /\ hook[h].pc = "release"
  /\ \/ /\ Promo!Release(hook[h].code, pack[Paying(h)].company)
        /\ UNCHANGED faults
     \/ /\ faults < MaxFaults
        /\ faults' = faults + 1
        /\ UNCHANGED promoVars
  /\ Answer(h)
  /\ UNCHANGED <<pack, ledger, today, buyer, session, posted, resends>>
  /\ UNCHANGED <<adminVars, effectVars>>

\* The handler dies, or a call outside a try fails: ePayco gets no answer.
CrashHook(h) ==
  /\ hook[h].pc # "idle"
  /\ faults < MaxFaults
  /\ faults' = faults + 1
  /\ hook' = [hook EXCEPT ![h] = IdleHook]
  /\ UNCHANGED <<pack, ledger, today, buyer>>
  /\ UNCHANGED <<promoVars, adminVars, ePaycoVars, effectVars>>

HookStep(h) ==
  \/ Activate(h) \/ PaidEffects(h) \/ NotifyPaid(h) \/ RedeemCode(h) \/ ReportOversold(h)
  \/ RecordFailed(h) \/ Revert(h) \/ AlertReversal(h) \/ ReleaseCode(h)

HookReceives(h) == \E m \in due : Receive(h, m) \/ ReceiveDuplicate(h, m)

-----------------------------------------------------------------------------
(***************************************************************************)
(* consumeCreditForStudy: SELECT ... FOR UPDATE of the usable pack next to *)
(* expire, the study, its ledger row and the counter, in one transaction.  *)
(***************************************************************************)
\* Mutant: an active pack is trusted to have credits left.
ConsumableByStatus(co) == {p \in Pack : /\ pack[p].status = "active"
                                        /\ pack[p].company = co
                                        /\ pack[p].endDate >= today}

Consumable(co) == {p \in Pack : /\ pack[p].status = "active"
                                /\ pack[p].company = co
                                /\ pack[p].endDate >= today
                                /\ pack[p].consumed < Purchased(pack[p])}

ConsumedRow(row) == [row EXCEPT
                       !.consumed = @ + 1,
                       !.status = IF row.consumed + 1 >= Purchased(row) THEN "depleted" ELSE @]

Consume(co, st) ==
  /\ \A l \in ledger : l.study # st
  /\ \E p \in Consumable(co) :
       /\ \A q \in Consumable(co) : pack[p].endDate <= pack[q].endDate
       /\ ledger' = ledger \cup {[study |-> st, pack |-> p]}
       /\ pack' = [pack EXCEPT ![p] = ConsumedRow(@)]
  /\ UNCHANGED <<today, faults, buyer, hook>>
  /\ UNCHANGED <<promoVars, adminVars, ePaycoVars, effectVars>>

-----------------------------------------------------------------------------
(***************************************************************************)
(* ePayco, the catalogue and the clock.                                    *)
(***************************************************************************)
Charged(s, from, to, verdict) ==
  /\ session[s].state = from
  /\ session' = [session EXCEPT ![s].state = to]
  /\ posted' = posted \cup {[session |-> s, verdict |-> verdict]}
  /\ due' = due \cup {[session |-> s, verdict |-> verdict]}
  /\ UNCHANGED <<pack, ledger, today, faults, buyer, hook, resends>>
  /\ UNCHANGED <<promoVars, adminVars, effectVars>>

Approve(s) == Charged(s, "open", "paid", "accepted")
\* A declined card leaves the session open for another try.  Bound: one decline
\* of each session; a second one is as good as the first posted again.
Decline(s) == /\ [session |-> s, verdict |-> "rejected"] \notin posted
              /\ Charged(s, "open", "open", "rejected")
Refund(s) == Charged(s, "paid", "refunded", "reversed")

\* A confirmation that was answered is posted once more.
Resend(m) ==
  /\ m \in posted \ due
  /\ resends < MaxResends
  /\ due' = due \cup {m}
  /\ resends' = resends + 1
  /\ UNCHANGED <<pack, ledger, today, faults, buyer, hook, session, posted>>
  /\ UNCHANGED <<promoVars, adminVars, effectVars>>

ChangeOffer ==
  /\ \/ price' \in Price \ {price} /\ UNCHANGED offered
     \/ \E o \in Offering : offered' \in {offered \cup {o}, offered \ {o}} \ {offered}
                            /\ UNCHANGED price
  /\ UNCHANGED promoVars

ChangeCodes == Promo!PromoAdmin /\ UNCHANGED <<offered, price>>

Administer ==
  /\ edits < MaxEdits
  /\ edits' = edits + 1
  /\ ChangeOffer \/ ChangeCodes
  /\ UNCHANGED <<pack, ledger, today, faults, buyer, hook>>
  /\ UNCHANGED <<ePaycoVars, effectVars>>

NewDay ==
  /\ today < MaxDay
  /\ today' = today + 1
  /\ UNCHANGED <<pack, ledger, faults, buyer, hook>>
  /\ UNCHANGED <<promoVars, adminVars, ePaycoVars, effectVars>>

Next ==
  \/ \E b \in Buyer, co \in Company, o \in Offering, c \in Codes : StartPurchase(b, co, o, c)
  \/ \E b \in Buyer : BuyerStep(b) \/ AbandonPurchase(b)
  \/ \E h \in Hook : HookReceives(h) \/ HookStep(h) \/ CrashHook(h)
  \/ \E co \in Company, st \in Study : Consume(co, st)
  \/ \E s \in Session : Approve(s) \/ Decline(s) \/ Refund(s)
  \/ \E m \in posted : Resend(m)
  \/ Administer
  \/ NewDay

Spec == Init /\ [][Next]_vars

(***************************************************************************)
(* Requests in progress keep running and ePayco keeps posting what is due. *)
(* Nobody has to buy, pay, refund or consume.                              *)
(***************************************************************************)
Fairness ==
  /\ \A b \in Buyer : WF_vars(BuyerStep(b))
  /\ \A h \in Hook : WF_vars(HookStep(h))
  /\ WF_vars(\E h \in Hook : HookReceives(h))

FairSpec == Spec /\ Fairness

-----------------------------------------------------------------------------
(***************************************************************************)
(* Properties.                                                             *)
(***************************************************************************)
\* Rows, messages and locals have the values declared for them, and a request
\* in progress names what its next step needs.
TypeOK ==
  /\ pack \in [Pack -> PackRow]
  /\ \A p \in Pack : pack[p].status # "absent" => /\ pack[p].company # None
                                                  /\ pack[p].offering # None
  /\ ledger \subseteq [study : Study, pack : Pack]
  /\ alerts \subseteq Alert
  /\ onboarded \subseteq Company
  /\ contracted \subseteq Company
  /\ offered \subseteq Offering
  /\ price \in Price
  /\ {today, edits, faults, resends} \subseteq Nat
  /\ buyer \in [Buyer -> BuyerState]
  /\ hook \in [Hook -> HookState]
  /\ session \in [Session -> SessionRow]
  /\ posted \subseteq Confirmation
  /\ due \subseteq posted

\* The counter of a pack is the number of studies in the ledger of
\* consumptions, and no study took two credits.
LedgerMatches ==
  /\ \A p \in Pack : pack[p].consumed = Cardinality({l \in ledger : l.pack = p})
  /\ \A k, l \in ledger : k.study = l.study => k = l

\* No pack is consumed beyond what was bought, through refreshes, reversals
\* and new payments alike, and depleted means used up.
WithinQuantity ==
  \A p \in Pack :
    /\ pack[p].consumed <= Purchased(pack[p])
    /\ pack[p].status = "depleted" => pack[p].consumed = Purchased(pack[p])

\* Credits are only usable, and were only ever used, against a payment ePayco
\* collected for that very pack, or against a free grant of a promotional code.
PaidBeforeUse ==
  \A p \in Pack :
    /\ pack[p].payment # None =>
         /\ session[pack[p].payment].state \in {"paid", "refunded"}
         /\ session[pack[p].payment].pack = p
    /\ pack[p].status \in Usable => pack[p].free \/ pack[p].payment # None
    /\ pack[p].consumed > 0 =>
         \/ pack[p].free
         \/ \E s \in Session : session[s].pack = p /\ session[s].state \in {"paid", "refunded"}

\* What was consumed stays consumed: no refresh, grant or reversal lowers the
\* counter, drops a ledger row or moves a pack to another company or offering.
ConsumptionSurvives ==
  [][/\ ledger \subseteq ledger'
     /\ \A p \in Pack : pack[p].status # "absent" =>
          /\ pack'[p].consumed >= pack[p].consumed
          /\ pack'[p].company = pack[p].company
          /\ pack'[p].offering = pack[p].offering]_vars

\* A pack given for free leaves a redemption naming it in the same step, so
\* that two requests racing with one code cannot both get a pack.
FreeGrantRedeems ==
  [][\A p \in Pack :
       pack[p].status # "active" /\ pack'[p].status = "active" /\ pack'[p].payment = None =>
         \E r \in redemptions' \ redemptions : r.pack = p /\ r.company = pack'[p].company]_vars

\* Every redemption names a pack of the company that redeemed it, and a code
\* that company may use: the scope is only checked when the purchase starts,
\* one or more commits before the redemption.
RedemptionInScope ==
  \A r \in redemptions : /\ pack[r.pack].company = r.company
                         /\ r.company \in Scope[r.code]

\* The quota of every code is kept and its counter counts its redemptions,
\* whoever redeems and releases: free purchases and webhooks.
QuotaKept == Promo!QuotaMatchesLedger /\ Promo!OneRedemptionPerCompany

\* A pack is an account of credits: paying or granting opens it, a reversal
\* only suspends it, and it resumes with what it had left.
Credits == INSTANCE CreditAccounts WITH
             Account   <- Pack,
             Size      <- {Quantity[o] : o \in Offering},
             size      <- [p \in Pack |-> Purchased(pack[p])],
             spendable <- {p \in Pack : pack[p].status \in Usable},
             spent     <- [p \in Pack |-> pack[p].consumed]
CreditsRefined == Credits!Spec

\* A payment ePayco collected makes its pack usable, whatever crashes,
\* repetitions and purchases in between do, unless some payment of that pack
\* was refunded.
PaidBecomesUsable ==
  \A s \in Session :
    session[s].state = "paid" ~>
      \E p \in Pack :
        /\ session[s].pack = p
        /\ \/ pack[p].status \in Usable
           \/ \E r \in Session : session[r].pack = p /\ session[r].state = "refunded"

\* Every confirmation is answered some day: no handler waits for another, and
\* a repetition does not start the work over for ever.
ConfirmationsAnswered ==
  \A m \in Confirmation : m \in due ~> m \notin due

\* A company with a usable pack is ready to finish its onboarding and is sent
\* the macro contract, if nothing failed: after a crash the confirmation that
\* comes again is a duplicate and skips both.
UsableIsOnboarded ==
  \A p \in Pack :
    pack[p].status \in Usable ~>
      pack[p].company \in onboarded \cap contracted \/ faults > 0
=============================================================================
