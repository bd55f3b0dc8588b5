------------------------ MODULE AnalysisPacksProofs -------------------------
(***************************************************************************)
(* Type correctness and safety of AnalysisPacks, for every number of       *)
(* companies, packs, sessions, requests and handlers.                      *)
(*                                                                         *)
(* TypeOK is not inductive: that a row found before an await still exists  *)
(* and is of the same company, that a handler handles something posted,    *)
(* and that a posted confirmation names a session opened for a pack, are   *)
(* what each next step relies on.  Sane adds them, part by part, and the   *)
(* lemmas show that every action keeps Sane and, with it, KeepsOwners: no  *)
(* pack disappears or changes hands.                                       *)
(*                                                                         *)
(* The safety theorems rest on both.  StepOfPacks says what a step may do  *)
(* to the packs: to one of them only, and one of six things, whatever      *)
(* handler does it.  The invariants about rows, ledger and payments follow *)
(* from it without the actions.                                            *)
(***************************************************************************)
EXTENDS AnalysisPacks, FiniteSetTheorems, TLAPS

-----------------------------------------------------------------------------
(***************************************************************************)
(* Sane: types, and what each process may rely on.                         *)
(***************************************************************************)
\* Every pack that exists has an owner and an offering; one that does not has
\* the values it started with.
PackOK ==
  /\ pack \in [Pack -> PackRow]
  /\ \A p \in Pack : IF pack[p].status = "absent" THEN pack[p] = Absent
                     ELSE pack[p].company # None /\ pack[p].offering # None

\* A request at work knows its company and offering, and the pack it found or
\* made is of both; it goes without a gateway only with a code.
Knows(r, rows) ==
  r.pc # "idle" =>
    /\ r.company # None /\ r.offering # None
    /\ r.amount = 0 => r.code # None
    /\ r.pc \in {"grant", "effects"} => r.amount = 0
    /\ r.pc = "checkout" => r.found # None
    /\ r.found # None => /\ rows[r.found].status # "absent"
                         /\ rows[r.found].company = r.company
                         /\ rows[r.found].offering = r.offering

BuyerOK == buyer \in [Buyer -> BuyerState] /\ \A b \in Buyer : Knows(buyer[b], pack)

VerdictOf(pc) == IF pc \in {"activate", "effects", "notify", "redeem"} THEN "accepted"
                 ELSE IF pc = "failed" THEN "rejected" ELSE "reversed"

\* A handler at work handles a confirmation that was posted, of the verdict
\* its branch is for, and goes to the codes only with a code.
Works(r, messages) ==
  r.pc # "idle" =>
    /\ [session |-> r.session, verdict |-> r.verdict] \in messages
    /\ r.verdict = VerdictOf(r.pc)
    /\ r.pc \in {"redeem", "release"} => r.code # None

HookOK == hook \in [Hook -> HookState] /\ \A h \in Hook : Works(hook[h], posted)

\* A session in use was opened for a pack that exists, and ePayco only posts
\* what happened to it.
SessionOK ==
  /\ session \in [Session -> SessionRow]
  /\ \A s \in Session : session[s].state # "unused" =>
       session[s].pack \in Pack /\ pack[session[s].pack].status # "absent"
  /\ posted \subseteq Confirmation
  /\ due \subseteq posted
  /\ \A m \in posted :
       /\ session[m.session].state # "unused"
       /\ m.verdict = "accepted" => session[m.session].state \in {"paid", "refunded"}
       /\ m.verdict = "reversed" => session[m.session].state = "refunded"

RestOK ==
  /\ ledger \subseteq [study : Study, pack : Pack]
  /\ alerts \subseteq Alert
  /\ onboarded \subseteq Company
  /\ contracted \subseteq Company
  /\ offered \subseteq Offering
  /\ price \in Price
  /\ {today, edits, faults, resends} \subseteq Nat

Sane == PackOK /\ BuyerOK /\ HookOK /\ SessionOK /\ RestOK

\* A step keeps owners if no pack disappears or changes hands.
KeepsOwners ==
  \A p \in Pack : pack[p].status # "absent" => /\ pack'[p].status # "absent"
                                               /\ pack'[p].company = pack[p].company
                                               /\ pack'[p].offering = pack[p].offering

LEMMA SaneTyped == ASSUME Sane PROVE TypeOK
  BY DEF Sane, PackOK, BuyerOK, HookOK, SessionOK, RestOK, TypeOK

LEMMA NoneApart ==
  ASSUME PackAssumption
  PROVE  /\ \A co \in Company : co # None
         /\ \A o \in Offering : o # None
         /\ \A c \in Code : c # None
         /\ \A p \in Pack : p # None
         /\ \A s \in Session : s # None
  BY DEF PackAssumption

LEMMA InitSane == ASSUME PackAssumption, Init PROVE Sane
  <1>1. PackOK
    BY DEF Init, PackOK, PackRow, Absent, Status, Codes
  <1>2. BuyerOK
    BY DEF Init, BuyerOK, Knows, BuyerState, BuyerPC, IdleBuyer, Codes
  <1>3. HookOK
    BY DEF Init, HookOK, Works, HookState, HookPC, IdleHook, Codes
  <1>4. SessionOK
    BY DEF Init, SessionOK, SessionRow
  <1>5. RestOK
    BY DEF Init, RestOK
  <1> QED  BY <1>1, <1>2, <1>3, <1>4, <1>5 DEF Sane

-----------------------------------------------------------------------------
(***************************************************************************)
(* What a change of one part asks of the others.                           *)
(***************************************************************************)
LEMMA BuyersStay ==
  ASSUME PackOK, BuyerOK, KeepsOwners, UNCHANGED buyer
  PROVE  BuyerOK'
  BY DEF BuyerOK, Knows, KeepsOwners, BuyerState

LEMMA BuyerChanges ==
  ASSUME BuyerOK, KeepsOwners,
         NEW b \in Buyer, NEW r \in BuyerState, Knows(r, pack'),
         buyer' = [buyer EXCEPT ![b] = r]
  PROVE  BuyerOK'
  BY DEF BuyerOK, Knows, KeepsOwners, BuyerState

LEMMA HooksStay ==
  ASSUME HookOK, posted \subseteq posted', UNCHANGED hook
  PROVE  HookOK'
  BY DEF HookOK, Works

LEMMA HookChanges ==
  ASSUME HookOK, posted \subseteq posted',
         NEW h \in Hook, NEW r \in HookState, Works(r, posted'),
         hook' = [hook EXCEPT ![h] = r]
  PROVE  HookOK'
  BY DEF HookOK, Works

LEMMA SessionsStay ==
  ASSUME SessionOK, KeepsOwners, UNCHANGED <<session, posted>>, due' \subseteq posted
  PROVE  SessionOK'
  BY DEF SessionOK, KeepsOwners

LEMMA PackChanges ==
  ASSUME PackOK, NEW p \in Pack, NEW row \in PackRow,
         row.status # "absent", row.company # None, row.offering # None,
         pack[p].status # "absent" => /\ row.company = pack[p].company
                                      /\ row.offering = pack[p].offering,
         pack' = [pack EXCEPT ![p] = row]
  PROVE  PackOK' /\ KeepsOwners
  BY DEF PackOK, KeepsOwners

LEMMA PacksStay == ASSUME PackOK, UNCHANGED pack PROVE PackOK' /\ KeepsOwners
  BY DEF PackOK, KeepsOwners

\* A step of a buyer that only moves the buyer.
LEMMA BuyerOnly ==
  ASSUME Sane, NEW b \in Buyer, NEW r \in BuyerState, Knows(r, pack),
         buyer' = [buyer EXCEPT ![b] = r],
         UNCHANGED <<pack, hook, session, posted, due>>, RestOK'
  PROVE  Sane' /\ KeepsOwners
  <1>1. Knows(r, pack')
    BY DEF Knows
  <1>2. PackOK' /\ KeepsOwners
    BY PacksStay DEF Sane
  <1>3. BuyerOK'
    BY <1>1, <1>2, BuyerChanges DEF Sane
  <1>4. HookOK'
    BY HooksStay DEF Sane
  <1>5. SessionOK'
    BY <1>2, SessionsStay DEF Sane, SessionOK
  <1> QED  BY <1>2, <1>3, <1>4, <1>5 DEF Sane

\* A step of a handler that moves it and, perhaps, answers.
LEMMA HookOnly ==
  ASSUME Sane, NEW h \in Hook, NEW r \in HookState, Works(r, posted),
         hook' = [hook EXCEPT ![h] = r],
         UNCHANGED <<pack, buyer, session, posted>>, due' \subseteq due, RestOK'
  PROVE  Sane' /\ KeepsOwners
  <1>1. Works(r, posted')
    BY DEF Works
  <1>2. PackOK' /\ KeepsOwners
    BY PacksStay DEF Sane
  <1>3. BuyerOK'
    BY <1>2, BuyersStay DEF Sane
  <1>4. HookOK'
    BY <1>1, HookChanges DEF Sane
  <1>5. SessionOK'
    BY <1>2, SessionsStay DEF Sane, SessionOK
  <1> QED  BY <1>2, <1>3, <1>4, <1>5 DEF Sane

\* A step of a buyer that writes a row and moves the buyer.
LEMMA BuyerWrites ==
  ASSUME Sane, NEW b \in Buyer, NEW r \in BuyerState, Knows(r, pack'),
         buyer' = [buyer EXCEPT ![b] = r],
         NEW p \in Pack, NEW row \in PackRow,
         row.status # "absent", row.company # None, row.offering # None,
         pack[p].status # "absent" => /\ row.company = pack[p].company
                                      /\ row.offering = pack[p].offering,
         pack' = [pack EXCEPT ![p] = row],
         UNCHANGED <<hook, session, posted, due>>, RestOK'
  PROVE  Sane' /\ KeepsOwners
  <1>1. PackOK' /\ KeepsOwners
    BY PackChanges DEF Sane
  <1>2. BuyerOK'
    BY <1>1, BuyerChanges DEF Sane
  <1>3. HookOK' /\ SessionOK'
    BY <1>1, HooksStay, SessionsStay DEF Sane, SessionOK
  <1> QED  BY <1>1, <1>2, <1>3 DEF Sane

LEMMA IdleBuyerFits == IdleBuyer \in BuyerState /\ Knows(IdleBuyer, pack)
  BY DEF IdleBuyer, BuyerState, BuyerPC, Codes, Knows

LEMMA IdleHookFits == IdleHook \in HookState /\ Works(IdleHook, posted)
  BY DEF IdleHook, HookState, HookPC, Codes, Works

-----------------------------------------------------------------------------
(***************************************************************************)
(* purchase() and purchaseFree(), action by action.                        *)
(***************************************************************************)
LEMMA StartPurchaseSane ==
  ASSUME PackAssumption, Sane, NEW b \in Buyer, NEW co \in Company, NEW o \in Offering,
         NEW c \in Codes, StartPurchase(b, co, o, c)
  PROVE  Sane' /\ KeepsOwners
  <1> DEFINE r == [pc |-> "find", company |-> co, offering |-> o, code |-> c,
                   amount |-> Quoted(o, c), endDate |-> today + ValidityDays[o], found |-> None]
  <1>1. /\ buyer' = [buyer EXCEPT ![b] = r]
        /\ UNCHANGED <<pack, hook, session, posted, due>>
        /\ UNCHANGED <<ledger, alerts, onboarded, contracted, offered, price,
                       today, edits, faults, resends>>
    BY DEF StartPurchase, adminVars, ePaycoVars, effectVars
  <1>2. Quoted(o, c) \in Nat /\ today + ValidityDays[o] \in Nat
    BY DEF Quoted, PackAssumption, Sane, RestOK
  <1>3. c = None => Quoted(o, c) # 0
    BY <1>2 DEF StartPurchase, PackAssumption
  <1>4. r \in BuyerState
    BY <1>2 DEF BuyerState, BuyerPC
  <1>5. Knows(r, pack)
    BY <1>3, NoneApart DEF Knows
  <1>6. RestOK'
    BY <1>1 DEF Sane, RestOK
  <1> HIDE DEF r
  <1> QED  BY <1>1, <1>4, <1>5, <1>6, BuyerOnly

LEMMA FindPendingSane ==
  ASSUME PackAssumption, Sane, NEW b \in Buyer, FindPending(b)
  PROVE  Sane' /\ KeepsOwners
  <1>1. PICK p \in PendingOf(buyer[b].company, buyer[b].offering) \cup {None} :
          buyer' = [buyer EXCEPT
                      ![b] = [@ EXCEPT !.pc = IF buyer[b].amount = 0 THEN "grant" ELSE "write",
                                       !.found = p]]
    BY DEF FindPending
  <1> DEFINE r == [buyer[b] EXCEPT !.pc = IF buyer[b].amount = 0 THEN "grant" ELSE "write",
                                   !.found = p]
  <1>2. /\ buyer' = [buyer EXCEPT ![b] = r]
        /\ UNCHANGED <<pack, hook, session, posted, due>>
        /\ UNCHANGED <<ledger, alerts, onboarded, contracted, offered, price,
                       today, edits, faults, resends>>
        /\ buyer[b].pc = "find" /\ buyer[b] \in BuyerState
    BY <1>1 DEF FindPending, adminVars, ePaycoVars, effectVars, Sane, BuyerOK
  <1>3. p \in Pack \cup {None}
    BY DEF PendingOf
  <1>4. r \in BuyerState
    BY <1>2, <1>3 DEF BuyerState, BuyerPC
  <1>5. Knows(r, pack)
    <2>1. Knows(buyer[b], pack)
      BY DEF Sane, BuyerOK
    <2> QED  BY <1>2, <2>1 DEF Knows, PendingOf, BuyerState
  <1>6. RestOK'
    BY <1>2 DEF Sane, RestOK
  <1> HIDE DEF r
  <1> QED  BY <1>2, <1>4, <1>5, <1>6, BuyerOnly

\* The row a purchase writes over a row.
LEMMA FrozenFits ==
  ASSUME PackAssumption, Sane, NEW b \in Buyer, buyer[b].pc # "idle", NEW row \in PackRow
  PROVE  /\ Frozen(b, row) \in PackRow
         /\ Frozen(b, row).status = row.status
         /\ Frozen(b, row).company = row.company
         /\ Frozen(b, row).offering = row.offering
         /\ Frozen(b, row).consumed = row.consumed
         /\ Frozen(b, row).payment = row.payment
         /\ Frozen(b, row).free = row.free
  <1>1. buyer[b] \in BuyerState
    BY DEF Sane, BuyerOK
  <1>2. buyer[b].endDate \in Nat /\ buyer[b].amount \in Nat /\ buyer[b].code \in Codes
    BY <1>1 DEF BuyerState
  <1> QED  BY <1>2 DEF Frozen, PackRow

LEMMA RefreshPendingSane ==
  ASSUME PackAssumption, Sane, NEW b \in Buyer, RefreshPending(b)
  PROVE  Sane' /\ KeepsOwners
  <1> DEFINE p == buyer[b].found
             row == Frozen(b, pack[p])
             r == [buyer[b] EXCEPT !.pc = "checkout"]
  <1>1. /\ pack' = [pack EXCEPT ![p] = row]
        /\ buyer' = [buyer EXCEPT ![b] = r]
        /\ UNCHANGED <<hook, session, posted, due>>
        /\ UNCHANGED <<ledger, alerts, onboarded, contracted, offered, price,
                       today, edits, faults, resends>>
        /\ buyer[b].pc = "write" /\ p # None
    BY DEF RefreshPending, adminVars, ePaycoVars, effectVars
  <1>2. buyer[b] \in BuyerState /\ Knows(buyer[b], pack)
    BY DEF Sane, BuyerOK
  <1>3. /\ p \in Pack /\ pack[p] \in PackRow /\ pack[p].status # "absent"
        /\ pack[p].company # None /\ pack[p].offering # None
    BY <1>1, <1>2 DEF BuyerState, Knows, Sane, PackOK
  <1>4. /\ row \in PackRow /\ row.status = pack[p].status
        /\ row.company = pack[p].company /\ row.offering = pack[p].offering
    BY <1>1, <1>3, FrozenFits
  <1>5. r \in BuyerState
    BY <1>2 DEF BuyerState, BuyerPC
  <1>6. Knows(r, pack')
    <2>1. /\ r.company = buyer[b].company /\ r.offering = buyer[b].offering
          /\ r.found = p /\ r.pc = "checkout" /\ r.amount = buyer[b].amount
          /\ r.code = buyer[b].code
      BY <1>2 DEF BuyerState
    <2>2. pack'[p] = row
      BY <1>1, <1>3 DEF Sane, PackOK
    <2> HIDE DEF row
    <2> QED  BY <1>1, <1>2, <1>3, <1>4, <2>1, <2>2 DEF Knows
  <1>7. RestOK'
    BY <1>1 DEF Sane, RestOK
  <1> HIDE DEF row, r, p
  <1> QED  BY <1>1, <1>3, <1>4, <1>5, <1>6, <1>7, BuyerWrites

LEMMA CreatePendingSane ==
  ASSUME PackAssumption, Sane, NEW b \in Buyer, CreatePending(b)
  PROVE  Sane' /\ KeepsOwners
  <1>1. PICK p \in Pack : /\ Fresh(p)
                          /\ pack' = [pack EXCEPT ![p] = NewRow(b)]
                          /\ buyer' = [buyer EXCEPT ![b] = [@ EXCEPT !.pc = "checkout", !.found = p]]
    BY DEF CreatePending
  <1> DEFINE row == NewRow(b)
             r == [buyer[b] EXCEPT !.pc = "checkout", !.found = p]
  <1>2. /\ pack' = [pack EXCEPT ![p] = row]
        /\ buyer' = [buyer EXCEPT ![b] = r]
        /\ UNCHANGED <<hook, session, posted, due>>
        /\ UNCHANGED <<ledger, alerts, onboarded, contracted, offered, price,
                       today, edits, faults, resends>>
        /\ buyer[b].pc = "write" /\ pack[p].status = "absent"
    BY <1>1 DEF CreatePending, Fresh, adminVars, ePaycoVars, effectVars, Sane, BuyerOK
  <1>3. /\ buyer[b] \in BuyerState /\ Knows(buyer[b], pack)
        /\ buyer[b].company \in Company /\ buyer[b].offering \in Offering
    BY <1>2 DEF Sane, BuyerOK, Knows, BuyerState
  <1>4. Absent \in PackRow
    BY DEF Absent, PackRow, Status, Codes
  <1>5. /\ row \in PackRow /\ row.status = "pending_payment"
        /\ row.company = buyer[b].company /\ row.offering = buyer[b].offering
    <2>1. Frozen(b, Absent) \in PackRow
      BY <1>2, <1>4, FrozenFits
    <2> QED  BY <1>3, <2>1 DEF NewRow, PackRow, Status
  <1>6. r \in BuyerState
    BY <1>3 DEF BuyerState, BuyerPC
  <1>7. Knows(r, pack')
    <2>1. pack'[p] = row
      BY <1>2 DEF Sane, PackOK
    <2>2. /\ r.company = buyer[b].company /\ r.offering = buyer[b].offering
          /\ r.found = p /\ r.pc = "checkout" /\ r.amount = buyer[b].amount
          /\ r.code = buyer[b].code
      BY <1>3 DEF BuyerState
    <2> HIDE DEF row, r
    <2> QED  BY <1>2, <1>3, <1>5, <2>1, <2>2, NoneApart DEF Knows
  <1>8. RestOK'
    BY <1>2 DEF Sane, RestOK
  <1> HIDE DEF row, r
  <1> QED  BY <1>2, <1>3, <1>5, <1>6, <1>7, <1>8, NoneApart, BuyerWrites

LEMMA OpenCheckoutSane ==
  ASSUME PackAssumption, Sane, NEW b \in Buyer, OpenCheckout(b)
  PROVE  Sane' /\ KeepsOwners
  <1>1. PICK s \in Session :
          /\ session[s].state = "unused"
          /\ session' = [session EXCEPT ![s] = [state |-> "open", pack |-> buyer[b].found,
                                                amount |-> buyer[b].amount]]
    BY DEF OpenCheckout
  <1>2. /\ buyer' = [buyer EXCEPT ![b] = IdleBuyer] /\ buyer[b].pc = "checkout"
        /\ UNCHANGED <<pack, hook, posted, due>>
        /\ UNCHANGED <<ledger, alerts, onboarded, contracted, offered, price,
                       today, edits, faults, resends>>
    BY DEF OpenCheckout, adminVars, effectVars
  <1>3. /\ buyer[b].found \in Pack /\ pack[buyer[b].found].status # "absent"
        /\ buyer[b].amount \in Nat
    BY <1>2 DEF Sane, BuyerOK, Knows, BuyerState
  <1>4. PackOK' /\ KeepsOwners
    BY <1>2, PacksStay DEF Sane
  <1>5. BuyerOK'
    <2>1. Knows(IdleBuyer, pack')
      BY DEF Knows, IdleBuyer
    <2> QED  BY <1>2, <1>4, <2>1, BuyerChanges, IdleBuyerFits DEF Sane
  <1>6. HookOK'
    BY <1>2, HooksStay DEF Sane
  <1>7. SessionOK'
    BY <1>1, <1>2, <1>3 DEF Sane, SessionOK, SessionRow, Confirmation
  <1>8. RestOK'
    BY <1>2 DEF Sane, RestOK
  <1> QED  BY <1>4, <1>5, <1>6, <1>7, <1>8 DEF Sane

LEMMA GrantFreeSane ==
  ASSUME PackAssumption, Sane, NEW b \in Buyer, GrantFree(b)
  PROVE  Sane' /\ KeepsOwners
  <1>1. PICK p \in Pack : /\ Granted(b, p)
                          /\ pack' = [pack EXCEPT ![p] = FreeRow(b, @)]
    BY DEF GrantFree
  <1> DEFINE row == FreeRow(b, pack[p])
             r == [buyer[b] EXCEPT !.pc = "effects"]
  <1>2. /\ pack' = [pack EXCEPT ![p] = row]
        /\ buyer' = [buyer EXCEPT ![b] = r]
        /\ UNCHANGED <<hook, session, posted, due>>
        /\ UNCHANGED <<ledger, alerts, onboarded, contracted, offered, price,
                       today, edits, faults, resends>>
        /\ buyer[b].pc = "grant"
    BY <1>1 DEF GrantFree, adminVars, ePaycoVars, effectVars
  <1>3. /\ buyer[b] \in BuyerState /\ Knows(buyer[b], pack)
        /\ buyer[b].company \in Company /\ buyer[b].offering \in Offering
        /\ pack[p] \in PackRow
    BY <1>2 DEF Sane, PackOK, BuyerOK, Knows, BuyerState
  <1>4. /\ row \in PackRow /\ row.status = "active"
        /\ row.company = buyer[b].company /\ row.offering = buyer[b].offering
    <2>1. Frozen(b, pack[p]) \in PackRow
      BY <1>2, <1>3, FrozenFits
    <2> QED  BY <1>3, <2>1 DEF FreeRow, PackRow, Status
  <1>5. pack[p].status # "absent" => /\ row.company = pack[p].company
                                     /\ row.offering = pack[p].offering
    BY <1>1, <1>2, <1>3, <1>4 DEF Granted, Fresh, Knows
  <1>6. r \in BuyerState
    BY <1>3 DEF BuyerState, BuyerPC
  <1>7. Knows(r, pack')
    <2>1. /\ r.company = buyer[b].company /\ r.offering = buyer[b].offering
          /\ r.found = buyer[b].found /\ r.pc = "effects" /\ r.amount = buyer[b].amount
          /\ r.code = buyer[b].code
      BY <1>3 DEF BuyerState
    <2>2. ASSUME buyer[b].found # None
          PROVE  /\ pack'[buyer[b].found].status # "absent"
                 /\ pack'[buyer[b].found].company = buyer[b].company
                 /\ pack'[buyer[b].found].offering = buyer[b].offering
      <3> HIDE DEF row
      <3> QED  BY <1>2, <1>3, <1>4, <2>2 DEF Knows, Sane, PackOK, BuyerState
    <2> HIDE DEF r
    <2> QED  BY <1>2, <1>3, <2>1, <2>2 DEF Knows
  <1>8. RestOK'
    BY <1>2 DEF Sane, RestOK
  <1> HIDE DEF row, r
  <1> QED  BY <1>2, <1>3, <1>4, <1>5, <1>6, <1>7, <1>8, NoneApart, BuyerWrites

\* The three ways a request ends: refused, delivered, dead.
LEMMA PurchaseEndsSane ==
  ASSUME PackAssumption, Sane, NEW b \in Buyer,
         RefuseFree(b) \/ FreeEffects(b) \/ AbandonPurchase(b)
  PROVE  Sane' /\ KeepsOwners
  <1>1. /\ buyer' = [buyer EXCEPT ![b] = IdleBuyer]
        /\ UNCHANGED <<pack, hook, session, posted, due>>
    BY DEF RefuseFree, FreeEffects, AbandonPurchase, ePaycoVars
  <1>2. /\ UNCHANGED <<ledger, alerts, offered, price, today, edits, resends>>
        /\ onboarded' \subseteq Company /\ contracted' \subseteq Company /\ faults' \in Nat
    <2>1. CASE RefuseFree(b)
      BY <2>1 DEF RefuseFree, adminVars, ePaycoVars, effectVars, Sane, RestOK
    <2>2. CASE AbandonPurchase(b)
      BY <2>2 DEF AbandonPurchase, adminVars, ePaycoVars, effectVars, Sane, RestOK
    <2>3. CASE FreeEffects(b)
      <3>1. buyer[b].company \in Company
        BY <2>3 DEF FreeEffects, Sane, BuyerOK, Knows, BuyerState
      <3> QED  BY <2>3, <3>1 DEF FreeEffects, OnboardAndContract, adminVars, ePaycoVars, Sane, RestOK
    <2> QED  BY <2>1, <2>2, <2>3
  <1>3. RestOK'
    BY <1>2 DEF Sane, RestOK
  <1> QED  BY <1>1, <1>3, IdleBuyerFits, BuyerOnly

-----------------------------------------------------------------------------
(***************************************************************************)
(* handleConfirmation, action by action.                                   *)
(***************************************************************************)
\* What a handler at work can rely on.
LEMMA Handling ==
  ASSUME PackAssumption, Sane, NEW h \in Hook, hook[h].pc # "idle"
  PROVE  /\ hook[h] \in HookState /\ hook[h].session \in Session
         /\ Handled(h) \in posted /\ Handled(h).session = hook[h].session
         /\ Paying(h) \in Pack /\ pack[Paying(h)] \in PackRow
         /\ pack[Paying(h)].status # "absent"
         /\ pack[Paying(h)].company \in Company /\ pack[Paying(h)].offering \in Offering
         /\ session[hook[h].session].state # "unused"
         /\ hook[h].verdict = VerdictOf(hook[h].pc)
  <1>1. hook[h] \in HookState /\ Works(hook[h], posted)
    BY DEF Sane, HookOK
  <1>2. /\ Handled(h) \in posted /\ Handled(h).session = hook[h].session
        /\ hook[h].verdict = VerdictOf(hook[h].pc)
    BY <1>1 DEF Works, Handled
  <1>3. hook[h].session \in Session
    BY <1>2 DEF Sane, SessionOK, Confirmation, Handled
  <1>4. session[hook[h].session].state # "unused"
    BY <1>2 DEF Sane, SessionOK
  <1>5. Paying(h) \in Pack /\ pack[Paying(h)].status # "absent"
    BY <1>3, <1>4 DEF Sane, SessionOK, Paying
  <1>6. /\ pack[Paying(h)] \in PackRow
        /\ pack[Paying(h)].company \in Company /\ pack[Paying(h)].offering \in Offering
    BY <1>5 DEF Sane, PackOK, PackRow
  <1> QED  BY <1>1, <1>2, <1>3, <1>4, <1>5, <1>6

\* Where a handler that goes on may go: to a step of the same branch.
LEMMA ContinueFits ==
  ASSUME PackAssumption, Sane, NEW h \in Hook, hook[h].pc # "idle", NEW pc \in HookPC \ {"idle"},
         VerdictOf(pc) = VerdictOf(hook[h].pc),
         pc \in {"redeem", "release"} => hook[h].code # None
  PROVE  /\ [hook[h] EXCEPT !.pc = pc] \in HookState
         /\ Works([hook[h] EXCEPT !.pc = pc], posted)
  <1>1. hook[h] \in HookState /\ Works(hook[h], posted)
    BY DEF Sane, HookOK
  <1> QED  BY <1>1 DEF HookState, Works

LEMMA ReceiveSane ==
  ASSUME PackAssumption, Sane, NEW h \in Hook, NEW m \in due, Receive(h, m)
  PROVE  Sane' /\ KeepsOwners
  <1> DEFINE row == pack[session[m.session].pack]
             r == [pc |-> FirstStep(m.verdict), session |-> m.session,
                   verdict |-> m.verdict, activated |-> FALSE,
                   code |-> row.code, consumed |-> row.consumed]
  <1>1. /\ hook' = [hook EXCEPT ![h] = r]
        /\ UNCHANGED <<pack, buyer, session, posted, due>>
        /\ UNCHANGED <<ledger, alerts, onboarded, contracted, offered, price,
                       today, edits, faults, resends>>
    BY DEF Receive, adminVars, ePaycoVars, effectVars
  <1>2. m \in posted /\ m \in Confirmation
    BY DEF Sane, SessionOK
  <1>3. row \in PackRow
    BY <1>2 DEF Sane, SessionOK, PackOK, Confirmation
  <1>4. m.verdict \in Verdict /\ m.session \in Session /\ m = [session |-> m.session, verdict |-> m.verdict]
    BY <1>2 DEF Confirmation
  <1>5. /\ FirstStep(m.verdict) \in {"activate", "failed", "revert"}
        /\ VerdictOf(FirstStep(m.verdict)) = m.verdict
    BY <1>4 DEF Verdict, FirstStep, VerdictOf
  <1>6. r \in HookState
    BY <1>3, <1>4, <1>5 DEF HookState, HookPC, PackRow
  <1>7. Works(r, posted)
    BY <1>2, <1>4, <1>5 DEF Works
  <1>8. RestOK'
    BY <1>1 DEF Sane, RestOK
  <1> HIDE DEF r
  <1> QED  BY <1>1, <1>6, <1>7, <1>8, HookOnly

LEMMA ReceiveDuplicateSane ==
  ASSUME Sane, NEW h \in Hook, NEW m \in due, ReceiveDuplicate(h, m)
  PROVE  Sane' /\ KeepsOwners
  <1>1. /\ UNCHANGED <<pack, buyer, hook, session, posted>> /\ due' \subseteq due
        /\ UNCHANGED <<ledger, alerts, onboarded, contracted, offered, price,
                       today, edits, faults, resends>>
    BY DEF ReceiveDuplicate, adminVars, effectVars
  <1>2. PackOK' /\ KeepsOwners
    BY <1>1, PacksStay DEF Sane
  <1>3. BuyerOK' /\ HookOK' /\ SessionOK' /\ RestOK'
    BY <1>1, <1>2, BuyersStay, HooksStay, SessionsStay DEF Sane, SessionOK, RestOK
  <1> QED  BY <1>2, <1>3 DEF Sane

\* Activate and Revert write the row of the pack and move the handler.
LEMMA HookWrites ==
  ASSUME PackAssumption, Sane, NEW h \in Hook, hook[h].pc # "idle",
         NEW r \in HookState, Works(r, posted), hook' = [hook EXCEPT ![h] = r],
         NEW row \in PackRow, row.status # "absent",
         row.company = pack[Paying(h)].company, row.offering = pack[Paying(h)].offering,
         pack' = [pack EXCEPT ![Paying(h)] = row],
         UNCHANGED <<buyer, session, posted, due>>, RestOK'
  PROVE  Sane' /\ KeepsOwners
  <1>1. PackOK' /\ KeepsOwners
    BY Handling, NoneApart, PackChanges DEF Sane
  <1>2. HookOK'
    BY HookChanges DEF Sane
  <1>3. BuyerOK' /\ SessionOK'
    BY <1>1, BuyersStay, SessionsStay DEF Sane, SessionOK
  <1> QED  BY <1>1, <1>2, <1>3 DEF Sane

LEMMA ActivateSane ==
  ASSUME PackAssumption, Sane, NEW h \in Hook, Activate(h)
  PROVE  Sane' /\ KeepsOwners
  <1> DEFINE claims == pack[Paying(h)].status = "pending_payment"
             r == [hook[h] EXCEPT !.pc = "effects", !.activated = claims]
             row == PaidRow(pack[Paying(h)], hook[h].session)
  <1>1. /\ hook' = [hook EXCEPT ![h] = r]
        /\ pack' = IF claims THEN [pack EXCEPT ![Paying(h)] = row] ELSE pack
        /\ UNCHANGED <<buyer, session, posted, due>>
        /\ UNCHANGED <<ledger, alerts, onboarded, contracted, offered, price,
                       today, edits, faults, resends>>
        /\ hook[h].pc = "activate"
    BY DEF Activate, adminVars, ePaycoVars, effectVars, Sane, HookOK
  <1>2. r \in HookState /\ Works(r, posted)
    <2>1. hook[h] \in HookState /\ Works(hook[h], posted) /\ claims \in BOOLEAN
      BY DEF Sane, HookOK
    <2> HIDE DEF claims
    <2> QED  BY <1>1, <2>1 DEF HookState, HookPC, Works, VerdictOf
  <1>3. /\ row \in PackRow /\ row.status = "active"
        /\ row.company = pack[Paying(h)].company /\ row.offering = pack[Paying(h)].offering
    BY <1>1, Handling DEF PaidRow, PackRow, Status
  <1>4. RestOK'
    BY <1>1 DEF Sane, RestOK
  <1> HIDE DEF r, row
  <1>5. CASE claims
    BY <1>1, <1>2, <1>3, <1>4, <1>5, HookWrites
  <1>6. CASE ~claims
    BY <1>1, <1>2, <1>4, <1>6, HookOnly
  <1> QED  BY <1>5, <1>6

LEMMA RevertSane ==
  ASSUME PackAssumption, Sane, NEW h \in Hook, Revert(h)
  PROVE  Sane' /\ KeepsOwners
  <1> DEFINE r == [hook[h] EXCEPT !.pc = "alert"]
             row == RevertedRow(pack[Paying(h)])
  <1>1. /\ hook' = [hook EXCEPT ![h] = r]
        /\ pack' = [pack EXCEPT ![Paying(h)] = row]
        /\ UNCHANGED <<buyer, session, posted, due>>
        /\ UNCHANGED <<ledger, alerts, onboarded, contracted, offered, price,
                       today, edits, faults, resends>>
        /\ hook[h].pc = "revert"
    BY DEF Revert, Continue, adminVars, effectVars
  <1>2. r \in HookState /\ Works(r, posted)
    BY <1>1, ContinueFits DEF HookPC, VerdictOf
  <1>3. /\ row \in PackRow /\ row.status = "pending_payment"
        /\ row.company = pack[Paying(h)].company /\ row.offering = pack[Paying(h)].offering
    BY <1>1, Handling DEF RevertedRow, PackRow, Status
  <1>4. RestOK'
    BY <1>1 DEF Sane, RestOK
  <1> HIDE DEF r, row
  <1> QED  BY <1>1, <1>2, <1>3, <1>4, HookWrites

\* The steps of a handler that leave the packs alone.
LEMMA OtherStepsSane ==
  ASSUME PackAssumption, Sane, NEW h \in Hook,
         \/ PaidEffects(h) \/ NotifyPaid(h) \/ RedeemCode(h) \/ ReportOversold(h)
         \/ RecordFailed(h) \/ AlertReversal(h) \/ ReleaseCode(h) \/ CrashHook(h)
  PROVE  Sane' /\ KeepsOwners
  <1>1. /\ hook[h].pc # "idle"
        /\ UNCHANGED <<pack, ledger, today, buyer, session, posted, resends>>
        /\ UNCHANGED adminVars
    BY DEF PaidEffects, NotifyPaid, RedeemCode, ReportOversold, RecordFailed, AlertReversal,
           ReleaseCode, CrashHook, ePaycoVars
  <1>2. PICK r \in HookState : /\ Works(r, posted)
                               /\ hook' = [hook EXCEPT ![h] = r]
                               /\ due' \subseteq due
    <2>1. CASE Answer(h) \/ CrashHook(h)
      BY <2>1, IdleHookFits DEF Answer, CrashHook, ePaycoVars
    <2>2. CASE hook[h].pc = "effects" /\ Continue(h, "notify")
      BY <2>2, ContinueFits DEF Continue, HookPC, VerdictOf
    <2>3. CASE hook[h].pc = "notify" /\ hook[h].code # None /\ Continue(h, "redeem")
      BY <2>3, ContinueFits DEF Continue, HookPC, VerdictOf
    <2>4. CASE hook[h].pc = "alert" /\ hook[h].code # None /\ Continue(h, "release")
      BY <2>4, ContinueFits DEF Continue, HookPC, VerdictOf
    <2> QED
      BY <2>1, <2>2, <2>3, <2>4 DEF PaidEffects, NotifyPaid, RedeemCode, ReportOversold,
         RecordFailed, AlertReversal, ReleaseCode
  <1>3. /\ alerts' \subseteq Alert /\ faults' \in Nat
        /\ onboarded' \subseteq Company /\ contracted' \subseteq Company
    <2>1. /\ alerts \subseteq Alert /\ faults \in Nat
          /\ onboarded \subseteq Company /\ contracted \subseteq Company
      BY DEF Sane, RestOK
    <2>2. CASE PaidEffects(h)
      BY <1>1, <2>1, <2>2, Handling DEF PaidEffects, OnboardAndContract
    <2>3. ASSUME NEW type \in AlertType, NEW severity \in {"info", "warning", "critical"},
                 Raise(type, severity, h)
          PROVE  alerts' \subseteq Alert /\ faults' \in Nat
      BY <1>1, <2>1, <2>3, Handling DEF Raise, Alert
    <2>4. CASE NotifyPaid(h) \/ RecordFailed(h) \/ AlertReversal(h)
      BY <2>1, <2>3, <2>4 DEF NotifyPaid, RecordFailed, AlertReversal, AlertType
    <2>5. CASE ReportOversold(h)
      BY <2>1, <2>3, <2>5 DEF ReportOversold, AlertType
    <2>6. CASE RedeemCode(h) \/ ReleaseCode(h) \/ CrashHook(h)
      BY <2>1, <2>6 DEF RedeemCode, ReleaseCode, CrashHook, effectVars
    <2> QED  BY <2>2, <2>4, <2>5, <2>6
  <1>4. RestOK'
    BY <1>1, <1>3 DEF Sane, RestOK, adminVars
  <1> QED  BY <1>1, <1>2, <1>4, HookOnly

-----------------------------------------------------------------------------
(***************************************************************************)
(* Studies, ePayco, the panel and the clock.                               *)
(***************************************************************************)
\* The row a study takes its credit from.
LEMMA ConsumableFits ==
  ASSUME PackAssumption, Sane, NEW co \in Company, NEW p \in Consumable(co)
  PROVE  /\ p \in Pack /\ pack[p] \in PackRow /\ pack[p].status = "active"
         /\ pack[p].offering \in Offering /\ pack[p].company # None
         /\ Purchased(pack[p]) \in Nat \ {0}
         /\ pack[p].consumed < Purchased(pack[p])
         /\ ConsumedRow(pack[p]) \in PackRow
         /\ ConsumedRow(pack[p]).status \in Usable
         /\ ConsumedRow(pack[p]).company = pack[p].company
         /\ ConsumedRow(pack[p]).offering = pack[p].offering
         /\ ConsumedRow(pack[p]).consumed = pack[p].consumed + 1
         /\ ConsumedRow(pack[p]).payment = pack[p].payment
         /\ ConsumedRow(pack[p]).free = pack[p].free
         /\ ConsumedRow(pack[p]).code = pack[p].code
         /\ ConsumedRow(pack[p]).status = "depleted" <=> pack[p].consumed + 1 >= Purchased(pack[p])
  <1>1. /\ p \in Pack /\ pack[p] \in PackRow /\ pack[p].status = "active"
        /\ pack[p].offering # None /\ pack[p].company # None
        /\ pack[p].consumed < Purchased(pack[p])
    BY DEF Consumable, Sane, PackOK
  <1>2. pack[p].offering \in Offering /\ pack[p].consumed \in Nat
    BY <1>1 DEF PackRow
  <1>3. Purchased(pack[p]) \in Nat \ {0}
    BY <1>1, <1>2 DEF Purchased, PackAssumption
  <1> DEFINE old == pack[p]
             full == pack[p].consumed + 1 >= Purchased(pack[p])
             new == [old EXCEPT !.consumed = pack[p].consumed + 1,
                                !.status = IF full THEN "depleted" ELSE "active"]
  <1>4. ConsumedRow(pack[p]) = new
    BY <1>1 DEF ConsumedRow, PackRow
  <1>5. /\ new \in PackRow /\ new.consumed = pack[p].consumed + 1
        /\ new.status = IF full THEN "depleted" ELSE "active"
        /\ new.company = pack[p].company /\ new.offering = pack[p].offering
        /\ new.payment = pack[p].payment /\ new.free = pack[p].free
        /\ new.code = pack[p].code
    <2>1. old \in PackRow /\ pack[p].consumed + 1 \in Nat
      BY <1>1, <1>2
    <2> HIDE DEF full
    <2> QED  BY <2>1 DEF PackRow, Status
  <1> HIDE DEF new
  <1> QED  BY <1>1, <1>2, <1>3, <1>4, <1>5 DEF Usable

LEMMA ConsumeSane ==
  ASSUME PackAssumption, Sane, NEW co \in Company, NEW st \in Study, Consume(co, st)
  PROVE  Sane' /\ KeepsOwners
  <1>1. PICK p \in Consumable(co) :
          /\ ledger' = ledger \cup {[study |-> st, pack |-> p]}
          /\ pack' = [pack EXCEPT ![p] = ConsumedRow(@)]
    BY DEF Consume
  <1> DEFINE row == ConsumedRow(pack[p])
  <1>2. /\ pack' = [pack EXCEPT ![p] = row]
        /\ UNCHANGED <<buyer, hook, session, posted, due>>
        /\ UNCHANGED <<alerts, onboarded, contracted, offered, price,
                       today, edits, faults, resends>>
    BY <1>1, ConsumableFits DEF Consume, adminVars, ePaycoVars, effectVars, Sane, PackOK
  <1>3. /\ p \in Pack /\ row \in PackRow /\ row.status # "absent"
        /\ row.company = pack[p].company /\ row.offering = pack[p].offering
        /\ pack[p].company # None /\ pack[p].offering # None
    BY ConsumableFits, NoneApart DEF Usable
  <1> HIDE DEF row
  <1>4. PackOK' /\ KeepsOwners
    BY <1>2, <1>3, PackChanges DEF Sane
  <1>5. BuyerOK' /\ HookOK' /\ SessionOK'
    BY <1>2, <1>4, BuyersStay, HooksStay, SessionsStay DEF Sane, SessionOK
  <1>6. RestOK'
    BY <1>1, <1>2, <1>3 DEF Sane, RestOK
  <1> QED  BY <1>4, <1>5, <1>6 DEF Sane

\* A card is charged, declined or refunded: the session keeps its pack.
LEMMA ChargedSane ==
  ASSUME Sane, NEW s \in Session, Approve(s) \/ Decline(s) \/ Refund(s)
  PROVE  /\ Sane' /\ KeepsOwners
         /\ \A q \in Session :
              /\ session'[q].pack = session[q].pack
              /\ session[q].state \in {"paid", "refunded"} =>
                   session'[q].state \in {"paid", "refunded"}
  <1>1. PICK from \in {"open", "paid"}, to \in {"open", "paid", "refunded"}, verdict \in Verdict :
          /\ Charged(s, from, to, verdict)
          /\ from = "paid" => to = "refunded"
          /\ verdict = "accepted" => to = "paid"
          /\ verdict = "reversed" => to = "refunded"
    BY DEF Approve, Decline, Refund, Verdict
  <1> DEFINE m == [session |-> s, verdict |-> verdict]
  <1>2. /\ session[s].state = from
        /\ session' = [session EXCEPT ![s].state = to]
        /\ posted' = posted \cup {m} /\ due' = due \cup {m}
        /\ UNCHANGED <<pack, buyer, hook>>
        /\ UNCHANGED <<ledger, alerts, onboarded, contracted, offered, price,
                       today, edits, faults, resends>>
    BY <1>1 DEF Charged, adminVars, effectVars
  <1>3. PackOK' /\ KeepsOwners
    BY <1>2, PacksStay DEF Sane
  <1>4. BuyerOK' /\ HookOK' /\ RestOK'
    BY <1>2, <1>3, BuyersStay, HooksStay DEF Sane, RestOK
  <1>5. session \in [Session -> SessionRow]
    BY DEF Sane, SessionOK
  <1>6. /\ session' \in [Session -> SessionRow]
        /\ \A q \in Session :
             /\ session'[q].pack = session[q].pack
             /\ session'[q].state = IF q = s THEN to ELSE session[q].state
    BY <1>2, <1>5 DEF SessionRow
  <1>7. posted' \subseteq Confirmation /\ due' \subseteq posted'
    BY <1>2 DEF Sane, SessionOK, Confirmation
  <1>8. \A q \in Session : session'[q].state # "unused" =>
          session'[q].pack \in Pack /\ pack'[session'[q].pack].status # "absent"
    BY <1>2, <1>6 DEF Sane, SessionOK
  <1>9. \A n \in posted' :
          /\ session'[n.session].state # "unused"
          /\ n.verdict = "accepted" => session'[n.session].state \in {"paid", "refunded"}
          /\ n.verdict = "reversed" => session'[n.session].state = "refunded"
    <2> SUFFICES ASSUME NEW n \in posted'
                 PROVE  /\ session'[n.session].state # "unused"
                        /\ n.verdict = "accepted" => session'[n.session].state \in {"paid", "refunded"}
                        /\ n.verdict = "reversed" => session'[n.session].state = "refunded"
      OBVIOUS
    <2>1. CASE n = m
      BY <1>1, <1>6, <2>1
    <2>2. CASE n \in posted
      <3>1. /\ n.session \in Session
            /\ session[n.session].state # "unused"
            /\ n.verdict = "accepted" => session[n.session].state \in {"paid", "refunded"}
            /\ n.verdict = "reversed" => session[n.session].state = "refunded"
        BY <2>2 DEF Sane, SessionOK, Confirmation
      <3> QED  BY <1>1, <1>2, <1>6, <3>1
    <2> QED  BY <1>2, <2>1, <2>2
  <1>10. SessionOK'
    BY <1>6, <1>7, <1>8, <1>9 DEF SessionOK
  <1>11. \A q \in Session : session[q].state \in {"paid", "refunded"} =>
           session'[q].state \in {"paid", "refunded"}
    BY <1>1, <1>2, <1>6
  <1> QED  BY <1>3, <1>4, <1>6, <1>10, <1>11 DEF Sane

\* What the environment does beside charging cards.
LEMMA EnvironmentSane ==
  ASSUME Sane, (\E m \in posted : Resend(m)) \/ Administer \/ NewDay \/ UNCHANGED vars
  PROVE  Sane' /\ KeepsOwners
  <1>1. /\ UNCHANGED <<pack, buyer, hook, session, posted>> /\ due' \subseteq posted
        /\ UNCHANGED <<ledger, alerts, onboarded, contracted, faults>>
    <2>1. CASE \E m \in posted : Resend(m)
      BY <2>1 DEF Resend, adminVars, effectVars, Sane, SessionOK
    <2>2. CASE Administer
      BY <2>2 DEF Administer, ePaycoVars, effectVars, Sane, SessionOK
    <2>3. CASE NewDay
      BY <2>3 DEF NewDay, ePaycoVars, effectVars, Sane, SessionOK
    <2>4. CASE UNCHANGED vars
      BY <2>4 DEF vars, ePaycoVars, effectVars, Sane, SessionOK
    <2> QED  BY <2>1, <2>2, <2>3, <2>4
  <1>2. offered' \subseteq Offering /\ price' \in Price /\ {today', edits', resends'} \subseteq Nat
    <2>1. offered \subseteq Offering /\ price \in Price /\ {today, edits, resends} \subseteq Nat
      BY DEF Sane, RestOK
    <2>2. CASE \E m \in posted : Resend(m)
      BY <2>1, <2>2 DEF Resend, adminVars
    <2>3. CASE Administer
      <3>1. offered' \subseteq Offering /\ price' \in Price
        BY <2>1, <2>3 DEF Administer, ChangeOffer, ChangeCodes
      <3> QED  BY <2>1, <2>3, <3>1 DEF Administer, ePaycoVars
    <2>4. CASE NewDay
      BY <2>1, <2>4 DEF NewDay, adminVars, ePaycoVars
    <2>5. CASE UNCHANGED vars
      BY <2>1, <2>5 DEF vars, adminVars, ePaycoVars
    <2> QED  BY <2>2, <2>3, <2>4, <2>5
  <1>3. PackOK' /\ KeepsOwners
    BY <1>1, PacksStay DEF Sane
  <1>4. BuyerOK' /\ HookOK' /\ SessionOK' /\ RestOK'
    BY <1>1, <1>2, <1>3, BuyersStay, HooksStay, SessionsStay DEF Sane, RestOK
  <1> QED  BY <1>3, <1>4 DEF Sane

-----------------------------------------------------------------------------
LEMMA NextSane == ASSUME PackAssumption, Sane, [Next]_vars PROVE Sane' /\ KeepsOwners
  <1>1. CASE \E b \in Buyer, co \in Company, o \in Offering, c \in Codes : StartPurchase(b, co, o, c)
    BY <1>1, StartPurchaseSane
  <1>2. CASE \E b \in Buyer : BuyerStep(b) \/ AbandonPurchase(b)
    BY <1>2, FindPendingSane, RefreshPendingSane, CreatePendingSane, OpenCheckoutSane,
       GrantFreeSane, PurchaseEndsSane DEF BuyerStep
  <1>3. CASE \E h \in Hook : HookReceives(h) \/ HookStep(h) \/ CrashHook(h)
    BY <1>3, ReceiveSane, ReceiveDuplicateSane, ActivateSane, RevertSane, OtherStepsSane
       DEF HookReceives, HookStep
  <1>4. CASE \E co \in Company, st \in Study : Consume(co, st)
    BY <1>4, ConsumeSane
  <1>5. CASE \E s \in Session : Approve(s) \/ Decline(s) \/ Refund(s)
    BY <1>5, ChargedSane
  <1>6. CASE (\E m \in posted : Resend(m)) \/ Administer \/ NewDay \/ UNCHANGED vars
    BY <1>6, EnvironmentSane
  <1> QED  BY <1>1, <1>2, <1>3, <1>4, <1>5, <1>6 DEF Next

\* Every row, message and local has a value declared for it, in every state the
\* purchases, webhooks, studies and administrators can lead to.
THEOREM TypeCorrect == Spec => []TypeOK
  <1>1. Init => Sane
    BY PackAssumption, InitSane
  <1>2. Sane /\ [Next]_vars => Sane'
    BY PackAssumption, NextSane
  <1>3. Sane => TypeOK
    BY SaneTyped
  <1> QED  BY <1>1, <1>2, <1>3, PTL DEF Spec

-----------------------------------------------------------------------------
(***************************************************************************)
(* The six things that happen to a pack, as relations of its row before    *)
(* and after.                                                              *)
(***************************************************************************)
Refreshes(old, new) ==
  /\ new.status = old.status
  /\ new.consumed = old.consumed
  /\ new.payment = old.payment
  /\ new.free = old.free

Creates(old, new) ==
  /\ old.status = "absent"
  /\ new.status = "pending_payment"
  /\ new.consumed = 0
  /\ new.payment = None
  /\ ~new.free

Gives(old, new) ==
  /\ old.status \in {"absent", "pending_payment"}
  /\ new.status = "active"
  /\ new.consumed = old.consumed
  /\ new.payment = None
  /\ new.free

\* With a payment that was collected for pack p.
Pays(p, old, new) ==
  /\ old.status = "pending_payment"
  /\ new.status = "active"
  /\ new.consumed = old.consumed
  /\ new.free = old.free
  /\ new.payment \in Session
  /\ session[new.payment].pack = p
  /\ session[new.payment].state \in {"paid", "refunded"}

Suspends(old, new) ==
  /\ old.status # "absent"
  /\ new.status = "pending_payment"
  /\ new.consumed = old.consumed
  /\ new.free = old.free
  /\ new.payment = None

Spends(old, new) ==
  /\ old.status = "active"
  /\ old.consumed < Purchased(old)
  /\ new.status \in Usable
  /\ new.status = "depleted" => new.consumed >= Purchased(old)
  /\ new.consumed = old.consumed + 1
  /\ new.payment = old.payment
  /\ new.free = old.free

Moves(p, old, new) ==
  \/ Refreshes(old, new) \/ Creates(old, new) \/ Gives(old, new)
  \/ Pays(p, old, new) \/ Suspends(old, new)

\* A step touches one pack at most, and the ledger only with it.
Moved(p) ==
  /\ \A q \in Pack \ {p} : pack'[q] = pack[q]
  /\ Moves(p, pack[p], pack'[p])
  /\ UNCHANGED ledger

Spent(p) ==
  /\ \A q \in Pack \ {p} : pack'[q] = pack[q]
  /\ Spends(pack[p], pack'[p])
  /\ \E st \in Study : /\ \A l \in ledger : l.study # st
                       /\ ledger' = ledger \cup {[study |-> st, pack |-> p]}

LEMMA BuyerMoves ==
  ASSUME PackAssumption, Sane, NEW b \in Buyer,
         RefreshPending(b) \/ CreatePending(b) \/ GrantFree(b)
  PROVE  \E p \in Pack : Moved(p)
  <1>1. pack \in [Pack -> PackRow]
    BY DEF Sane, PackOK
  <1>2. CASE RefreshPending(b)
    <2> DEFINE p == buyer[b].found
               row == Frozen(b, pack[p])
    <2>1. /\ pack' = [pack EXCEPT ![p] = row] /\ UNCHANGED ledger
          /\ buyer[b].pc # "idle" /\ p \in Pack
      <3>1. buyer[b] \in BuyerState
        BY DEF Sane, BuyerOK
      <3>2. p \in Pack
        BY <1>2, <3>1 DEF RefreshPending, BuyerState
      <3> QED  BY <1>2, <3>2 DEF RefreshPending
    <2>2. Refreshes(pack[p], row)
      <3>1. pack[p] \in PackRow
        BY <1>1, <2>1
      <3>2. /\ row.status = pack[p].status /\ row.consumed = pack[p].consumed
            /\ row.payment = pack[p].payment /\ row.free = pack[p].free
        BY <2>1, <3>1, FrozenFits
      <3> HIDE DEF row
      <3> QED  BY <3>2 DEF Refreshes
    <2> HIDE DEF p, row
    <2>3. pack'[p] = row /\ \A q \in Pack \ {p} : pack'[q] = pack[q]
      BY <1>1, <2>1
    <2> QED  BY <2>1, <2>2, <2>3 DEF Moved, Moves
  <1>3. CASE CreatePending(b)
    <2>1. PICK p \in Pack : Fresh(p) /\ pack' = [pack EXCEPT ![p] = NewRow(b)]
      BY <1>3 DEF CreatePending
    <2> DEFINE row == NewRow(b)
    <2>2. UNCHANGED ledger /\ pack[p].status = "absent" /\ buyer[b].pc # "idle"
      BY <1>3, <2>1 DEF CreatePending, Fresh
    <2>3. Absent \in PackRow
      BY DEF Absent, PackRow, Status, Codes
    <2>4. /\ Frozen(b, Absent) \in PackRow /\ Frozen(b, Absent).consumed = 0
          /\ Frozen(b, Absent).payment = None /\ Frozen(b, Absent).free = FALSE
      BY <2>2, <2>3, FrozenFits DEF Absent
    <2>5. Creates(pack[p], row)
      BY <2>2, <2>4 DEF Creates, NewRow, PackRow
    <2> HIDE DEF row
    <2>6. pack' = [pack EXCEPT ![p] = row]
      BY <2>1 DEF row
    <2>7. pack'[p] = row /\ \A q \in Pack \ {p} : pack'[q] = pack[q]
      BY <1>1, <2>6
    <2> QED  BY <2>2, <2>5, <2>7 DEF Moved, Moves
  <1>4. CASE GrantFree(b)
    <2>1. PICK p \in Pack : Granted(b, p) /\ pack' = [pack EXCEPT ![p] = FreeRow(b, @)]
      BY <1>4 DEF GrantFree
    <2> DEFINE row == FreeRow(b, pack[p])
    <2>2. /\ UNCHANGED ledger /\ buyer[b].pc # "idle"
          /\ pack[p].status \in {"absent", "pending_payment"}
      BY <1>4, <2>1 DEF GrantFree, Granted, Fresh
    <2>3. /\ Frozen(b, pack[p]) \in PackRow
          /\ Frozen(b, pack[p]).consumed = pack[p].consumed
      BY <1>1, <2>2, FrozenFits
    <2>4. Gives(pack[p], row)
      BY <2>2, <2>3 DEF Gives, FreeRow, PackRow
    <2>5. pack' = [pack EXCEPT ![p] = row]
      BY <1>1, <2>1
    <2> HIDE DEF row
    <2>6. pack'[p] = row /\ \A q \in Pack \ {p} : pack'[q] = pack[q]
      BY <1>1, <2>5
    <2> QED  BY <2>2, <2>4, <2>6 DEF Moved, Moves
  <1> QED  BY <1>2, <1>3, <1>4

LEMMA HookMoves ==
  ASSUME PackAssumption, Sane, NEW h \in Hook, Activate(h) \/ Revert(h)
  PROVE  UNCHANGED <<pack, ledger>> \/ \E p \in Pack : Moved(p)
  <1> DEFINE p == Paying(h)
  <1>1. /\ pack \in [Pack -> PackRow] /\ p \in Pack /\ UNCHANGED ledger
        /\ hook[h].pc \in {"activate", "revert"}
        /\ hook[h].session \in Session /\ pack[p].status # "absent"
        /\ pack[p] \in PackRow
    BY Handling DEF Activate, Revert, Sane, PackOK
  <1>2. CASE Activate(h)
    <2> DEFINE row == PaidRow(pack[p], hook[h].session)
    <2>1. CASE pack[p].status # "pending_payment"
      BY <1>1, <1>2, <2>1 DEF Activate
    <2>2. CASE pack[p].status = "pending_payment"
      <3>1. pack' = [pack EXCEPT ![p] = row]
        BY <1>1, <1>2, <2>2 DEF Activate
      <3>2. session[hook[h].session].state \in {"paid", "refunded"}
        BY <1>1, <1>2, Handling DEF Activate, VerdictOf, Handled, Sane, SessionOK
      <3>3. Pays(p, pack[p], row)
        BY <1>1, <2>2, <3>2 DEF Pays, PaidRow, PackRow, Paying
      <3> HIDE DEF row, p
      <3>4. pack'[p] = row /\ \A q \in Pack \ {p} : pack'[q] = pack[q]
        BY <1>1, <3>1
      <3> QED  BY <1>1, <3>3, <3>4 DEF Moved, Moves
    <2> QED  BY <2>1, <2>2
  <1>3. CASE Revert(h)
    <2> DEFINE row == RevertedRow(pack[p])
    <2>1. pack' = [pack EXCEPT ![p] = row]
      BY <1>1, <1>3 DEF Revert
    <2>2. Suspends(pack[p], row)
      BY <1>1 DEF Suspends, RevertedRow, PackRow
    <2> HIDE DEF row, p
    <2>3. pack'[p] = row /\ \A q \in Pack \ {p} : pack'[q] = pack[q]
      BY <1>1, <2>1
    <2> QED  BY <1>1, <2>2, <2>3 DEF Moved, Moves
  <1> QED  BY <1>2, <1>3

LEMMA ConsumeSpends ==
  ASSUME PackAssumption, Sane, NEW co \in Company, NEW st \in Study, Consume(co, st)
  PROVE  \E p \in Pack : Spent(p)
  <1>1. PICK p \in Consumable(co) :
          /\ ledger' = ledger \cup {[study |-> st, pack |-> p]}
          /\ pack' = [pack EXCEPT ![p] = ConsumedRow(@)]
    BY DEF Consume
  <1> DEFINE row == ConsumedRow(pack[p])
  <1>2. p \in Pack /\ pack \in [Pack -> PackRow] /\ \A l \in ledger : l.study # st
    BY ConsumableFits DEF Consume, Sane, PackOK
  <1>3. Spends(pack[p], row)
    BY ConsumableFits DEF Spends
  <1>4. pack' = [pack EXCEPT ![p] = row]
    BY <1>1, <1>2
  <1> HIDE DEF row
  <1>5. pack'[p] = row /\ \A q \in Pack \ {p} : pack'[q] = pack[q]
    BY <1>2, <1>4
  <1> QED  BY <1>1, <1>2, <1>3, <1>5 DEF Spent

\* Which actions leave packs and ledger alone.
LEMMA StepOfPacks ==
  ASSUME PackAssumption, Sane, [Next]_vars
  PROVE  \/ UNCHANGED <<pack, ledger>>
         \/ \E p \in Pack : Moved(p) \/ Spent(p)
  <1>1. CASE \E b \in Buyer, co \in Company, o \in Offering, c \in Codes : StartPurchase(b, co, o, c)
    BY <1>1 DEF StartPurchase
  <1>2. ASSUME NEW b \in Buyer, BuyerStep(b) \/ AbandonPurchase(b)
        PROVE  UNCHANGED <<pack, ledger>> \/ \E p \in Pack : Moved(p)
    <2>1. CASE RefreshPending(b) \/ CreatePending(b) \/ GrantFree(b)
      BY <2>1, BuyerMoves
    <2>2. CASE \/ FindPending(b) \/ OpenCheckout(b) \/ RefuseFree(b)
               \/ FreeEffects(b) \/ AbandonPurchase(b)
      BY <2>2 DEF FindPending, OpenCheckout, RefuseFree, FreeEffects, AbandonPurchase
    <2> QED  BY <1>2, <2>1, <2>2 DEF BuyerStep
  <1>3. ASSUME NEW h \in Hook, HookReceives(h) \/ HookStep(h) \/ CrashHook(h)
        PROVE  UNCHANGED <<pack, ledger>> \/ \E p \in Pack : Moved(p)
    <2>1. CASE Activate(h) \/ Revert(h)
      BY <2>1, HookMoves
    <2>2. CASE HookReceives(h) \/ CrashHook(h)
      BY <2>2 DEF HookReceives, Receive, ReceiveDuplicate, CrashHook
    <2>3. CASE \/ PaidEffects(h) \/ NotifyPaid(h) \/ RedeemCode(h) \/ ReportOversold(h)
               \/ RecordFailed(h) \/ AlertReversal(h) \/ ReleaseCode(h)
      BY <2>3 DEF PaidEffects, NotifyPaid, RedeemCode, ReportOversold, RecordFailed,
         AlertReversal, ReleaseCode
    <2> QED  BY <1>3, <2>1, <2>2, <2>3 DEF HookStep
  <1>4. CASE \E co \in Company, st \in Study : Consume(co, st)
    BY <1>4, ConsumeSpends
  <1>5. CASE \/ \E s \in Session : Approve(s) \/ Decline(s) \/ Refund(s)
             \/ \E m \in posted : Resend(m)
             \/ Administer \/ NewDay \/ UNCHANGED vars
    BY <1>5 DEF Approve, Decline, Refund, Charged, Resend, Administer, NewDay, vars
  <1> QED  BY <1>1, <1>2, <1>3, <1>4, <1>5 DEF Next

\* A session in use stays with its pack, and one that was paid stays paid.
LEMMA SessionsKept ==
  ASSUME PackAssumption, Sane, [Next]_vars
  PROVE  \A s \in Session :
           /\ session[s].state # "unused" => session'[s].pack = session[s].pack
           /\ session[s].state \in {"paid", "refunded"} => session'[s].state \in {"paid", "refunded"}
  <1>1. CASE \E b \in Buyer : OpenCheckout(b)
    BY <1>1 DEF OpenCheckout, Sane, SessionOK
  <1>2. CASE \E s \in Session : Approve(s) \/ Decline(s) \/ Refund(s)
    BY <1>2, ChargedSane
  <1>3. CASE UNCHANGED session
    BY <1>3
  <1>4. CASE \E b \in Buyer, co \in Company, o \in Offering, c \in Codes : StartPurchase(b, co, o, c)
    BY <1>3, <1>4 DEF StartPurchase, ePaycoVars
  <1>5. CASE \E b \in Buyer : BuyerStep(b) \/ AbandonPurchase(b)
    <2>1. (\E b \in Buyer : OpenCheckout(b)) \/ UNCHANGED session
      BY <1>5 DEF BuyerStep, FindPending, RefreshPending, CreatePending, GrantFree, RefuseFree,
         FreeEffects, AbandonPurchase, ePaycoVars
    <2> QED  BY <1>1, <1>3, <2>1
  <1>6. CASE \E h \in Hook : HookReceives(h) \/ HookStep(h) \/ CrashHook(h)
    <2>1. UNCHANGED session
      BY <1>6 DEF HookReceives, Receive, ReceiveDuplicate, CrashHook, HookStep, Activate,
         PaidEffects, NotifyPaid, RedeemCode, ReportOversold, RecordFailed, Revert,
         AlertReversal, ReleaseCode, ePaycoVars
    <2> QED  BY <1>3, <2>1
  <1>7. CASE \/ \E co \in Company, st \in Study : Consume(co, st)
             \/ \E m \in posted : Resend(m)
             \/ Administer \/ NewDay \/ UNCHANGED vars
    <2>1. UNCHANGED session
      BY <1>7 DEF Consume, Resend, Administer, NewDay, vars, ePaycoVars
    <2> QED  BY <1>3, <2>1
  <1> QED  BY <1>2, <1>4, <1>5, <1>6, <1>7 DEF Next

-----------------------------------------------------------------------------
(***************************************************************************)
(* Ledger and counter.                                                     *)
(***************************************************************************)
LedgerInv == Sane /\ IsFiniteSet(ledger) /\ LedgerMatches

\* The rows of a pack in the ledger.
Rows(p) == {l \in ledger : l.pack = p}

LEMMA LedgerStep ==
  ASSUME PackAssumption, LedgerInv, [Next]_vars
  PROVE  LedgerInv'
  <1>1. Sane /\ Sane' /\ IsFiniteSet(ledger) /\ LedgerMatches
    BY NextSane DEF LedgerInv
  <1>2. ASSUME UNCHANGED ledger, \A p \in Pack : pack'[p].consumed = pack[p].consumed
        PROVE  LedgerInv'
    BY <1>1, <1>2 DEF LedgerInv, LedgerMatches
  <1>3. CASE UNCHANGED <<pack, ledger>>
    BY <1>2, <1>3
  <1>4. CASE \E p \in Pack : Moved(p)
    <2>1. PICK p \in Pack : Moved(p)
      BY <1>4
    <2>2. pack'[p].consumed = pack[p].consumed
      BY <1>1, <2>1 DEF Moved, Moves, Refreshes, Creates, Gives, Pays, Suspends, Sane, PackOK, Absent
    <2> QED  BY <1>2, <2>1, <2>2 DEF Moved
  <1>5. CASE \E p \in Pack : Spent(p)
    <2>1. PICK p \in Pack, st \in Study :
            /\ \A q \in Pack \ {p} : pack'[q] = pack[q]
            /\ Spends(pack[p], pack'[p])
            /\ \A l \in ledger : l.study # st
            /\ ledger' = ledger \cup {[study |-> st, pack |-> p]}
      BY <1>5 DEF Spent
    <2> DEFINE new == [study |-> st, pack |-> p]
    <2>2. new \notin ledger /\ new.pack = p /\ new.study = st /\ ledger' = ledger \cup {new}
      BY <2>1
    <2> HIDE DEF new
    <2>3. IsFiniteSet(ledger')
      BY <1>1, <2>2, FS_AddElement
    <2>4. \A k, l \in ledger' : k.study = l.study => k = l
      BY <1>1, <2>1, <2>2 DEF LedgerMatches
    <2>5. ASSUME NEW q \in Pack PROVE pack'[q].consumed = Cardinality({l \in ledger' : l.pack = q})
      <3>1. pack[q].consumed = Cardinality(Rows(q)) /\ IsFiniteSet(Rows(q))
        BY <1>1, FS_Subset DEF LedgerMatches, Rows
      <3>2. CASE q = p
        <4>1. {l \in ledger' : l.pack = q} = Rows(p) \cup {new} /\ new \notin Rows(p)
          BY <2>2, <3>2 DEF Rows
        <4>2. Cardinality(Rows(p) \cup {new}) = Cardinality(Rows(p)) + 1
          BY <3>1, <3>2, <4>1, FS_AddElement
        <4> QED  BY <2>1, <3>1, <3>2, <4>1, <4>2 DEF Spends
      <3>3. CASE q # p
        <4>1. {l \in ledger' : l.pack = q} = Rows(q)
          BY <2>2, <3>3 DEF Rows
        <4> QED  BY <2>1, <3>1, <3>3, <4>1
      <3> QED  BY <3>2, <3>3
    <2> QED  BY <1>1, <2>3, <2>4, <2>5 DEF LedgerInv, LedgerMatches
  <1> QED  BY <1>1, <1>3, <1>4, <1>5, StepOfPacks

\* The counter of every pack is the number of studies its ledger names, and no
\* study costs two credits.
THEOREM LedgerCorrect == Spec => []LedgerMatches
  <1>1. Init => LedgerInv
    <2> SUFFICES ASSUME Init PROVE LedgerInv
      OBVIOUS
    <2>1. ledger = {} /\ \A p \in Pack : {l \in ledger : l.pack = p} = {} /\ pack[p].consumed = 0
      BY DEF Init, Absent
    <2> QED  BY <2>1, PackAssumption, InitSane, FS_EmptySet DEF LedgerInv, LedgerMatches
  <1>2. LedgerInv /\ [Next]_vars => LedgerInv'
    BY PackAssumption, LedgerStep
  <1>3. LedgerInv => LedgerMatches
    BY DEF LedgerInv
  <1> QED  BY <1>1, <1>2, <1>3, PTL DEF Spec

-----------------------------------------------------------------------------
(***************************************************************************)
(* What was bought, what was paid and what was used.                       *)
(***************************************************************************)
LEMMA PurchasedStays ==
  ASSUME KeepsOwners, NEW p \in Pack, pack[p].status # "absent"
  PROVE  Purchased(pack'[p]) = Purchased(pack[p])
  BY DEF KeepsOwners, Purchased

LEMMA QuantityStep ==
  ASSUME PackAssumption, Sane, WithinQuantity, [Next]_vars
  PROVE  WithinQuantity'
  <1>1. Sane' /\ KeepsOwners
    BY NextSane
  <1>2. \A p \in Pack : pack'[p] = pack[p] \/ Moves(p, pack[p], pack'[p]) \/ Spends(pack[p], pack'[p])
    BY StepOfPacks DEF Moved, Spent
  <1> SUFFICES ASSUME NEW p \in Pack
               PROVE  /\ pack'[p].consumed <= Purchased(pack'[p])
                      /\ pack'[p].status = "depleted" => pack'[p].consumed = Purchased(pack'[p])
    BY DEF WithinQuantity
  <1>3. /\ pack[p] \in PackRow /\ pack'[p] \in PackRow
        /\ pack[p].status = "absent" => pack[p].consumed = 0
        /\ pack[p].consumed <= Purchased(pack[p])
        /\ pack[p].status = "depleted" => pack[p].consumed = Purchased(pack[p])
    BY <1>1 DEF Sane, PackOK, Absent, WithinQuantity
  <1>4. pack[p].consumed \in Nat /\ Purchased(pack[p]) \in Nat /\ Purchased(pack'[p]) \in Nat
    BY <1>3 DEF PackRow, Purchased, PackAssumption
  <1>5. pack[p].status # "absent" => Purchased(pack'[p]) = Purchased(pack[p])
    BY <1>1, PurchasedStays
  <1>6. CASE pack'[p] = pack[p]
    BY <1>3, <1>6
  <1>7. CASE Moves(p, pack[p], pack'[p])
    BY <1>3, <1>4, <1>5, <1>7 DEF Moves, Refreshes, Creates, Gives, Pays, Suspends
  <1>8. CASE Spends(pack[p], pack'[p])
    BY <1>3, <1>4, <1>5, <1>8 DEF Spends
  <1> QED  BY <1>2, <1>6, <1>7, <1>8

\* No pack gives more credits than were bought, however often it is refreshed,
\* reversed and paid again.
THEOREM QuantityCorrect == Spec => []WithinQuantity
  <1>1. Init => Sane /\ WithinQuantity
    <2> SUFFICES ASSUME Init PROVE Sane /\ WithinQuantity
      OBVIOUS
    <2> QED  BY PackAssumption, InitSane DEF Init, Absent, WithinQuantity, Purchased
  <1>2. Sane /\ WithinQuantity /\ [Next]_vars => (Sane /\ WithinQuantity)'
    BY PackAssumption, NextSane, QuantityStep
  <1> QED  BY <1>1, <1>2, PTL DEF Spec

LEMMA PaymentStep ==
  ASSUME PackAssumption, Sane, PaidBeforeUse, [Next]_vars
  PROVE  PaidBeforeUse'
  <1>1. Sane'
    BY NextSane
  <1>2. \A p \in Pack : pack'[p] = pack[p] \/ Moves(p, pack[p], pack'[p]) \/ Spends(pack[p], pack'[p])
    BY StepOfPacks DEF Moved, Spent
  <1>3. \A s \in Session : session[s].state \in {"paid", "refunded"} =>
          /\ session'[s].state \in {"paid", "refunded"}
          /\ session'[s].pack = session[s].pack
    BY SessionsKept
  <1> SUFFICES ASSUME NEW p \in Pack
               PROVE  /\ pack'[p].payment # None =>
                           /\ session'[pack'[p].payment].state \in {"paid", "refunded"}
                           /\ session'[pack'[p].payment].pack = p
                      /\ pack'[p].status \in Usable => pack'[p].free \/ pack'[p].payment # None
                      /\ pack'[p].consumed > 0 =>
                           \/ pack'[p].free
                           \/ \E s \in Session : session'[s].pack = p /\ session'[s].state \in {"paid", "refunded"}
    BY DEF PaidBeforeUse
  <1>4. /\ pack[p].payment # None =>
             /\ session[pack[p].payment].state \in {"paid", "refunded"}
             /\ session[pack[p].payment].pack = p
        /\ pack[p].status \in Usable => pack[p].free \/ pack[p].payment # None
        /\ pack[p].consumed > 0 =>
             \/ pack[p].free
             \/ \E s \in Session : session[s].pack = p /\ session[s].state \in {"paid", "refunded"}
    BY DEF PaidBeforeUse
  <1>5. pack[p] \in PackRow /\ pack'[p] \in PackRow
    BY <1>1 DEF Sane, PackOK
  <1>6. /\ pack[p].payment \in Session \cup {None} /\ pack'[p].payment \in Session \cup {None}
        /\ None \notin Session /\ pack[p].consumed \in Nat
    BY <1>5 DEF PackRow, PackAssumption
  <1>7. CASE pack'[p] = pack[p] \/ Refreshes(pack[p], pack'[p])
    BY <1>3, <1>4, <1>6, <1>7 DEF Refreshes
  <1>8. CASE Creates(pack[p], pack'[p]) \/ Gives(pack[p], pack'[p]) \/ Suspends(pack[p], pack'[p])
    BY <1>3, <1>4, <1>6, <1>8 DEF Creates, Gives, Suspends, Usable
  <1>9. CASE Pays(p, pack[p], pack'[p])
    BY <1>3, <1>4, <1>6, <1>9 DEF Pays
  <1>10. CASE Spends(pack[p], pack'[p])
    BY <1>3, <1>4, <1>6, <1>10 DEF Spends, Usable
  <1> QED  BY <1>2, <1>7, <1>8, <1>9, <1>10 DEF Moves

\* Credits are usable, and were used, only against a payment collected for that
\* pack or a free grant.
THEOREM PaymentCorrect == Spec => []PaidBeforeUse
  <1>1. Init => Sane /\ PaidBeforeUse
    <2> SUFFICES ASSUME Init PROVE Sane /\ PaidBeforeUse
      OBVIOUS
    <2> QED  BY PackAssumption, InitSane DEF Init, Absent, PaidBeforeUse, Usable
  <1>2. Sane /\ PaidBeforeUse /\ [Next]_vars => (Sane /\ PaidBeforeUse)'
    BY PackAssumption, NextSane, PaymentStep
  <1> QED  BY <1>1, <1>2, PTL DEF Spec

-----------------------------------------------------------------------------
(***************************************************************************)
(* Credits as accounts.                                                    *)
(***************************************************************************)
CreditsSurvive ==
  /\ ledger \subseteq ledger'
  /\ \A p \in Pack : pack[p].status # "absent" =>
       /\ pack'[p].consumed >= pack[p].consumed
       /\ pack'[p].company = pack[p].company
       /\ pack'[p].offering = pack[p].offering

LEMMA SurvivalStep ==
  ASSUME PackAssumption, Sane, [Next]_vars
  PROVE  CreditsSurvive
  <1>1. KeepsOwners
    BY NextSane
  <1>2. ledger \subseteq ledger'
    BY StepOfPacks DEF Moved, Spent
  <1>3. ASSUME NEW p \in Pack, pack[p].status # "absent" PROVE pack'[p].consumed >= pack[p].consumed
    <2>1. pack'[p] = pack[p] \/ Moves(p, pack[p], pack'[p]) \/ Spends(pack[p], pack'[p])
      BY StepOfPacks DEF Moved, Spent
    <2>2. pack[p].consumed \in Nat
      BY DEF Sane, PackOK, PackRow
    <2> QED  BY <1>3, <2>1, <2>2 DEF Moves, Refreshes, Creates, Gives, Pays, Suspends, Spends
  <1> QED  BY <1>1, <1>2, <1>3 DEF CreditsSurvive, KeepsOwners

\* No step gives a consumed credit back, drops a row of the ledger or moves a
\* pack to another company or offering.
THEOREM ConsumptionCorrect == Spec => ConsumptionSurvives
  <1>1. Init => Sane
    BY PackAssumption, InitSane
  <1>2. Sane /\ [Next]_vars => Sane'
    BY PackAssumption, NextSane
  <1>3. Sane /\ [Next]_vars => [CreditsSurvive]_vars
    BY PackAssumption, SurvivalStep
  <1> QED  BY <1>1, <1>2, <1>3, PTL DEF Spec, ConsumptionSurvives, CreditsSurvive

\* What a step does to a pack, it does to the account.
LEMMA AccountStep ==
  ASSUME PackAssumption, Sane, WithinQuantity, [Next]_vars
  PROVE  [Credits!Next]_(Credits!accountVars)
  <1> DEFINE size == [p \in Pack |-> Purchased(pack[p])]
             spendable == {p \in Pack : pack[p].status \in Usable}
             spent == [p \in Pack |-> pack[p].consumed]
  <1>1. Sane' /\ KeepsOwners
    BY NextSane
  <1>2. CASE UNCHANGED <<pack, ledger>>
    BY <1>2 DEF Credits!accountVars
  <1>3. CASE \E p \in Pack : Moved(p) \/ Spent(p)
    <2>1. PICK p \in Pack : /\ \A q \in Pack \ {p} : pack'[q] = pack[q]
                            /\ Moves(p, pack[p], pack'[p]) \/ Spends(pack[p], pack'[p])
      BY <1>3 DEF Moved, Spent
    <2>2. /\ pack[p] \in PackRow /\ pack'[p] \in PackRow
          /\ pack[p].status = "absent" => pack[p] = Absent
          /\ pack'[p].status = "absent" => pack'[p] = Absent
          /\ pack[p].status # "absent" => pack[p].offering # None
          /\ pack'[p].status # "absent" => pack'[p].offering # None
      BY <1>1 DEF Sane, PackOK
    <2>3. /\ pack[p].status = "absent" => Purchased(pack[p]) = 0 /\ pack[p].consumed = 0
          /\ pack[p].status # "absent" =>
               Purchased(pack[p]) > 0 /\ Purchased(pack'[p]) = Purchased(pack[p])
          /\ pack'[p].status # "absent" => Purchased(pack'[p]) \in {Quantity[o] : o \in Offering}
          /\ pack'[p].status = "absent" => Purchased(pack'[p]) = 0
      BY <1>1, <2>2, PurchasedStays DEF Purchased, Absent, PackRow, PackAssumption
    <2> DEFINE bought == Purchased(pack'[p])
    <2>4. /\ size' = [size EXCEPT ![p] = bought]
          /\ bought = Purchased(pack[p]) => size' = size
          /\ size[p] = Purchased(pack[p])
      BY <2>1
    <2>5. /\ spent' = [spent EXCEPT ![p] = pack'[p].consumed]
          /\ pack'[p].consumed = pack[p].consumed => spent' = spent
          /\ spent[p] = pack[p].consumed
      BY <2>1
    <2>6. /\ p \in spendable <=> pack[p].status \in Usable
          /\ pack'[p].status \in Usable => spendable' = spendable \cup {p}
          /\ pack'[p].status \notin Usable => spendable' = spendable \ {p}
          /\ (pack'[p].status \in Usable <=> pack[p].status \in Usable) => spendable' = spendable
      BY <2>1
    <2>7. \/ Creates(pack[p], pack'[p])
          \/ Gives(pack[p], pack'[p]) /\ pack[p].status = "absent"
          => Credits!Next
      <3> SUFFICES ASSUME \/ Creates(pack[p], pack'[p])
                          \/ Gives(pack[p], pack'[p]) /\ pack[p].status = "absent"
                   PROVE  Credits!Next
        OBVIOUS
      <3>1. PICK n \in {Quantity[o] : o \in Offering} : bought = n
        BY <2>3 DEF Creates, Gives
      <3> HIDE DEF bought, size, spendable, spent
      <3>2. size[p] = 0 /\ size' = [size EXCEPT ![p] = n] /\ spent' = spent
        BY <2>3, <2>4, <2>5, <3>1 DEF Creates, Gives
      <3>3. spendable' \in {spendable, spendable \cup {p}}
        BY <2>6 DEF Creates, Gives, Usable
      <3>4. Credits!Open(p, n)
        BY <3>2, <3>3 DEF Credits!Open, size, spendable, spent
      <3> QED  BY <3>4 DEF Credits!Next
    <2>8. \/ Gives(pack[p], pack'[p]) /\ pack[p].status # "absent"
          \/ Pays(p, pack[p], pack'[p])
          => Credits!Next
      <3> SUFFICES ASSUME \/ Gives(pack[p], pack'[p]) /\ pack[p].status # "absent"
                          \/ Pays(p, pack[p], pack'[p])
                   PROVE  Credits!Next
        OBVIOUS
      <3>1. pack[p].status = "pending_payment" /\ pack'[p].status = "active"
            /\ pack'[p].consumed = pack[p].consumed
        BY DEF Gives, Pays
      <3> HIDE DEF size, spendable, spent
      <3>2. /\ size[p] > 0 /\ p \notin spendable
            /\ spendable' = spendable \cup {p} /\ spent' = spent /\ size' = size
        BY <2>3, <2>4, <2>5, <2>6, <3>1 DEF Usable
      <3>3. Credits!Grant(p)
        BY <3>2 DEF Credits!Grant, size, spendable, spent
      <3> QED  BY <3>3 DEF Credits!Next
    <2>9. ASSUME Refreshes(pack[p], pack'[p]) \/ Suspends(pack[p], pack'[p])
          PROVE  Credits!Next \/ UNCHANGED Credits!accountVars
      <3>1. /\ bought = Purchased(pack[p]) /\ pack'[p].consumed = pack[p].consumed
            /\ \/ pack'[p].status \in Usable <=> pack[p].status \in Usable
               \/ pack[p].status \in Usable /\ pack'[p].status \notin Usable
        <4>1. CASE Refreshes(pack[p], pack'[p])
          BY <2>3, <4>1 DEF Refreshes
        <4>2. CASE Suspends(pack[p], pack'[p])
          BY <2>3, <4>2 DEF Suspends, Usable
        <4> QED  BY <2>9, <4>1, <4>2
      <3> HIDE DEF bought, size, spendable, spent
      <3>2. /\ size' = size /\ spent' = spent
            /\ spendable' = spendable \/ (p \in spendable /\ spendable' = spendable \ {p})
        BY <2>4, <2>5, <2>6, <3>1
      <3>3. CASE spendable' = spendable
        BY <3>2, <3>3 DEF Credits!accountVars, size, spendable, spent
      <3>4. CASE p \in spendable /\ spendable' = spendable \ {p}
        <4>1. Credits!Revoke(p)
          BY <3>2, <3>4 DEF Credits!Revoke, size, spendable, spent
        <4> QED  BY <4>1 DEF Credits!Next
      <3> QED  BY <3>2, <3>3, <3>4
    <2>10. ASSUME Spends(pack[p], pack'[p]) PROVE Credits!Next
      <3>1. /\ pack[p].status = "active" /\ pack'[p].status \in Usable
            /\ pack[p].consumed < Purchased(pack[p]) /\ bought = Purchased(pack[p])
            /\ pack'[p].consumed = pack[p].consumed + 1
        BY <2>3, <2>10 DEF Spends
      <3> HIDE DEF bought, size, spendable, spent
      <3>2. /\ p \in spendable /\ spent[p] < size[p] /\ spent' = [spent EXCEPT ![p] = spent[p] + 1]
            /\ spendable' = spendable /\ size' = size
        BY <2>4, <2>5, <2>6, <3>1 DEF Usable
      <3>3. Credits!Spend(p)
        BY <3>2 DEF Credits!Spend, size, spendable, spent
      <3> QED  BY <3>3 DEF Credits!Next
    <2> QED  BY <2>1, <2>7, <2>8, <2>9, <2>10 DEF Moves
  <1> QED  BY <1>2, <1>3, StepOfPacks

\* Purchases, webhooks and studies implement the account of credits: a reversal
\* only suspends a pack, and a new payment resumes it with what it had left.
THEOREM CreditsImplemented == Spec => CreditsRefined
  <1>1. Init => Sane /\ WithinQuantity /\ Credits!Init
    <2> SUFFICES ASSUME Init PROVE Sane /\ WithinQuantity /\ Credits!Init
      OBVIOUS
    <2>1. Sane /\ WithinQuantity
      BY PackAssumption, InitSane DEF Init, Absent, WithinQuantity, Purchased
    <2>2. Credits!Init
      BY DEF Init, Absent, Purchased, Usable, Credits!Init
    <2> QED  BY <2>1, <2>2
  <1>2. Sane /\ WithinQuantity /\ [Next]_vars => (Sane /\ WithinQuantity)'
    BY PackAssumption, NextSane, QuantityStep
  <1>3. Sane /\ WithinQuantity /\ [Next]_vars => [Credits!Next]_(Credits!accountVars)
    BY PackAssumption, AccountStep
  <1> QED  BY <1>1, <1>2, <1>3, PTL DEF Spec, CreditsRefined, Credits!Spec

-----------------------------------------------------------------------------
(***************************************************************************)
(* Promotional codes.                                                      *)
(***************************************************************************)
LEMMA NotNone == ASSUME NEW c \in Codes, c # None PROVE c \in Code
  BY DEF Codes

LEMMA BuyerRedeems ==
  ASSUME Sane, NEW b \in Buyer, buyer[b].pc = "grant"
  PROVE  /\ buyer[b] \in BuyerState /\ buyer[b].company \in Company
         /\ buyer[b].code \in Code
  <1>1. buyer[b] \in BuyerState /\ Knows(buyer[b], pack)
    BY DEF Sane, BuyerOK
  <1> QED  BY <1>1, NotNone DEF BuyerState, Knows

LEMMA HookRedeems ==
  ASSUME PackAssumption, Sane, NEW h \in Hook, hook[h].pc \in {"redeem", "release"}
  PROVE  hook[h].code \in Code /\ Paying(h) \in Pack /\ pack[Paying(h)].company \in Company
  <1>1. hook[h] \in HookState /\ Works(hook[h], posted)
    BY DEF Sane, HookOK
  <1>2. hook[h].code \in Code
    BY <1>1, NotNone DEF HookState, Works
  <1> QED  BY <1>2, Handling

\* Whatever a step does to the codes, PromoCodes allows.
LEMMA CodesStep ==
  ASSUME PackAssumption, Sane, [Next]_vars
  PROVE  [Promo!PromoNext]_(Promo!promoVars)
  <1>1. CASE UNCHANGED promoVars
    BY <1>1 DEF promoVars, Promo!promoVars
  <1>2. CASE \E b \in Buyer : GrantFree(b)
    <2>1. PICK b \in Buyer, p \in Pack :
            buyer[b].pc = "grant" /\ Promo!Redeem(buyer[b].code, buyer[b].company, p)
      BY <1>2 DEF GrantFree
    <2> QED  BY <2>1, BuyerRedeems DEF Promo!PromoNext
  <1>3. CASE \E h \in Hook : RedeemCode(h)
    <2>1. PICK h \in Hook :
            /\ hook[h].pc = "redeem"
            /\ Promo!Redeem(hook[h].code, pack[Paying(h)].company, Paying(h))
      BY <1>3 DEF RedeemCode
    <2> QED  BY <2>1, HookRedeems DEF Promo!PromoNext
  <1>4. CASE \E h \in Hook : ReleaseCode(h)
    <2>1. PICK h \in Hook :
            /\ hook[h].pc = "release"
            /\ Promo!Release(hook[h].code, pack[Paying(h)].company) \/ UNCHANGED promoVars
      BY <1>4 DEF ReleaseCode
    <2> QED  BY <1>1, <2>1, HookRedeems DEF Promo!PromoNext
  <1>5. CASE Administer
    <2>1. Promo!PromoAdmin \/ UNCHANGED promoVars
      BY <1>5 DEF Administer, ChangeOffer, ChangeCodes
    <2> QED  BY <1>1, <2>1 DEF Promo!PromoNext
  <1>6. CASE \E b \in Buyer, co \in Company, o \in Offering, c \in Codes : StartPurchase(b, co, o, c)
    BY <1>1, <1>6 DEF StartPurchase
  <1>7. CASE \E b \in Buyer : BuyerStep(b) \/ AbandonPurchase(b)
    <2>1. (\E b \in Buyer : GrantFree(b)) \/ UNCHANGED promoVars
      BY <1>7 DEF BuyerStep, FindPending, RefreshPending, CreatePending, OpenCheckout, RefuseFree,
         FreeEffects, AbandonPurchase
    <2> QED  BY <1>1, <1>2, <2>1
  <1>8. CASE \E h \in Hook : HookReceives(h) \/ HookStep(h) \/ CrashHook(h)
    <2>1. \/ \E h \in Hook : RedeemCode(h) \/ ReleaseCode(h)
          \/ UNCHANGED promoVars
      BY <1>8 DEF HookReceives, Receive, ReceiveDuplicate, CrashHook, HookStep, Activate,
         PaidEffects, NotifyPaid, ReportOversold, RecordFailed, Revert, AlertReversal
    <2> QED  BY <1>1, <1>3, <1>4, <2>1
  <1>9. CASE \/ \E co \in Company, st \in Study : Consume(co, st)
             \/ \E s \in Session : Approve(s) \/ Decline(s) \/ Refund(s)
             \/ \E m \in posted : Resend(m)
             \/ NewDay \/ UNCHANGED vars
    <2>1. UNCHANGED promoVars
      BY <1>9 DEF Consume, Approve, Decline, Refund, Charged, Resend, NewDay, vars
    <2> QED  BY <1>1, <2>1
  <1> QED  BY <1>5, <1>6, <1>7, <1>8, <1>9 DEF Next

\* Free purchases, webhooks and the panel together keep to the transactions of
\* PromoCodes.
LEMMA KeepsToCodes == Spec => Promo!PromoSpec
  <1>1. Init => Sane /\ Promo!PromoInit
    BY PackAssumption, InitSane DEF Init
  <1>2. Sane /\ [Next]_vars => Sane'
    BY PackAssumption, NextSane
  <1>3. Sane /\ [Next]_vars => [Promo!PromoNext]_(Promo!promoVars)
    BY PackAssumption, CodesStep
  <1> QED  BY <1>1, <1>2, <1>3, PTL DEF Spec, Promo!PromoSpec

PromoProofs == INSTANCE PromoCodesProofs

\* Both instances of PromoCodes are the same specification.
LEMMA SameCodes ==
  /\ \A S : Promo!Cardinality(S) = PromoProofs!Cardinality(S)
  /\ \A S : Promo!IsFiniteSet(S) <=> PromoProofs!IsFiniteSet(S)
  /\ Promo!PromoInit <=> PromoProofs!PromoInit
  /\ [Promo!PromoNext]_(Promo!promoVars) => [PromoProofs!PromoNext]_(PromoProofs!promoVars)
  <1>1. \A S : Promo!Cardinality(S) = PromoProofs!Cardinality(S)
    BY DEF Promo!Cardinality, PromoProofs!Cardinality
  <1>2. \A S : Promo!IsFiniteSet(S) <=> PromoProofs!IsFiniteSet(S)
    BY DEF Promo!IsFiniteSet, PromoProofs!IsFiniteSet
  <1>3. Promo!PromoInit <=> PromoProofs!PromoInit
    BY DEF Promo!PromoInit, PromoProofs!PromoInit
  <1>4. Promo!PromoAdmin => PromoProofs!PromoAdmin
    BY DEF Promo!PromoAdmin, PromoProofs!PromoAdmin, Promo!CreateCode, PromoProofs!CreateCode,
       Promo!SetActive, PromoProofs!SetActive, Promo!SetWindow, PromoProofs!SetWindow
  <1>5. ASSUME NEW c \in Code, NEW co \in Company, NEW p \in Pack
        PROVE  Promo!Redeem(c, co, p) => PromoProofs!Redeem(c, co, p)
    BY DEF Promo!Redeem, PromoProofs!Redeem, Promo!CanRedeem, PromoProofs!CanRedeem
  <1>6. ASSUME NEW c \in Code, NEW co \in Company
        PROVE  Promo!Release(c, co) => PromoProofs!Release(c, co)
    BY <1>1 DEF Promo!Release, PromoProofs!Release
  <1>7. Promo!PromoNext => PromoProofs!PromoNext
    BY <1>4, <1>5, <1>6 DEF Promo!PromoNext, PromoProofs!PromoNext
  <1> QED  BY <1>1, <1>2, <1>3, <1>7 DEF Promo!promoVars, PromoProofs!promoVars

\* No interleaving of purchases and webhooks spends more redemptions of a code
\* than its quota, or two of one company; the counter is the ledger's size.
THEOREM QuotaCorrect == Spec => []QuotaKept
  <1>1. PromoProofs!PromoAssumption
    BY PackAssumption DEF PackAssumption, Promo!PromoAssumption, PromoProofs!PromoAssumption
  <1>2. Promo!PromoInit => PromoProofs!PromoInit
    BY SameCodes
  <1>3. [Promo!PromoNext]_(Promo!promoVars) => [PromoProofs!PromoNext]_(PromoProofs!promoVars)
    BY SameCodes
  <1>4. Promo!PromoSpec => PromoProofs!PromoSpec
    BY <1>2, <1>3, PTL DEF Promo!PromoSpec, PromoProofs!PromoSpec
  <1>5. PromoProofs!PromoSpec => []PromoProofs!PromoInv
    BY <1>1, PromoProofs!PromoCorrect
  <1>6. PromoProofs!PromoInv => QuotaKept
    BY SameCodes DEF PromoProofs!PromoInv, QuotaKept, Promo!QuotaMatchesLedger, Promo!OneRedemptionPerCompany,
       PromoProofs!QuotaMatchesLedger, PromoProofs!OneRedemptionPerCompany, Promo!RowsOf, PromoProofs!RowsOf
  <1> QED  BY <1>4, <1>5, <1>6, KeepsToCodes, PTL

-----------------------------------------------------------------------------
(***************************************************************************)
(* Scope.  A code is checked against its scope when a purchase starts; the *)
(* request, the pack and the handler then carry it, and RedemptionInScope  *)
(* is inductive only with the scope of what they carry.                    *)
(***************************************************************************)
InScope(co, c) == c # None => co \in Scope[c]

ScopeInv ==
  /\ \A p \in Pack : pack[p].status # "absent" => InScope(pack[p].company, pack[p].code)
  /\ \A b \in Buyer : buyer[b].pc # "idle" => InScope(buyer[b].company, buyer[b].code)
  /\ \A h \in Hook : hook[h].pc # "idle" => InScope(pack[Paying(h)].company, hook[h].code)
  /\ \A r \in redemptions : /\ r.pack \in Pack
                            /\ pack[r.pack].status # "absent"
                            /\ pack[r.pack].company = r.company
                            /\ r.company \in Scope[r.code]

\* Packs only get codes from the requests that write them.
PackCodes ==
  \A p \in Pack :
    \/ pack'[p].code = pack[p].code
    \/ \E b \in Buyer : /\ buyer[b].pc # "idle"
                        /\ pack'[p].code = buyer[b].code
                        /\ pack'[p].company = buyer[b].company

\* Requests only get codes that were validated.
BuyerCodes ==
  \A b \in Buyer :
    \/ buyer'[b].pc = "idle"
    \/ /\ buyer[b].pc # "idle"
       /\ buyer'[b].company = buyer[b].company
       /\ buyer'[b].code = buyer[b].code
    \/ InScope(buyer'[b].company, buyer'[b].code)

\* Handlers only get codes from the packs of their sessions.
HookCodes ==
  \A h \in Hook :
    \/ hook'[h].pc = "idle"
    \/ /\ hook[h].pc # "idle"
       /\ hook'[h].session = hook[h].session
       /\ hook'[h].code = hook[h].code
    \/ \E m \in due : /\ hook'[h].session = m.session
                      /\ hook'[h].code = pack[session[m.session].pack].code

\* Redemptions only come from requests and handlers.
NewRedemptions ==
  \A r \in redemptions' \ redemptions :
    \/ \E b \in Buyer, p \in Pack :
         /\ buyer[b].pc = "grant"
         /\ r = [code |-> buyer[b].code, company |-> buyer[b].company, pack |-> p]
         /\ pack'[p].status = "active" /\ pack'[p].company = buyer[b].company
    \/ \E h \in Hook :
         /\ hook[h].pc = "redeem"
         /\ r = [code |-> hook[h].code, company |-> pack[Paying(h)].company, pack |-> Paying(h)]
         /\ UNCHANGED pack

CodesFlow == PackCodes /\ BuyerCodes /\ HookCodes /\ NewRedemptions

\* A part that stays flows.
LEMMA IdleFlows ==
  /\ UNCHANGED pack => PackCodes
  /\ UNCHANGED buyer => BuyerCodes
  /\ UNCHANGED hook => HookCodes
  /\ redemptions' \subseteq redemptions => NewRedemptions
  BY DEF PackCodes, BuyerCodes, HookCodes, NewRedemptions

LEMMA BuyerFlows ==
  ASSUME BuyerOK, NEW b \in Buyer, NEW r,
         buyer' = [buyer EXCEPT ![b] = r],
         \/ r.pc = "idle"
         \/ buyer[b].pc # "idle" /\ r.company = buyer[b].company /\ r.code = buyer[b].code
         \/ InScope(r.company, r.code)
  PROVE  BuyerCodes
  BY DEF BuyerOK, BuyerCodes

LEMMA HookFlows ==
  ASSUME HookOK, NEW h \in Hook, NEW r,
         hook' = [hook EXCEPT ![h] = r],
         \/ r.pc = "idle"
         \/ hook[h].pc # "idle" /\ r.session = hook[h].session /\ r.code = hook[h].code
         \/ \E m \in due : r.session = m.session /\ r.code = pack[session[m.session].pack].code
  PROVE  HookCodes
  BY DEF HookOK, HookCodes

LEMMA StartPurchaseFlows ==
  ASSUME PackAssumption, Sane, NEW b \in Buyer, NEW co \in Company, NEW o \in Offering,
         NEW c \in Codes, StartPurchase(b, co, o, c)
  PROVE  CodesFlow
  <1> DEFINE r == [pc |-> "find", company |-> co, offering |-> o, code |-> c,
                   amount |-> Quoted(o, c), endDate |-> today + ValidityDays[o], found |-> None]
  <1>1. /\ buyer' = [buyer EXCEPT ![b] = r]
        /\ UNCHANGED <<pack, hook, redemptions>>
    BY DEF StartPurchase, promoVars
  <1>2. InScope(r.company, r.code)
    BY DEF StartPurchase, Promo!ValidForPurchase, InScope
  <1> HIDE DEF r
  <1>3. BuyerCodes
    BY <1>1, <1>2, BuyerFlows DEF Sane
  <1> QED  BY <1>1, <1>3, IdleFlows DEF CodesFlow

LEMMA BuyerStepFlows ==
  ASSUME PackAssumption, Sane, NEW b \in Buyer, BuyerStep(b) \/ AbandonPurchase(b)
  PROVE  CodesFlow
  <1>1. /\ buyer[b].pc # "idle" /\ UNCHANGED hook
        /\ buyer[b] \in BuyerState
        /\ pack \in [Pack -> PackRow]
    BY DEF BuyerStep, FindPending, RefreshPending, CreatePending, OpenCheckout, GrantFree,
       RefuseFree, FreeEffects, AbandonPurchase, Sane, BuyerOK, PackOK
  <1>2. BuyerCodes
    <2>1. CASE buyer' = [buyer EXCEPT ![b] = IdleBuyer]
      <3> DEFINE r == IdleBuyer
      <3>1. r.pc = "idle" /\ buyer' = [buyer EXCEPT ![b] = r]
        BY <2>1 DEF IdleBuyer
      <3> HIDE DEF r
      <3> QED  BY <3>1, BuyerFlows DEF Sane
    <2>2. ASSUME NEW pc, NEW p, buyer' = [buyer EXCEPT ![b] = [@ EXCEPT !.pc = pc, !.found = p]]
          PROVE  BuyerCodes
      <3> DEFINE r == [buyer[b] EXCEPT !.pc = pc, !.found = p]
      <3>1. /\ r.company = buyer[b].company /\ r.code = buyer[b].code
            /\ buyer' = [buyer EXCEPT ![b] = r]
        BY <1>1, <2>2 DEF BuyerState, Sane, BuyerOK
      <3> HIDE DEF r
      <3> QED  BY <1>1, <3>1, BuyerFlows DEF Sane
    <2>3. ASSUME NEW pc, buyer' = [buyer EXCEPT ![b].pc = pc]
          PROVE  BuyerCodes
      <3> DEFINE r == [buyer[b] EXCEPT !.pc = pc]
      <3>1. /\ r.company = buyer[b].company /\ r.code = buyer[b].code
            /\ buyer' = [buyer EXCEPT ![b] = r]
        BY <1>1, <2>3 DEF BuyerState, Sane, BuyerOK
      <3> HIDE DEF r
      <3> QED  BY <1>1, <3>1, BuyerFlows DEF Sane
    <2>4. CASE FindPending(b)
      BY <2>2, <2>4 DEF FindPending
    <2>5. CASE CreatePending(b)
      BY <2>2, <2>5 DEF CreatePending
    <2>6. CASE RefreshPending(b) \/ GrantFree(b)
      BY <2>3, <2>6 DEF RefreshPending, GrantFree
    <2>7. CASE OpenCheckout(b) \/ RefuseFree(b) \/ FreeEffects(b) \/ AbandonPurchase(b)
      BY <2>1, <2>7 DEF OpenCheckout, RefuseFree, FreeEffects, AbandonPurchase
    <2> QED  BY <2>4, <2>5, <2>6, <2>7 DEF BuyerStep
  <1>3. ASSUME NEW p \in Pack, NEW row, pack' = [pack EXCEPT ![p] = row],
               row.code = buyer[b].code, row.company = buyer[b].company
        PROVE  PackCodes
    BY <1>1, <1>3 DEF PackCodes
  <1>4. CASE RefreshPending(b)
    <2> DEFINE p == buyer[b].found
               row == Frozen(b, pack[p])
    <2>1. /\ p \in Pack /\ pack[p] \in PackRow /\ pack[p].company = buyer[b].company
          /\ UNCHANGED redemptions
      BY <1>1, <1>4 DEF RefreshPending, BuyerState, Sane, BuyerOK, Knows, promoVars
    <2>2. pack' = [pack EXCEPT ![p] = row]
      BY <1>4 DEF RefreshPending
    <2>3. row.code = buyer[b].code /\ row.company = buyer[b].company
      BY <2>1 DEF Frozen, PackRow
    <2> HIDE DEF p, row
    <2> QED  BY <1>1, <1>2, <1>3, <2>1, <2>2, <2>3, IdleFlows DEF CodesFlow
  <1>5. CASE CreatePending(b)
    <2>1. PICK p \in Pack : pack' = [pack EXCEPT ![p] = NewRow(b)]
      BY <1>5 DEF CreatePending
    <2>2. UNCHANGED redemptions
      BY <1>5 DEF CreatePending, promoVars
    <2>3. NewRow(b).code = buyer[b].code /\ NewRow(b).company = buyer[b].company
      BY DEF NewRow, Frozen, Absent
    <2> QED  BY <1>1, <1>2, <1>3, <2>1, <2>2, <2>3, IdleFlows DEF CodesFlow
  <1>6. CASE GrantFree(b)
    <2>1. PICK p \in Pack : /\ Promo!Redeem(buyer[b].code, buyer[b].company, p)
                            /\ pack' = [pack EXCEPT ![p] = FreeRow(b, @)]
      BY <1>6 DEF GrantFree
    <2> DEFINE row == FreeRow(b, pack[p])
    <2>2. /\ row.code = buyer[b].code /\ row.company = buyer[b].company /\ row.status = "active"
      BY <1>1 DEF FreeRow, Frozen, PackRow
    <2>3. pack' = [pack EXCEPT ![p] = row]
      BY <1>1, <2>1
    <2> HIDE DEF row
    <2>4. PackCodes
      BY <1>3, <2>2, <2>3
    <2>5. pack'[p] = row
      BY <1>1, <2>3
    <2>6. NewRedemptions
      BY <1>6, <2>1, <2>2, <2>5 DEF NewRedemptions, Promo!Redeem, GrantFree
    <2> QED  BY <1>1, <1>2, <2>4, <2>6, IdleFlows DEF CodesFlow
  <1>7. CASE UNCHANGED <<pack, redemptions>>
    BY <1>1, <1>2, <1>7, IdleFlows DEF CodesFlow
  <1>8. CASE \/ FindPending(b) \/ OpenCheckout(b) \/ RefuseFree(b) \/ FreeEffects(b)
             \/ AbandonPurchase(b)
    BY <1>7, <1>8 DEF FindPending, OpenCheckout, RefuseFree, FreeEffects, AbandonPurchase, promoVars
  <1> QED  BY <1>4, <1>5, <1>6, <1>8 DEF BuyerStep

LEMMA HookStepFlows ==
  ASSUME PackAssumption, Sane, NEW h \in Hook, HookReceives(h) \/ HookStep(h) \/ CrashHook(h)
  PROVE  CodesFlow
  <1>1. UNCHANGED buyer /\ pack \in [Pack -> PackRow]
    BY DEF HookReceives, Receive, ReceiveDuplicate, CrashHook, HookStep, Activate, PaidEffects,
       NotifyPaid, RedeemCode, ReportOversold, RecordFailed, Revert, AlertReversal, ReleaseCode,
       Sane, PackOK
  <1>2. HookCodes
    <2>1. CASE hook' = [hook EXCEPT ![h] = IdleHook]
      <3> DEFINE r == IdleHook
      <3>1. r.pc = "idle" /\ hook' = [hook EXCEPT ![h] = r]
        BY <2>1 DEF IdleHook
      <3> HIDE DEF r
      <3> QED  BY <3>1, HookFlows DEF Sane
    <2>2. ASSUME NEW pc, NEW done, hook[h].pc # "idle",
                 hook' = [hook EXCEPT ![h] = [@ EXCEPT !.pc = pc, !.activated = done]]
          PROVE  HookCodes
      <3> DEFINE r == [hook[h] EXCEPT !.pc = pc, !.activated = done]
      <3>1. hook[h] \in HookState
        BY DEF Sane, HookOK
      <3>2. /\ r.session = hook[h].session /\ r.code = hook[h].code
            /\ hook' = [hook EXCEPT ![h] = r]
        BY <2>2, <3>1 DEF HookState, Sane, HookOK
      <3> HIDE DEF r
      <3> QED  BY <2>2, <3>2, HookFlows DEF Sane
    <2>3. ASSUME NEW pc, hook[h].pc # "idle", Continue(h, pc)
          PROVE  HookCodes
      <3> DEFINE r == [hook[h] EXCEPT !.pc = pc]
      <3>1. hook[h] \in HookState
        BY DEF Sane, HookOK
      <3>2. /\ r.session = hook[h].session /\ r.code = hook[h].code
            /\ hook' = [hook EXCEPT ![h] = r]
        BY <2>3, <3>1 DEF HookState, Sane, HookOK, Continue
      <3> HIDE DEF r
      <3> QED  BY <2>3, <3>2, HookFlows DEF Sane
    <2>4. CASE \E m \in due : Receive(h, m)
      <3>1. PICK m \in due : Receive(h, m)
        BY <2>4
      <3> DEFINE row == pack[session[m.session].pack]
                 r == [pc |-> FirstStep(m.verdict), session |-> m.session,
                       verdict |-> m.verdict, activated |-> FALSE,
                       code |-> row.code, consumed |-> row.consumed]
      <3>2. hook' = [hook EXCEPT ![h] = r]
        BY <3>1 DEF Receive
      <3>3. r.session = m.session /\ r.code = pack[session[m.session].pack].code
        OBVIOUS
      <3> HIDE DEF r
      <3> QED  BY <3>2, <3>3, HookFlows DEF Sane
    <2>5. CASE \E m \in due : ReceiveDuplicate(h, m)
      BY <2>5, IdleFlows DEF ReceiveDuplicate
    <2>6. CASE Activate(h)
      BY <2>2, <2>6 DEF Activate
    <2>7. CASE Revert(h)
      BY <2>3, <2>7 DEF Revert
    <2>8. CASE PaidEffects(h) \/ NotifyPaid(h) \/ AlertReversal(h)
      BY <2>1, <2>3, <2>8 DEF PaidEffects, NotifyPaid, AlertReversal, Answer
    <2>9. CASE RedeemCode(h) \/ ReportOversold(h) \/ RecordFailed(h) \/ ReleaseCode(h) \/ CrashHook(h)
      BY <2>1, <2>9 DEF RedeemCode, ReportOversold, RecordFailed, ReleaseCode, CrashHook, Answer
    <2> QED  BY <2>4, <2>5, <2>6, <2>7, <2>8, <2>9 DEF HookReceives, HookStep
  <1>3. PackCodes
    <2>1. CASE Activate(h) \/ Revert(h)
      <3>1. hook[h].pc # "idle"
        BY <2>1 DEF Activate, Revert
      <3>2. Paying(h) \in Pack /\ pack[Paying(h)] \in PackRow
        BY <3>1, Handling
      <3> DEFINE paid == PaidRow(pack[Paying(h)], hook[h].session)
                 suspended == RevertedRow(pack[Paying(h)])
      <3>3. paid.code = pack[Paying(h)].code /\ suspended.code = pack[Paying(h)].code
        BY <3>2 DEF PaidRow, RevertedRow, PackRow
      <3>4. PICK row : /\ pack' = [pack EXCEPT ![Paying(h)] = row] \/ pack' = pack
                       /\ row.code = pack[Paying(h)].code
        <4>1. CASE Activate(h)
          BY <3>3, <4>1 DEF Activate
        <4>2. CASE Revert(h)
          BY <3>3, <4>2 DEF Revert
        <4> QED  BY <2>1, <4>1, <4>2
      <3> QED  BY <1>1, <3>2, <3>4 DEF PackCodes
    <2>2. CASE UNCHANGED pack
      BY <2>2, IdleFlows
    <2> QED
      BY <2>1, <2>2 DEF HookReceives, Receive, ReceiveDuplicate, CrashHook, HookStep, PaidEffects,
         NotifyPaid, RedeemCode, ReportOversold, RecordFailed, AlertReversal, ReleaseCode
  <1>4. NewRedemptions
    <2>1. CASE RedeemCode(h)
      BY <2>1 DEF RedeemCode, NewRedemptions, Promo!Redeem
    <2>2. CASE ReleaseCode(h)
      <3>1. redemptions' \subseteq redemptions
        BY <2>2 DEF ReleaseCode, Promo!Release, promoVars
      <3> QED  BY <3>1, IdleFlows
    <2>3. CASE UNCHANGED redemptions
      BY <2>3, IdleFlows
    <2> QED
      BY <2>1, <2>2, <2>3 DEF HookReceives, Receive, ReceiveDuplicate, CrashHook, HookStep, Activate,
         PaidEffects, NotifyPaid, ReportOversold, RecordFailed, Revert, AlertReversal, promoVars
  <1> QED  BY <1>1, <1>2, <1>3, <1>4, IdleFlows DEF CodesFlow

LEMMA NextFlows == ASSUME PackAssumption, Sane, [Next]_vars PROVE CodesFlow
  <1>1. CASE \E b \in Buyer, co \in Company, o \in Offering, c \in Codes : StartPurchase(b, co, o, c)
    BY <1>1, StartPurchaseFlows
  <1>2. CASE \E b \in Buyer : BuyerStep(b) \/ AbandonPurchase(b)
    BY <1>2, BuyerStepFlows
  <1>3. CASE \E h \in Hook : HookReceives(h) \/ HookStep(h) \/ CrashHook(h)
    BY <1>3, HookStepFlows
  <1>4. CASE \E co \in Company, st \in Study : Consume(co, st)
    <2> PICK co \in Company, st \in Study : Consume(co, st)
      BY <1>4
    <2>1. PICK p \in Consumable(co) : pack' = [pack EXCEPT ![p] = ConsumedRow(@)]
      BY DEF Consume
    <2> DEFINE row == ConsumedRow(pack[p])
    <2>2. p \in Pack /\ row.code = pack[p].code
      BY <2>1, ConsumableFits
    <2>3. pack' = [pack EXCEPT ![p] = row]
      BY <2>1, <2>2 DEF Sane, PackOK
    <2> HIDE DEF row
    <2>4. PackCodes
      BY <2>2, <2>3 DEF PackCodes, Sane, PackOK
    <2>5. UNCHANGED <<buyer, hook, redemptions>>
      BY <1>4 DEF Consume, promoVars
    <2> QED  BY <2>4, <2>5, IdleFlows DEF CodesFlow
  <1>5. CASE \/ \E s \in Session : Approve(s) \/ Decline(s) \/ Refund(s)
             \/ \E m \in posted : Resend(m)
             \/ Administer \/ NewDay \/ UNCHANGED vars
    <2>1. UNCHANGED <<pack, buyer, hook>>
      BY <1>5 DEF Approve, Decline, Refund, Charged, Resend, Administer, NewDay, vars
    <2>2. UNCHANGED redemptions
      BY <1>5 DEF Approve, Decline, Refund, Charged, Resend, Administer, ChangeOffer, ChangeCodes,
         Promo!PromoAdmin, Promo!CreateCode, Promo!SetActive, Promo!SetWindow, NewDay, vars, promoVars
    <2> QED  BY <2>1, <2>2, IdleFlows DEF CodesFlow
  <1> QED  BY <1>1, <1>2, <1>3, <1>4, <1>5 DEF Next

LEMMA ScopeStep ==
  ASSUME PackAssumption, Sane, ScopeInv, [Next]_vars
  PROVE  ScopeInv'
  <1>1. Sane' /\ KeepsOwners /\ CodesFlow
    BY NextSane, NextFlows
  <1>2. ASSUME NEW p \in Pack, pack'[p].status # "absent"
        PROVE  InScope(pack'[p].company, pack'[p].code)
    <2>1. CASE \E b \in Buyer : /\ buyer[b].pc # "idle"
                                /\ pack'[p].code = buyer[b].code
                                /\ pack'[p].company = buyer[b].company
      BY <2>1 DEF ScopeInv
    <2>2. CASE pack'[p].code = pack[p].code
      <3>1. CASE pack[p].status # "absent"
        BY <1>1, <2>2, <3>1 DEF ScopeInv, KeepsOwners
      <3>2. CASE pack[p].status = "absent"
        BY <2>2, <3>2 DEF Sane, PackOK, Absent, InScope
      <3> QED  BY <3>1, <3>2
    <2> QED  BY <1>1, <2>1, <2>2 DEF CodesFlow, PackCodes
  <1>3. ASSUME NEW b \in Buyer, buyer'[b].pc # "idle"
        PROVE  InScope(buyer'[b].company, buyer'[b].code)
    BY <1>1, <1>3 DEF CodesFlow, BuyerCodes, ScopeInv
  <1>4. ASSUME NEW s \in Session, session[s].state # "unused"
        PROVE  /\ session'[s].pack = session[s].pack /\ session[s].pack \in Pack
               /\ pack[session[s].pack].status # "absent"
               /\ pack'[session[s].pack].company = pack[session[s].pack].company
    BY <1>1, <1>4, SessionsKept DEF Sane, SessionOK, KeepsOwners
  <1>5. ASSUME NEW h \in Hook, hook'[h].pc # "idle"
        PROVE  InScope(pack'[session'[hook'[h].session].pack].company, hook'[h].code)
    <2>1. CASE /\ hook[h].pc # "idle"
               /\ hook'[h].session = hook[h].session
               /\ hook'[h].code = hook[h].code
      <3>1. /\ hook[h].session \in Session /\ session[hook[h].session].state # "unused"
            /\ InScope(pack[session[hook[h].session].pack].company, hook[h].code)
        BY <2>1, Handling DEF ScopeInv, Paying
      <3> QED  BY <1>4, <2>1, <3>1
    <2>2. CASE \E m \in due : /\ hook'[h].session = m.session
                              /\ hook'[h].code = pack[session[m.session].pack].code
      <3>1. PICK m \in due : /\ hook'[h].session = m.session
                             /\ hook'[h].code = pack[session[m.session].pack].code
        BY <2>2
      <3>2. m.session \in Session /\ session[m.session].state # "unused"
        BY DEF Sane, SessionOK, Confirmation
      <3>3. InScope(pack[session[m.session].pack].company, pack[session[m.session].pack].code)
        BY <1>4, <3>2 DEF ScopeInv
      <3> QED  BY <1>4, <3>1, <3>2, <3>3
    <2> QED  BY <1>1, <1>5, <2>1, <2>2 DEF CodesFlow, HookCodes
  <1>6. ASSUME NEW r \in redemptions'
        PROVE  /\ r.pack \in Pack
               /\ pack'[r.pack].status # "absent"
               /\ pack'[r.pack].company = r.company
               /\ r.company \in Scope[r.code]
    <2>1. CASE r \in redemptions
      BY <1>1, <2>1 DEF ScopeInv, KeepsOwners
    <2>2. CASE \E b \in Buyer, p \in Pack :
                 /\ buyer[b].pc = "grant"
                 /\ r = [code |-> buyer[b].code, company |-> buyer[b].company, pack |-> p]
                 /\ pack'[p].status = "active" /\ pack'[p].company = buyer[b].company
      <3>1. PICK b \in Buyer, p \in Pack :
                 /\ buyer[b].pc = "grant"
                 /\ r = [code |-> buyer[b].code, company |-> buyer[b].company, pack |-> p]
                 /\ pack'[p].status = "active" /\ pack'[p].company = buyer[b].company
        BY <2>2
      <3>2. buyer[b].code # None
        BY <3>1 DEF Sane, BuyerOK, Knows
      <3> QED  BY <3>1, <3>2 DEF ScopeInv, InScope
    <2>3. CASE \E h \in Hook :
                 /\ hook[h].pc = "redeem"
                 /\ r = [code |-> hook[h].code, company |-> pack[Paying(h)].company, pack |-> Paying(h)]
                 /\ UNCHANGED pack
      <3>1. PICK h \in Hook :
                 /\ hook[h].pc = "redeem"
                 /\ r = [code |-> hook[h].code, company |-> pack[Paying(h)].company, pack |-> Paying(h)]
                 /\ UNCHANGED pack
        BY <2>3
      <3>2. hook[h].code # None
        BY <3>1 DEF Sane, HookOK, Works
      <3>3. Paying(h) \in Pack /\ pack[Paying(h)].status # "absent"
        BY <3>1, Handling
      <3> QED  BY <3>1, <3>2, <3>3 DEF ScopeInv, InScope
    <2> QED  BY <1>1, <2>1, <2>2, <2>3 DEF CodesFlow, NewRedemptions
  <1> QED  BY <1>2, <1>3, <1>5, <1>6 DEF ScopeInv, InScope, Paying

\* A code of one company is never redeemed by another, although the redemption
\* itself does not look at the scope.
THEOREM ScopeCorrect == Spec => []RedemptionInScope
  <1>1. Init => Sane /\ ScopeInv
    BY PackAssumption, InitSane DEF Init, Absent, IdleBuyer, IdleHook, Promo!PromoInit, ScopeInv, InScope
  <1>2. Sane /\ ScopeInv /\ [Next]_vars => (Sane /\ ScopeInv)'
    BY PackAssumption, NextSane, ScopeStep
  <1>3. ScopeInv => RedemptionInScope
    BY DEF ScopeInv, RedemptionInScope
  <1> QED  BY <1>1, <1>2, <1>3, PTL DEF Spec

-----------------------------------------------------------------------------
FreeRedeems ==
  \A p \in Pack :
    pack[p].status # "active" /\ pack'[p].status = "active" /\ pack'[p].payment = None =>
      \E r \in redemptions' \ redemptions : r.pack = p /\ r.company = pack'[p].company

\* No action but GrantFree turns a pack active without a payment.
LEMMA OnlyGrantGives ==
  ASSUME PackAssumption, Sane, [Next]_vars, NEW p \in Pack,
         pack[p].status # "active", pack'[p].status = "active", pack'[p].payment = None
  PROVE  \E b \in Buyer : GrantFree(b)
  <1>1. pack \in [Pack -> PackRow] /\ pack'[p] # pack[p]
    BY DEF Sane, PackOK
  <1>2. ASSUME NEW b \in Buyer PROVE ~RefreshPending(b)
    <2> SUFFICES ASSUME RefreshPending(b) PROVE FALSE
      OBVIOUS
    <2> DEFINE q == buyer[b].found
               row == Frozen(b, pack[q])
    <2>1. pack' = [pack EXCEPT ![q] = row] /\ q \in Pack
      BY DEF RefreshPending, Sane, BuyerOK, BuyerState
    <2>2. row.status = pack[q].status
      BY <1>1, <2>1 DEF Frozen, PackRow
    <2> HIDE DEF row, q
    <2> QED  BY <1>1, <2>1, <2>2
  <1>3. ASSUME NEW b \in Buyer PROVE ~CreatePending(b)
    <2> SUFFICES ASSUME CreatePending(b) PROVE FALSE
      OBVIOUS
    <2>1. PICK q \in Pack : pack' = [pack EXCEPT ![q] = NewRow(b)]
      BY DEF CreatePending
    <2>2. NewRow(b).status = "pending_payment"
      BY DEF NewRow, Frozen, Absent
    <2> QED  BY <1>1, <2>1, <2>2
  <1>4. ASSUME NEW h \in Hook PROVE ~Activate(h) /\ ~Revert(h)
    <2>1. hook[h].pc # "idle" => Paying(h) \in Pack /\ pack[Paying(h)] \in PackRow /\ hook[h].session # None
      BY Handling, NoneApart
    <2> DEFINE paid == PaidRow(pack[Paying(h)], hook[h].session)
               suspended == RevertedRow(pack[Paying(h)])
    <2>2. hook[h].pc # "idle" => paid.payment # None /\ suspended.status = "pending_payment"
      BY <2>1 DEF PaidRow, RevertedRow, PackRow
    <2>3. Activate(h) => hook[h].pc # "idle" /\ (pack' = pack \/ pack' = [pack EXCEPT ![Paying(h)] = paid])
      BY DEF Activate
    <2>4. Revert(h) => hook[h].pc # "idle" /\ pack' = [pack EXCEPT ![Paying(h)] = suspended]
      BY DEF Revert
    <2> HIDE DEF paid, suspended
    <2> QED  BY <1>1, <2>1, <2>2, <2>3, <2>4
  <1>5. ASSUME NEW co \in Company, NEW st \in Study PROVE ~Consume(co, st)
    <2> SUFFICES ASSUME Consume(co, st) PROVE FALSE
      OBVIOUS
    <2>1. PICK q \in Consumable(co) : pack' = [pack EXCEPT ![q] = ConsumedRow(@)]
      BY DEF Consume
    <2>2. q \in Pack /\ pack[q].status = "active"
      BY ConsumableFits
    <2> QED  BY <1>1, <2>1, <2>2
  <1>6. ASSUME NEW b \in Buyer, BuyerStep(b) \/ AbandonPurchase(b) PROVE GrantFree(b)
    BY <1>1, <1>2, <1>3, <1>6 DEF BuyerStep, FindPending, OpenCheckout, RefuseFree, FreeEffects, AbandonPurchase
  <1>7. ASSUME NEW h \in Hook, HookReceives(h) \/ HookStep(h) \/ CrashHook(h) PROVE FALSE
    BY <1>1, <1>4, <1>7 DEF HookReceives, Receive, ReceiveDuplicate, CrashHook, HookStep, PaidEffects,
       NotifyPaid, RedeemCode, ReportOversold, RecordFailed, AlertReversal, ReleaseCode
  <1>8. CASE \/ \E b \in Buyer, co \in Company, o \in Offering, c \in Codes : StartPurchase(b, co, o, c)
             \/ \E s \in Session : Approve(s) \/ Decline(s) \/ Refund(s)
             \/ \E m \in posted : Resend(m)
             \/ Administer \/ NewDay \/ UNCHANGED vars
    BY <1>1, <1>8 DEF StartPurchase, Approve, Decline, Refund, Charged, Resend, Administer, NewDay, vars
  <1> QED  BY <1>5, <1>6, <1>7, <1>8 DEF Next

LEMMA FreeRedeemsStep ==
  ASSUME PackAssumption, Sane, [Next]_vars
  PROVE  FreeRedeems
  <1> SUFFICES ASSUME NEW p \in Pack, pack[p].status # "active", pack'[p].status = "active",
                      pack'[p].payment = None
               PROVE  \E r \in redemptions' \ redemptions : r.pack = p /\ r.company = pack'[p].company
    BY DEF FreeRedeems
  <1>1. PICK b \in Buyer : GrantFree(b)
    BY OnlyGrantGives
  <1>2. PICK q \in Pack : /\ Promo!Redeem(buyer[b].code, buyer[b].company, q)
                          /\ pack' = [pack EXCEPT ![q] = FreeRow(b, @)]
    BY <1>1 DEF GrantFree
  <1>3. pack \in [Pack -> PackRow]
    BY DEF Sane, PackOK
  <1>4. q = p
    BY <1>2, <1>3
  <1> DEFINE row == FreeRow(b, pack[p])
             r == [code |-> buyer[b].code, company |-> buyer[b].company, pack |-> p]
  <1>5. pack'[p] = row
    BY <1>2, <1>3, <1>4
  <1>6. row.company = buyer[b].company
    BY <1>3 DEF FreeRow, Frozen, PackRow
  <1>7. r \in redemptions' \ redemptions
    BY <1>2, <1>4 DEF Promo!Redeem, Promo!CanRedeem
  <1> HIDE DEF row
  <1> QED  BY <1>5, <1>6, <1>7

\* A pack given for free leaves, in the same step, a redemption that names it.
THEOREM FreeGrantCorrect == Spec => FreeGrantRedeems
  <1>1. Init => Sane
    BY PackAssumption, InitSane
  <1>2. Sane /\ [Next]_vars => Sane'
    BY PackAssumption, NextSane
  <1>3. Sane /\ [Next]_vars => [FreeRedeems]_vars
    BY PackAssumption, FreeRedeemsStep
  <1> QED  BY <1>1, <1>2, <1>3, PTL DEF Spec, FreeGrantRedeems, FreeRedeems
=============================================================================
