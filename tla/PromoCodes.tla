----------------------------- MODULE PromoCodes -----------------------------
(***************************************************************************)
(* Promotional codes (promo-codes.service.ts, promo-codes.repository.ts).  *)
(* A code has a quota of redemptions; a company redeems it at most once,   *)
(* when the purchase it discounts is confirmed, and gives the redemption   *)
(* back when that payment is reversed.  redemptionsCount is a copy of the  *)
(* size of the ledger promo_code_redemptions, kept in step with it by the  *)
(* two transactions Redeem and Release.                                    *)
(*                                                                         *)
(* Each transaction is one action: redeemInTx locks the row of the code    *)
(* (SELECT ... FOR UPDATE) before it reads the quota, and releaseRedemption*)
(* deletes and decrements under the locks of its two statements.           *)
(***************************************************************************)
EXTENDS Integers, FiniteSets

CONSTANTS Code,            \* ids of promotional codes
          Company,         \* ids of companies
          Pack,            \* ids of the packs a redemption may be recorded for
          MaxRedemptions,  \* max_redemptions of each code, immutable
          Scope            \* companies a code may be used by, immutable

(***************************************************************************)
(* What create() makes sure of: a code of scope 'company' belongs to one   *)
(* company and has a quota of one; a code of scope 'global' is for every   *)
(* company.  A hypothesis of the theorems, assumed where the codes live.   *)
(***************************************************************************)
PromoAssumption ==
  /\ MaxRedemptions \in [Code -> Nat \ {0}]
  /\ Scope \in [Code -> SUBSET Company]
  /\ \A c \in Code : \/ Scope[c] = Company
                     \/ MaxRedemptions[c] = 1 /\ \E co \in Company : Scope[c] = {co}

VARIABLES listed,            \* codes that exist
          enabled,           \* codes whose is_active is true
          inWindow,          \* codes whose valid_from..valid_until contains now
          redemptionsCount,  \* redemptions_count of each code
          redemptions        \* rows of promo_code_redemptions

promoVars == <<listed, enabled, inWindow, redemptionsCount, redemptions>>

Redemption == [code : Code, company : Company, pack : Pack]

\* The ledger rows of a code.
RowsOf(c) == {r \in redemptions : r.code = c}

PromoInit ==
  /\ listed = {}
  /\ enabled = {}
  /\ inWindow = {}
  /\ redemptionsCount = [c \in Code |-> 0]
  /\ redemptions = {}

-----------------------------------------------------------------------------
(***************************************************************************)
(* Administration.  Only is_active and the validity dates can be edited;   *)
(* the passing of time moves a code in or out of its window just as an     *)
(* edit of the dates does.  No operation deletes a code.                   *)
(***************************************************************************)
CreateCode(c) ==
  /\ c \notin listed
  /\ listed' = listed \cup {c}
  /\ enabled' \in {enabled, enabled \cup {c}}
  /\ inWindow' \in {inWindow, inWindow \cup {c}}
  /\ UNCHANGED <<redemptionsCount, redemptions>>

SetActive(c) ==
  /\ c \in listed
  /\ enabled' \in {enabled \cup {c}, enabled \ {c}}
  /\ UNCHANGED <<listed, inWindow, redemptionsCount, redemptions>>

SetWindow(c) ==
  /\ c \in listed
  /\ inWindow' \in {inWindow \cup {c}, inWindow \ {c}}
  /\ UNCHANGED <<listed, enabled, redemptionsCount, redemptions>>

-----------------------------------------------------------------------------
\* Mutant: the quota was checked when the purchase started, not again.
CanRedeemUncounted(c, co) ==
  /\ c \in listed \cap enabled \cap inWindow
  /\ \A r \in redemptions : ~(r.code = c /\ r.company = co)

\* The checks redeemInTx repeats under the lock of the code.
CanRedeem(c, co) ==
  /\ c \in listed \cap enabled \cap inWindow
  /\ redemptionsCount[c] < MaxRedemptions[c]
  /\ \A r \in redemptions : ~(r.code = c /\ r.company = co)

\* Mutant: the scope of the code is not looked at.
ValidForAnyone(c, co) == CanRedeem(c, co)

\* validateForPurchase: the same checks and the scope, read without a lock.
ValidForPurchase(c, co) == CanRedeem(c, co) /\ co \in Scope[c]

\* Mutant: the counter goes up and the row is not written.
RedeemUnrecorded(c, co, p) ==
  /\ CanRedeem(c, co)
  /\ redemptionsCount' = [redemptionsCount EXCEPT ![c] = @ + 1]
  /\ UNCHANGED <<listed, enabled, inWindow, redemptions>>

\* redeemInTx with result ok: the ledger row and the counter, together.
Redeem(c, co, p) ==
  /\ CanRedeem(c, co)
  /\ redemptions' = redemptions \cup {[code |-> c, company |-> co, pack |-> p]}
  /\ redemptionsCount' = [redemptionsCount EXCEPT ![c] = @ + 1]
  /\ UNCHANGED <<listed, enabled, inWindow>>

\* releaseRedemption: the row of this company for this code, whatever the
\* pack it was redeemed for; the counter goes down by the rows deleted.
Release(c, co) ==
  LET deleted == {r \in redemptions : r.code = c /\ r.company = co}
      left    == redemptionsCount[c] - Cardinality(deleted)
  IN  /\ redemptions' = redemptions \ deleted
      /\ redemptionsCount' = [redemptionsCount EXCEPT ![c] = IF left > 0 THEN left ELSE 0]
      /\ UNCHANGED <<listed, enabled, inWindow>>

PromoAdmin == \E c \in Code : CreateCode(c) \/ SetActive(c) \/ SetWindow(c)

PromoNext ==
  \/ PromoAdmin
  \/ \E c \in Code, co \in Company, p \in Pack : Redeem(c, co, p)
  \/ \E c \in Code, co \in Company : Release(c, co)

PromoSpec == PromoInit /\ [][PromoNext]_promoVars

-----------------------------------------------------------------------------
\* The values the columns and the ledger range over.
PromoTypeOK ==
  /\ listed \subseteq Code
  /\ enabled \subseteq listed
  /\ inWindow \subseteq listed
  /\ redemptionsCount \in [Code -> Nat]
  /\ redemptions \subseteq Redemption
  /\ \A r \in redemptions : r.code \in listed

\* One company, one redemption of a code: the @@unique of the ledger is never
\* what stops a second redemption, so no redemption fails half way.
OneRedemptionPerCompany ==
  \A r, s \in redemptions : r.code = s.code /\ r.company = s.company => r = s

\* redemptions_count is always the number of ledger rows of the code, so that
\* the floor at 0 of a release is never reached with rows left, and neither
\* exceeds the quota.
QuotaMatchesLedger ==
  \A c \in Code :
    /\ IsFiniteSet(RowsOf(c))
    /\ redemptionsCount[c] = Cardinality(RowsOf(c))
    /\ redemptionsCount[c] <= MaxRedemptions[c]
=============================================================================
