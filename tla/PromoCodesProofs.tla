-------------------------- MODULE PromoCodesProofs --------------------------
(***************************************************************************)
(* The ledger of redemptions and its copy in redemptionsCount agree, for   *)
(* any number of codes, companies and packs.                               *)
(*                                                                         *)
(* QuotaMatchesLedger is not inductive by itself: a release subtracts all  *)
(* the rows it deletes, and that these were rows of the one code, counted  *)
(* in its counter, needs the types.  PromoInv adds them.                   *)
(***************************************************************************)
EXTENDS PromoCodes, FiniteSetTheorems, TLAPS

PromoInv == PromoTypeOK /\ OneRedemptionPerCompany /\ QuotaMatchesLedger

\* Taking a subset of a finite set away from it takes its cardinality away.
LEMMA RemoveSubset ==
  ASSUME NEW S, IsFiniteSet(S), NEW D \in SUBSET S
  PROVE  /\ IsFiniteSet(S \ D)
         /\ IsFiniteSet(D)
         /\ Cardinality(S) \in Nat /\ Cardinality(D) \in Nat
         /\ Cardinality(S \ D) = Cardinality(S) - Cardinality(D)
  <1>1. IsFiniteSet(D) /\ IsFiniteSet(S \ D)
    BY FS_Subset, S \ D \in SUBSET S
  <1>2. Cardinality(S) \in Nat /\ Cardinality(D) \in Nat /\ Cardinality(S \ D) \in Nat
    BY <1>1, FS_CardinalityType
  <1>3. Cardinality(D \cup (S \ D)) = Cardinality(D) + Cardinality(S \ D) - Cardinality(D \cap (S \ D))
    BY <1>1, FS_Union
  <1>4. D \cup (S \ D) = S /\ D \cap (S \ D) = {}
    OBVIOUS
  <1>5. Cardinality(D \cap (S \ D)) = 0
    BY <1>4, FS_EmptySet
  <1>6. Cardinality(D \cup (S \ D)) = Cardinality(S)
    BY <1>4
  <1> QED  BY <1>1, <1>2, <1>3, <1>5, <1>6

LEMMA InitEstablishes == ASSUME PromoAssumption, PromoInit PROVE PromoInv
  <1>1. PromoTypeOK /\ OneRedemptionPerCompany
    BY DEF PromoInit, PromoTypeOK, OneRedemptionPerCompany
  <1>2. ASSUME NEW c \in Code PROVE RowsOf(c) = {}
    BY DEF PromoInit, RowsOf
  <1>3. QuotaMatchesLedger
    BY <1>2, FS_EmptySet DEF PromoInit, QuotaMatchesLedger, PromoAssumption
  <1> QED  BY <1>1, <1>3 DEF PromoInv

\* A redemption adds one row to the ledger of its code and to no other.
LEMMA RedeemPreserves ==
  ASSUME PromoAssumption, PromoInv,
         NEW c \in Code, NEW co \in Company, NEW p \in Pack, Redeem(c, co, p)
  PROVE  PromoInv'
  <1> DEFINE row == [code |-> c, company |-> co, pack |-> p]
  <1> USE DEF PromoInv
  <1>1. row \notin redemptions
    BY DEF Redeem, CanRedeem
  <1>2. PromoTypeOK'
    BY DEF Redeem, CanRedeem, PromoTypeOK, Redemption
  <1>3. OneRedemptionPerCompany'
    BY DEF Redeem, CanRedeem, OneRedemptionPerCompany
  <1>4. ASSUME NEW d \in Code
        PROVE  RowsOf(d)' = IF d = c THEN RowsOf(c) \cup {row} ELSE RowsOf(d)
    BY DEF Redeem, RowsOf
  <1>5. Cardinality(RowsOf(c) \cup {row}) = Cardinality(RowsOf(c)) + 1
        /\ IsFiniteSet(RowsOf(c) \cup {row})
    BY <1>1, FS_AddElement DEF QuotaMatchesLedger, RowsOf
  <1>6. QuotaMatchesLedger'
    <2> SUFFICES ASSUME NEW d \in Code
                 PROVE  /\ IsFiniteSet(RowsOf(d)')
                        /\ redemptionsCount'[d] = Cardinality(RowsOf(d)')
                        /\ redemptionsCount'[d] <= MaxRedemptions[d]
      BY DEF QuotaMatchesLedger
    <2>1. CASE d = c
      BY <1>4, <1>5, <2>1 DEF Redeem, CanRedeem, QuotaMatchesLedger, PromoTypeOK, PromoAssumption
    <2>2. CASE d # c
      BY <1>4, <2>2 DEF Redeem, QuotaMatchesLedger, PromoTypeOK
    <2> QED  BY <2>1, <2>2
  <1> QED  BY <1>2, <1>3, <1>6

\* A release deletes only rows of its code, and as many as it subtracts.
LEMMA ReleasePreserves ==
  ASSUME PromoAssumption, PromoInv,
         NEW c \in Code, NEW co \in Company, Release(c, co)
  PROVE  PromoInv'
  <1> DEFINE deleted == {r \in redemptions : r.code = c /\ r.company = co}
             left == redemptionsCount[c] - Cardinality(deleted)
  <1> USE DEF PromoInv
  <1>1. /\ redemptions' = redemptions \ deleted
        /\ redemptionsCount' = [redemptionsCount EXCEPT ![c] = IF left > 0 THEN left ELSE 0]
        /\ UNCHANGED <<listed, enabled, inWindow>>
    BY DEF Release
  <1>2. deleted \in SUBSET RowsOf(c) /\ IsFiniteSet(RowsOf(c))
    BY DEF RowsOf, QuotaMatchesLedger
  <1>3. ASSUME NEW d \in Code
        PROVE  RowsOf(d)' = IF d = c THEN RowsOf(c) \ deleted ELSE RowsOf(d)
    BY <1>1 DEF RowsOf
  <1>4. /\ Cardinality(deleted) \in Nat
        /\ IsFiniteSet(RowsOf(c) \ deleted)
        /\ Cardinality(RowsOf(c) \ deleted) \in Nat
        /\ Cardinality(RowsOf(c) \ deleted) = redemptionsCount[c] - Cardinality(deleted)
    <2> HIDE DEF deleted
    <2>1. IsFiniteSet(RowsOf(c) \ deleted)
      BY <1>2, RemoveSubset
    <2> QED  BY <1>2, <2>1, RemoveSubset, FS_CardinalityType DEF QuotaMatchesLedger
  <1> HIDE DEF deleted
  <1>5. left \in Nat /\ redemptionsCount'[c] = left
    BY <1>1, <1>4 DEF PromoTypeOK
  <1>6. PromoTypeOK'
    BY <1>1, <1>4 DEF PromoTypeOK
  <1>7. OneRedemptionPerCompany'
    BY <1>1 DEF OneRedemptionPerCompany
  <1>8. QuotaMatchesLedger'
    <2> SUFFICES ASSUME NEW d \in Code
                 PROVE  /\ IsFiniteSet(RowsOf(d)')
                        /\ redemptionsCount'[d] = Cardinality(RowsOf(d)')
                        /\ redemptionsCount'[d] <= MaxRedemptions[d]
      BY DEF QuotaMatchesLedger
    <2>1. CASE d = c
      <3>1. RowsOf(d)' = RowsOf(c) \ deleted
        BY <1>3, <2>1
      <3>2. redemptionsCount'[d] = redemptionsCount[c] - Cardinality(deleted)
        BY <1>5, <2>1
      <3>3. /\ redemptionsCount[c] \in Nat /\ MaxRedemptions[c] \in Nat
            /\ redemptionsCount[c] <= MaxRedemptions[c]
        BY DEF QuotaMatchesLedger, PromoTypeOK, PromoAssumption
      <3> QED  BY <1>4, <2>1, <3>1, <3>2, <3>3
    <2>2. CASE d # c
      BY <1>1, <1>3, <2>2 DEF QuotaMatchesLedger, PromoTypeOK
    <2> QED  BY <2>1, <2>2
  <1> QED  BY <1>6, <1>7, <1>8

LEMMA AdminPreserves == ASSUME PromoInv, PromoAdmin PROVE PromoInv'
  <1>1. UNCHANGED <<redemptions, redemptionsCount>>
    BY DEF PromoAdmin, CreateCode, SetActive, SetWindow
  <1>2. PromoTypeOK'
    BY <1>1 DEF PromoInv, PromoTypeOK, PromoAdmin, CreateCode, SetActive, SetWindow
  <1> QED  BY <1>1, <1>2 DEF PromoInv, OneRedemptionPerCompany, QuotaMatchesLedger, RowsOf

LEMMA PromoStep == ASSUME PromoAssumption, PromoInv, [PromoNext]_promoVars PROVE PromoInv'
  <1>1. CASE PromoAdmin
    BY <1>1, AdminPreserves
  <1>2. CASE \E c \in Code, co \in Company, p \in Pack : Redeem(c, co, p)
    BY <1>2, RedeemPreserves
  <1>3. CASE \E c \in Code, co \in Company : Release(c, co)
    BY <1>3, ReleasePreserves
  <1>4. CASE UNCHANGED promoVars
    BY <1>4 DEF promoVars, PromoInv, PromoTypeOK, OneRedemptionPerCompany, QuotaMatchesLedger, RowsOf
  <1> QED  BY <1>1, <1>2, <1>3, <1>4 DEF PromoNext

\* The counter of every code is the number of its redemptions, never more than
\* its quota, and no company redeems a code twice.
THEOREM PromoCorrect == PromoAssumption /\ PromoSpec => []PromoInv
  <1> SUFFICES ASSUME PromoAssumption PROVE PromoSpec => []PromoInv
    OBVIOUS
  <1>1. PromoInit => PromoInv
    BY InitEstablishes
  <1>2. PromoInv /\ [PromoNext]_promoVars => PromoInv'
    BY PromoStep
  <1> QED  BY <1>1, <1>2, PTL DEF PromoSpec
=============================================================================
