-------------------------- MODULE MCAnalysisPacks ---------------------------
(***************************************************************************)
(* Small instances of AnalysisPacks.  Prices are the integers of Price; a  *)
(* code of FullCode covers the whole price and any other code half of it.  *)
(***************************************************************************)
EXTENDS AnalysisPacks, TLC

CONSTANTS FullCode,    \* codes with a discount of 100%
          Credits2,    \* offerings of two credits; the others have one
          LocalTo      \* the company of the codes of scope company

MCQuantity == [o \in Offering |-> IF o \in Credits2 THEN 2 ELSE 1]
MCValidityDays == [o \in Offering |-> 0]
MCCharge == [x \in Offering \X Price \X Codes |->
               IF x[3] = None THEN x[2]
               ELSE IF x[3] \in FullCode THEN 0 ELSE x[2] \div 2]
MCMaxRedemptions == [c \in Code |-> 1]
MCScope == [c \in Code |-> IF c \in FullCode THEN Company ELSE {LocalTo}]

InterchangeableIds == Permutations(Session) \cup Permutations(Study)
                        \cup Permutations(Hook) \cup Permutations(Buyer)
=============================================================================
