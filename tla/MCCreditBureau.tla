--------------------------- MODULE MCCreditBureau ---------------------------
(***************************************************************************)
(* Small instances of CreditBureau and CustomerAuthorizations.             *)
(***************************************************************************)
EXTENDS CreditBureau, TLC

InterchangeableIds == Permutations(Request)
=============================================================================
