--------------------------- MODULE CreditAccounts ---------------------------
(***************************************************************************)
(* What a prepaid pack of analyses promises, without payments, sessions or *)
(* handlers.  A pack is an account with a size fixed when it is opened.    *)
(* Granting makes its credits spendable, revoking stops that; a study      *)
(* spends exactly one credit of one spendable account and never more than  *)
(* its size; and a credit that was spent is never given back, so that an   *)
(* account granted again resumes with what it had left.                    *)
(***************************************************************************)
EXTENDS Integers

CONSTANTS Account, Size    \* Size: the sizes an account may be opened with

VARIABLES size,            \* credits of each account, 0 while it does not exist
          spendable,       \* accounts whose credits can be spent
          spent            \* credits already spent of each account

accountVars == <<size, spendable, spent>>

Init ==
  /\ size = [a \in Account |-> 0]
  /\ spendable = {}
  /\ spent = [a \in Account |-> 0]

Open(a, n) ==
  /\ size[a] = 0
  /\ size' = [size EXCEPT ![a] = n]
  /\ spendable' \in {spendable, spendable \cup {a}}
  /\ UNCHANGED spent

Grant(a) ==
  /\ size[a] > 0
  /\ a \notin spendable
  /\ spendable' = spendable \cup {a}
  /\ UNCHANGED <<size, spent>>

Revoke(a) ==
  /\ a \in spendable
  /\ spendable' = spendable \ {a}
  /\ UNCHANGED <<size, spent>>

Spend(a) ==
  /\ a \in spendable
  /\ spent[a] < size[a]
  /\ spent' = [spent EXCEPT ![a] = @ + 1]
  /\ UNCHANGED <<size, spendable>>

Next ==
  \E a \in Account :
    \/ \E n \in Size : Open(a, n)
    \/ Grant(a) \/ Revoke(a) \/ Spend(a)

Spec == Init /\ [][Next]_accountVars
=============================================================================
