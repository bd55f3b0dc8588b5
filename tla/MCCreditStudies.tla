--------------------------- MODULE MCCreditStudies --------------------------
(***************************************************************************)
(* Small instances of CreditStudies.  A behaviour plays one of two scenes, *)
(* so that their states add up instead of multiplying, and the study it    *)
(* begins with says which: with one of Contested, a rival issues a note at *)
(* the same time as another request, and nothing fails; with any other,    *)
(* one request at a time races with the webhooks, and calls fail.          *)
(***************************************************************************)
EXTENDS CreditStudies

CONSTANTS
  Contested, \* studies with a rival
  Rival      \* the requests that only issue, beside another one

Exists(s) == study[s].status # "absent"
Begins(p) == proc[p].pc = "idle" /\ proc'[p].pc # "idle"
AnotherIssues == \E q \in Request \ Rival : proc[q].pc \in {"count", "number", "insert"}

\* Once a contested study is viable, only notes are issued and declined.
OnContested ==
  /\ faults' = 0
  /\ \A p \in Rival : Begins(p) => proc'[p].pc = "count" /\ AnotherIssues
  /\ \A p \in Request \ Rival, s \in Contested :
       Begins(p) /\ study[s].viability = "viable" => proc'[p].pc \in {"count", "decline"}

OneScene ==
  /\ \A s, t \in Study : Exists(s)' /\ Exists(t)' => s = t
  /\ IF \E s \in Contested : Exists(s)
     THEN OnContested ELSE \A p \in Rival : ~Begins(p)
=============================================================================
