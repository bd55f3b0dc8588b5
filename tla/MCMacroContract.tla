--------------------------- MODULE MCMacroContract --------------------------
(***************************************************************************)
(* Small instances of MacroContract.  Two senders, two deliveries, three   *)
(* documents and a failure at once are too many states, and each overlap   *)
(* needs a part of them only: a behaviour has a cast, chosen at its start. *)
(***************************************************************************)
EXTENDS MacroContract

VARIABLE cast  \* who takes part, and the bounds of the behaviour

OneOf(S) == {CHOOSE x \in S : TRUE}

\* A contract refused and sent again while two deliveries are handled; the
\* same one delivery at a time, with the views; two requests at once, the first
\* time and after a refusal; and two of each.
Casts ==
  LET two == {d \in Doc : d <= 2}
      Cast(processes, docs, opened, n) ==
        [process |-> processes, docs |-> docs, opened |-> opened, faults |-> n]
  IN  {Cast(OneOf(Sender) \cup Hook, two, {}, MaxFaults),
       Cast(OneOf(Sender) \cup OneOf(Hook), two, two, MaxFaults),
       Cast(Sender \cup OneOf(Hook), Doc, {}, 0),
       Cast(Process, two, {}, 0)}

MCInit == Init /\ cast \in Casts

MCNext ==
  /\ Next
  /\ \A p \in Process \ cast.process : proc'[p] = Idle
  /\ \A d \in Doc \ cast.docs : doc'[d] = NoDocument
  /\ \A d \in Doc \ cast.opened : ~doc'[d].opened
  /\ faults' <= cast.faults
  /\ UNCHANGED cast

\* FairSpec, of the deliveries that take part.
MCSpec ==
  /\ MCInit /\ [][MCNext]_<<vars, cast>>
  /\ \A h \in Hook : WF_vars(h \in cast.process /\ Handle(h))
  /\ \A d \in Doc : WF_vars(CreditiaStamp(d))
=============================================================================
