----------------------------- MODULE BackOffice -----------------------------
(***************************************************************************)
(* The parts of the service that work beside the studies and the packs: the*)
(* users of the portal, the support tickets they handle, the blog they     *)
(* write and the scoring configurations of a company.  They share nothing  *)
(* but the users, so each behaviour is at one desk and leaves the rest as  *)
(* it is: the states of the desks add up instead of multiplying.           *)
(***************************************************************************)
EXTENDS SupportTickets, BlogPosts, ScoringVersions

VARIABLE desk

vars == <<desk, portalVars, ticketVars, blogVars, versionVars>>

Desk == {"portal", "tickets", "blog", "scoring"}

Init ==
  /\ desk \in Desk
  /\ PortalInit /\ TicketsInit /\ BlogInit /\ VersionsInit

Portal == desk = "portal" /\ PortalNext /\ UNCHANGED <<ticketVars, blogVars, versionVars>>
Tickets == desk = "tickets" /\ TicketsNext /\ UNCHANGED <<portalVars, blogVars, versionVars>>
Blog == desk = "blog" /\ BlogNext /\ UNCHANGED <<portalVars, ticketVars, versionVars>>
Versions == desk = "scoring" /\ VersionsNext /\ UNCHANGED <<portalVars, ticketVars, blogVars>>

Next == (Portal \/ Tickets \/ Blog \/ Versions) /\ UNCHANGED desk

Spec == Init /\ [][Next]_vars

\* Types of the rows and of the locals of every desk.
TypeOK == desk \in Desk /\ PortalTypeOK /\ TicketsTypeOK /\ BlogTypeOK /\ VersionsTypeOK
=============================================================================
