---------------------------- MODULE PortalAdmins ----------------------------
(***************************************************************************)
(* The users of the administration portal.  Each has an account in Supabase*)
(* Auth, made first, and a row of platform_admins; a row that cannot be    *)
(* inserted takes its account with it, if Supabase agrees.  A person is    *)
(* known by their email.                                                   *)
(*                                                                         *)
(* Left out: names, telephones, photographs and passwords.                 *)
(***************************************************************************)
EXTENDS Integers

CONSTANTS
  Email,
  Client,         \* people of the clients, with accounts of their own
  Root,           \* the first administrator
  Manager,        \* requests to the administration of the portal
  MaxPortalFaults \* bound: failures of Supabase, of the database, of the server

ASSUME PortalAssumption ==
  /\ Client \subseteq Email /\ Root \in Email \ Client
  /\ MaxPortalFaults \in Nat

VARIABLES
  account,     \* emails with an account in Supabase Auth
  admin,       \* platform_admins, by email
  managing,    \* locals of each request
  portalFaults,
  stray        \* history: emails whose account a failure left behind

portalVars == <<account, admin, managing, portalFaults, stray>>

-----------------------------------------------------------------------------
AdminRole == {"admin", "support", "sales"}
AdminRow == [role : AdminRole, active : BOOLEAN]
NoAdmin == [role |-> "none", active |-> FALSE]
Idle == [pc |-> "idle"]
Managing == [pc : {"account", "row", "undo", "edit"}, email : Email, role : AdminRole,
             active : BOOLEAN, field : {"role", "active"}]

PortalTypeOK ==
  /\ account \subseteq Email
  /\ admin \in [Email -> AdminRow \cup {NoAdmin}]
  /\ managing \in [Manager -> Managing \cup {Idle}]
  /\ portalFaults \in 0..MaxPortalFaults
  /\ stray \subseteq Email

PortalInit ==
  /\ account = Client \cup {Root}
  /\ admin = [e \in Email |-> IF e = Root THEN [role |-> "admin", active |-> TRUE] ELSE NoAdmin]
  /\ managing = [m \in Manager |-> Idle]
  /\ portalFaults = 0 /\ stray = {}

ManagerAt(m, pc) == managing[m].pc = pc
ManageNext(m, pc) == managing' = [managing EXCEPT ![m] = [managing[m] EXCEPT !.pc = pc]]
ManageDone(m) == managing' = [managing EXCEPT ![m] = Idle]
PortalFault == portalFaults < MaxPortalFaults /\ portalFaults' = portalFaults + 1

\* AdminGuard: a row that is active.
IsPlatformAdmin(e) == admin[e].active
\* assertCallerIsAdmin: with the role 'admin'.
MayManage(e) == IsPlatformAdmin(e) /\ admin[e].role = "admin"
\* The screens of getMyScreens.
Screens(e) == IF admin[e] = NoAdmin THEN "forbidden"
              ELSE IF ~admin[e].active THEN "unauthorized"
              ELSE IF admin[e].role = "admin" THEN "all" ELSE "base"

-----------------------------------------------------------------------------
(***************************************************************************)
(* Creation.                                                               *)
(***************************************************************************)
BeginCreateAdmin(m, e, role) ==
  /\ ManagerAt(m, "idle")
  /\ \E caller \in Email : MayManage(caller)
  /\ admin[e] = NoAdmin
  /\ managing' = [managing EXCEPT ![m] = [pc |-> "account", email |-> e, role |-> role,
                                          active |-> TRUE, field |-> "role"]]
  /\ UNCHANGED <<account, admin, portalFaults, stray>>

\* Mutant: an account that is already there is taken for the one asked for.
AskAccountAgain(m) ==
  LET e == managing[m].email IN
  /\ ManagerAt(m, "account")
  /\ ManageNext(m, "row")
  /\ account' = account \cup {e}
  /\ UNCHANGED <<admin, portalFaults, stray>>

\* Supabase refuses an email that has an account.
AskAccount(m) ==
  LET e == managing[m].email IN
  /\ ManagerAt(m, "account")
  /\ IF e \in account THEN ManageDone(m) ELSE ManageNext(m, "row")
  /\ account' = account \cup {e}
  /\ UNCHANGED <<admin, portalFaults, stray>>

\* Supabase fails, before making the account or after it.
AccountFails(m) ==
  LET e == managing[m].email IN
  /\ ManagerAt(m, "account")
  /\ PortalFault
  /\ ManageDone(m)
  /\ \/ UNCHANGED <<account, stray>>
     \/ e \notin account /\ account' = account \cup {e} /\ stray' = stray \cup {e}
  /\ UNCHANGED admin

InsertAdmin(m) ==
  LET l == managing[m] IN
  /\ ManagerAt(m, "row")
  /\ admin' = [admin EXCEPT ![l.email] = [role |-> l.role, active |-> TRUE]]
  /\ ManageDone(m)
  /\ UNCHANGED <<account, portalFaults, stray>>

InsertAdminFails(m) ==
  /\ ManagerAt(m, "row")
  /\ PortalFault
  /\ ManageNext(m, "undo")
  /\ UNCHANGED <<account, admin, stray>>

DeleteAccount(m) ==
  /\ ManagerAt(m, "undo")
  /\ account' = account \ {managing[m].email}
  /\ ManageDone(m)
  /\ UNCHANGED <<admin, portalFaults, stray>>

\* deleteUser only logs its failure.
DeleteAccountFails(m) ==
  /\ ManagerAt(m, "undo")
  /\ PortalFault
  /\ stray' = stray \cup {managing[m].email}
  /\ ManageDone(m)
  /\ UNCHANGED <<account, admin>>

\* The server stops: what the requests had done stays.
PortalCrash ==
  LET half == {m \in Manager : managing[m].pc \in {"row", "undo"}} IN
  /\ \E m \in Manager : ~ManagerAt(m, "idle")
  /\ PortalFault
  /\ stray' = stray \cup {managing[m].email : m \in half}
  /\ managing' = [m \in Manager |-> Idle]
  /\ UNCHANGED <<account, admin>>

-----------------------------------------------------------------------------
(***************************************************************************)
(* Administration: updatePlatformAdmin, deactivatePlatformAdmin and        *)
(* activatePlatformAdmin.  Nothing keeps the last administrator from       *)
(* leaving.                                                                *)
(***************************************************************************)
BeginEditAdmin(m, e, role, active, field) ==
  /\ ManagerAt(m, "idle")
  /\ \E caller \in Email : MayManage(caller)
  /\ admin[e] # NoAdmin
  /\ managing' = [managing EXCEPT ![m] = [pc |-> "edit", email |-> e, role |-> role,
                                          active |-> active, field |-> field]]
  /\ UNCHANGED <<account, admin, portalFaults, stray>>

EditAdmin(m) ==
  LET l == managing[m]  row == admin[l.email] IN
  /\ ManagerAt(m, "edit")
  /\ admin' = [admin EXCEPT ![l.email] =
                 IF l.field = "role" THEN [role |-> l.role, active |-> row.active]
                 ELSE [role |-> row.role, active |-> l.active]]
  /\ ManageDone(m)
  /\ UNCHANGED <<account, portalFaults, stray>>

PortalNext ==
  \/ \E m \in Manager, e \in Email, role \in AdminRole : BeginCreateAdmin(m, e, role)
  \/ \E m \in Manager, e \in Email, role \in AdminRole, active \in BOOLEAN,
        field \in {"role", "active"} : BeginEditAdmin(m, e, role, active, field)
  \/ \E m \in Manager :
        \/ AskAccount(m) \/ AccountFails(m) \/ InsertAdmin(m) \/ InsertAdminFails(m)
        \/ DeleteAccount(m) \/ DeleteAccountFails(m) \/ EditAdmin(m)
  \/ PortalCrash

-----------------------------------------------------------------------------
\* An account a creation has made and not yet given a row.
InTransit(e) == \E m \in Manager : managing[m].pc \in {"row", "undo"} /\ managing[m].email = e

\* Every account is a client's, an administrator's, that of a creation under
\* way, or one that a named failure left behind, and every administrator has
\* the account they enter with: the rollback of createPlatformAdmin takes back
\* the account this creation made and no other one's, with creations of one
\* email side by side and failures at every step.
AccountsBelong ==
  /\ \A e \in account : e \in Client \/ admin[e] # NoAdmin \/ InTransit(e) \/ e \in stray
  /\ \A e \in Email : admin[e] # NoAdmin \/ e \in Client => e \in account
=============================================================================
