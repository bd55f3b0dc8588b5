----------------------------- MODULE Memberships -----------------------------
(***************************************************************************)
(* Who may enter a company: onboarding, invitations and the administration *)
(* of user_companies.  A Person is a Supabase user and their email, a      *)
(* Company its NIT.  A Request reads and checks in one action and writes   *)
(* in the following ones; each write is one statement or one transaction,  *)
(* so the reads may be stale when it happens.                              *)
(*                                                                         *)
(* Left out: the token and the expiry of an invitation (a wrong or an old  *)
(* one is answered before any write, so that request is no step; respond   *)
(* does not look at the expiry), the mails, whose failure is only answered,*)
(* and the lists.  A company cannot be deleted: the scoring configurations *)
(* it is born with refer to it.                                            *)
(***************************************************************************)
EXTENDS Integers

CONSTANTS
  Person, Company, Request,
  Admin,           \* platform administrators
  MaxInvitations,  \* bound: rows of invitations
  MaxEdits         \* bound: writes of the administration of members

Id == 1..MaxInvitations
Role == {"administrator", "auxiliar", "invitado"}
Member == [role : Role, active : BOOLEAN]
NoMember == [role |-> "none", active |-> FALSE]
Status == {"pending", "accepted", "rejected", "canceled"}

ASSUME MembershipsAssumption ==
  /\ MaxInvitations \in Nat /\ MaxEdits \in Nat
  /\ Admin \subseteq Person

VARIABLES
  profile,   \* persons with a profile
  company,   \* companies that exist
  founder,   \* createdBy of the company's first scoring configurations
  member,    \* user_companies, by person and company
  invited,   \* rows of invitations: email, company, role, status
  proc,      \* locals of each request
  edits,     \* writes of the administration of members
  offered,   \* history: whom the portal invited to administer a company
  agreed,    \* history: who onboarded a company or accepted an invitation to it
  appointed  \* history: memberships written by the administration of members

history == <<offered, agreed, appointed>>
rows == <<profile, company, founder, member, invited, edits, history>>
vars == <<rows, proc>>

-----------------------------------------------------------------------------
Invitation == [email : Person, company : Company, role : Role, status : Status]
\* A row not yet inserted.
NoInvitation == [status |-> "none"]

PC == {"onboard", "insert", "reopen", "hold", "register", "accept", "refuse",
       "reject", "withdraw", "close", "toggle", "settle", "join"}
\* role: what a new membership gets, for who accepts an invitation.
Local == [pc : PC, who : Person, co : Company, inv : 0..MaxInvitations, flag : BOOLEAN,
          role : Role]
Idle == [pc |-> "idle"]
Locals(pc, p, c, i, flag) ==
  [pc |-> pc, who |-> p, co |-> c, inv |-> i, flag |-> flag, role |-> "auxiliar"]

\* Types of the rows and of the locals.
TypeOK ==
  /\ profile \subseteq Person
  /\ company \subseteq Company
  /\ founder \in [company -> profile]
  /\ member \in [Person \X Company -> Member \cup {NoMember}]
  /\ invited \in [Id -> Invitation \cup {NoInvitation}]
  /\ proc \in [Request -> Local \cup {Idle}]
  /\ edits \in 0..MaxEdits
  /\ offered \subseteq Person \X Company
  /\ agreed \subseteq Person \X Company
  /\ appointed \subseteq Person \X Company

Init ==
  /\ profile = {} /\ company = {}
  /\ founder = [c \in {} |-> c]
  /\ member = [pc \in Person \X Company |-> NoMember]
  /\ invited = [i \in Id |-> NoInvitation]
  /\ proc = [r \in Request |-> Idle]
  /\ edits = 0 /\ offered = {} /\ agreed = {} /\ appointed = {}

At(r, pc) == proc[r].pc = pc
Load(r, local) == At(r, "idle") /\ proc' = [proc EXCEPT ![r] = local] /\ UNCHANGED rows
Finish(r) == proc' = [proc EXCEPT ![r] = Idle]
Joined(p, c) == member[<<p, c>>] # NoMember
\* isActiveMember, and CompanyAccessGuard.
HasAccess(p, c) == member[<<p, c>>].active \/ p \in Admin
IsPending(i) == invited[i].status = "pending"
For(i, p, c) == invited[i] # NoInvitation /\ invited[i].email = p /\ invited[i].company = c
SetStatus(i, s) == invited' = [invited EXCEPT ![i] = [invited[i] EXCEPT !.status = s]]
SetMember(p, c, m) == member' = [member EXCEPT ![<<p, c>>] = m]
\* Whoever else is about to delete the membership by its id finds no row, not
\* even one made again since, and rolls back.
DeleteMember(p, c) ==
  /\ SetMember(p, c, NoMember)
  /\ proc' = [r \in Request |->
       IF At(r, "withdraw") /\ proc[r].who = p /\ proc[r].co = c THEN Idle ELSE proc[r]]

\* Mutant: the role of the invitation is ignored.
ActivateAsOwner(p, c, role) == SetMember(p, c, [role |-> "administrator", active |-> TRUE])

\* A membership that exists is activated with the role it has.
Activate(p, c, role) ==
  SetMember(p, c, [role |-> IF Joined(p, c) THEN member[<<p, c>>].role ELSE role,
                   active |-> TRUE])

-----------------------------------------------------------------------------
(***************************************************************************)
(* Onboarding: the profile, the company, its owner's membership and its    *)
(* two scoring configurations, in one transaction.                         *)
(***************************************************************************)
BeginOnboard(r, p, c) ==
  /\ c \notin company
  /\ Load(r, Locals("onboard", p, c, 0, FALSE))

\* The NIT is unique: the second of two onboardings rolls back.
Onboard(r) ==
  LET p == proc[r].who  c == proc[r].co IN
  /\ At(r, "onboard")
  /\ Finish(r)
  /\ IF c \in company
     THEN UNCHANGED rows
     ELSE /\ profile' = profile \cup {p}
          /\ company' = company \cup {c}
          /\ founder' = [k \in company \cup {c} |-> IF k = c THEN p ELSE founder[k]]
          /\ SetMember(p, c, [role |-> "administrator", active |-> TRUE])
          /\ agreed' = agreed \cup {<<p, c>>}
          /\ UNCHANGED <<invited, edits, offered, appointed>>

-----------------------------------------------------------------------------
\* A row of invitations.
Insert(i, p, c, role) ==
  /\ invited[i] = NoInvitation /\ \A j \in 1..(i-1) : invited[j] # NoInvitation
  /\ invited' = [invited EXCEPT ![i] =
       [email |-> p, company |-> c, role |-> role, status |-> "pending"]]

\* External: the onboarding of the administrators' portal, which nothing here
\* performs; acceptAndRegister keeps the role of the invitations it writes.
PortalInvites(p, c) ==
  /\ c \in company
  /\ \E i \in Id : Insert(i, p, c, "administrator")
  /\ offered' = offered \cup {<<p, c>>}
  /\ UNCHANGED <<profile, company, founder, member, edits, proc, agreed, appointed>>

(***************************************************************************)
(* create: a rejected row is opened again, otherwise one is inserted.      *)
(* flag: whether the email has a profile when the row is inserted.         *)
(***************************************************************************)
BeginInvite(r, p, c) ==
  /\ c \in company
  /\ ~Joined(p, c)
  /\ ~\E i \in Id : For(i, p, c) /\ IsPending(i)
  /\ profile # {}        \* invited_by refers to a profile
  /\ LET rejected == {i \in Id : For(i, p, c) /\ invited[i].status = "rejected"} IN
     \/ \E i \in rejected :
          Load(r, Locals("reopen", p, c, i, FALSE))
     \/ /\ rejected = {}
        /\ Load(r, Locals("insert", p, c, 0, p \in profile))

\* Mutant: the membership of an invited person is born active.
WaitingActive == [role |-> "invitado", active |-> TRUE]

\* The inactive membership that waits for the answer.
Waiting == [role |-> "invitado", active |-> FALSE]

\* create, or createWithUserCompany, which fails as a whole when the
\* membership exists by now.
InsertInvitation(r) ==
  LET p == proc[r].who  c == proc[r].co  known == proc[r].flag IN
  /\ At(r, "insert")
  /\ Finish(r)
  /\ IF known /\ (Joined(p, c) \/ p \notin profile)
     THEN UNCHANGED rows
     ELSE /\ \E i \in Id : Insert(i, p, c, "invitado")
          /\ IF known THEN SetMember(p, c, Waiting) ELSE member' = member
          /\ UNCHANGED <<edits, profile, company, founder, history>>

\* By id, whatever its status has become.
ReopenInvitation(r) ==
  /\ At(r, "reopen")
  /\ invited' = [invited EXCEPT ![proc[r].inv] =
       [invited[proc[r].inv] EXCEPT !.status = "pending", !.role = "invitado"]]
  /\ proc' = [proc EXCEPT ![r] = [proc[r] EXCEPT !.pc = "hold"]]
  /\ UNCHANGED <<edits, profile, company, founder, member, history>>

HoldMembership(r) ==
  LET p == proc[r].who  c == proc[r].co IN
  /\ At(r, "hold")
  /\ Finish(r)
  /\ IF p \in profile /\ ~Joined(p, c) THEN SetMember(p, c, Waiting) ELSE member' = member
  /\ UNCHANGED <<profile, company, founder, invited, edits, history>>

-----------------------------------------------------------------------------
(***************************************************************************)
(* The answers.                                                            *)
(***************************************************************************)
Answer(r, i, pc) ==
  /\ IsPending(i)
  /\ Load(r, Locals(pc, invited[i].email, invited[i].company, i, FALSE))

\* acceptAndRegister: for who has no profile yet, with the role that the
\* invitation has when it is read.
BeginRegister(r, i) ==
  /\ IsPending(i) /\ invited[i].email \notin profile
  /\ Load(r, [Locals("register", invited[i].email, invited[i].company, i, FALSE)
               EXCEPT !.role = invited[i].role])

Register(r) ==
  LET p == proc[r].who  c == proc[r].co IN
  /\ At(r, "register")
  /\ Finish(r)
  /\ IF p \in profile
     THEN UNCHANGED rows
     ELSE /\ profile' = profile \cup {p}
          /\ SetStatus(proc[r].inv, "accepted")
          /\ Activate(p, c, proc[r].role)
          /\ agreed' = agreed \cup {<<p, c>>}
          /\ UNCHANGED <<edits, company, founder, offered, appointed>>

\* respond.
BeginRespond(r, i) == Answer(r, i, "accept") \/ Answer(r, i, "refuse")

\* Without a profile the new membership refers to nobody and all is rolled back.
AcceptInvitation(r) ==
  LET p == proc[r].who  c == proc[r].co IN
  /\ At(r, "accept")
  /\ Finish(r)
  /\ IF p \notin profile
     THEN UNCHANGED rows
     ELSE /\ SetStatus(proc[r].inv, "accepted")
          /\ Activate(p, c, proc[r].role)
          /\ agreed' = agreed \cup {<<p, c>>}
          /\ UNCHANGED <<edits, profile, company, founder, offered, appointed>>

RefuseInvitation(r) ==
  /\ At(r, "refuse")
  /\ Finish(r)
  /\ SetStatus(proc[r].inv, "rejected")
  /\ UNCHANGED <<edits, profile, company, founder, member, history>>

\* rejectPublic, by the link of the mail.
BeginReject(r, i) == Answer(r, i, "reject")

\* cancelInvitation looks at the membership and then deletes it by id, in one
\* transaction under READ COMMITTED.
ReadMembership(r) ==
  LET m == member[<<proc[r].who, proc[r].co>>] IN
  /\ At(r, "reject")
  /\ proc' = [proc EXCEPT ![r] = [proc[r] EXCEPT
                !.pc = IF m # NoMember /\ ~m.active THEN "withdraw" ELSE "close"]]
  /\ UNCHANGED rows

\* The membership may be active by now.
RejectInvitation(r) ==
  /\ \/ At(r, "withdraw") /\ DeleteMember(proc[r].who, proc[r].co)
     \/ At(r, "close") /\ Finish(r) /\ member' = member
  /\ SetStatus(proc[r].inv, "rejected")
  /\ UNCHANGED <<edits, profile, company, founder, history>>

-----------------------------------------------------------------------------
(***************************************************************************)
(* toggleUserStatus: the membership, then the invitation.  flag: on or off.*)
(***************************************************************************)
MayToggle(i) == invited[i].status \in {"accepted", "canceled"}

BeginToggle(r, i, on) ==
  /\ MayToggle(i)
  /\ invited[i].email \in profile
  /\ Load(r, Locals("toggle", invited[i].email, invited[i].company, i, on))

ToggleMembership(r) ==
  LET p == proc[r].who  c == proc[r].co IN
  /\ At(r, "toggle")
  /\ IF Joined(p, c)
     THEN /\ SetMember(p, c, [member[<<p, c>>] EXCEPT !.active = proc[r].flag])
          /\ proc' = [proc EXCEPT ![r] = [proc[r] EXCEPT !.pc = "settle"]]
     ELSE Finish(r) /\ member' = member
  /\ UNCHANGED <<profile, company, founder, invited, edits, history>>

SettleInvitation(r) ==
  /\ At(r, "settle")
  /\ Finish(r)
  /\ SetStatus(proc[r].inv, IF proc[r].flag THEN "accepted" ELSE "canceled")
  /\ UNCHANGED <<edits, profile, company, founder, member, history>>

-----------------------------------------------------------------------------
(***************************************************************************)
(* user-companies, for who has access to the company.                      *)
(***************************************************************************)
Edit == edits < MaxEdits /\ edits' = edits + 1

SomeoneWithAccess(c) == \E p \in profile : HasAccess(p, c)

BeginJoin(r, p, c) ==
  /\ edits < MaxEdits
  /\ SomeoneWithAccess(c) /\ c \in company /\ p \in profile /\ ~Joined(p, c)
  /\ Load(r, Locals("join", p, c, 0, FALSE))

\* The new row is active by default; it is unique.
Join(r) ==
  LET p == proc[r].who  c == proc[r].co IN
  /\ At(r, "join")
  /\ Finish(r)
  /\ IF Joined(p, c) \/ p \notin profile \/ edits = MaxEdits
     THEN UNCHANGED rows
     ELSE /\ \E role \in Role : SetMember(p, c, [role |-> role, active |-> TRUE])
          /\ appointed' = appointed \cup {<<p, c>>}
          /\ Edit
          /\ UNCHANGED <<profile, company, founder, invited, offered, agreed>>

UpdateMember(p, c) ==
  /\ SomeoneWithAccess(c) /\ Joined(p, c)
  /\ \E m \in Member : SetMember(p, c, m)
  /\ appointed' = appointed \cup {<<p, c>>}
  /\ Edit
  /\ UNCHANGED <<profile, company, founder, invited, proc, offered, agreed>>

RemoveMember(p, c) ==
  /\ SomeoneWithAccess(c) /\ Joined(p, c)
  /\ DeleteMember(p, c)
  /\ Edit
  /\ UNCHANGED <<profile, company, founder, invited, history>>

\* Mutant: only memberships keep a profile.
RemovableAlone(p) == ~\E c \in Company : Joined(p, c)

\* Not with memberships; a founder is kept by the reference of the scoring
\* configurations of the company.
Removable(p) == ~(\E c \in Company : Joined(p, c)) /\ ~\E c \in company : founder[c] = p

\* profiles.remove.
RemoveProfile(p) ==
  /\ p \in profile
  /\ Removable(p)
  /\ profile' = profile \ {p}
  /\ UNCHANGED <<company, founder, member, invited, proc, edits, history>>

-----------------------------------------------------------------------------
Begin(r) ==
  \/ \E p \in Person, c \in Company :
       BeginOnboard(r, p, c) \/ BeginInvite(r, p, c) \/ BeginJoin(r, p, c)
  \/ \E i \in Id :
       \/ BeginRegister(r, i) \/ BeginRespond(r, i) \/ BeginReject(r, i)
       \/ \E on \in BOOLEAN : BeginToggle(r, i, on)

Continue(r) ==
  \/ Onboard(r)
  \/ InsertInvitation(r) \/ ReopenInvitation(r) \/ HoldMembership(r)
  \/ Register(r) \/ AcceptInvitation(r) \/ RefuseInvitation(r)
  \/ ReadMembership(r) \/ RejectInvitation(r)
  \/ ToggleMembership(r) \/ SettleInvitation(r)
  \/ Join(r)

Next ==
  \/ \E r \in Request : Begin(r) \/ Continue(r)
  \/ \E p \in Person, c \in Company :
       PortalInvites(p, c) \/ UpdateMember(p, c) \/ RemoveMember(p, c)
  \/ \E p \in Person : RemoveProfile(p)

Spec == Init /\ [][Next]_vars

-----------------------------------------------------------------------------
(***************************************************************************)
(* Properties.                                                             *)
(***************************************************************************)

\* An active member said yes, by onboarding the company or by accepting an
\* invitation, or was put there by the administration of members: neither an
\* invitation nor a switch of an old one makes a member of who never answered.
ActiveByOwnAct ==
  \A p \in Person, c \in Company :
    member[<<p, c>>].active => <<p, c>> \in agreed \cup appointed

\* An administrator founded the company, was appointed by the administration of
\* members, or accepted an invitation that the portal wrote to give that role to
\* that person in that company: no other invitation gives it, though a row is
\* opened again with another role while its answer is on its way, though two
\* invitations of one person are answered, and though a switch or an answer
\* finds a membership that was made for something else.
AdministratorByRight ==
  \A p \in Person, c \in company :
    member[<<p, c>>].role = "administrator" =>
      p = founder[c] \/ <<p, c>> \in appointed \cup (offered \cap agreed)
=============================================================================
