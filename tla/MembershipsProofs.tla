------------------------- MODULE MembershipsProofs --------------------------
(***************************************************************************)
(* Who may enter a company, for any number of persons, companies, requests *)
(* and invitations.  The properties of a membership rest on what the rows  *)
(* of the invitations and the requests under way remember of the answers.  *)
(***************************************************************************)
EXTENDS Memberships, TLAPS

\* The invitations are of companies that exist, offer their administration only
\* where the portal did, and are accepted, or switched after that, of who agreed.
InvitationsInv ==
  /\ invited \in [Id -> Invitation \cup {NoInvitation}]
  /\ \A i \in Id : invited[i] # NoInvitation => invited[i].company \in company
  /\ \A i \in Id : invited[i] # NoInvitation /\ invited[i].role = "administrator" =>
       <<invited[i].email, invited[i].company>> \in offered
  /\ \A i \in Id : invited[i].status \in {"accepted", "canceled"} =>
       <<invited[i].email, invited[i].company>> \in agreed

\* The members are of companies that exist.
MembersInv ==
  /\ member \in [Person \X Company -> Member \cup {NoMember}]
  /\ \A p \in Person, c \in Company : Joined(p, c) => c \in company
  /\ ActiveByOwnAct /\ AdministratorByRight

TablesType ==
  /\ profile \subseteq Person /\ company \subseteq Company
  /\ founder \in [company -> profile]
  /\ edits \in 0..MaxEdits
  /\ offered \subseteq Person \X Company
  /\ agreed \subseteq Person \X Company /\ appointed \subseteq Person \X Company

\* What the locals of a request still say of the rows: the company exists, the
\* invitation is of that person and company, a switch is of who agreed, and the
\* role that goes with a yes was offered.
OnInvitation == {"reopen", "register", "accept", "refuse", "reject", "withdraw", "close",
                 "toggle", "settle"}
Sound(l) ==
  /\ l.pc \notin {"idle", "onboard"} => l.co \in company
  /\ l.pc \in OnInvitation =>
       /\ l.inv \in Id /\ invited[l.inv] # NoInvitation
       /\ invited[l.inv].email = l.who /\ invited[l.inv].company = l.co
  /\ l.pc \in {"toggle", "settle"} => <<l.who, l.co>> \in agreed
  /\ l.pc \in {"register", "accept"} /\ l.role = "administrator" =>
       <<l.who, l.co>> \in offered

RequestsInv ==
  /\ proc \in [Request -> Local \cup {Idle}]
  /\ \A r \in Request : Sound(proc[r])

IInv == TablesType /\ InvitationsInv /\ MembersInv /\ RequestsInv

USE DEF history

-----------------------------------------------------------------------------
(***************************************************************************)
(* Helpers.                                                                *)
(***************************************************************************)
\* What a request may count on: companies, offers and agreements stay, and so does the
\* person and the company of an invitation.
Lasting ==
  /\ company \subseteq company' /\ agreed \subseteq agreed' /\ offered \subseteq offered'
  /\ \A i \in Id : invited[i] # NoInvitation =>
       /\ invited'[i] # NoInvitation
       /\ invited'[i].email = invited[i].email /\ invited'[i].company = invited[i].company

LEMMA SoundLasts == ASSUME Lasting, NEW l, Sound(l) PROVE Sound(l)'
  BY DEF Lasting, Sound

\* A request has the fields of one.
LEMMA Busy ==
  ASSUME RequestsInv, NEW r \in Request, proc[r].pc # "idle"
  PROVE  proc[r] \in Local /\ proc[r].who \in Person /\ proc[r].co \in Company
         /\ proc[r].flag \in BOOLEAN /\ proc[r].role \in Role /\ proc[r].inv \in 0..MaxInvitations
  BY DEF RequestsInv, Local, Idle

\* A request that goes on with locals that are sound.
LEMMA GoesOn ==
  ASSUME RequestsInv, Lasting, NEW r \in Request, NEW l \in Local \cup {Idle},
         proc' = [proc EXCEPT ![r] = l], Sound(l)'
  PROVE  RequestsInv'
  <1>1. proc'[r] = l /\ \A q \in Request \ {r} : proc'[q] = proc[q]
    BY DEF RequestsInv
  <1>2. ASSUME NEW q \in Request PROVE Sound(proc[q])'
    <2>1. CASE q = r
      BY <1>1, <2>1 DEF Sound
    <2>2. CASE q # r
      <3>1. Sound(proc[q]) /\ proc'[q] = proc[q]
        BY <1>1, <2>2 DEF RequestsInv
      <3> QED  BY <3>1 DEF Sound, Lasting
    <2> QED  BY <2>1, <2>2
  <1> QED  BY <1>2 DEF RequestsInv

\* A request that is done needs nothing of the rows.
LEMMA Finishes ==
  ASSUME RequestsInv, Lasting, NEW r \in Request, Finish(r)
  PROVE  RequestsInv'
  <1>1. Sound(Idle)'
    BY DEF Sound, Idle, OnInvitation
  <1>2. proc' = [proc EXCEPT ![r] = Idle] /\ Idle \in Local \cup {Idle}
    BY DEF Finish
  <1> QED  BY <1>1, <1>2, GoesOn

\* An invitation that is there has its fields.
LEMMA Invites ==
  ASSUME InvitationsInv, NEW i \in Id, invited[i] # NoInvitation
  PROVE  invited[i] \in Invitation /\ invited[i].email \in Person /\ invited[i].company \in Company
         /\ invited[i].role \in Role /\ invited[i].status \in Status
  BY DEF InvitationsInv, Invitation

\* One membership is written, by right.
LEMMA WritesMember ==
  ASSUME MembersInv, TablesType, NEW p \in Person, NEW c \in Company,
         NEW m \in Member \cup {NoMember}, SetMember(p, c, m), m # NoMember => c \in company',
         m.active => <<p, c>> \in agreed' \cup appointed',
         c \in company' /\ m.role = "administrator" =>
           p = founder'[c] \/ <<p, c>> \in appointed' \cup (offered' \cap agreed'),
         company \subseteq company', offered' = offered, agreed \subseteq agreed',
         appointed \subseteq appointed',
         \A k \in company : founder'[k] = founder[k],
         \A k \in company' \ company : k = c /\ k \in Company /\ \A q \in Person \ {p} : ~Joined(q, k)
  PROVE  MembersInv'
  <1>1. <<p, c>> \in Person \X Company
    OBVIOUS
  <1>2. member' \in [Person \X Company -> Member \cup {NoMember}]
        /\ member'[<<p, c>>] = m
        /\ \A q \in Person, k \in Company :
             <<q, k>> # <<p, c>> => member'[<<q, k>>] = member[<<q, k>>]
    BY <1>1 DEF SetMember, MembersInv
  <1>3. \A q \in Person, k \in Company : Joined(q, k)' => k \in company'
    BY <1>2 DEF Joined, MembersInv
  <1>4. ActiveByOwnAct'
    BY <1>2 DEF MembersInv, ActiveByOwnAct
  <1>5. AdministratorByRight'
    <2> SUFFICES ASSUME NEW q \in Person, NEW k \in company', member'[<<q, k>>].role = "administrator"
                 PROVE  q = founder'[k] \/ <<q, k>> \in appointed' \cup (offered' \cap agreed')
      BY DEF AdministratorByRight
    <2>1. CASE q = p /\ k = c
      BY <1>2, <2>1
    <2>2. CASE ~(q = p /\ k = c) /\ k \in company
      <3>1. member'[<<q, k>>] = member[<<q, k>>]
        BY <1>2, <2>2 DEF TablesType
      <3> QED  BY <2>2, <3>1 DEF MembersInv, AdministratorByRight
    <2>3. CASE ~(q = p /\ k = c) /\ k \notin company
      <3>1. member'[<<q, k>>] = NoMember
        BY <1>2, <2>3 DEF Joined
      <3> QED  BY <3>1 DEF NoMember
    <2> QED  BY <2>1, <2>2, <2>3
  <1> QED  BY <1>2, <1>3, <1>4, <1>5 DEF MembersInv

\* The members stay as they are.
LEMMA KeepsMembers ==
  ASSUME MembersInv, UNCHANGED <<member, company, founder>>, offered \subseteq offered',
         agreed \subseteq agreed', appointed \subseteq appointed'
  PROVE  MembersInv'
  BY DEF MembersInv, Joined, ActiveByOwnAct, AdministratorByRight

\* An invitation changes its status, for a yes or a switch of who agreed.
LEMMA WritesStatus ==
  ASSUME InvitationsInv, NEW i \in Id, invited[i] # NoInvitation, NEW s \in Status, SetStatus(i, s),
         s \in {"accepted", "canceled"} => <<invited[i].email, invited[i].company>> \in agreed',
         company' = company, agreed \subseteq agreed', offered' = offered
  PROVE  InvitationsInv' /\ Lasting
  <1> DEFINE new == [invited[i] EXCEPT !.status = s]
  <1>1. invited[i] \in Invitation
    BY Invites
  <1>2. /\ new \in Invitation /\ new.email = invited[i].email /\ new.company = invited[i].company
        /\ new.role = invited[i].role /\ new.status = s
    BY <1>1 DEF Invitation
  <1>3. new # NoInvitation
    BY <1>2 DEF NoInvitation, Status
  <1>4. invited' = [invited EXCEPT ![i] = new]
    BY DEF SetStatus
  <1> HIDE DEF new
  <1>5. /\ invited' \in [Id -> Invitation \cup {NoInvitation}] /\ invited'[i] = new
        /\ \A j \in Id \ {i} : invited'[j] = invited[j]
    BY <1>2, <1>4 DEF InvitationsInv
  <1>6. InvitationsInv'
    BY <1>2, <1>3, <1>5 DEF InvitationsInv
  <1>7. Lasting
    BY <1>2, <1>3, <1>5 DEF Lasting
  <1> QED  BY <1>6, <1>7

\* The invitations stay as they are.
LEMMA KeepsInvitations ==
  ASSUME InvitationsInv, invited' = invited, company \subseteq company', agreed \subseteq agreed',
         offered \subseteq offered'
  PROVE  InvitationsInv' /\ Lasting
  BY DEF InvitationsInv, Lasting

LEMMA InitEstablishes == Init => IInv
  <1> SUFFICES ASSUME Init PROVE IInv
    OBVIOUS
  <1>1. TablesType
    BY MembershipsAssumption DEF Init, TablesType, MembershipsAssumption
  <1>2. InvitationsInv
    BY DEF Init, InvitationsInv, NoInvitation
  <1>3. MembersInv
    BY DEF Init, MembersInv, Joined, ActiveByOwnAct, AdministratorByRight, NoMember
  <1>4. RequestsInv
    BY DEF Init, RequestsInv, Sound, Idle, OnInvitation
  <1> QED  BY <1>1, <1>2, <1>3, <1>4 DEF IInv

-----------------------------------------------------------------------------
(***************************************************************************)
(* The first step of a request loads what it has read.                     *)
(***************************************************************************)
LEMMA LoadPreserves ==
  ASSUME IInv, NEW r \in Request, NEW l \in Local, Load(r, l), Sound(l)
  PROVE  IInv'
  <1> USE DEF IInv
  <1>1. proc' = [proc EXCEPT ![r] = l] /\ UNCHANGED rows
    BY DEF Load
  <1>2. Lasting /\ InvitationsInv' /\ MembersInv' /\ TablesType'
    BY <1>1, KeepsInvitations, KeepsMembers DEF rows, TablesType
  <1>3. Sound(l)'
    BY <1>2, SoundLasts
  <1> QED  BY <1>1, <1>2, <1>3, GoesOn

LEMMA BeginPreserves ==
  ASSUME IInv, NEW r \in Request, Begin(r)
  PROVE  IInv'
  <1> USE DEF IInv
  <1>1. ASSUME NEW p \in Person, NEW c \in Company, BeginOnboard(r, p, c)
        PROVE  IInv'
    <2> DEFINE l == Locals("onboard", p, c, 0, FALSE)
    <2>1. l \in Local /\ l.pc = "onboard"
      BY MembershipsAssumption DEF MembershipsAssumption, PC, Locals, Local, Role
    <2>2. Load(r, l)
      BY <1>1 DEF BeginOnboard
    <2> HIDE DEF l
    <2>3. Sound(l)
      BY <2>1, <2>2 DEF Sound, OnInvitation
    <2> QED  BY <2>1, <2>2, <2>3, LoadPreserves
  <1>2. ASSUME NEW p \in Person, NEW c \in Company, BeginInvite(r, p, c)
        PROVE  IInv'
    <2>1. ASSUME NEW i \in Id, For(i, p, c), Load(r, Locals("reopen", p, c, i, FALSE))
          PROVE  IInv'
      <3> DEFINE l == Locals("reopen", p, c, i, FALSE)
      <3>1. l \in Local /\ l.pc = "reopen" /\ l.who = p /\ l.co = c /\ l.inv = i
        BY MembershipsAssumption DEF MembershipsAssumption, PC, Locals, Local, Id, Role
      <3>2. Load(r, l)
        BY <2>1
      <3> HIDE DEF l
      <3>3. Sound(l)
        BY <1>2, <2>1, <3>1 DEF Sound, For, BeginInvite
      <3> QED  BY <3>1, <3>2, <3>3, LoadPreserves
    <2>2. ASSUME Load(r, Locals("insert", p, c, 0, p \in profile))
          PROVE  IInv'
      <3> DEFINE l == Locals("insert", p, c, 0, p \in profile)
      <3>1. l \in Local /\ l.pc = "insert" /\ l.co = c
        BY MembershipsAssumption DEF MembershipsAssumption, PC, Locals, Local, Role
      <3>2. Load(r, l)
        BY <2>2
      <3> HIDE DEF l
      <3>3. Sound(l)
        BY <1>2, <3>1 DEF Sound, OnInvitation, BeginInvite
      <3> QED  BY <3>1, <3>2, <3>3, LoadPreserves
    <2> QED  BY <1>2, <2>1, <2>2 DEF BeginInvite
  <1>3. ASSUME NEW p \in Person, NEW c \in Company, BeginJoin(r, p, c)
        PROVE  IInv'
    <2> DEFINE l == Locals("join", p, c, 0, FALSE)
    <2>1. l \in Local /\ l.pc = "join" /\ l.co = c
      BY MembershipsAssumption DEF MembershipsAssumption, PC, Locals, Local, Role
    <2>2. Load(r, l) /\ c \in company
      BY <1>3 DEF BeginJoin
    <2> HIDE DEF l
    <2>3. Sound(l)
      BY <2>1, <2>2 DEF Sound, OnInvitation
    <2> QED  BY <2>1, <2>2, <2>3, LoadPreserves
  <1>4. ASSUME NEW i \in Id, NEW pc \in {"accept", "refuse", "reject"}, Answer(r, i, pc)
        PROVE  IInv'
    <2> DEFINE l == Locals(pc, invited[i].email, invited[i].company, i, FALSE)
    <2>1. invited[i] # NoInvitation /\ Load(r, l)
      BY <1>4 DEF Answer, IsPending, NoInvitation, Locals
    <2>2. /\ l \in Local /\ l.pc = pc /\ l.who = invited[i].email /\ l.co = invited[i].company
          /\ l.inv = i /\ l.role = "auxiliar"
      BY <2>1, MembershipsAssumption, Invites DEF MembershipsAssumption, PC, Locals, Local, Id, Role
    <2> HIDE DEF l
    <2>3. Sound(l)
      BY <2>1, <2>2 DEF Sound, InvitationsInv
    <2> QED  BY <2>1, <2>2, <2>3, LoadPreserves
  <1>5. ASSUME NEW i \in Id, BeginRegister(r, i)
        PROVE  IInv'
    <2> DEFINE read == Locals("register", invited[i].email, invited[i].company, i, FALSE)
               l == [read EXCEPT !.role = invited[i].role]
    <2>1. invited[i] # NoInvitation /\ Load(r, l)
      BY <1>5 DEF BeginRegister, IsPending, NoInvitation
    <2>2. /\ l \in Local /\ l.pc = "register" /\ l.who = invited[i].email
          /\ l.co = invited[i].company /\ l.inv = i /\ l.role = invited[i].role
      <3>1. /\ invited[i].email \in Person /\ invited[i].company \in Company
            /\ invited[i].role \in Role
        BY <2>1, Invites
      <3>2. /\ read \in Local /\ read.pc = "register" /\ read.who = invited[i].email
            /\ read.co = invited[i].company /\ read.inv = i
        BY <3>1, MembershipsAssumption DEF MembershipsAssumption, PC, Locals, Local, Id, Role
      <3> HIDE DEF read
      <3> QED  BY <3>1, <3>2 DEF Local
    <2> HIDE DEF read, l
    <2>3. Sound(l)
      BY <2>1, <2>2 DEF Sound, InvitationsInv
    <2> QED  BY <2>1, <2>2, <2>3, LoadPreserves
  <1>6. ASSUME NEW i \in Id, NEW on \in BOOLEAN, BeginToggle(r, i, on)
        PROVE  IInv'
    <2> DEFINE l == Locals("toggle", invited[i].email, invited[i].company, i, on)
    <2>1. invited[i] # NoInvitation /\ Load(r, l) /\ invited[i].status \in {"accepted", "canceled"}
      BY <1>6 DEF BeginToggle, MayToggle, NoInvitation
    <2>2. /\ l \in Local /\ l.pc = "toggle" /\ l.who = invited[i].email /\ l.co = invited[i].company
          /\ l.inv = i
      BY <2>1, MembershipsAssumption, Invites DEF MembershipsAssumption, PC, Locals, Local, Id, Role
    <2> HIDE DEF l
    <2>3. Sound(l)
      BY <2>1, <2>2 DEF Sound, InvitationsInv
    <2> QED  BY <2>1, <2>2, <2>3, LoadPreserves
  <1> QED
    <2>1. ASSUME NEW i \in Id, BeginRespond(r, i) \/ BeginReject(r, i)
          PROVE  IInv'
      BY <1>4, <2>1 DEF BeginRespond, BeginReject
    <2> QED  BY <1>1, <1>2, <1>3, <1>5, <1>6, <2>1 DEF Begin

-----------------------------------------------------------------------------
(***************************************************************************)
(* The steps of a request.                                                 *)
(***************************************************************************)
\* What a request about an existing company and invitation may count on.
LEMMA Counts ==
  ASSUME RequestsInv, NEW r \in Request
  PROVE  /\ proc[r].pc \in PC \ {"onboard"} => proc[r].co \in company
         /\ proc[r].pc \in OnInvitation =>
              /\ proc[r].inv \in Id /\ invited[proc[r].inv] # NoInvitation
              /\ invited[proc[r].inv].email = proc[r].who /\ invited[proc[r].inv].company = proc[r].co
         /\ proc[r].pc \in {"toggle", "settle"} => <<proc[r].who, proc[r].co>> \in agreed
         /\ proc[r].pc \in {"register", "accept"} /\ proc[r].role = "administrator" =>
              <<proc[r].who, proc[r].co>> \in offered
  BY DEF RequestsInv, Sound, PC

LEMMA Unchanged ==
  ASSUME IInv, NEW r \in Request, Finish(r), UNCHANGED rows
  PROVE  IInv'
  <1>1. Lasting /\ InvitationsInv' /\ MembersInv' /\ TablesType'
    BY KeepsInvitations, KeepsMembers DEF rows, TablesType, IInv
  <1> QED  BY <1>1, Finishes DEF IInv

\* The company is new, so its founder is its only member.
LEMMA OnboardPreserves ==
  ASSUME IInv, NEW r \in Request, Onboard(r)
  PROVE  IInv'
  <1> DEFINE p == proc[r].who  c == proc[r].co  m == [role |-> "administrator", active |-> TRUE]
  <1> USE DEF IInv
  <1>1. Finish(r) /\ p \in Person /\ c \in Company
    BY Busy DEF Onboard, At
  <1>2. CASE c \in company
    BY <1>1, <1>2, Unchanged DEF Onboard
  <1>3. CASE c \notin company
    <2>1. /\ profile' = profile \cup {p} /\ company' = company \cup {c}
          /\ founder' = [k \in company \cup {c} |-> IF k = c THEN p ELSE founder[k]]
          /\ SetMember(p, c, m) /\ agreed' = agreed \cup {<<p, c>>}
          /\ UNCHANGED <<invited, edits, offered, appointed>>
      BY <1>3 DEF Onboard
    <2>2. m \in Member
      BY DEF Member, Role
    <2>3. \A q \in Person : ~Joined(q, c)
      BY <1>1, <1>3 DEF MembersInv
    <2>4. TablesType'
      BY <1>1, <2>1 DEF TablesType
    <2>5. InvitationsInv' /\ Lasting
      BY <2>1, KeepsInvitations
    <2>6. MembersInv'
      <3>1. founder'[c] = p /\ \A k \in company : founder'[k] = founder[k]
        BY <1>3, <2>1
      <3>2. <<p, c>> \in agreed' /\ agreed \subseteq agreed' /\ company \subseteq company'
            /\ c \in company' /\ appointed' = appointed /\ offered' = offered
        BY <2>1
      <3>3. \A k \in company' \ company : k = c /\ k \in Company /\ \A q \in Person \ {p} : ~Joined(q, k)
        BY <1>1, <2>1, <2>3
      <3>4. SetMember(p, c, m)
        BY <2>1
      <3> HIDE DEF m
      <3> QED  BY <1>1, <2>2, <3>1, <3>2, <3>3, <3>4, WritesMember
    <2> QED  BY <1>1, <2>4, <2>5, <2>6, Finishes
  <1> QED  BY <1>2, <1>3

LEMMA WaitingIsAGuest ==
  Waiting \in Member /\ ~Waiting.active /\ Waiting.role = "invitado"
  BY DEF Waiting, Member, Role

\* A new row offers nothing, or what the portal offers.
LEMMA Inserts ==
  ASSUME InvitationsInv, NEW i \in Id, NEW p \in Person, NEW c \in company, c \in Company,
         NEW role \in Role, Insert(i, p, c, role), role = "administrator" => <<p, c>> \in offered',
         UNCHANGED <<company, agreed>>, offered \subseteq offered'
  PROVE  InvitationsInv' /\ Lasting
  <1> DEFINE new == [email |-> p, company |-> c, role |-> role, status |-> "pending"]
  <1>1. invited[i] = NoInvitation /\ invited' = [invited EXCEPT ![i] = new]
    BY DEF Insert
  <1>2. /\ new \in Invitation /\ new.role = role /\ new.status = "pending"
        /\ new.email = p /\ new.company = c /\ new # NoInvitation
    BY DEF Invitation, Status, NoInvitation
  <1> HIDE DEF new
  <1>3. /\ invited' \in [Id -> Invitation \cup {NoInvitation}] /\ invited'[i] = new
        /\ \A j \in Id \ {i} : invited'[j] = invited[j]
    BY <1>1, <1>2 DEF InvitationsInv
  <1>4. InvitationsInv'
    BY <1>2, <1>3 DEF InvitationsInv
  <1>5. Lasting
    BY <1>1, <1>3 DEF Lasting
  <1> QED  BY <1>4, <1>5

LEMMA InsertInvitationPreserves ==
  ASSUME IInv, NEW r \in Request, InsertInvitation(r)
  PROVE  IInv'
  <1> DEFINE p == proc[r].who  c == proc[r].co  known == proc[r].flag
  <1> USE DEF IInv
  <1>1. Finish(r) /\ p \in Person /\ c \in Company /\ c \in company
    BY Busy, Counts DEF InsertInvitation, At, PC
  <1>2. CASE UNCHANGED rows
    BY <1>1, <1>2, Unchanged
  <1>3. CASE ~(UNCHANGED rows)
    <2>1. PICK i \in Id : Insert(i, p, c, "invitado")
      BY <1>3 DEF InsertInvitation
    <2>2. /\ (known /\ SetMember(p, c, Waiting)) \/ member' = member
          /\ UNCHANGED <<edits, profile, company, founder, history>>
      BY <1>3 DEF InsertInvitation
    <2>3. InvitationsInv' /\ Lasting
      <3>1. "invitado" \in Role
        BY DEF Role
      <3> QED  BY <1>1, <2>1, <2>2, <3>1, Inserts
    <2>4. MembersInv'
      <3>1. CASE member' = member
        BY <2>2, <3>1, KeepsMembers
      <3>2. CASE SetMember(p, c, Waiting)
        BY <1>1, <2>2, <3>2, WaitingIsAGuest, WritesMember
      <3> QED  BY <2>2, <3>1, <3>2
    <2>5. TablesType'
      BY <2>2 DEF TablesType
    <2> QED  BY <1>1, <2>3, <2>4, <2>5, Finishes
  <1> QED  BY <1>2, <1>3

LEMMA ReopenInvitationPreserves ==
  ASSUME IInv, NEW r \in Request, ReopenInvitation(r)
  PROVE  IInv'
  <1> DEFINE i == proc[r].inv  new == [invited[i] EXCEPT !.status = "pending", !.role = "invitado"]
  <1> USE DEF IInv
  <1>1. /\ proc[r].pc = "reopen" /\ invited' = [invited EXCEPT ![i] = new]
        /\ UNCHANGED <<edits, profile, company, founder, member, history>>
    BY DEF ReopenInvitation, At
  <1>2. i \in Id /\ invited[i] \in Invitation /\ proc[r].co \in company /\ proc[r] \in Local
        /\ invited[i].company \in company
    BY <1>1, Counts, Busy, Invites DEF OnInvitation, PC, InvitationsInv
  <1>3. /\ new \in Invitation /\ new.email = invited[i].email /\ new.company = invited[i].company
        /\ new.role = "invitado" /\ new.status = "pending"
    BY <1>2 DEF Invitation, Role, Status
  <1>4. new # NoInvitation
    BY <1>3 DEF NoInvitation
  <1>5. PICK l \in Local :
          proc' = [proc EXCEPT ![r] = l] /\ l.pc = "hold" /\ l.co = proc[r].co
    <2>1. /\ [proc[r] EXCEPT !.pc = "hold"] \in Local
          /\ [proc[r] EXCEPT !.pc = "hold"].pc = "hold"
          /\ [proc[r] EXCEPT !.pc = "hold"].co = proc[r].co
      BY <1>2 DEF Local, PC
    <2> QED  BY <2>1 DEF ReopenInvitation
  <1> HIDE DEF new
  <1>6. /\ invited' \in [Id -> Invitation \cup {NoInvitation}] /\ invited'[i] = new
        /\ \A j \in Id \ {i} : invited'[j] = invited[j]
    BY <1>1, <1>2, <1>3 DEF InvitationsInv
  <1>7. InvitationsInv'
    <2> SUFFICES ASSUME NEW j \in Id
                 PROVE  /\ invited'[j] # NoInvitation =>
                             /\ invited'[j].company \in company
                             /\ invited'[j].role = "administrator" =>
                                  <<invited'[j].email, invited'[j].company>> \in offered
                        /\ invited'[j].status \in {"accepted", "canceled"} =>
                             <<invited'[j].email, invited'[j].company>> \in agreed
      BY <1>1, <1>6 DEF InvitationsInv
    <2>1. CASE j = i
      BY <1>2, <1>3, <1>6, <2>1
    <2>2. CASE j # i
      BY <1>6, <2>2 DEF InvitationsInv
    <2> QED  BY <2>1, <2>2
  <1>8. Lasting
    BY <1>1, <1>3, <1>4, <1>6 DEF Lasting
  <1>9. Sound(l)'
    BY <1>1, <1>2, <1>5 DEF Sound, OnInvitation
  <1>10. MembersInv' /\ TablesType'
    BY <1>1, KeepsMembers DEF TablesType
  <1> QED  BY <1>5, <1>7, <1>8, <1>9, <1>10, GoesOn

LEMMA HoldMembershipPreserves ==
  ASSUME IInv, NEW r \in Request, HoldMembership(r)
  PROVE  IInv'
  <1> DEFINE p == proc[r].who  c == proc[r].co
  <1> USE DEF IInv
  <1>1. /\ Finish(r) /\ p \in Person /\ c \in Company /\ c \in company
        /\ UNCHANGED <<profile, company, founder, invited, edits, history>>
        /\ SetMember(p, c, Waiting) \/ member' = member
    BY Busy, Counts DEF HoldMembership, At, PC
  <1>2. InvitationsInv' /\ Lasting /\ TablesType'
    BY <1>1, KeepsInvitations DEF TablesType
  <1>3. MembersInv'
    <2>1. CASE member' = member
      BY <1>1, <2>1, KeepsMembers
    <2>2. CASE SetMember(p, c, Waiting)
      BY <1>1, <2>2, WaitingIsAGuest, WritesMember
    <2> QED  BY <1>1, <2>1, <2>2
  <1> QED  BY <1>1, <1>2, <1>3, Finishes

\* A yes: whoever says it has agreed, and gets no more than they had or than
\* the invitation gives.
LEMMA YesPreserves ==
  ASSUME IInv, NEW r \in Request, proc[r].pc \in {"register", "accept"}, Finish(r),
         Activate(proc[r].who, proc[r].co, proc[r].role),
         SetStatus(proc[r].inv, "accepted"), agreed' = agreed \cup {<<proc[r].who, proc[r].co>>},
         profile' = profile \/ profile' = profile \cup {proc[r].who},
         UNCHANGED <<edits, company, founder, offered, appointed>>
  PROVE  IInv'
  <1> DEFINE p == proc[r].who  c == proc[r].co  i == proc[r].inv  role == proc[r].role
             m == [role |-> IF Joined(p, c) THEN member[<<p, c>>].role ELSE role, active |-> TRUE]
  <1> USE DEF IInv
  <1>1. /\ p \in Person /\ c \in Company /\ c \in company /\ role \in Role
        /\ role = "administrator" => <<p, c>> \in offered
    BY Busy, Counts DEF PC
  <1>2. i \in Id /\ invited[i] # NoInvitation /\ invited[i].email = p /\ invited[i].company = c
    BY Counts DEF OnInvitation
  <1>3. InvitationsInv' /\ Lasting
    BY <1>2, WritesStatus DEF Status
  <1>4. m \in Member /\ SetMember(p, c, m)
    <2>1. Joined(p, c) => member[<<p, c>>] \in Member
      BY <1>1 DEF Joined, MembersInv
    <2> QED  BY <1>1, <2>1 DEF Member, Activate
  <1>5. m.role = "administrator" => p = founder[c] \/ <<p, c>> \in appointed \cup (offered \cap agreed')
    <2>1. m.role = IF Joined(p, c) THEN member[<<p, c>>].role ELSE role
      OBVIOUS
    <2> QED  BY <1>1, <2>1 DEF MembersInv, AdministratorByRight
  <1>6. MembersInv'
    <2>1. <<p, c>> \in agreed' /\ agreed \subseteq agreed' /\ company' = company
          /\ founder' = founder /\ appointed' = appointed /\ offered' = offered
      OBVIOUS
    <2> HIDE DEF m
    <2> QED  BY <1>1, <1>4, <1>5, <2>1, WritesMember
  <1>7. TablesType'
    BY <1>1 DEF TablesType
  <1> QED  BY <1>3, <1>6, <1>7, Finishes

LEMMA RegisterPreserves ==
  ASSUME IInv, NEW r \in Request, Register(r)
  PROVE  IInv'
  <1>1. proc[r].pc = "register" /\ Finish(r)
    BY DEF Register, At
  <1>2. CASE proc[r].who \in profile
    BY <1>1, <1>2, Unchanged DEF Register
  <1>3. CASE proc[r].who \notin profile
    BY <1>1, <1>3, YesPreserves DEF Register
  <1> QED  BY <1>2, <1>3

LEMMA AcceptInvitationPreserves ==
  ASSUME IInv, NEW r \in Request, AcceptInvitation(r)
  PROVE  IInv'
  <1>1. proc[r].pc = "accept" /\ Finish(r)
    BY DEF AcceptInvitation, At
  <1>2. CASE proc[r].who \notin profile
    BY <1>1, <1>2, Unchanged DEF AcceptInvitation
  <1>3. CASE proc[r].who \in profile
    BY <1>1, <1>3, YesPreserves DEF AcceptInvitation
  <1> QED  BY <1>2, <1>3

\* A membership is deleted, and with it the requests that were about to.
LEMMA DeletesMember ==
  ASSUME IInv, NEW p \in Person, NEW c \in Company, DeleteMember(p, c), Lasting,
         UNCHANGED <<company, founder, history>>
  PROVE  MembersInv' /\ RequestsInv'
  <1> USE DEF IInv
  <1>1. MembersInv'
    <2>1. ~NoMember.active /\ NoMember.role # "administrator" /\ SetMember(p, c, NoMember)
      BY DEF NoMember, DeleteMember
    <2> QED  BY <2>1, WritesMember
  <1>2. Sound(Idle)'
    BY DEF Sound, Idle, OnInvitation
  <1>3. /\ proc' \in [Request -> Local \cup {Idle}]
        /\ \A q \in Request : proc'[q] \in {proc[q], Idle}
    BY DEF DeleteMember, RequestsInv
  <1>4. ASSUME NEW q \in Request PROVE Sound(proc[q])'
    <2>1. CASE proc'[q] = Idle
      BY <1>2, <2>1 DEF Sound
    <2>2. CASE proc'[q] = proc[q]
      <3>1. Sound(proc[q])
        BY DEF RequestsInv
      <3> QED  BY <2>2, <3>1 DEF Sound, Lasting
    <2> QED  BY <1>3, <2>1, <2>2
  <1> QED  BY <1>1, <1>3, <1>4 DEF RequestsInv

\* The look before a no.
LEMMA ReadMembershipPreserves ==
  ASSUME IInv, NEW r \in Request, ReadMembership(r)
  PROVE  IInv'
  <1> USE DEF IInv
  <1>1. proc[r].pc = "reject" /\ UNCHANGED rows /\ proc[r] \in Local
    BY Busy DEF ReadMembership, At
  <1>2. PICK pc \in {"withdraw", "close"} :
          proc' = [proc EXCEPT ![r] = [proc[r] EXCEPT !.pc = pc]]
    BY DEF ReadMembership
  <1> DEFINE l == [proc[r] EXCEPT !.pc = pc]
  <1>3. /\ l \in Local /\ l.pc = pc /\ l.who = proc[r].who /\ l.co = proc[r].co
        /\ l.inv = proc[r].inv
    BY <1>1 DEF Local, PC
  <1>4. proc' = [proc EXCEPT ![r] = l]
    BY <1>2
  <1> HIDE DEF l
  <1>5. Sound(l)
    BY <1>1, <1>3, Counts DEF Sound, OnInvitation, PC
  <1>6. Lasting /\ InvitationsInv' /\ MembersInv' /\ TablesType'
    BY <1>1, KeepsInvitations, KeepsMembers DEF rows, TablesType
  <1> QED  BY <1>3, <1>4, <1>5, <1>6, SoundLasts, GoesOn

\* A no, which may take away a membership.
LEMMA NoPreserves ==
  ASSUME IInv, NEW r \in Request, RefuseInvitation(r) \/ RejectInvitation(r)
  PROVE  IInv'
  <1> DEFINE p == proc[r].who  c == proc[r].co  i == proc[r].inv
  <1> USE DEF IInv
  <1>1. /\ proc[r].pc \in {"refuse", "withdraw", "close"} /\ SetStatus(i, "rejected")
        /\ DeleteMember(p, c) \/ (Finish(r) /\ member' = member)
        /\ UNCHANGED <<edits, profile, company, founder, history>>
    BY DEF RefuseInvitation, RejectInvitation, At
  <1>2. p \in Person /\ c \in Company /\ i \in Id /\ invited[i] # NoInvitation
    BY <1>1, Busy, Counts DEF OnInvitation
  <1>3. InvitationsInv' /\ Lasting
    BY <1>1, <1>2, WritesStatus DEF Status
  <1>4. MembersInv' /\ RequestsInv'
    <2>1. CASE Finish(r) /\ member' = member
      BY <1>1, <1>3, <2>1, KeepsMembers, Finishes
    <2>2. CASE DeleteMember(p, c)
      BY <1>1, <1>2, <1>3, <2>2, DeletesMember
    <2> QED  BY <1>1, <2>1, <2>2
  <1>5. TablesType'
    BY <1>1 DEF TablesType
  <1> QED  BY <1>3, <1>4, <1>5

\* A switch is of a membership of who agreed.
LEMMA ToggleMembershipPreserves ==
  ASSUME IInv, NEW r \in Request, ToggleMembership(r)
  PROVE  IInv'
  <1> DEFINE p == proc[r].who  c == proc[r].co  m == [member[<<p, c>>] EXCEPT !.active = proc[r].flag]
  <1> USE DEF IInv
  <1>1. /\ proc[r].pc = "toggle"
        /\ UNCHANGED <<profile, company, founder, invited, edits, history>>
    BY DEF ToggleMembership, At
  <1>2. /\ p \in Person /\ c \in Company /\ c \in company /\ <<p, c>> \in agreed
        /\ proc[r] \in Local /\ proc[r].flag \in BOOLEAN
    BY <1>1, Busy, Counts DEF PC
  <1>3. InvitationsInv' /\ Lasting /\ TablesType'
    BY <1>1, KeepsInvitations DEF TablesType
  <1>4. CASE Joined(p, c)
    <2>1. /\ SetMember(p, c, m)
          /\ proc' = [proc EXCEPT ![r] = [proc[r] EXCEPT !.pc = "settle"]]
      BY <1>4 DEF ToggleMembership
    <2>2. member[<<p, c>>] \in Member
      BY <1>2, <1>4 DEF Joined, MembersInv
    <2>3. m \in Member /\ m.role = member[<<p, c>>].role
      BY <1>2, <2>2 DEF Member
    <2>4. m.role = "administrator" => p = founder[c] \/ <<p, c>> \in appointed \cup (offered \cap agreed)
      BY <1>2, <2>3 DEF MembersInv, AdministratorByRight
    <2>5. MembersInv'
      <3> HIDE DEF m
      <3> QED  BY <1>1, <1>2, <2>1, <2>3, <2>4, WritesMember
    <2>6. PICK l \in Local :
            /\ proc' = [proc EXCEPT ![r] = l] /\ l.pc = "settle"
            /\ l.who = p /\ l.co = c /\ l.inv = proc[r].inv
      <3>1. /\ [proc[r] EXCEPT !.pc = "settle"] \in Local
            /\ [proc[r] EXCEPT !.pc = "settle"].pc = "settle"
            /\ [proc[r] EXCEPT !.pc = "settle"].who = p
            /\ [proc[r] EXCEPT !.pc = "settle"].co = c
            /\ [proc[r] EXCEPT !.pc = "settle"].inv = proc[r].inv
        BY <1>2 DEF Local, PC
      <3> QED  BY <2>1, <3>1
    <2>7. Sound(l)
      BY <1>1, <1>2, <2>6, Counts DEF Sound, OnInvitation
    <2> QED  BY <1>3, <2>5, <2>6, <2>7, SoundLasts, GoesOn
  <1>5. CASE ~Joined(p, c)
    <2>1. Finish(r) /\ member' = member
      BY <1>5 DEF ToggleMembership
    <2> QED  BY <1>1, <1>3, <2>1, KeepsMembers, Finishes
  <1> QED  BY <1>4, <1>5

LEMMA SettleInvitationPreserves ==
  ASSUME IInv, NEW r \in Request, SettleInvitation(r)
  PROVE  IInv'
  <1> DEFINE i == proc[r].inv  s == IF proc[r].flag THEN "accepted" ELSE "canceled"
  <1> USE DEF IInv
  <1>1. /\ proc[r].pc = "settle" /\ Finish(r) /\ SetStatus(i, s)
        /\ UNCHANGED <<edits, profile, company, founder, member, history>>
    BY DEF SettleInvitation, At
  <1>2. /\ i \in Id /\ invited[i] # NoInvitation
        /\ <<invited[i].email, invited[i].company>> \in agreed /\ s \in Status
    BY <1>1, Counts DEF OnInvitation, Status
  <1> HIDE DEF s
  <1>3. InvitationsInv' /\ Lasting
    BY <1>1, <1>2, WritesStatus
  <1>4. MembersInv' /\ TablesType'
    BY <1>1, KeepsMembers DEF TablesType
  <1> QED  BY <1>1, <1>3, <1>4, Finishes

LEMMA EditCounts == ASSUME TablesType, Edit PROVE edits' \in 0..MaxEdits
  BY MembershipsAssumption DEF MembershipsAssumption, TablesType, Edit

LEMMA JoinPreserves ==
  ASSUME IInv, NEW r \in Request, Join(r)
  PROVE  IInv'
  <1> DEFINE p == proc[r].who  c == proc[r].co
  <1> USE DEF IInv
  <1>1. proc[r].pc = "join" /\ Finish(r) /\ p \in Person /\ c \in Company /\ c \in company
    BY Busy, Counts DEF Join, At, PC
  <1>2. CASE UNCHANGED rows
    BY <1>1, <1>2, Unchanged
  <1>3. CASE ~(UNCHANGED rows)
    <2>1. PICK role \in Role : SetMember(p, c, [role |-> role, active |-> TRUE])
      BY <1>3 DEF Join
    <2>2. /\ appointed' = appointed \cup {<<p, c>>} /\ Edit
          /\ UNCHANGED <<profile, company, founder, invited, offered, agreed>>
      BY <1>3 DEF Join
    <2>3. [role |-> role, active |-> TRUE] \in Member
      BY DEF Member
    <2>4. MembersInv'
      BY <1>1, <2>1, <2>2, <2>3, WritesMember
    <2>5. InvitationsInv' /\ Lasting
      BY <2>2, KeepsInvitations
    <2>6. TablesType'
      BY <1>1, <2>2, EditCounts DEF TablesType
    <2> QED  BY <1>1, <2>4, <2>5, <2>6, Finishes
  <1> QED  BY <1>2, <1>3

-----------------------------------------------------------------------------
(***************************************************************************)
(* The administration of members and profiles.                             *)
(***************************************************************************)
LEMMA KeepsRequests ==
  ASSUME RequestsInv, Lasting, proc' = proc
  PROVE  RequestsInv'
  BY DEF RequestsInv, Sound, Lasting

LEMMA UpdateMemberPreserves ==
  ASSUME IInv, NEW p \in Person, NEW c \in Company, UpdateMember(p, c)
  PROVE  IInv'
  <1> USE DEF IInv
  <1>1. PICK m \in Member : SetMember(p, c, m)
    BY DEF UpdateMember
  <1>2. /\ Joined(p, c) /\ Edit /\ appointed' = appointed \cup {<<p, c>>}
        /\ UNCHANGED <<profile, company, founder, invited, proc, offered, agreed>>
    BY DEF UpdateMember
  <1>3. c \in company /\ <<p, c>> \in appointed' /\ appointed \subseteq appointed'
    BY <1>2 DEF MembersInv
  <1>4. MembersInv'
    BY <1>1, <1>2, <1>3, WritesMember
  <1>5. InvitationsInv' /\ Lasting
    BY <1>2, KeepsInvitations
  <1>6. TablesType'
    BY <1>2, EditCounts DEF TablesType
  <1> QED  BY <1>2, <1>4, <1>5, <1>6, KeepsRequests

LEMMA RemoveMemberPreserves ==
  ASSUME IInv, NEW p \in Person, NEW c \in Company, RemoveMember(p, c)
  PROVE  IInv'
  <1> USE DEF IInv
  <1>1. /\ DeleteMember(p, c) /\ Edit
        /\ UNCHANGED <<profile, company, founder, invited, history>>
    BY DEF RemoveMember
  <1>2. InvitationsInv' /\ Lasting
    BY <1>1, KeepsInvitations
  <1>3. MembersInv' /\ RequestsInv'
    BY <1>1, <1>2, DeletesMember
  <1>4. TablesType'
    BY <1>1, EditCounts DEF TablesType
  <1> QED  BY <1>2, <1>3, <1>4

\* What the portal writes is an offer.
LEMMA PortalInvitesPreserves ==
  ASSUME IInv, NEW p \in Person, NEW c \in Company, PortalInvites(p, c)
  PROVE  IInv'
  <1> USE DEF IInv
  <1>1. /\ c \in company /\ offered' = offered \cup {<<p, c>>}
        /\ UNCHANGED <<profile, company, founder, member, edits, proc, agreed, appointed>>
    BY DEF PortalInvites
  <1>2. PICK i \in Id : Insert(i, p, c, "administrator")
    BY DEF PortalInvites
  <1>3. InvitationsInv' /\ Lasting
    <2>1. "administrator" \in Role /\ <<p, c>> \in offered'
      BY <1>1 DEF Role
    <2> QED  BY <1>1, <1>2, <2>1, Inserts
  <1>4. MembersInv' /\ TablesType'
    BY <1>1, KeepsMembers DEF TablesType
  <1> QED  BY <1>1, <1>3, <1>4, KeepsRequests

\* The founder of a company stays.
LEMMA RemoveProfilePreserves ==
  ASSUME IInv, NEW p \in Person, RemoveProfile(p)
  PROVE  IInv'
  <1> USE DEF IInv
  <1>1. /\ profile' = profile \ {p} /\ \A c \in company : founder[c] # p
        /\ UNCHANGED <<company, founder, member, invited, proc, edits, history>>
    BY DEF RemoveProfile, Removable
  <1>2. TablesType'
    BY <1>1 DEF TablesType
  <1>3. InvitationsInv' /\ Lasting /\ MembersInv'
    BY <1>1, KeepsInvitations, KeepsMembers
  <1> QED  BY <1>1, <1>2, <1>3, KeepsRequests

-----------------------------------------------------------------------------
LEMMA NextPreserves == IInv /\ [Next]_vars => IInv'
  <1> SUFFICES ASSUME IInv, [Next]_vars
               PROVE  IInv'
    OBVIOUS
  <1>1. ASSUME NEW r \in Request, Continue(r)
        PROVE  IInv'
    BY <1>1, OnboardPreserves, InsertInvitationPreserves, ReopenInvitationPreserves,
       HoldMembershipPreserves, RegisterPreserves, AcceptInvitationPreserves,
       ReadMembershipPreserves, NoPreserves, ToggleMembershipPreserves, SettleInvitationPreserves,
       JoinPreserves DEF Continue
  <1>2. CASE UNCHANGED vars
    <2>1. InvitationsInv' /\ Lasting /\ MembersInv' /\ TablesType'
      BY <1>2, KeepsInvitations, KeepsMembers DEF IInv, vars, rows, TablesType
    <2> QED  BY <1>2, <2>1, KeepsRequests DEF IInv, vars
  <1> QED
    BY <1>1, <1>2, BeginPreserves, PortalInvitesPreserves, UpdateMemberPreserves,
       RemoveMemberPreserves, RemoveProfilePreserves DEF Next

LEMMA IInvHolds == Spec => []IInv
  BY InitEstablishes, NextPreserves, PTL DEF Spec

\* The rows of the tables and the locals of the requests keep their types.
THEOREM TypeHolds == Spec => []TypeOK
  <1>1. IInv => TypeOK
    BY DEF IInv, TablesType, InvitationsInv, MembersInv, RequestsInv, TypeOK
  <1> QED  BY <1>1, IInvHolds, PTL

\* Whoever is an active member of a company agreed to it, or was appointed by
\* the administration of its members.
THEOREM ActiveByOwnActHolds == Spec => []ActiveByOwnAct
  <1>1. IInv => ActiveByOwnAct
    BY DEF IInv, MembersInv
  <1> QED  BY <1>1, IInvHolds, PTL

\* Whoever is administrator of a company founded it, was appointed, or accepted
\* an invitation of the portal to be its administrator.
THEOREM AdministratorByRightHolds == Spec => []AdministratorByRight
  <1>1. IInv => AdministratorByRight
    BY DEF IInv, MembersInv
  <1> QED  BY <1>1, IInvHolds, PTL
=============================================================================
