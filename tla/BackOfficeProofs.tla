-------------------------- MODULE BackOfficeProofs --------------------------
(***************************************************************************)
(* What each desk of the back office promises, for any number of users,    *)
(* requests, tickets, posts and versions.  None of the promises is         *)
(* inductive alone: each desk has an invariant that says what its requests *)
(* have between two of their steps.                                        *)
(***************************************************************************)
EXTENDS BackOffice, TLAPS

-----------------------------------------------------------------------------
(***************************************************************************)
(* The portal.  A creation that has made its account owns it: nobody else  *)
(* has one, a row or a creation for that email.                            *)
(***************************************************************************)
Holding(m) == managing[m].pc \in {"row", "undo"}
OwnsItsAccount ==
  \A m \in Manager : Holding(m) =>
    /\ managing[m].email \in account \ Client
    /\ admin[managing[m].email] = NoAdmin
    /\ \A n \in Manager : Holding(n) /\ managing[n].email = managing[m].email => n = m
EditsARow ==
  \A m \in Manager : managing[m].pc = "edit" => admin[managing[m].email] # NoAdmin

PortalInv == PortalTypeOK /\ AccountsBelong /\ OwnsItsAccount /\ EditsARow

\* A request that is doing something has the fields of one.
LEMMA Busy ==
  ASSUME PortalTypeOK, NEW m \in Manager, managing[m].pc # "idle"
  PROVE  /\ managing[m] \in Managing /\ managing[m].email \in Email
         /\ managing[m].role \in AdminRole /\ managing[m].active \in BOOLEAN
  BY DEF PortalTypeOK, Managing, Idle

\* A request changes its own locals.
LEMMA Manages ==
  ASSUME PortalTypeOK, NEW m \in Manager
  PROVE  /\ ManageDone(m) =>
              /\ managing' \in [Manager -> Managing \cup {Idle}] /\ managing'[m].pc = "idle"
              /\ \A n \in Manager \ {m} : managing'[n] = managing[n]
         /\ \A pc \in {"row", "undo"} : ManageNext(m, pc) /\ managing[m].pc # "idle" =>
              /\ managing' \in [Manager -> Managing \cup {Idle}] /\ managing'[m].pc = pc
              /\ managing'[m].email = managing[m].email
              /\ \A n \in Manager \ {m} : managing'[n] = managing[n]
  <1>1. ManageDone(m) =>
              /\ managing' \in [Manager -> Managing \cup {Idle}] /\ managing'[m].pc = "idle"
              /\ \A n \in Manager \ {m} : managing'[n] = managing[n]
    BY DEF PortalTypeOK, ManageDone, Idle
  <1>2. ASSUME NEW pc \in {"row", "undo"}, ManageNext(m, pc), managing[m].pc # "idle"
        PROVE  /\ managing' \in [Manager -> Managing \cup {Idle}] /\ managing'[m].pc = pc
               /\ managing'[m].email = managing[m].email
               /\ \A n \in Manager \ {m} : managing'[n] = managing[n]
    <2>1. managing[m] \in Managing
      BY <1>2, Busy
    <2>2. [managing[m] EXCEPT !.pc = pc] \in Managing
      BY <2>1 DEF Managing
    <2>3. [managing[m] EXCEPT !.pc = pc].pc = pc
          /\ [managing[m] EXCEPT !.pc = pc].email = managing[m].email
      BY <2>1 DEF Managing
    <2> QED  BY <1>2, <2>2, <2>3 DEF PortalTypeOK, ManageNext
  <1> QED  BY <1>1, <1>2

LEMMA PortalInitEstablishes == ASSUME PortalAssumption, PortalInit PROVE PortalInv
  <1>1. PortalTypeOK
    BY DEF PortalAssumption, PortalInit, PortalTypeOK, AdminRow, AdminRole, NoAdmin, Idle
  <1>2. AccountsBelong
    BY DEF PortalAssumption, PortalInit, AccountsBelong, NoAdmin
  <1>3. OwnsItsAccount /\ EditsARow
    BY DEF PortalInit, OwnsItsAccount, EditsARow, Holding, Idle
  <1> QED  BY <1>1, <1>2, <1>3 DEF PortalInv

\* A creation and an edit begin with locals of their own.
LEMMA PortalBegins ==
  ASSUME PortalAssumption, PortalInv,
         NEW m \in Manager, NEW e \in Email, NEW role \in AdminRole, NEW active \in BOOLEAN,
         NEW field \in {"role", "active"},
         BeginCreateAdmin(m, e, role) \/ BeginEditAdmin(m, e, role, active, field)
  PROVE  PortalInv'
  <1>1. PICK local \in Managing :
           /\ managing' = [managing EXCEPT ![m] = local]
           /\ local.pc \in {"account", "edit"} /\ (local.pc = "edit" => admin[local.email] # NoAdmin)
           /\ UNCHANGED <<account, admin, portalFaults, stray>>
    <2>1. CASE BeginCreateAdmin(m, e, role)
      <3> DEFINE l == [pc |-> "account", email |-> e, role |-> role, active |-> TRUE, field |-> "role"]
      <3>1. l \in Managing /\ l.pc = "account"
        BY DEF Managing
      <3> QED  BY <2>1, <3>1 DEF BeginCreateAdmin
    <2>2. CASE BeginEditAdmin(m, e, role, active, field)
      <3> DEFINE l == [pc |-> "edit", email |-> e, role |-> role, active |-> active, field |-> field]
      <3>1. l \in Managing /\ l.pc = "edit" /\ l.email = e
        BY DEF Managing
      <3> QED  BY <2>2, <3>1 DEF BeginEditAdmin
    <2> QED  BY <2>1, <2>2
  <1>2. managing[m].pc = "idle"
    BY DEF BeginCreateAdmin, BeginEditAdmin, ManagerAt
  <1>3. managing'[m] = local /\ \A n \in Manager \ {m} : managing'[n] = managing[n]
    BY <1>1 DEF PortalInv, PortalTypeOK
  <1>4. PortalTypeOK'
    BY <1>1 DEF PortalInv, PortalTypeOK
  <1>5. AccountsBelong'
    BY <1>1, <1>2, <1>3 DEF PortalInv, AccountsBelong, InTransit
  <1>6. OwnsItsAccount'
    BY <1>1, <1>2, <1>3 DEF PortalInv, OwnsItsAccount, Holding
  <1>7. EditsARow'
    BY <1>1, <1>3 DEF PortalInv, EditsARow
  <1> QED  BY <1>4, <1>5, <1>6, <1>7 DEF PortalInv

\* An account is made only for who has none, so it is the creation's own.
LEMMA AskAccountPreserves ==
  ASSUME PortalAssumption, PortalInv, NEW m \in Manager, AskAccount(m)
  PROVE  PortalInv'
  <1> DEFINE e == managing[m].email
  <1> USE DEF PortalInv
  <1>1. e \in Email /\ managing[m].pc = "account"
    BY Busy DEF AskAccount, ManagerAt
  <1>2. CASE e \in account
    <2>1. ManageDone(m) /\ account' = account /\ UNCHANGED <<admin, portalFaults, stray>>
      BY <1>2 DEF AskAccount
    <2>2. /\ managing' \in [Manager -> Managing \cup {Idle}] /\ managing'[m].pc = "idle"
          /\ \A n \in Manager \ {m} : managing'[n] = managing[n]
      BY <2>1, Manages
    <2>3. PortalTypeOK'
      BY <2>1, <2>2 DEF PortalTypeOK
    <2>4. AccountsBelong' /\ OwnsItsAccount' /\ EditsARow'
      BY <1>1, <2>1, <2>2 DEF AccountsBelong, InTransit, OwnsItsAccount, Holding, EditsARow
    <2> QED  BY <2>3, <2>4
  <1>3. CASE e \notin account
    <2>1. ManageNext(m, "row") /\ account' = account \cup {e} /\ UNCHANGED <<admin, portalFaults, stray>>
      BY <1>3 DEF AskAccount
    <2>2. /\ managing' \in [Manager -> Managing \cup {Idle}] /\ managing'[m].pc = "row"
          /\ managing'[m].email = e
          /\ \A n \in Manager \ {m} : managing'[n] = managing[n]
      BY <1>1, <2>1, Manages
    <2>3. e \notin Client /\ admin[e] = NoAdmin
      BY <1>1, <1>3 DEF AccountsBelong
    <2>4. \A n \in Manager : Holding(n) => managing[n].email # e
      BY <1>3 DEF OwnsItsAccount
    <2>5. PortalTypeOK'
      BY <1>1, <2>1, <2>2 DEF PortalTypeOK
    <2>6. AccountsBelong'
      BY <1>1, <2>1, <2>2 DEF AccountsBelong, InTransit
    <2>7. OwnsItsAccount'
      BY <2>1, <2>2, <2>3, <2>4 DEF OwnsItsAccount, Holding
    <2>8. EditsARow'
      BY <2>1, <2>2 DEF EditsARow
    <2> QED  BY <2>5, <2>6, <2>7, <2>8
  <1> QED  BY <1>2, <1>3

\* A request that ends having changed nothing but the strays.
LEMMA GivesUpPreserves ==
  ASSUME PortalAssumption, PortalInv, NEW m \in Manager,
         managing[m].pc # "idle", ManageDone(m), UNCHANGED <<account, admin>>,
         portalFaults' \in 0..MaxPortalFaults, stray' \subseteq Email, stray \subseteq stray',
         Holding(m) => managing[m].email \in stray'
  PROVE  PortalInv'
  <1> USE DEF PortalInv
  <1>1. /\ managing' \in [Manager -> Managing \cup {Idle}] /\ managing'[m].pc = "idle"
        /\ \A n \in Manager \ {m} : managing'[n] = managing[n]
    BY Manages
  <1>2. PortalTypeOK'
    BY <1>1 DEF PortalTypeOK
  <1>3. AccountsBelong'
    <2>1. \A e \in Email : admin[e] # NoAdmin \/ e \in Client => e \in account
      BY DEF AccountsBelong
    <2>2. ASSUME NEW e \in account
          PROVE  e \in Client \/ admin[e] # NoAdmin \/ InTransit(e)' \/ e \in stray'
      <3>1. e \in Client \/ admin[e] # NoAdmin \/ InTransit(e) \/ e \in stray
        BY DEF AccountsBelong
      <3>2. CASE InTransit(e)
        <4>1. PICK n \in Manager : managing[n].pc \in {"row", "undo"} /\ managing[n].email = e
          BY <3>2 DEF InTransit
        <4>2. CASE n = m
          BY <4>1, <4>2 DEF Holding
        <4>3. CASE n # m
          BY <1>1, <4>1, <4>3 DEF InTransit
        <4> QED  BY <4>2, <4>3
      <3> QED  BY <3>1, <3>2
    <2> QED  BY <2>1, <2>2 DEF AccountsBelong
  <1>4. OwnsItsAccount' /\ EditsARow'
    BY <1>1 DEF OwnsItsAccount, Holding, EditsARow
  <1> QED  BY <1>2, <1>3, <1>4

LEMMA AccountFailsPreserves ==
  ASSUME PortalAssumption, PortalInv, NEW m \in Manager, AccountFails(m)
  PROVE  PortalInv'
  <1> DEFINE e == managing[m].email
  <1> USE DEF PortalInv
  <1>1. e \in Email /\ managing[m].pc = "account" /\ ManageDone(m) /\ admin' = admin
        /\ portalFaults' \in 0..MaxPortalFaults
    BY Busy DEF AccountFails, ManagerAt, PortalFault, PortalTypeOK, PortalAssumption
  <1>2. CASE UNCHANGED <<account, stray>>
    BY <1>1, <1>2, GivesUpPreserves DEF Holding, PortalTypeOK
  <1>3. CASE e \notin account /\ account' = account \cup {e} /\ stray' = stray \cup {e}
    <2>1. /\ managing' \in [Manager -> Managing \cup {Idle}] /\ managing'[m].pc = "idle"
          /\ \A n \in Manager \ {m} : managing'[n] = managing[n]
      BY <1>1, Manages
    <2>2. PortalTypeOK'
      BY <1>1, <1>3, <2>1 DEF PortalTypeOK
    <2>3. AccountsBelong'
      BY <1>1, <1>3, <2>1 DEF AccountsBelong, InTransit
    <2>4. OwnsItsAccount' /\ EditsARow'
      BY <1>1, <1>3, <2>1 DEF OwnsItsAccount, Holding, EditsARow
    <2> QED  BY <2>2, <2>3, <2>4
  <1> QED  BY <1>2, <1>3 DEF AccountFails

\* The row a creation inserts is that of the account it owns.
LEMMA InsertAdminPreserves ==
  ASSUME PortalAssumption, PortalInv, NEW m \in Manager, InsertAdmin(m)
  PROVE  PortalInv'
  <1> DEFINE l == managing[m]  row == [role |-> l.role, active |-> TRUE]
  <1> USE DEF PortalInv
  <1>1. l.pc = "row" /\ ManageDone(m) /\ admin' = [admin EXCEPT ![l.email] = row]
        /\ UNCHANGED <<account, portalFaults, stray>>
    BY DEF InsertAdmin, ManagerAt
  <1>2. l.email \in Email /\ row \in AdminRow /\ row # NoAdmin
    BY <1>1, Busy DEF AdminRow, AdminRole, NoAdmin
  <1>3. /\ managing' \in [Manager -> Managing \cup {Idle}] /\ managing'[m].pc = "idle"
        /\ \A n \in Manager \ {m} : managing'[n] = managing[n]
    BY <1>1, Manages
  <1>4. admin' \in [Email -> AdminRow \cup {NoAdmin}]
        /\ \A e \in Email : admin'[e] = IF e = l.email THEN row ELSE admin[e]
    BY <1>1, <1>2 DEF PortalTypeOK
  <1>5. l.email \in account /\ \A n \in Manager : Holding(n) /\ managing[n].email = l.email => n = m
    BY <1>1 DEF OwnsItsAccount, Holding
  <1>6. PortalTypeOK'
    BY <1>1, <1>3, <1>4 DEF PortalTypeOK
  <1>7. AccountsBelong'
    <2>1. \A e \in Email : admin'[e] # NoAdmin \/ e \in Client => e \in account
      BY <1>4, <1>5 DEF AccountsBelong
    <2>2. ASSUME NEW e \in account
          PROVE  e \in Client \/ admin'[e] # NoAdmin \/ InTransit(e)' \/ e \in stray
      <3>1. e \in Email
        BY DEF PortalTypeOK
      <3>2. CASE e = l.email
        BY <1>2, <1>4, <3>1, <3>2
      <3>3. CASE e # l.email
        <4>1. InTransit(e) => InTransit(e)'
          BY <1>3, <3>3 DEF InTransit
        <4> QED  BY <1>4, <3>1, <3>3, <4>1 DEF AccountsBelong
      <3> QED  BY <3>2, <3>3
    <2> QED  BY <1>1, <2>1, <2>2 DEF AccountsBelong
  <1>8. OwnsItsAccount'
    <2>1. ASSUME NEW n \in Manager, Holding(n)'
          PROVE  n # m /\ Holding(n) /\ managing'[n] = managing[n] /\ managing[n].email # l.email
                 /\ managing[n].email \in Email
      BY <1>3, <1>5, <2>1, Busy DEF Holding
    <2> QED  BY <1>1, <1>3, <1>4, <2>1 DEF OwnsItsAccount, Holding
  <1>9. EditsARow'
    <2>1. ASSUME NEW n \in Manager, managing'[n].pc = "edit"
          PROVE  managing'[n] = managing[n] /\ managing[n].email \in Email
      BY <1>3, <2>1, Busy
    <2> QED  BY <1>2, <1>3, <1>4, <2>1 DEF EditsARow
  <1> QED  BY <1>6, <1>7, <1>8, <1>9

LEMMA InsertAdminFailsPreserves ==
  ASSUME PortalAssumption, PortalInv, NEW m \in Manager, InsertAdminFails(m)
  PROVE  PortalInv'
  <1> USE DEF PortalInv
  <1>1. managing[m].pc = "row" /\ ManageNext(m, "undo") /\ UNCHANGED <<account, admin, stray>>
        /\ portalFaults' \in 0..MaxPortalFaults
    BY DEF InsertAdminFails, ManagerAt, PortalFault, PortalTypeOK, PortalAssumption
  <1>2. /\ managing' \in [Manager -> Managing \cup {Idle}] /\ managing'[m].pc = "undo"
        /\ managing'[m].email = managing[m].email
        /\ \A n \in Manager \ {m} : managing'[n] = managing[n]
    BY <1>1, Manages
  <1>3. PortalTypeOK'
    BY <1>1, <1>2 DEF PortalTypeOK
  <1>4. AccountsBelong'
    <2>1. \A e \in Email : InTransit(e) => InTransit(e)'
      BY <1>2 DEF InTransit
    <2> QED  BY <1>1, <2>1 DEF AccountsBelong, PortalTypeOK
  <1>5. OwnsItsAccount' /\ EditsARow'
    <2>1. \A n \in Manager : Holding(n)' => Holding(n) /\ managing'[n].email = managing[n].email
      BY <1>1, <1>2 DEF Holding
    <2> QED  BY <1>1, <1>2, <2>1 DEF OwnsItsAccount, EditsARow
  <1> QED  BY <1>3, <1>4, <1>5

\* The account that is taken back is the creation's own, and nobody's row.
LEMMA DeleteAccountPreserves ==
  ASSUME PortalAssumption, PortalInv, NEW m \in Manager, DeleteAccount(m)
  PROVE  PortalInv'
  <1> DEFINE e == managing[m].email
  <1> USE DEF PortalInv
  <1>1. managing[m].pc = "undo" /\ ManageDone(m) /\ account' = account \ {e}
        /\ UNCHANGED <<admin, portalFaults, stray>>
    BY DEF DeleteAccount, ManagerAt
  <1>2. e \in account \ Client /\ admin[e] = NoAdmin
        /\ \A n \in Manager : Holding(n) /\ managing[n].email = e => n = m
    BY <1>1 DEF OwnsItsAccount, Holding
  <1>3. /\ managing' \in [Manager -> Managing \cup {Idle}] /\ managing'[m].pc = "idle"
        /\ \A n \in Manager \ {m} : managing'[n] = managing[n]
    BY <1>1, Manages
  <1>4. PortalTypeOK'
    BY <1>1, <1>3 DEF PortalTypeOK
  <1>5. AccountsBelong'
    <2>1. \A f \in Email : f # e /\ InTransit(f) => InTransit(f)'
      BY <1>3 DEF InTransit
    <2> QED  BY <1>1, <1>2, <2>1 DEF AccountsBelong, PortalTypeOK
  <1>6. OwnsItsAccount' /\ EditsARow'
    <2>1. \A n \in Manager : Holding(n)' => Holding(n) /\ managing'[n] = managing[n] /\ n # m
      BY <1>1, <1>3 DEF Holding
    <2> QED  BY <1>1, <1>2, <1>3, <2>1 DEF OwnsItsAccount, EditsARow
  <1> QED  BY <1>4, <1>5, <1>6

LEMMA DeleteAccountFailsPreserves ==
  ASSUME PortalAssumption, PortalInv, NEW m \in Manager, DeleteAccountFails(m)
  PROVE  PortalInv'
  <1>1. /\ managing[m].pc = "undo" /\ ManageDone(m) /\ UNCHANGED <<account, admin>>
        /\ stray' = stray \cup {managing[m].email} /\ portalFaults' \in 0..MaxPortalFaults
    BY DEF DeleteAccountFails, ManagerAt, PortalFault, PortalInv, PortalTypeOK, PortalAssumption
  <1>2. stray' \subseteq Email /\ stray \subseteq stray' /\ managing[m].email \in stray'
    BY <1>1, Busy DEF PortalInv, PortalTypeOK
  <1> QED  BY <1>1, <1>2, GivesUpPreserves

LEMMA PortalCrashPreserves ==
  ASSUME PortalAssumption, PortalInv, PortalCrash
  PROVE  PortalInv'
  <1> DEFINE half == {m \in Manager : managing[m].pc \in {"row", "undo"}}
  <1> USE DEF PortalInv
  <1>1. /\ portalFaults' \in 0..MaxPortalFaults /\ UNCHANGED <<account, admin>>
        /\ stray' = stray \cup {managing[m].email : m \in half}
        /\ managing' = [m \in Manager |-> Idle]
    BY DEF PortalCrash, PortalFault, PortalTypeOK, PortalAssumption
  <1>2. stray' \subseteq Email /\ stray \subseteq stray'
    BY <1>1, Busy DEF PortalTypeOK
  <1>3. PortalTypeOK'
    BY <1>1, <1>2 DEF PortalTypeOK
  <1>4. AccountsBelong'
    BY <1>1 DEF AccountsBelong, InTransit
  <1>5. OwnsItsAccount' /\ EditsARow'
    BY <1>1 DEF OwnsItsAccount, Holding, EditsARow, Idle
  <1> QED  BY <1>3, <1>4, <1>5

\* An edit leaves a row where it found one.
LEMMA EditAdminPreserves ==
  ASSUME PortalAssumption, PortalInv, NEW m \in Manager, EditAdmin(m)
  PROVE  PortalInv'
  <1> DEFINE l == managing[m]  row == admin[l.email]
             new == IF l.field = "role" THEN [role |-> l.role, active |-> row.active]
                    ELSE [role |-> row.role, active |-> l.active]
  <1> USE DEF PortalInv
  <1>1. l.pc = "edit" /\ ManageDone(m) /\ admin' = [admin EXCEPT ![l.email] = new]
        /\ UNCHANGED <<account, portalFaults, stray>>
    BY DEF EditAdmin, ManagerAt
  <1>2. l.email \in Email /\ l.role \in AdminRole /\ l.active \in BOOLEAN /\ row # NoAdmin
    BY <1>1, Busy DEF EditsARow
  <1>3. row \in AdminRow
    BY <1>2 DEF PortalTypeOK
  <1>4. new \in AdminRow /\ new # NoAdmin
    BY <1>2, <1>3 DEF AdminRow, AdminRole, NoAdmin
  <1>5. /\ managing' \in [Manager -> Managing \cup {Idle}] /\ managing'[m].pc = "idle"
        /\ \A n \in Manager \ {m} : managing'[n] = managing[n]
    BY <1>1, Manages
  <1>6. admin' \in [Email -> AdminRow \cup {NoAdmin}]
        /\ \A e \in Email : admin'[e] = NoAdmin <=> admin[e] = NoAdmin
    BY <1>1, <1>2, <1>4 DEF PortalTypeOK
  <1>7. PortalTypeOK'
    BY <1>1, <1>5, <1>6 DEF PortalTypeOK
  <1>8. AccountsBelong'
    <2>1. \A e \in Email : InTransit(e) => InTransit(e)'
      BY <1>1, <1>5 DEF InTransit
    <2> QED  BY <1>1, <1>6, <2>1 DEF AccountsBelong, PortalTypeOK
  <1>9. OwnsItsAccount' /\ EditsARow'
    <2>1. ASSUME NEW n \in Manager, managing'[n].pc # "idle"
          PROVE  managing'[n] = managing[n] /\ managing[n].email \in Email
      BY <1>5, <2>1, Busy
    <2> QED  BY <1>1, <1>5, <1>6, <2>1 DEF OwnsItsAccount, Holding, EditsARow
  <1> QED  BY <1>7, <1>8, <1>9

LEMMA PortalPreserves ==
  ASSUME PortalAssumption, PortalInv, PortalNext
  PROVE  PortalInv'
  BY PortalBegins, AskAccountPreserves, AccountFailsPreserves, InsertAdminPreserves,
     InsertAdminFailsPreserves, DeleteAccountPreserves, DeleteAccountFailsPreserves,
     PortalCrashPreserves, EditAdminPreserves DEF PortalNext

LEMMA PortalStays == ASSUME PortalInv, UNCHANGED portalVars PROVE PortalInv'
  BY DEF PortalInv, PortalTypeOK, AccountsBelong, InTransit, OwnsItsAccount, Holding, EditsARow,
         portalVars

-----------------------------------------------------------------------------
(***************************************************************************)
(* The tickets.  Who is opening a ticket is alone with it, and who has     *)
(* taken a number of a year is alone with the next one of that year.       *)
(***************************************************************************)
Opening(r) == asking[r].pc \in {"number", "insert"}
OpensAlone ==
  \A r \in Asker : Opening(r) =>
    /\ ticket[asking[r].ticket] = NoTicket
    /\ \A q \in Asker : Opening(q) /\ asking[q].ticket = asking[r].ticket => q = r
HandlesATicket ==
  \A r \in Asker : asking[r].pc = "handle" => ticket[asking[r].ticket] # NoTicket
HasTheNextNumber ==
  \A r \in Asker : asking[r].pc = "insert" =>
    /\ asking[r].number = counter[asking[r].year] + 1
    /\ \A q \in Asker : asking[q].pc = "insert" /\ asking[q].year = asking[r].year => q = r

TicketsInv ==
  TicketsTypeOK /\ TicketsNumbered /\ OpensAlone /\ HandlesATicket /\ HasTheNextNumber

\* A request has the fields of what it is doing.
LEMMA Asks ==
  ASSUME TicketsTypeOK, NEW r \in Asker
  PROVE  /\ Opening(r) => asking[r] \in Asking /\ asking[r].ticket \in Ticket
                          /\ asking[r].year \in Year /\ asking[r].number \in Nat
         /\ asking[r].pc = "handle" => asking[r] \in Handling /\ asking[r].ticket \in Ticket
  BY DEF TicketsTypeOK, Opening, Asking, Handling, NotAsking

\* The numbers of a year, said of each ticket and each number.
LEMMA NumberedPointwise ==
  TicketsNumbered <=>
    \A y \in Year :
      /\ \A t, u \in Ticket :
           ticket[t] # NoTicket /\ ticket[t].year = y /\ ticket[u] # NoTicket /\ ticket[u].year = y
           /\ ticket[t].number = ticket[u].number => t = u
      /\ \A t \in Ticket : ticket[t] # NoTicket /\ ticket[t].year = y => ticket[t].number \in 1..counter[y]
      /\ \A k \in 1..counter[y] :
           \E t \in Ticket : ticket[t] # NoTicket /\ ticket[t].year = y /\ ticket[t].number = k
  <1>1. ASSUME NEW y \in Year
        PROVE  {ticket[t].number : t \in InYear(y)} = 1..counter[y] <=>
               /\ \A t \in Ticket : ticket[t] # NoTicket /\ ticket[t].year = y
                                      => ticket[t].number \in 1..counter[y]
               /\ \A k \in 1..counter[y] :
                    \E t \in Ticket : ticket[t] # NoTicket /\ ticket[t].year = y /\ ticket[t].number = k
    BY DEF InYear
  <1> QED  BY <1>1 DEF TicketsNumbered, InYear

LEMMA TicketsInitEstablishes == ASSUME TicketsInit PROVE TicketsInv
  <1>1. TicketsTypeOK
    BY DEF TicketsInit, TicketsTypeOK
  <1>2. \A y \in Year : InYear(y) = {}
    BY DEF TicketsInit, InYear
  <1>3. TicketsNumbered
    BY <1>2 DEF TicketsInit, TicketsNumbered
  <1>4. OpensAlone /\ HandlesATicket /\ HasTheNextNumber
    BY DEF TicketsInit, OpensAlone, Opening, HandlesATicket, HasTheNextNumber, NotAsking
  <1> QED  BY <1>1, <1>3, <1>4 DEF TicketsInv

LEMMA BeginTicketPreserves ==
  ASSUME TicketsAssumption, TicketsInv, NEW r \in Asker, NEW t \in Ticket, NEW y \in Year,
         NEW area \in Area, NEW study \in Study \cup {None}, NEW customer \in Customer \cup {None},
         BeginTicket(r, t, y, area, study, customer)
  PROVE  TicketsInv'
  <1> DEFINE whose == IF study # None THEN CustomerOf[study] ELSE customer
             l == [pc |-> "number", ticket |-> t, year |-> y, number |-> 0, study |-> study,
                   customer |-> whose]
  <1> USE DEF TicketsInv
  <1>1. /\ asking[r].pc = "idle" /\ ticket[t] = NoTicket
        /\ \A q \in Asker : asking[q].pc # "idle" => asking[q].ticket # t
        /\ asking' = [asking EXCEPT ![r] = l] /\ UNCHANGED <<ticket, counter>>
    BY DEF BeginTicket, AskerAt
  <1>2. whose \in Customer \cup {None}
    BY DEF TicketsAssumption
  <1>3. l \in Asking /\ l.pc = "number" /\ l.ticket = t
    BY <1>2 DEF Asking
  <1> HIDE DEF l
  <1>4. /\ asking' \in [Asker -> Asking \cup Handling \cup {NotAsking}] /\ asking'[r] = l
        /\ \A q \in Asker \ {r} : asking'[q] = asking[q]
    BY <1>1, <1>3 DEF TicketsTypeOK
  <1>5. TicketsTypeOK' /\ TicketsNumbered'
    BY <1>1, <1>4 DEF TicketsTypeOK, TicketsNumbered, InYear
  <1>6. OpensAlone'
    <2>1. ASSUME NEW q \in Asker, q # r, Opening(q)'
          PROVE  asking'[q] = asking[q] /\ Opening(q) /\ asking[q].ticket # t
      BY <1>1, <1>4, <2>1 DEF Opening
    <2> QED  BY <1>1, <1>3, <1>4, <2>1 DEF OpensAlone
  <1>7. HandlesATicket' /\ HasTheNextNumber'
    <2>1. ASSUME NEW q \in Asker, asking'[q].pc \in {"handle", "insert"}
          PROVE  asking'[q] = asking[q]
      BY <1>3, <1>4, <2>1
    <2> QED  BY <1>1, <2>1 DEF HandlesATicket, HasTheNextNumber
  <1> QED  BY <1>5, <1>6, <1>7

\* The lock on the counter: nobody else has taken a number of that year.
LEMMA TakeNumberPreserves ==
  ASSUME TicketsAssumption, TicketsInv, NEW r \in Asker, TakeNumber(r)
  PROVE  TicketsInv'
  <1> DEFINE y == asking[r].year  next == counter[y] + 1
             l == [asking[r] EXCEPT !.pc = "insert", !.number = next]
  <1> USE DEF TicketsInv
  <1>1. /\ asking[r].pc = "number" /\ asking' = [asking EXCEPT ![r] = l]
        /\ \A q \in Asker : asking[q].pc = "insert" => asking[q].year # y
        /\ UNCHANGED <<ticket, counter>>
    BY DEF TakeNumber, AskerAt
  <1>2. asking[r] \in Asking /\ y \in Year /\ asking[r].ticket \in Ticket /\ next \in Nat
    BY <1>1, Asks DEF Opening, TicketsTypeOK
  <1>3. /\ l \in Asking /\ l.pc = "insert" /\ l.ticket = asking[r].ticket /\ l.year = y
        /\ l.number = counter[y] + 1
    <2>1. next = counter[y] + 1
      OBVIOUS
    <2> HIDE DEF next
    <2>2. l \in Asking /\ l.pc = "insert" /\ l.ticket = asking[r].ticket /\ l.year = y /\ l.number = next
      BY <1>2 DEF Asking
    <2> QED  BY <2>1, <2>2
  <1> HIDE DEF l
  <1>4. /\ asking' \in [Asker -> Asking \cup Handling \cup {NotAsking}] /\ asking'[r] = l
        /\ \A q \in Asker \ {r} : asking'[q] = asking[q]
    BY <1>1, <1>3 DEF TicketsTypeOK
  <1>5. TicketsTypeOK' /\ TicketsNumbered'
    BY <1>1, <1>4 DEF TicketsTypeOK, TicketsNumbered, InYear
  <1>6. OpensAlone'
    <2>1. \A q \in Asker : Opening(q)' => Opening(q) /\ asking'[q].ticket = asking[q].ticket
      BY <1>1, <1>3, <1>4 DEF Opening
    <2> QED  BY <1>1, <2>1 DEF OpensAlone
  <1>7. HandlesATicket'
    BY <1>1, <1>3, <1>4 DEF HandlesATicket
  <1>8. HasTheNextNumber'
    <2>1. \A q \in Asker \ {r} : asking'[q].pc = "insert" => asking'[q].year # y
      BY <1>1, <1>4
    <2> QED  BY <1>1, <1>3, <1>4, <2>1 DEF HasTheNextNumber
  <1> QED  BY <1>5, <1>6, <1>7, <1>8

\* The number that is inserted is the one after the last of its year.
LEMMA InsertTicketPreserves ==
  ASSUME TicketsAssumption, TicketsInv, NEW r \in Asker, InsertTicket(r)
  PROVE  TicketsInv'
  <1> DEFINE l == asking[r]  t == l.ticket  y == l.year
             row == [year |-> l.year, number |-> l.number, study |-> l.study,
                     customer |-> l.customer, status |-> "open", assigned |-> None]
  <1> USE DEF TicketsInv
  <1>1. /\ l.pc = "insert" /\ asking' = [asking EXCEPT ![r] = NotAsking]
        /\ ticket' = [ticket EXCEPT ![t] = row]
        /\ counter' = [counter EXCEPT ![y] = l.number]
    BY DEF InsertTicket, AskerAt, StopAsking
  <1>2. l \in Asking /\ y \in Year /\ t \in Ticket /\ l.number \in Nat
    BY <1>1, Asks DEF Opening
  <1>3. l.number = counter[y] + 1 /\ counter[y] \in Nat /\ l.number \in Nat \ {0}
    BY <1>1, <1>2 DEF HasTheNextNumber, TicketsTypeOK
  <1>4. row \in TicketRow /\ row # NoTicket /\ row.year = y /\ row.number = counter[y] + 1
    <2>1. l.study \in Study \cup {None} /\ l.customer \in Customer \cup {None}
      BY <1>2 DEF Asking
    <2>2. row \in TicketRow
      BY <1>2, <1>3, <2>1 DEF TicketRow, TicketStatus
    <2>3. row.status # NoTicket.status
      BY DEF NoTicket
    <2> QED  BY <1>3, <2>2, <2>3
  <1> HIDE DEF row
  <1>5. ticket[t] = NoTicket
    BY <1>1 DEF OpensAlone, Opening
  <1>6. /\ ticket' \in [Ticket -> TicketRow \cup {NoTicket}] /\ ticket'[t] = row
        /\ \A u \in Ticket \ {t} : ticket'[u] = ticket[u]
    BY <1>1, <1>2, <1>4 DEF TicketsTypeOK
  <1>7. /\ counter' \in [Year -> Nat] /\ counter'[y] = counter[y] + 1
        /\ \A z \in Year \ {y} : counter'[z] = counter[z]
    BY <1>1, <1>2, <1>3 DEF TicketsTypeOK
  <1>8. /\ asking' \in [Asker -> Asking \cup Handling \cup {NotAsking}] /\ asking'[r] = NotAsking
        /\ \A q \in Asker \ {r} : asking'[q] = asking[q]
    BY <1>1 DEF TicketsTypeOK
  <1>9. TicketsTypeOK'
    BY <1>6, <1>7, <1>8 DEF TicketsTypeOK
  <1>10. TicketsNumbered'
    <2> SUFFICES ASSUME NEW z \in Year
                 PROVE  /\ \A v, u \in Ticket :
                             ticket'[v] # NoTicket /\ ticket'[v].year = z
                             /\ ticket'[u] # NoTicket /\ ticket'[u].year = z
                             /\ ticket'[v].number = ticket'[u].number => v = u
                        /\ \A u \in Ticket : ticket'[u] # NoTicket /\ ticket'[u].year = z
                             => ticket'[u].number \in 1..counter'[z]
                        /\ \A k \in 1..counter'[z] : \E u \in Ticket :
                             ticket'[u] # NoTicket /\ ticket'[u].year = z /\ ticket'[u].number = k
      BY DEF TicketsNumbered, InYear
    <2>1. /\ \A v, u \in Ticket :
               ticket[v] # NoTicket /\ ticket[v].year = z /\ ticket[u] # NoTicket /\ ticket[u].year = z
               /\ ticket[v].number = ticket[u].number => v = u
          /\ \A u \in Ticket : ticket[u] # NoTicket /\ ticket[u].year = z
               => ticket[u].number \in 1..counter[z]
          /\ \A k \in 1..counter[z] : \E u \in Ticket :
               ticket[u] # NoTicket /\ ticket[u].year = z /\ ticket[u].number = k
      BY NumberedPointwise
    <2>2. CASE z # y
      BY <1>4, <1>5, <1>6, <1>7, <2>1, <2>2
    <2>3. CASE z = y
      <3>1. \A u \in Ticket \ {t} : ticket[u] # NoTicket /\ ticket[u].year = y
               => ticket[u].number < row.number
        BY <1>3, <1>4, <2>1, <2>3
      <3>2. \A v, u \in Ticket :
               ticket'[v] # NoTicket /\ ticket'[v].year = z /\ ticket'[u] # NoTicket
               /\ ticket'[u].year = z /\ ticket'[v].number = ticket'[u].number => v = u
        BY <1>6, <2>1, <2>3, <3>1, <1>3, <1>4
      <3>3. \A u \in Ticket : ticket'[u] # NoTicket /\ ticket'[u].year = z
               => ticket'[u].number \in 1..counter'[z]
        BY <1>3, <1>4, <1>6, <1>7, <2>1, <2>3
      <3>4. ASSUME NEW k \in 1..counter'[z]
            PROVE  \E u \in Ticket :
                     ticket'[u] # NoTicket /\ ticket'[u].year = z /\ ticket'[u].number = k
        <4>1. CASE k = counter[y] + 1
          BY <1>2, <1>4, <1>6, <2>3, <4>1
        <4>2. CASE k # counter[y] + 1
          <5>1. k \in 1..counter[y]
            BY <1>3, <1>7, <2>3, <3>4, <4>2
          <5>2. PICK u \in Ticket : ticket[u] # NoTicket /\ ticket[u].year = z /\ ticket[u].number = k
            BY <2>1, <2>3, <5>1
          <5>3. u # t
            BY <1>5, <5>2
          <5> QED  BY <1>6, <5>2, <5>3
        <4> QED  BY <4>1, <4>2
      <3> QED  BY <3>2, <3>3, <3>4
    <2> QED  BY <2>2, <2>3
  <1>11. OpensAlone'
    <2>1. ASSUME NEW q \in Asker, Opening(q)'
          PROVE  q # r /\ asking'[q] = asking[q] /\ Opening(q) /\ asking[q].ticket # t
                 /\ asking[q].ticket \in Ticket
      <3>1. q # r /\ asking'[q] = asking[q] /\ Opening(q)
        BY <1>8, <2>1 DEF Opening, NotAsking
      <3>2. Opening(r)
        BY <1>1 DEF Opening
      <3> QED  BY <3>1, <3>2, Asks DEF OpensAlone
    <2> QED  BY <1>6, <2>1 DEF OpensAlone
  <1>12. HandlesATicket'
    <2>1. ASSUME NEW q \in Asker, asking'[q].pc = "handle"
          PROVE  asking'[q] = asking[q] /\ asking[q].ticket \in Ticket
      BY <1>8, <2>1, Asks DEF NotAsking
    <2> QED  BY <1>4, <1>6, <2>1 DEF HandlesATicket
  <1>13. HasTheNextNumber'
    <2>1. ASSUME NEW q \in Asker, asking'[q].pc = "insert"
          PROVE  q # r /\ asking'[q] = asking[q] /\ asking[q].year # y /\ asking[q].year \in Year
      <3>1. q # r /\ asking'[q] = asking[q]
        BY <1>8, <2>1 DEF NotAsking
      <3>2. asking[q].year \in Year
        BY <2>1, <3>1, Asks DEF Opening
      <3> QED  BY <1>1, <2>1, <3>1, <3>2 DEF HasTheNextNumber
    <2> QED  BY <1>7, <2>1 DEF HasTheNextNumber
  <1> QED  BY <1>9, <1>10, <1>11, <1>12, <1>13

LEMMA AbandonTicketPreserves ==
  ASSUME TicketsInv, NEW r \in Asker, AbandonTicket(r)
  PROVE  TicketsInv'
  <1> USE DEF TicketsInv
  <1>1. /\ asking' \in [Asker -> Asking \cup Handling \cup {NotAsking}] /\ asking'[r] = NotAsking
        /\ \A q \in Asker \ {r} : asking'[q] = asking[q]
        /\ UNCHANGED <<ticket, counter>>
    BY DEF TicketsTypeOK, AbandonTicket, StopAsking
  <1>2. TicketsTypeOK' /\ TicketsNumbered'
    BY <1>1 DEF TicketsTypeOK, TicketsNumbered, InYear
  <1>3. \A q \in Asker : asking'[q].pc # "idle" => asking'[q] = asking[q]
    BY <1>1 DEF NotAsking
  <1>4. OpensAlone' /\ HandlesATicket' /\ HasTheNextNumber'
    BY <1>1, <1>3 DEF OpensAlone, Opening, HandlesATicket, HasTheNextNumber
  <1> QED  BY <1>2, <1>4

LEMMA BeginHandlePreserves ==
  ASSUME TicketsInv, NEW r \in Asker, NEW t \in Ticket, NEW status \in TicketStatus \cup {None},
         NEW assigned \in Email \cup {None, "same"}, BeginHandle(r, t, status, assigned)
  PROVE  TicketsInv'
  <1> DEFINE l == [pc |-> "handle", ticket |-> t, status |-> status, assigned |-> assigned]
  <1> USE DEF TicketsInv
  <1>1. ticket[t] # NoTicket /\ asking' = [asking EXCEPT ![r] = l] /\ UNCHANGED <<ticket, counter>>
    BY DEF BeginHandle
  <1>2. l \in Handling /\ l.pc = "handle" /\ l.ticket = t
    BY DEF Handling
  <1> HIDE DEF l
  <1>3. /\ asking' \in [Asker -> Asking \cup Handling \cup {NotAsking}] /\ asking'[r] = l
        /\ \A q \in Asker \ {r} : asking'[q] = asking[q]
    BY <1>1, <1>2 DEF TicketsTypeOK
  <1>4. TicketsTypeOK' /\ TicketsNumbered'
    BY <1>1, <1>3 DEF TicketsTypeOK, TicketsNumbered, InYear
  <1>5. OpensAlone' /\ HasTheNextNumber'
    <2>1. \A q \in Asker : asking'[q].pc \in {"number", "insert"} => asking'[q] = asking[q]
      BY <1>2, <1>3
    <2> QED  BY <1>1, <2>1 DEF OpensAlone, Opening, HasTheNextNumber
  <1>6. HandlesATicket'
    BY <1>1, <1>2, <1>3 DEF HandlesATicket
  <1> QED  BY <1>4, <1>5, <1>6

\* Handling a ticket leaves its year and number.
LEMMA HandlePreserves ==
  ASSUME TicketsInv, NEW r \in Asker, Handle(r)
  PROVE  TicketsInv'
  <1> DEFINE l == asking[r]  t == l.ticket  row == ticket[t]
             status == IF l.status = None THEN row.status ELSE l.status
             assigned == IF l.assigned = "same" THEN row.assigned ELSE l.assigned
             new == [row EXCEPT !.status = status, !.assigned = assigned]
  <1> USE DEF TicketsInv
  <1>1. /\ l.pc = "handle" /\ ticket' = [ticket EXCEPT ![t] = new]
        /\ asking' = [asking EXCEPT ![r] = NotAsking] /\ counter' = counter
    BY DEF Handle, AskerAt, StopAsking
  <1>2. l \in Handling /\ t \in Ticket /\ row # NoTicket /\ row \in TicketRow
    BY <1>1, Asks DEF HandlesATicket, TicketsTypeOK
  <1>3. status \in TicketStatus /\ assigned \in Email \cup {None}
    BY <1>2 DEF Handling, TicketRow
  <1> HIDE DEF status, assigned
  <1>4. new \in TicketRow /\ new.year = row.year /\ new.number = row.number
    BY <1>2, <1>3 DEF TicketRow
  <1>5. new # NoTicket
    BY <1>4 DEF TicketRow, TicketStatus, NoTicket
  <1> HIDE DEF new
  <1>6. /\ ticket' \in [Ticket -> TicketRow \cup {NoTicket}]
        /\ \A u \in Ticket : /\ ticket'[u] # NoTicket <=> ticket[u] # NoTicket
                             /\ ticket'[u].year = ticket[u].year
                             /\ ticket'[u].number = ticket[u].number
    BY <1>1, <1>2, <1>4, <1>5 DEF TicketsTypeOK
  <1>7. /\ asking' \in [Asker -> Asking \cup Handling \cup {NotAsking}] /\ asking'[r] = NotAsking
        /\ \A q \in Asker \ {r} : asking'[q] = asking[q]
    BY <1>1 DEF TicketsTypeOK
  <1>8. TicketsTypeOK'
    BY <1>1, <1>6, <1>7 DEF TicketsTypeOK
  <1>9. TicketsNumbered'
    <2>1. \A y \in Year : InYear(y)' = InYear(y)
      BY <1>6 DEF InYear
    <2>2. \A y \in Year : \A u \in InYear(y) : ticket'[u].number = ticket[u].number
      BY <1>6 DEF InYear
    <2>3. \A y \in Year : {ticket'[u].number : u \in InYear(y)} = {ticket[u].number : u \in InYear(y)}
      BY <2>2
    <2> QED  BY <1>1, <2>1, <2>2, <2>3 DEF TicketsNumbered
  <1>10. \A q \in Asker : asking'[q].pc # "idle" => asking'[q] = asking[q]
    BY <1>7 DEF NotAsking
  <1>11. OpensAlone' /\ HandlesATicket'
    <2>1. \A q \in Asker : (Opening(q) \/ asking[q].pc = "handle") => asking[q].ticket \in Ticket
      BY Asks
    <2> QED  BY <1>6, <1>10, <2>1 DEF OpensAlone, Opening, HandlesATicket
  <1>12. HasTheNextNumber'
    BY <1>1, <1>10 DEF HasTheNextNumber
  <1> QED  BY <1>8, <1>9, <1>11, <1>12

LEMMA TicketsPreserve ==
  ASSUME TicketsAssumption, TicketsInv, TicketsNext
  PROVE  TicketsInv'
  BY BeginTicketPreserves, TakeNumberPreserves, InsertTicketPreserves, AbandonTicketPreserves,
     BeginHandlePreserves, HandlePreserves DEF TicketsNext

LEMMA TicketsStay == ASSUME TicketsInv, UNCHANGED ticketVars PROVE TicketsInv'
  BY DEF TicketsInv, TicketsTypeOK, TicketsNumbered, InYear, OpensAlone, Opening, HandlesATicket,
         HasTheNextNumber, ticketVars

-----------------------------------------------------------------------------
(***************************************************************************)
(* The blog.  Whoever writes over a post has read it, and a post stays.    *)
(***************************************************************************)
EditsAPost ==
  \A r \in Editor : editing[r].pc \in {"update", "archive"} =>
    /\ post[editing[r].post] # NoPost
    /\ editing[r].read \in PostRow

BlogInv == BlogTypeOK /\ PublicIsDated /\ EditsAPost

LEMMA BlogInitEstablishes == ASSUME BlogAssumption, BlogInit PROVE BlogInv
  BY DEF BlogAssumption, BlogInit, BlogInv, BlogTypeOK, Date, PublicIsDated, Public, NoPost, NoEdit,
         EditsAPost

LEMMA Edits ==
  ASSUME BlogTypeOK, NEW r \in Editor, editing[r].pc # "idle"
  PROVE  editing[r] \in Editing /\ editing[r].post \in Post /\ editing[r].body \in Body
         /\ editing[r].body.status \in BlogStatus \cup {"none"}
         /\ editing[r].body.publishedAt \in 0..MaxDate
  BY DEF BlogTypeOK, Editing, NoEdit, Body

LEMMA StartEditingPreserves ==
  ASSUME BlogInv, NEW r \in Editor, NEW pc \in {"create", "update", "archive"}, NEW p \in Post,
         NEW b \in Body, pc # "create" => post[p] # NoPost, StartEditing(r, pc, p, b)
  PROVE  BlogInv'
  <1> DEFINE l == [pc |-> pc, post |-> p, body |-> b, read |-> post[p]]
  <1> USE DEF BlogInv
  <1>1. editing' = [editing EXCEPT ![r] = l] /\ UNCHANGED <<post, today>>
    BY DEF StartEditing
  <1>2. l \in Editing /\ l.pc = pc /\ l.post = p /\ l.read = post[p]
    BY DEF Editing, BlogTypeOK
  <1>3. pc # "create" => l.read \in PostRow
    BY <1>2 DEF BlogTypeOK
  <1> HIDE DEF l
  <1>4. editing'[r] = l /\ \A q \in Editor \ {r} : editing'[q] = editing[q]
    BY <1>1 DEF BlogTypeOK
  <1>5. BlogTypeOK' /\ PublicIsDated'
    BY <1>1, <1>2 DEF BlogTypeOK, PublicIsDated, Public
  <1>6. EditsAPost'
    BY <1>1, <1>2, <1>3, <1>4 DEF EditsAPost
  <1> QED  BY <1>5, <1>6

\* A write of a post that is dated if it is published.
LEMMA WritePostPreserves ==
  ASSUME BlogInv, NEW r \in Editor, NEW p \in Post, NEW status \in BlogStatus,
         NEW date \in 0..MaxDate, status = "published" => date # 0,
         WritePost(p, status, date), StopEditing(r), UNCHANGED today
  PROVE  BlogInv'
  <1> DEFINE row == [status |-> status, publishedAt |-> date]
  <1> USE DEF BlogInv
  <1>1. row \in PostRow /\ row.status = status /\ row.publishedAt = date /\ row # NoPost
    BY DEF PostRow, NoPost, BlogStatus
  <1>2. post' = [post EXCEPT ![p] = row] /\ editing' = [editing EXCEPT ![r] = NoEdit]
    BY DEF WritePost, StopEditing
  <1> HIDE DEF row
  <1>3. post'[p] = row /\ \A o \in Post \ {p} : post'[o] = post[o]
    BY <1>2 DEF BlogTypeOK
  <1>4. \A q \in Editor : editing'[q].pc # "idle" => editing'[q] = editing[q]
    BY <1>2 DEF BlogTypeOK, NoEdit
  <1>5. BlogTypeOK'
    BY <1>1, <1>2 DEF BlogTypeOK
  <1>6. PublicIsDated'
    BY <1>1, <1>3 DEF PublicIsDated, Public
  <1>7. EditsAPost'
    BY <1>1, <1>3, <1>4, Edits DEF EditsAPost
  <1> QED  BY <1>5, <1>6, <1>7

\* resolvePublishedAt dates what is published.
LEMMA Resolves ==
  ASSUME BlogTypeOK, NEW status \in BlogStatus, NEW sent \in 0..MaxDate, NEW current \in 0..MaxDate,
         BlogAssumption
  PROVE  /\ ResolvePublishedAt(status, sent, current) \in 0..MaxDate
         /\ status = "published" => ResolvePublishedAt(status, sent, current) # 0
  BY DEF ResolvePublishedAt, BlogTypeOK, Date, BlogAssumption

LEMMA CreatePostPreserves ==
  ASSUME BlogAssumption, BlogInv, NEW r \in Editor, CreatePost(r)
  PROVE  BlogInv'
  <1> DEFINE b == editing[r].body  status == IF b.status = "none" THEN "draft" ELSE b.status
             date == ResolvePublishedAt(status, b.publishedAt, 0)
  <1>1. /\ WritePost(editing[r].post, status, date) /\ StopEditing(r) /\ UNCHANGED today
        /\ editing[r].pc # "idle"
    BY DEF CreatePost, EditorAt
  <1>2. editing[r].post \in Post /\ status \in BlogStatus /\ b.publishedAt \in 0..MaxDate
        /\ 0 \in 0..MaxDate
    BY <1>1, Edits DEF BlogInv, BlogStatus, BlogAssumption
  <1>3. date \in 0..MaxDate /\ (status = "published" => date # 0)
    BY <1>2, Resolves DEF BlogInv
  <1> HIDE DEF status, date
  <1> QED  BY <1>1, <1>2, <1>3, WritePostPreserves

\* With no status sent the date of a published post stays, or is the one that
\* was sent, or the one that was read: if none of them, it is today.
LEMMA UpdatePostPreserves ==
  ASSUME BlogAssumption, BlogInv, NEW r \in Editor, UpdatePost(r)
  PROVE  BlogInv'
  <1> DEFINE l == editing[r]  b == l.body  p == l.post
  <1> USE DEF BlogInv
  <1>1. l.pc = "update" /\ StopEditing(r) /\ UNCHANGED today
    BY DEF UpdatePost, EditorAt
  <1>2. /\ p \in Post /\ b.status \in BlogStatus \cup {"none"} /\ b.publishedAt \in 0..MaxDate
        /\ post[p] \in PostRow /\ l.read \in PostRow
    BY <1>1, Edits DEF EditsAPost, BlogTypeOK
  <1>3. /\ post[p].status \in BlogStatus /\ post[p].publishedAt \in 0..MaxDate
        /\ l.read.status \in BlogStatus /\ l.read.publishedAt \in 0..MaxDate
    BY <1>2 DEF PostRow
  <1>4. post[p].status = "published" => post[p].publishedAt # 0
    BY <1>2 DEF PublicIsDated, Public
  <1>5. CASE b.status = "none"
    <2> DEFINE date == NewPublishedAt(p, l.read.status, b, l.read)
    <2>1. WritePost(p, post[p].status, date)
      BY <1>5 DEF UpdatePost
    <2>2. date = IF b.publishedAt = 0 THEN post[p].publishedAt ELSE b.publishedAt
      BY <1>2, <1>5 DEF NewPublishedAt, ResolvePublishedAt
    <2>3. date \in 0..MaxDate /\ (post[p].status = "published" => date # 0)
      BY <1>2, <1>3, <1>4, <2>2
    <2> HIDE DEF date
    <2> QED  BY <1>1, <1>2, <1>3, <2>1, <2>3, WritePostPreserves
  <1>6. CASE b.status # "none"
    <2> DEFINE date == NewPublishedAt(p, b.status, b, l.read)
    <2>1. WritePost(p, b.status, date)
      BY <1>6 DEF UpdatePost
    <2>2. date = ResolvePublishedAt(b.status, b.publishedAt, l.read.publishedAt)
      BY <1>6 DEF NewPublishedAt
    <2>3. b.status \in BlogStatus
      BY <1>2, <1>6
    <2>4. date \in 0..MaxDate /\ (b.status = "published" => date # 0)
      BY <1>2, <1>3, <2>2, <2>3, Resolves
    <2> HIDE DEF date
    <2> QED  BY <1>1, <1>2, <2>1, <2>3, <2>4, WritePostPreserves
  <1> QED  BY <1>5, <1>6

LEMMA ArchivePostPreserves ==
  ASSUME BlogInv, NEW r \in Editor, ArchivePost(r)
  PROVE  BlogInv'
  <1> DEFINE p == editing[r].post
  <1>1. editing[r].pc = "archive" /\ WritePost(p, "archived", post[p].publishedAt)
        /\ StopEditing(r) /\ UNCHANGED today
    BY DEF ArchivePost, EditorAt
  <1>2. p \in Post /\ post[p] \in PostRow
    BY <1>1, Edits DEF BlogInv, EditsAPost, BlogTypeOK
  <1>3. post[p].publishedAt \in 0..MaxDate /\ "archived" \in BlogStatus
    BY <1>2 DEF PostRow, BlogStatus
  <1> QED  BY <1>1, <1>2, <1>3, WritePostPreserves

LEMMA BlogPreserves ==
  ASSUME BlogAssumption, BlogInv, BlogNext
  PROVE  BlogInv'
  <1>1. ASSUME NEW r \in Editor, NEW p \in Post, NEW b \in Body,
               BeginCreatePost(r, p, b) \/ BeginUpdatePost(r, p, b)
        PROVE  BlogInv'
    BY <1>1, StartEditingPreserves DEF BeginCreatePost, BeginUpdatePost
  <1>2. ASSUME NEW r \in Editor, NEW p \in Post, BeginArchivePost(r, p)
        PROVE  BlogInv'
    <2>1. [status |-> "archived", publishedAt |-> 0] \in Body
      BY DEF Body, BlogStatus, BlogAssumption
    <2> QED  BY <1>2, <2>1, StartEditingPreserves DEF BeginArchivePost
  <1>3. ASSUME NEW r \in Editor, RefusePost(r)
        PROVE  BlogInv'
    BY <1>3 DEF RefusePost, StopEditing, BlogInv, BlogTypeOK, PublicIsDated, Public, EditsAPost, NoEdit
  <1>4. ASSUME NextDay
        PROVE  BlogInv'
    BY <1>4 DEF NextDay, BlogInv, BlogTypeOK, Date, PublicIsDated, Public, EditsAPost, BlogAssumption
  <1> QED
    BY <1>1, <1>2, <1>3, <1>4, CreatePostPreserves, UpdatePostPreserves, ArchivePostPreserves
    DEF BlogNext

LEMMA BlogStays == ASSUME BlogInv, UNCHANGED blogVars PROVE BlogInv'
  BY DEF BlogInv, BlogTypeOK, PublicIsDated, Public, EditsAPost, blogVars

-----------------------------------------------------------------------------
(***************************************************************************)
(* The versions.  A save supersedes versions of its own type, inserted     *)
(* before its own.                                                         *)
(***************************************************************************)
SeesItsType ==
  \A s \in Saver : saving[s].pc # "idle" =>
    \A v \in saving[s].seen : v \in 1..versions /\ version[v].type = saving[s].type

VersionsInv == VersionsTypeOK /\ NewestInForce /\ SeesItsType

LEMMA VersionsInitEstablishes == ASSUME VersionsAssumption, VersionsInit PROVE VersionsInv
  <1>1. VersionsTypeOK
    BY DEF VersionsAssumption, VersionsInit, VersionsTypeOK, VersionId
  <1>2. NewestInForce /\ SeesItsType
    BY DEF VersionsInit, NewestInForce, SeesItsType, NotSaving
  <1> QED  BY <1>1, <1>2 DEF VersionsInv

LEMMA Saves ==
  ASSUME VersionsTypeOK, NEW s \in Saver, saving[s].pc # "idle"
  PROVE  saving[s] \in Saving /\ saving[s].type \in PersonType /\ saving[s].weighed \in SUBSET Dimension
  BY DEF VersionsTypeOK, Saving, NotSaving

\* A save that goes on with what it sees.
LEMMA SaverStepPreserves ==
  ASSUME VersionsInv, NEW s \in Saver, NEW l \in Saving \cup {NotSaving},
         saving' = [saving EXCEPT ![s] = l],
         l.pc # "idle" => \A v \in l.seen : v \in 1..versions /\ version[v].type = l.type,
         UNCHANGED <<version, versions, catalog>>
  PROVE  VersionsInv'
  <1> USE DEF VersionsInv
  <1>1. saving'[s] = l /\ \A q \in Saver \ {s} : saving'[q] = saving[q]
    BY DEF VersionsTypeOK
  <1>2. VersionsTypeOK' /\ NewestInForce'
    BY DEF VersionsTypeOK, NewestInForce
  <1>3. SeesItsType'
    BY <1>1 DEF SeesItsType
  <1> QED  BY <1>2, <1>3

LEMMA BeginSavePreserves ==
  ASSUME VersionsInv, NEW s \in Saver, NEW t \in PersonType, NEW weighed \in SUBSET Dimension,
         BeginSave(s, t, weighed)
  PROVE  VersionsInv'
  <1> DEFINE l == [pc |-> "look", type |-> t, weighed |-> weighed, seen |-> {}]
  <1>1. l \in Saving /\ l.seen = {}
    BY DEF Saving
  <1>2. saving' = [saving EXCEPT ![s] = l] /\ UNCHANGED <<version, versions, catalog>>
    BY DEF BeginSave
  <1> HIDE DEF l
  <1> QED  BY <1>1, <1>2, SaverStepPreserves

LEMMA LookPreserves ==
  ASSUME VersionsInv, NEW s \in Saver, Look(s)
  PROVE  VersionsInv'
  <1> DEFINE seen == InForce(saving[s].type)
             l == [saving[s] EXCEPT !.pc = "wait", !.seen = seen]
  <1>1. saving[s] \in Saving /\ saving' = [saving EXCEPT ![s] = l]
        /\ UNCHANGED <<version, versions, catalog>>
    BY Saves DEF Look, SaverAt, VersionsInv
  <1>2. seen \subseteq VersionId /\ \A v \in seen : v \in 1..versions /\ version[v].type = saving[s].type
    <2>1. \A v \in seen : v \in 1..versions /\ version[v].type = saving[s].type
      BY DEF InForce
    <2>2. 1..versions \subseteq VersionId
      BY VersionsAssumption DEF VersionsAssumption, VersionsInv, VersionsTypeOK, VersionId
    <2> HIDE DEF seen
    <2> QED  BY <2>1, <2>2
  <1> HIDE DEF seen
  <1>3. l \in Saving /\ l.seen = seen /\ l.type = saving[s].type
    BY <1>1, <1>2 DEF Saving
  <1> HIDE DEF l
  <1> QED  BY <1>1, <1>2, <1>3, SaverStepPreserves

LEMMA HoldPreserves ==
  ASSUME VersionsInv, NEW s \in Saver, Hold(s)
  PROVE  VersionsInv'
  <1> DEFINE held == {v \in saving[s].seen : version[v].active}
             l == [saving[s] EXCEPT !.pc = "insert", !.seen = held]
  <1>1. saving[s] \in Saving /\ saving' = [saving EXCEPT ![s] = l] /\ saving[s].pc # "idle"
        /\ UNCHANGED <<version, versions, catalog>>
    BY Saves DEF Hold, SaverAt, VersionsInv
  <1>2. held \subseteq VersionId /\ \A v \in held : v \in 1..versions /\ version[v].type = saving[s].type
    BY <1>1 DEF Saving, VersionsInv, SeesItsType
  <1> HIDE DEF held
  <1>3. l \in Saving /\ l.seen = held /\ l.type = saving[s].type
    BY <1>1, <1>2 DEF Saving
  <1> HIDE DEF l
  <1> QED  BY <1>1, <1>2, <1>3, SaverStepPreserves

\* The newest version of the type that is saved is the one being inserted, and
\* the versions of another type stay as they were.
LEMMA CommitPreserves ==
  ASSUME VersionsAssumption, VersionsInv, NEW s \in Saver, Commit(s)
  PROVE  VersionsInv'
  <1> DEFINE l == saving[s]  n == versions + 1
             new == [type |-> l.type, weighed |-> l.weighed, active |-> TRUE]
  <1> USE DEF VersionsInv
  <1>1. /\ l.pc = "insert" /\ versions < MaxVersions /\ versions' = n
        /\ version' = [v \in VersionId |-> IF v = n THEN new ELSE Superseded(l.seen, v)]
        /\ saving' = [saving EXCEPT ![s] = NotSaving] /\ catalog' = catalog
    BY DEF Commit, SaverAt, StopSaving
  <1>2. l.type \in PersonType /\ l.weighed \in SUBSET Dimension
    BY <1>1, Saves
  <1>3. n \in VersionId /\ n \in 0..MaxVersions /\ versions \in Nat
    BY <1>1 DEF VersionId, VersionsTypeOK, VersionsAssumption
  <1>4. new \in Version /\ new.type = l.type /\ new.active /\ new # NoVersion
    BY <1>2 DEF Version, NoVersion
  <1> HIDE DEF new
  <1>5. version'[n] = new /\ \A v \in VersionId \ {n} : version'[v] = Superseded(l.seen, v)
    BY <1>1, <1>3
  <1>6. \A v \in l.seen : v \in 1..versions /\ version[v].type = l.type
    BY <1>1 DEF SeesItsType
  <1>7. ASSUME NEW v \in VersionId, v <= versions
        PROVE  /\ version[v] \in Version /\ version'[v] \in Version /\ version'[v] # NoVersion
               /\ version'[v].type = version[v].type
               /\ version[v].type # l.type => version'[v].active = version[v].active
    <2>1. version[v] \in Version /\ version'[v] = Superseded(l.seen, v)
      <3>1. version[v] # NoVersion /\ v # n
        BY <1>3, <1>7 DEF VersionsTypeOK, VersionId
      <3> QED  BY <1>5, <3>1 DEF VersionsTypeOK
    <2>2. /\ version'[v] \in Version /\ version'[v].type = version[v].type
          /\ version[v].type # l.type => version'[v].active = version[v].active
      BY <1>6, <2>1 DEF Superseded, Version
    <2>3. version'[v] # NoVersion
      <3>1. DOMAIN version'[v] = {"type", "weighed", "active"}
        BY <2>2 DEF Version
      <3>2. DOMAIN NoVersion = {"active"}
        BY DEF NoVersion
      <3> QED  BY <3>1, <3>2
    <2> QED  BY <2>1, <2>2, <2>3
  <1>8. ASSUME NEW v \in VersionId, v > n
        PROVE  version'[v] = NoVersion
    <2>1. version[v] = NoVersion /\ v # n /\ v \notin l.seen
      BY <1>3, <1>6, <1>8 DEF VersionsTypeOK, VersionId
    <2> QED  BY <1>5, <2>1 DEF Superseded
  <1>9. VersionsTypeOK'
    <2>1. \A v \in VersionId : v <= versions \/ v = n \/ v > n
      BY <1>3 DEF VersionId
    <2>2. \A v \in VersionId : version'[v] \in Version \cup {NoVersion}
      BY <1>4, <1>5, <1>7, <1>8, <2>1
    <2>3. \A v \in VersionId : version'[v] # NoVersion <=> v <= n
      BY <1>3, <1>4, <1>5, <1>7, <1>8, <2>1 DEF VersionId
    <2>4. version' \in [VersionId -> Version \cup {NoVersion}]
      BY <1>1, <2>2
    <2>5. saving' \in [Saver -> Saving \cup {NotSaving}]
      BY <1>1 DEF VersionsTypeOK
    <2> QED  BY <1>1, <1>3, <2>3, <2>4, <2>5 DEF VersionsTypeOK
  <1>10. NewestInForce'
    <2> SUFFICES ASSUME NEW v \in 1..n,
                        \A w \in 1..n : w > v => version'[w].type # version'[v].type
                 PROVE  version'[v].active
      BY <1>1 DEF NewestInForce
    <2>1. CASE v = n
      BY <1>4, <1>5, <2>1
    <2>2. CASE v # n
      <3>1. v \in 1..versions /\ v \in VersionId /\ v <= versions
        BY <1>3, <2>2 DEF VersionId
      <3>2. version[v].type # l.type
        BY <1>3, <1>4, <1>5, <1>7, <3>1
      <3>3. \A w \in 1..versions : w > v => version[w].type # version[v].type
        <4>1. \A w \in 1..versions : w \in 1..n /\ w \in VersionId /\ w <= versions
          BY <1>3 DEF VersionId
        <4> QED  BY <1>7, <3>1, <4>1
      <3>4. version[v].active
        BY <3>1, <3>3 DEF NewestInForce
      <3> QED  BY <1>7, <3>1, <3>2, <3>4
    <2> QED  BY <2>1, <2>2
  <1>11. SeesItsType'
    <2> SUFFICES ASSUME NEW q \in Saver, saving'[q].pc # "idle", NEW v \in saving'[q].seen
                 PROVE  v \in 1..n /\ version'[v].type = saving'[q].type
      BY <1>1 DEF SeesItsType
    <2>1. saving'[q] = saving[q]
      BY <1>1 DEF VersionsTypeOK, NotSaving
    <2>2. v \in 1..versions /\ version[v].type = saving[q].type
      BY <2>1 DEF SeesItsType
    <2>3. v \in VersionId /\ v <= versions /\ v \in 1..n
      BY <1>3, <2>2 DEF VersionId
    <2> QED  BY <1>7, <2>1, <2>2, <2>3
  <1> QED  BY <1>9, <1>10, <1>11

LEMMA AbortSavePreserves ==
  ASSUME VersionsInv, NEW s \in Saver, AbortSave(s)
  PROVE  VersionsInv'
  BY SaverStepPreserves DEF AbortSave, StopSaving, NotSaving

LEMMA VersionsPreserve ==
  ASSUME VersionsAssumption, VersionsInv, VersionsNext
  PROVE  VersionsInv'
  <1>1. ASSUME NEW s \in Saver, NEW t \in PersonType, BeginReset(s, t)
        PROVE  VersionsInv'
    BY <1>1, BeginSavePreserves DEF BeginReset, VersionsAssumption
  <1>2. ASSUME NEW d \in Dimension, EditDimension(d)
        PROVE  VersionsInv'
    BY <1>2 DEF EditDimension, VersionsInv, VersionsTypeOK, NewestInForce, SeesItsType
  <1> QED
    BY <1>1, <1>2, BeginSavePreserves, LookPreserves, HoldPreserves, CommitPreserves,
       AbortSavePreserves DEF VersionsNext

LEMMA VersionsStay == ASSUME VersionsInv, UNCHANGED versionVars PROVE VersionsInv'
  BY DEF VersionsInv, VersionsTypeOK, NewestInForce, SeesItsType, versionVars

-----------------------------------------------------------------------------
(***************************************************************************)
(* All the desks.                                                          *)
(***************************************************************************)
IInv == desk \in Desk /\ PortalInv /\ TicketsInv /\ BlogInv /\ VersionsInv

LEMMA InitEstablishes == Init => IInv
  BY PortalAssumption, BlogAssumption, VersionsAssumption, PortalInitEstablishes,
     TicketsInitEstablishes, BlogInitEstablishes, VersionsInitEstablishes
  DEF Init, IInv

LEMMA NextPreserves == IInv /\ [Next]_vars => IInv'
  <1> SUFFICES ASSUME IInv, [Next]_vars
               PROVE  IInv'
    OBVIOUS
  <1>1. CASE Portal /\ UNCHANGED desk
    BY <1>1, PortalAssumption, PortalPreserves, TicketsStay, BlogStays, VersionsStay DEF IInv, Portal
  <1>2. CASE Tickets /\ UNCHANGED desk
    BY <1>2, TicketsAssumption, TicketsPreserve, PortalStays, BlogStays, VersionsStay DEF IInv, Tickets
  <1>3. CASE Blog /\ UNCHANGED desk
    BY <1>3, BlogAssumption, BlogPreserves, PortalStays, TicketsStay, VersionsStay DEF IInv, Blog
  <1>4. CASE Versions /\ UNCHANGED desk
    BY <1>4, VersionsAssumption, VersionsPreserve, PortalStays, TicketsStay, BlogStays DEF IInv, Versions
  <1>5. CASE UNCHANGED vars
    BY <1>5, PortalStays, TicketsStay, BlogStays, VersionsStay DEF IInv, vars
  <1> QED  BY <1>1, <1>2, <1>3, <1>4, <1>5 DEF Next

LEMMA IInvHolds == Spec => []IInv
  BY InitEstablishes, NextPreserves, PTL DEF Spec

\* The rows and the locals of every desk keep their types.
THEOREM TypesHold == Spec => []TypeOK
  <1>1. IInv => TypeOK
    BY DEF IInv, TypeOK, PortalInv, TicketsInv, BlogInv, VersionsInv
  <1> QED  BY <1>1, IInvHolds, PTL

\* createPlatformAdmin leaves no account behind but those a failure it names
\* leaves, and takes back nobody else's.
THEOREM AccountsBelongHolds == Spec => []AccountsBelong
  <1>1. IInv => AccountsBelong
    BY DEF IInv, PortalInv
  <1> QED  BY <1>1, IInvHolds, PTL

\* createWithReference numbers the tickets of a year without gaps or
\* repetitions.
THEOREM TicketsNumberedHolds == Spec => []TicketsNumbered
  <1>1. IInv => TicketsNumbered
    BY DEF IInv, TicketsInv
  <1> QED  BY <1>1, IInvHolds, PTL

\* A post that is public has the date the public list is ordered by.
THEOREM PublicIsDatedHolds == Spec => []PublicIsDated
  <1>1. IInv => PublicIsDated
    BY DEF IInv, BlogInv
  <1> QED  BY <1>1, IInvHolds, PTL

\* The version a company saved last is in force, however many save at once.
THEOREM NewestInForceHolds == Spec => []NewestInForce
  <1>1. IInv => NewestInForce
    BY DEF IInv, VersionsInv
  <1> QED  BY <1>1, IInvHolds, PTL
=============================================================================
