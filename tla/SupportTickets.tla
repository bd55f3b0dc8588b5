--------------------------- MODULE SupportTickets ---------------------------
(***************************************************************************)
(* Support tickets.  A ticket is numbered within its year by a counter     *)
(* that the transaction inserting it increments: the row of the counter is *)
(* its own until it commits or rolls back.  Tickets are tied to a customer *)
(* and perhaps to a study of that customer, and assigned to administrators *)
(* of the portal.                                                          *)
(*                                                                         *)
(* Left out: the texts, the type and priority, the notes and the mails,    *)
(* which are sent after the commit and whose failure is logged.            *)
(***************************************************************************)
EXTENDS PortalAdmins

CONSTANTS
  Ticket, Year,
  Study, Customer,
  CustomerOf,  \* the customer of each study of the company
  Asker        \* requests that open or handle a ticket

ASSUME TicketsAssumption == CustomerOf \in [Study -> Customer]

VARIABLES
  ticket,   \* support_tickets
  counter,  \* support_ticket_counters
  asking    \* locals of each request

ticketVars == <<ticket, counter, asking>>

-----------------------------------------------------------------------------
Area == {"credit_study", "customer", "other"}
TicketStatus == {"open", "in_progress", "closed"}
None == "none"
TicketRow == [year : Year, number : Nat \ {0}, study : Study \cup {None},
              customer : Customer \cup {None}, status : TicketStatus,
              assigned : Email \cup {None}]
NoTicket == [status |-> "none"]
NotAsking == [pc |-> "idle"]
Asking == [pc : {"number", "insert"}, ticket : Ticket, year : Year, number : Nat,
           study : Study \cup {None}, customer : Customer \cup {None}]
Handling == [pc : {"handle"}, ticket : Ticket, status : TicketStatus \cup {None},
             assigned : Email \cup {None, "same"}]

TicketsTypeOK ==
  /\ ticket \in [Ticket -> TicketRow \cup {NoTicket}]
  /\ counter \in [Year -> Nat]
  /\ asking \in [Asker -> Asking \cup Handling \cup {NotAsking}]

TicketsInit ==
  /\ ticket = [t \in Ticket |-> NoTicket]
  /\ counter = [y \in Year |-> 0]
  /\ asking = [r \in Asker |-> NotAsking]

AskerAt(r, pc) == asking[r].pc = pc
StopAsking(r) == asking' = [asking EXCEPT ![r] = NotAsking]
InYear(y) == {t \in Ticket : ticket[t] # NoTicket /\ ticket[t].year = y}

-----------------------------------------------------------------------------
\* create: what the area needs is there, the customer is the study's, and a
\* study brings its customer.
BeginTicket(r, t, y, area, study, customer) ==
  /\ AskerAt(r, "idle")
  /\ ticket[t] = NoTicket /\ \A q \in Asker : ~AskerAt(q, "idle") => asking[q].ticket # t
  /\ area = "credit_study" => study # None
  /\ area = "customer" => customer # None
  /\ study # None => customer \in {None, CustomerOf[study]}
  /\ asking' = [asking EXCEPT ![r] =
                  [pc |-> "number", ticket |-> t, year |-> y, number |-> 0, study |-> study,
                   customer |-> IF study # None THEN CustomerOf[study] ELSE customer]]
  /\ UNCHANGED <<ticket, counter>>

\* Mutant: the counter is read and incremented without its lock.
TakeNumberUnlocked(r) ==
  LET y == asking[r].year IN
  /\ AskerAt(r, "number")
  /\ asking' = [asking EXCEPT ![r] = [asking[r] EXCEPT !.pc = "insert",
                                                       !.number = counter[y] + 1]]
  /\ UNCHANGED <<ticket, counter>>

\* The upsert of the counter waits for whoever has written it.
TakeNumber(r) ==
  LET y == asking[r].year IN
  /\ AskerAt(r, "number")
  /\ \A q \in Asker : AskerAt(q, "insert") => asking[q].year # y
  /\ asking' = [asking EXCEPT ![r] = [asking[r] EXCEPT !.pc = "insert",
                                                       !.number = counter[y] + 1]]
  /\ UNCHANGED <<ticket, counter>>

\* The ticket is inserted, and both are committed.
InsertTicket(r) ==
  LET l == asking[r] IN
  /\ AskerAt(r, "insert")
  /\ ticket' = [ticket EXCEPT ![l.ticket] =
                  [year |-> l.year, number |-> l.number, study |-> l.study,
                   customer |-> l.customer, status |-> "open", assigned |-> None]]
  /\ counter' = [counter EXCEPT ![l.year] = l.number]
  /\ StopAsking(r)

\* The transaction rolls back, or the server stops.
AbandonTicket(r) ==
  /\ ~AskerAt(r, "idle")
  /\ StopAsking(r)
  /\ UNCHANGED <<ticket, counter>>

\* update: a ticket is assigned to an administrator who is active when asked.
BeginHandle(r, t, status, assigned) ==
  /\ AskerAt(r, "idle") /\ ticket[t] # NoTicket
  /\ assigned \in Email => IsPlatformAdmin(assigned)
  /\ asking' = [asking EXCEPT ![r] = [pc |-> "handle", ticket |-> t, status |-> status,
                                      assigned |-> assigned]]
  /\ UNCHANGED <<ticket, counter>>

Handle(r) ==
  LET l == asking[r]  row == ticket[l.ticket] IN
  /\ AskerAt(r, "handle")
  /\ ticket' = [ticket EXCEPT ![l.ticket] =
                  [row EXCEPT !.status = IF l.status = None THEN row.status ELSE l.status,
                              !.assigned = IF l.assigned = "same" THEN row.assigned
                                           ELSE l.assigned]]
  /\ StopAsking(r)
  /\ UNCHANGED counter

TicketsNext ==
  \/ \E r \in Asker, t \in Ticket, y \in Year, area \in Area,
        study \in Study \cup {None}, customer \in Customer \cup {None} :
       BeginTicket(r, t, y, area, study, customer)
  \/ \E r \in Asker : TakeNumber(r) \/ InsertTicket(r) \/ AbandonTicket(r) \/ Handle(r)
  \/ \E r \in Asker, t \in Ticket, status \in TicketStatus \cup {None},
        assigned \in Email \cup {None, "same"} : BeginHandle(r, t, status, assigned)

-----------------------------------------------------------------------------
\* createWithReference promises references without duplicates: the tickets of
\* a year are numbered 1, 2, 3 ... up to its counter, each number once, with
\* any number of tickets opened at once and transactions that roll back.
TicketsNumbered ==
  \A y \in Year :
    /\ \A t, u \in InYear(y) : ticket[t].number = ticket[u].number => t = u
    /\ {ticket[t].number : t \in InYear(y)} = 1..counter[y]
=============================================================================
