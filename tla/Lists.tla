-------------------------------- MODULE Lists --------------------------------
(***************************************************************************)
(* GET /tickets and GET /reports/tickets: one SELECT over the tickets that *)
(* the query parameters and the actor's roles restrict.  Who may see a     *)
(* ticket and when it is overdue is decided twice in the code, in SQL for  *)
(* the lists and in Go (CanViewTicket, IsOverdue) for a single ticket; the *)
(* theorems say that the two agree.                                        *)
(*                                                                         *)
(* A ticket is any record with at least status, author, assignee, due and  *)
(* deleted.  Times are numbers, and NULL is an absent value.               *)
(***************************************************************************)
EXTENDS Domain, TLAPS

CONSTANT NULL

\* domain.TicketStatus.Valid
Valid(status) == status \in TicketStatus

\* The filter of GET /tickets: three parameters of the query, each absent or
\* given; the report only takes overdue.  No handler asks for an author.
ListQuery(status, assignee, overdue) ==
  [status |-> status, assignee |-> assignee, author |-> NULL, visibleTo |-> NULL,
   overdue |-> overdue]

ReportQuery(overdue) == ListQuery(NULL, NULL, overdue)

-----------------------------------------------------------------------------
(***************************************************************************)
(* The selection in SQL, and what the service asks of it.                  *)
(***************************************************************************)

OverdueInSQL(t, now) ==
  t.due # NULL /\ t.due < now /\ t.status \notin {"closed", "cancelled"}

\* The conditions of buildListQuery.
Selected(f, t, now) ==
  /\ ~t.deleted
  /\ f.status # NULL => t.status = f.status
  /\ f.assignee # NULL => t.assignee = f.assignee
  /\ f.author # NULL => t.author = f.author
  /\ f.visibleTo # NULL => t.author = f.visibleTo \/ t.assignee = f.visibleTo
  /\ f.overdue => OverdueInSQL(t, now)

ListTickets(f, tickets, now) == {t \in tickets : Selected(f, t, now)}

\* Who may not list all tickets sees those he is the author or assignee of.
Restricted(actor, f) ==
  IF CanListAllTickets(actor) THEN f ELSE [f EXCEPT !.visibleTo = actor.user]

List(actor, status, assignee, overdue, tickets, now) ==
  ListTickets(Restricted(actor, ListQuery(status, assignee, overdue)), tickets, now)

\* Not restricted: the whole report, or ErrForbidden.
Report(actor, overdue, tickets, now) ==
  IF CanViewReports(actor) THEN ListTickets(ReportQuery(overdue), tickets, now) ELSE {}

\* The overdue field of an answer, computed by the server after the SELECT.
IsOverdue(t, now) ==
  /\ t.due # NULL
  /\ t.status \notin {"closed", "cancelled"}
  /\ t.due < now

-----------------------------------------------------------------------------
(***************************************************************************)
(* The two agree.                                                          *)
(***************************************************************************)

\* GET /tickets without parameters lists exactly the tickets that GET
\* /tickets/{id} would show the same actor: the SQL condition on author and
\* assignee, applied to who may not list all, is CanViewTicket.
THEOREM ListsWhatIsVisible ==
  ASSUME NEW actor, actor.user # NULL, NEW tickets, NEW now
  PROVE  List(actor, NULL, NULL, FALSE, tickets, now)
           = {t \in tickets : ~t.deleted /\ CanViewTicket(actor, t)}
<1>1. CASE CanListAllTickets(actor)
  BY <1>1 DEF List, ListTickets, Restricted, ListQuery, Selected, CanViewTicket
<1>2. CASE ~CanListAllTickets(actor)
  <2> DEFINE f == Restricted(actor, ListQuery(NULL, NULL, FALSE))
  <2>1. /\ f.status = NULL /\ f.assignee = NULL /\ f.author = NULL
        /\ f.visibleTo = actor.user /\ f.overdue = FALSE
    BY <1>2 DEF Restricted, ListQuery
  <2>2. ASSUME NEW t
        PROVE  Selected(f, t, now) <=> ~t.deleted /\ CanViewTicket(actor, t)
    BY <1>2, <2>1 DEF Selected, CanViewTicket, IsAuthor, isAssignee
  <2> QED BY <2>2 DEF List, ListTickets
<1> QED BY <1>1, <1>2

\* No parameter of GET /tickets shows a ticket the actor may not view.
THEOREM FiltersOnlyNarrow ==
  ASSUME NEW actor, actor.user # NULL, NEW tickets, NEW now,
         NEW status, NEW assignee, NEW overdue \in BOOLEAN
  PROVE  List(actor, status, assignee, overdue, tickets, now)
           \subseteq List(actor, NULL, NULL, FALSE, tickets, now)
<1> DEFINE f == Restricted(actor, ListQuery(status, assignee, overdue))
           g == Restricted(actor, ListQuery(NULL, NULL, FALSE))
<1>1. /\ g.status = NULL /\ g.assignee = NULL /\ g.author = NULL /\ g.overdue = FALSE
      /\ g.visibleTo = f.visibleTo
  BY DEF Restricted, ListQuery
<1>2. ASSUME NEW t, Selected(f, t, now)
      PROVE  Selected(g, t, now)
  BY <1>1, <1>2 DEF Selected
<1> QED BY <1>2 DEF List, ListTickets

\* A report shows nothing that its reader could not list: CanViewReports and
\* CanListAllTickets name the same roles, so that Report may do without the
\* restriction that List puts on the query.
THEOREM ReportsWithinLists ==
  ASSUME NEW actor, actor.user # NULL, NEW tickets, NEW now, NEW overdue \in BOOLEAN
  PROVE  Report(actor, overdue, tickets, now)
           \subseteq List(actor, NULL, NULL, overdue, tickets, now)
<1>1. CanViewReports(actor) <=> CanListAllTickets(actor)
  BY DEF CanViewReports, CanListAllTickets
<1>2. CASE CanViewReports(actor)
  <2>1. Restricted(actor, ListQuery(NULL, NULL, overdue)) = ReportQuery(overdue)
    BY <1>1, <1>2 DEF Restricted, ReportQuery
  <2> QED BY <1>2, <2>1 DEF Report, List
<1>3. CASE ~CanViewReports(actor)
  BY <1>3 DEF Report
<1> QED BY <1>2, <1>3

\* A ticket that was selected as overdue is shown as overdue, provided that the
\* server's clock, read after the answer of the database, has got as far as the
\* clock of the database had; and one that a list without the parameter shows
\* as overdue is selected by the parameter from that moment on.
THEOREM OverdueAgrees ==
  ASSUME NEW actor, NEW tickets, NEW status, NEW assignee,
         NEW now \in Int, NEW later \in Int, now <= later,
         \A t \in tickets : t.due # NULL => t.due \in Int
  PROVE  /\ \A t \in List(actor, status, assignee, TRUE, tickets, now) : IsOverdue(t, later)
         /\ \A t \in List(actor, status, assignee, FALSE, tickets, now) :
              IsOverdue(t, now) => t \in List(actor, status, assignee, TRUE, tickets, later)
<1> DEFINE f == Restricted(actor, ListQuery(status, assignee, TRUE))
           g == Restricted(actor, ListQuery(status, assignee, FALSE))
<1>1. /\ f.overdue = TRUE /\ f.status = g.status /\ f.assignee = g.assignee
      /\ f.author = g.author /\ f.visibleTo = g.visibleTo
  BY DEF Restricted, ListQuery
<1>2. ASSUME NEW t \in tickets, OverdueInSQL(t, now)
      PROVE  OverdueInSQL(t, later) /\ IsOverdue(t, later)
  <2>1. t.due # NULL /\ t.due \in Int /\ t.due < now
    BY <1>2 DEF OverdueInSQL
  <2>2. t.due < later
    BY <2>1
  <2> QED BY <1>2, <2>1, <2>2 DEF OverdueInSQL, IsOverdue
<1> HIDE DEF f, g
<1>3. ASSUME NEW t \in tickets, Selected(f, t, now)
      PROVE  IsOverdue(t, later)
  BY <1>1, <1>2, <1>3 DEF Selected
<1>4. ASSUME NEW t \in tickets, Selected(g, t, now), IsOverdue(t, now)
      PROVE  Selected(f, t, later)
  <2>1. OverdueInSQL(t, now)
    BY <1>4 DEF OverdueInSQL, IsOverdue
  <2> QED BY <1>1, <1>2, <1>4, <2>1 DEF Selected
<1> QED BY <1>3, <1>4 DEF List, ListTickets, f, g
=============================================================================
