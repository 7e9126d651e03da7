---------------------------- MODULE TicketAudience ----------------------------
(***************************************************************************)
(* What people are told about tickets: the notices the service sends after *)
(* its commits, and the answers of GET /tickets/{id}, which reads a ticket *)
(* and its comments with two statements outside any transaction while the  *)
(* requests of TicketService go on.                                        *)
(***************************************************************************)
EXTENDS ReopenHistory

CONSTANTS
  Reader,      \* GET requests in flight at once
  Viewer       \* their actors: records [user, roles]

ASSUME ViewerAssumption == Viewer \subseteq Actor

VARIABLES
  updated,     \* each request's copy of the row as its UPDATE returned it
  past,        \* history: pairs of a ticket id and a row it has had
  view         \* what each GET has read: [at, tid, row, comments]

avars == <<hvars, updated, past, view>>

NoView == [at |-> "idle", tid |-> NULL, row |-> NULL, comments |-> {}]

AInit ==
  /\ HInit
  /\ updated = [r \in Request |-> NULL]
  /\ past = {}
  /\ view = [g \in Reader |-> NoView]

-----------------------------------------------------------------------------
(***************************************************************************)
(* Notices.                                                                *)
(***************************************************************************)

\* To whom the notice of each operation goes and what it says of the row t.
AssignNotice(t) == [to |-> t.assignee, kind |-> "assigned", says |-> t.status]

CompleteNotice(t, rating) == [to |-> t.assignee, kind |-> "completed", says |-> rating]

RefuseNotice(t, reason) == [to |-> t.author, kind |-> "refused", says |-> reason]

notifyStatus(t) == [to |-> t.author, kind |-> "status", says |-> t.status]

\* The notice that follows the commit of an operation.
NoticeOf(c, t) ==
  CASE c.op = "assign"   -> AssignNotice(t)
    [] c.op = "complete" -> CompleteNotice(t, c.arg)
    [] c.op = "refuse"   -> RefuseNotice(t, c.arg)
    [] OTHER             -> notifyStatus(t)

\* The step in which r calls the notifier: Complete has nobody to tell when the
\* ticket has no assignee.
Notifies(r) ==
  /\ pc[r] = "notify" /\ Notify(r)
  /\ call[r].op = "complete" => updated[r].assignee # NULL

\* The row that UPDATE ... RETURNING gave is kept for the notice and the answer.
Keep ==
  /\ updated' = [r \in Request |->
       CASE pc'[r] = "notify" /\ pc[r] = "commit" -> row[r]
         [] pc'[r] = "idle"                       -> NULL
         [] OTHER                                 -> updated[r]]
  /\ past' = past \cup {<<t, tickets'[t]>> : t \in {s \in TicketId : tickets'[s] # NULL}}

-----------------------------------------------------------------------------
(***************************************************************************)
(* GET /tickets/{id}.                                                      *)
(***************************************************************************)

\* GetTicketByID; who may not view the ticket gets the answer of a missing one.
GetTicket(g, actor, t) ==
  /\ view[g].at = "idle"
  /\ Live(t) /\ CanViewTicket(actor, tickets[t])
  /\ view' = [view EXCEPT ![g] = [at |-> "read", tid |-> t, row |-> tickets[t], comments |-> {}]]

GetComments(g) ==
  /\ view[g].at = "read"
  /\ view' = [view EXCEPT ![g].at = "answer",
                          ![g].comments = {c \in comments : c.ticket = view[g].tid}]

\* The answer is sent (the links are in TicketLinks), or a statement fails.
GetAnswer(g) ==
  /\ view[g].at # "idle"
  /\ view' = [view EXCEPT ![g] = NoView]

Get ==
  /\ \E g \in Reader :
       \/ \E actor \in Viewer, t \in TicketId : GetTicket(g, actor, t)
       \/ GetComments(g)
       \/ GetAnswer(g)
  /\ UNCHANGED <<hvars, updated, past>>

ANext == (HNext /\ Keep /\ UNCHANGED view) \/ Get

ASpec == AInit /\ [][ANext]_avars

-----------------------------------------------------------------------------
(***************************************************************************)
(* Properties.                                                             *)
(***************************************************************************)

\* The notice n says the truth about the row t of ticket id.
TrueOf(n, id, t) ==
  CASE n.kind = "assigned"  -> t.status = "assigned" /\ t.assignee = n.to
    [] n.kind = "completed" -> /\ t.status = "closed" /\ t.assignee = n.to /\ t.rating = n.says
                               /\ ExplainedBy(comments, id, t)
    [] n.kind = "refused"   -> /\ t.status = "new" /\ t.author = n.to /\ t.reason = n.says
                               /\ ExplainedBy(comments, id, t)
    [] OTHER                -> t.status = n.says /\ t.author = n.to

\* Nobody is told of something that did not happen: what a notice says was true
\* of a committed row of the ticket, at whose time the recipient was its author
\* or assignee, and the comment it refers to is there to be read, although it is
\* sent after the lock is gone and other operations may have come in between.
NoticesAreTrue ==
  [][\A r \in Request : Notifies(r) =>
       \E p \in past :
         p[1] = call[r].tid /\ TrueOf(NoticeOf(call[r], updated[r]), p[1], p[2])]_avars

\* The answer of a GET is coherent: the comments it shows explain the row it
\* shows, though the two are read at different moments between which the ticket
\* may be closed, refused, reopened or deleted.
SeenExplained ==
  \A g \in Reader :
    view[g].at = "answer" =>
      ExplainedBy(view[g].comments, view[g].tid, view[g].row)

-----------------------------------------------------------------------------
(***************************************************************************)
(* What makes them inductive, together with the invariant of TicketService.*)
(***************************************************************************)

\* What a request is about to say is true of the row it has committed.
Told(r) ==
  pc[r] = "notify" =>
    /\ <<call[r].tid, updated[r]>> \in past
    /\ TrueOf(NoticeOf(call[r], updated[r]), call[r].tid, updated[r])

\* The row a GET has read is explained by the comments there are by now.
Readable(g) ==
  view[g].at = "read" => ExplainedBy(comments, view[g].tid, view[g].row)

AInv ==
  /\ view \in [Reader -> [at : {"idle", "read", "answer"}, tid : TicketId \cup {NULL},
                         row : Ticket \cup {NULL}, comments : SUBSET Comment]]
  /\ \A r \in Request : Told(r)
  /\ \A g \in Reader : Readable(g)
  /\ SeenExplained
=============================================================================
