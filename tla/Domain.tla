------------------------------- MODULE Domain -------------------------------
(***************************************************************************)
(* The domain layer of the help desk: roles, ticket statuses, the graph of *)
(* status transitions and the access rules (internal/domain).  The module  *)
(* is purely functional; the services evaluate these rules on a ticket row *)
(* they have read and on an actor.                                         *)
(*                                                                         *)
(* An actor is a record [user, roles]: the user id of the token and the    *)
(* roles the auth middleware loaded.  A ticket is any record with at least *)
(* the fields status, author, assignee and reopenCount.                    *)
(***************************************************************************)
EXTENDS Integers

Role == {"user", "dispatcher", "executor", "manager", "admin"}

TicketStatus == {"new", "assigned", "in_progress", "resolved", "closed",
                 "reopened", "cancelled"}

allowedTransitions ==
  [s \in TicketStatus |->
     CASE s = "new"         -> {"assigned", "cancelled"}
       [] s = "assigned"    -> {"in_progress", "new", "cancelled"}
       [] s = "in_progress" -> {"resolved", "new", "cancelled"}
       [] s = "resolved"    -> {"closed"}
       [] s = "closed"      -> {"reopened"}
       [] s = "reopened"    -> {"assigned", "cancelled"}
       [] s = "cancelled"   -> {}]

CanTransition(from, to) == to \in allowedTransitions[from]

\* Every check of a role is also passed by an administrator.
HasRole(actor, role) == role \in actor.roles \/ "admin" \in actor.roles

IsAdmin(actor) == HasRole(actor, "admin")

isAssignee(actor, ticket) == ticket.assignee = actor.user

IsAuthor(actor, ticket) == ticket.author = actor.user

-----------------------------------------------------------------------------
(***************************************************************************)
(* Access rules that look at the ticket.                                   *)
(***************************************************************************)

CanReopen(actor, ticket) ==
  /\ ticket.status = "closed"
  /\ ticket.reopenCount < 1
  /\ \/ HasRole(actor, "dispatcher")
     \/ HasRole(actor, "user") /\ IsAuthor(actor, ticket)

CanActorTransition(actor, from, to, ticket) ==
  /\ CanTransition(from, to)
  /\ \/ IsAdmin(actor)
     \/ to = "assigned" /\ HasRole(actor, "dispatcher")
     \/ /\ to \in {"in_progress", "resolved"}
        /\ HasRole(actor, "executor") /\ isAssignee(actor, ticket)
     \/ /\ to = "closed"
        /\ HasRole(actor, "user") /\ IsAuthor(actor, ticket)
     \/ to = "reopened" /\ CanReopen(actor, ticket)
     \/ /\ to = "new"
        /\ HasRole(actor, "executor") /\ isAssignee(actor, ticket)
        /\ from \in {"assigned", "in_progress"}
     \/ /\ to = "cancelled"
        /\ \/ HasRole(actor, "dispatcher")
           \/ HasRole(actor, "user") /\ IsAuthor(actor, ticket)

CanEditTicket(actor, ticket) ==
  \/ HasRole(actor, "dispatcher")
  \/ IsAuthor(actor, ticket) /\ ticket.status \in {"new", "reopened"}

CanCancel(actor, ticket) ==
  \/ HasRole(actor, "dispatcher")
  \/ /\ HasRole(actor, "user") /\ IsAuthor(actor, ticket)
     /\ ticket.status \notin {"closed", "cancelled"}

CanRefuse(actor, ticket) ==
  /\ ticket.status \in {"assigned", "in_progress"}
  /\ \/ IsAdmin(actor)
     \/ HasRole(actor, "executor") /\ isAssignee(actor, ticket)

CanComplete(actor, ticket) ==
  /\ ticket.status = "resolved"
  /\ \/ IsAdmin(actor)
     \/ HasRole(actor, "user") /\ IsAuthor(actor, ticket)

CanSoftDeleteTicket(actor, ticket) ==
  \/ IsAdmin(actor)
  \/ IsAuthor(actor, ticket) /\ ticket.status \in {"new", "cancelled"}

-----------------------------------------------------------------------------
(***************************************************************************)
(* Access rules that look at the roles only, and the visibility rule.      *)
(***************************************************************************)

CanAssign(actor) == HasRole(actor, "dispatcher")

CanListAllTickets(actor) ==
  HasRole(actor, "dispatcher") \/ HasRole(actor, "manager")

CanViewTicket(actor, ticket) ==
  \/ CanListAllTickets(actor)
  \/ IsAuthor(actor, ticket)
  \/ isAssignee(actor, ticket)

CanCommentOnTicket(actor, ticket) == CanViewTicket(actor, ticket)

CanViewReports(actor) == HasRole(actor, "manager") \/ HasRole(actor, "dispatcher")

CanManageRoles(actor) == IsAdmin(actor)

CanManageCategories(actor) == IsAdmin(actor)

CanManageRooms(actor) == IsAdmin(actor)

CanLinkTickets(actor) == HasRole(actor, "dispatcher")
=============================================================================
