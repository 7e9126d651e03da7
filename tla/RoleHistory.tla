----------------------------- MODULE RoleHistory -----------------------------
(***************************************************************************)
(* TicketService with a record of user_roles: the contents the table had   *)
(* while each request was served, and the assignments made while their     *)
(* assignees had the role.  A request looks roles up twice, its actor's    *)
(* when it arrives and an assignee's before it writes, and roles are       *)
(* granted and revoked all the time.                                       *)
(***************************************************************************)
EXTENDS TicketService

VARIABLES
  inForce,     \* history: request -> contents of user_roles since it arrived
  appointed    \* history: <<ticket, user>> once assigned while he could be

rvars == <<vars, inForce, appointed>>

RInit ==
  /\ Init
  /\ inForce = [r \in Request |-> {}]
  /\ appointed = {}

\* At some time since r arrived, user w could be assigned a ticket.
QualifiedDuring(r, w) ==
  \E roles \in inForce[r] : roles[w] \cap {"executor", "admin"} # {}

\* The transaction of r commits.
Commits(r) == pc[r] = "commit" /\ pc'[r] = "notify"

\* The Assign of r commits, and its assignee could be assigned meanwhile.
Appoints(r) ==
  Commits(r) /\ call[r].op = "assign" /\ QualifiedDuring(r, call[r].arg)

Record ==
  /\ inForce' = [r \in Request |->
       IF pc'[r] = "idle" THEN {} ELSE inForce[r] \cup {userRoles'}]
  /\ appointed' = appointed \cup
       {<<call[r].tid, call[r].arg>> : r \in {s \in Request : Appoints(s)}}

RNext == Next /\ Record

RSpec == RInit /\ [][RNext]_rvars

-----------------------------------------------------------------------------
(***************************************************************************)
(* Properties.                                                             *)
(***************************************************************************)

\* Who has a ticket in hand was put in charge of this ticket by an Assign, and
\* was an executor or an administrator at some time while that request was served.
\* The role may be revoked before the commit and after it, and a PATCH may bring
\* an old assignee back; but nobody comes to a ticket in any other way, nor by a
\* role he had lost before the request came, or got after it.
AssigneesQualified ==
  \A t \in TicketId :
    tickets[t] # NULL /\ tickets[t].assignee # NULL =>
      <<t, tickets[t].assignee>> \in appointed

\* The status r's commit gives the ticket is one its actor could move the row to
\* that is there at the commit, by the roles of some time since r arrived.
EntitledByRoles(r) ==
  \E roles \in inForce[r] :
    Entitled([user |-> call[r].actor.user, roles |-> roles[call[r].actor.user]],
             tickets[call[r].tid], tickets'[call[r].tid].status)

RolesSuffice == \A r \in Request : Commits(r) => EntitledByRoles(r)

\* Whoever moves a ticket was entitled to the move, on the row as it is at the
\* commit, by roles that user_roles gave him at some time since the request
\* arrived.  A revocation may be overtaken by a request under way; but a role
\* that was revoked before the request arrived moves nothing.
RevokedRolesMoveNothing == [][RolesSuffice]_rvars

-----------------------------------------------------------------------------
(***************************************************************************)
(* What makes them inductive.                                              *)
(***************************************************************************)

\* The roles of r's actor are those of a time since r arrived, and the contents
\* of now are among the recorded ones.
RolesOfItsTime(r) ==
  pc[r] # "idle" =>
    /\ userRoles \in inForce[r]
    /\ \E roles \in inForce[r] : roles[call[r].actor.user] = call[r].actor.roles

\* The assignee of row x of ticket id, if there is one, was put in charge of it.
InGoodHands(id, x) == x.assignee # NULL => <<id, x.assignee>> \in appointed

RInv ==
  /\ \A r \in Request : RolesOfItsTime(r)
  /\ \A r \in Request :
       pc[r] = "commit" /\ call[r].op = "assign" => QualifiedDuring(r, call[r].arg)
  /\ \A r \in Request :
       pc[r] = "write" /\ call[r].op = "update" => InGoodHands(call[r].tid, row[r])
  /\ AssigneesQualified
=============================================================================
