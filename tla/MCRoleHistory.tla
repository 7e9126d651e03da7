---------------------------- MODULE MCRoleHistory ----------------------------
(***************************************************************************)
(* An instance of RoleHistory: an executor who gets and loses his role     *)
(* while a ticket is assigned to him, worked on, refused, reopened,        *)
(* PATCHed and deleted.                                                    *)
(***************************************************************************)
EXTENDS MCTicketService, RoleHistory

\* Author and dispatcher PATCH the same column; nobody comments.
SafetyInput ==
  Happy \cup Detours \cup Deletes \cup Odd
    \cup Calls("update", {u, d}, {"details" :> v2})
=============================================================================
