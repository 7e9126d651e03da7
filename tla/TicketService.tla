---------------------------- MODULE TicketService ----------------------------
(***************************************************************************)
(* The ticket use cases (internal/service/ticket.go) over the PostgreSQL   *)
(* store (internal/repository), as served by concurrent HTTP requests.     *)
(*                                                                         *)
(* Every request runs in its own goroutine and talks to the database one   *)
(* statement at a time, so a step of the model is one SQL statement        *)
(* together with the Go code up to the next one.  The workflow operations  *)
(* (Assign, Transition, Complete, Refuse, Reopen) work inside a READ       *)
(* COMMITTED transaction that starts with SELECT ... FOR UPDATE and        *)
(* publishes its row and its comment at COMMIT; Update, Delete, Cancel and *)
(* AddComment read the row outside any transaction first.                  *)
(***************************************************************************)
EXTENDS Tables

CONSTANTS
  Request,     \* request slots: bounds the requests in flight at once
  Blank,       \* the text that is empty after trimming
  Input,       \* the calls clients make: records [op, user, tid, arg]
  RoleTables   \* the contents user_roles may take: functions User -> roles

\* Operations that lock the row, and operations that read it unlocked first.
TxOp == {"assign", "transition", "complete", "refuse", "reopen"}
ReadOp == {"update", "delete", "cancel", "comment"}

\* What the arguments of each operation range over, before any validation.
ArgOf(op) ==
  CASE op = "create"     -> [Column -> Text]
    [] op = "update"     -> Patch
    [] op = "assign"     -> User
    [] op = "transition" -> TicketStatus
    [] op = "complete"   -> Rating
    [] op = "refuse"     -> Text
    [] OTHER             -> {NULL}

Actor == [user : User, roles : SUBSET Role]

Op == TxOp \cup ReadOp \cup {"create"}

Call == UNION {[op : {o}, tid : TicketId, arg : ArgOf(o), actor : Actor] : o \in Op}

ASSUME InputAssumption ==
  \A in \in Input :
    /\ in.op \in Op
    /\ in.user \in User
    /\ in.tid \in TicketId
    /\ in.arg \in ArgOf(in.op)

ASSUME RoleAssumption ==
  RoleTables # {} /\ RoleTables \subseteq [User -> SUBSET Role]

ASSUME RequestAssumption == NULL \notin Request /\ NULL \notin Call

VARIABLES
  tickets,     \* committed rows of tickets: TicketId -> row or NULL
  comments,    \* committed rows of comments; the table is only added to
  userRoles,   \* user_roles, written by the admin service
  lock,        \* which request's transaction holds the lock on a ticket row
  pc,          \* where each request is
  call,        \* the operation, its arguments and the authenticated actor
  row,         \* the request's copy of the ticket row
  note         \* comments inserted by the request's open transaction

vars == <<tickets, comments, userRoles, lock, pc, call, row, note>>

-----------------------------------------------------------------------------
(***************************************************************************)
(* Requests and the row lock.                                              *)
(***************************************************************************)

Init ==
  /\ tickets = [t \in TicketId |-> NULL]
  /\ comments = {}
  /\ userRoles \in RoleTables
  /\ lock = [t \in TicketId |-> NULL]
  /\ pc = [r \in Request |-> "idle"]
  /\ call = [r \in Request |-> NULL]
  /\ row = [r \in Request |-> NULL]
  /\ note = [r \in Request |-> {}]

\* WHERE id = $1 AND deleted_at IS NULL
Live(t) == tickets[t] # NULL /\ ~tickets[t].deleted

\* Mutant: the transaction is never ended.
ReleaseForgotten(r) == UNCHANGED lock

\* COMMIT and ROLLBACK give the row lock back.
Release(r) == lock' = [t \in TicketId |-> IF lock[t] = r THEN NULL ELSE lock[t]]

\* The handler writes its response; the request's goroutine is gone.
Answer(r) ==
  /\ pc' = [pc EXCEPT ![r] = "idle"]
  /\ call' = [call EXCEPT ![r] = NULL]
  /\ row' = [row EXCEPT ![r] = NULL]
  /\ note' = [note EXCEPT ![r] = {}]

\* Mutant: Transition accepts every status.
OpenToAnyStatus(status) == TRUE

\* What Create, Transition, Complete and Refuse ask of their bodies.
TitleGiven(body) == body["title"] # Blank

OpenToTransition(status) == status \notin {"closed", "new", "assigned"}

RatingInRange(rating) == rating \in 1..5

ReasonGiven(reason) == reason # Blank

\* The checks made before the first statement of an operation.
Valid(c) ==
  CASE c.op = "create"     -> TitleGiven(c.arg)
    [] c.op = "assign"     -> CanAssign(c.actor)
    [] c.op = "transition" -> OpenToTransition(c.arg)
    [] c.op = "complete"   -> RatingInRange(c.arg)
    [] c.op = "refuse"     -> ReasonGiven(c.arg)
    [] OTHER               -> TRUE

FirstStep(op) == CASE op \in TxOp   -> "begin"
                   [] op \in ReadOp -> "read"
                   [] OTHER         -> "write"

\* Mutant: the roles are those a token was issued with.
ArriveTokenRoles(r, in) ==
  /\ pc[r] = "idle"
  /\ \E roles \in RoleTables :
       LET c == [op |-> in.op, tid |-> in.tid, arg |-> in.arg,
                 actor |-> [user |-> in.user, roles |-> roles[in.user]]]
       IN /\ Valid(c)
          /\ call' = [call EXCEPT ![r] = c]
  /\ pc' = [pc EXCEPT ![r] = FirstStep(in.op)]
  /\ UNCHANGED <<tickets, comments, userRoles, lock, row, note>>

\* The auth middleware loads the user's current roles, the handler decodes
\* the body and the service validates it.  A call that fails validation is
\* answered with an error and changes nothing, so it is not a step here.
Arrive(r, in) ==
  LET c == [op |-> in.op, tid |-> in.tid, arg |-> in.arg,
            actor |-> [user |-> in.user, roles |-> userRoles[in.user]]]
  IN /\ pc[r] = "idle"
     /\ Valid(c)
     /\ call' = [call EXCEPT ![r] = c]
     /\ pc' = [pc EXCEPT ![r] = FirstStep(in.op)]
     /\ UNCHANGED <<tickets, comments, userRoles, lock, row, note>>

\* A statement fails, or the client goes away and cancels the context: the
\* deferred Rollback undoes an open transaction.  From "notify" this is an
\* answer lost, or a notification skipped, after a successful commit.
Abort(r) ==
  /\ pc[r] # "idle"
  /\ Answer(r)
  /\ Release(r)
  /\ UNCHANGED <<tickets, comments, userRoles>>

\* The server process dies; PostgreSQL rolls its open transactions back.
Crash ==
  /\ \E r \in Request : pc[r] # "idle"
  /\ pc' = [r \in Request |-> "idle"]
  /\ call' = [r \in Request |-> NULL]
  /\ row' = [r \in Request |-> NULL]
  /\ note' = [r \in Request |-> {}]
  /\ lock' = [t \in TicketId |-> NULL]
  /\ UNCHANGED <<tickets, comments, userRoles>>

\* The admin service granted or revoked a role.
ChangeRoles ==
  /\ userRoles' \in RoleTables
  /\ UNCHANGED <<tickets, comments, lock, pc, call, row, note>>

-----------------------------------------------------------------------------
(***************************************************************************)
(* Create, and the operations that read the row without locking it.        *)
(***************************************************************************)

\* INSERT INTO tickets; the database generates the id.  When TicketId, the
\* bound on the ids, is used up, the statement fails.
Insert(r) ==
  /\ pc[r] = "write" /\ call[r].op = "create"
  /\ \/ \E t \in TicketId :
          /\ tickets[t] = NULL
          /\ tickets' = [tickets EXCEPT ![t] = NewTicket(call[r].actor.user, call[r].arg)]
     \/ /\ \A t \in TicketId : tickets[t] # NULL
        /\ UNCHANGED tickets
  /\ Answer(r)
  /\ UNCHANGED <<comments, userRoles, lock>>

\* GetTicketByID and the access check that follows it.
Read(r, op, allowed) ==
  /\ pc[r] = "read" /\ call[r].op = op
  /\ IF Live(call[r].tid) /\ allowed
     THEN /\ pc' = [pc EXCEPT ![r] = "write"]
          /\ row' = [row EXCEPT ![r] = tickets[call[r].tid]]
          /\ UNCHANGED <<call, note>>
     ELSE Answer(r)
  /\ UNCHANGED <<tickets, comments, userRoles, lock>>

\* A single statement outside a transaction that needs the row: it waits for
\* the transaction that has the row locked.
Statement(r, op) ==
  /\ pc[r] = "write" /\ call[r].op = op
  /\ lock[call[r].tid] = NULL
  /\ Answer(r)
  /\ UNCHANGED <<userRoles, lock>>

UpdateRead(r) ==
  Read(r, "update", CanEditTicket(call[r].actor, tickets[call[r].tid]))

\* Mutant: the UPDATE lacks "AND deleted_at IS NULL".
UpdateWriteDeleted(r) ==
  /\ Statement(r, "update")
  /\ tickets' = [tickets EXCEPT ![call[r].tid] =
                  [row[r] EXCEPT !.content = Patched(@, call[r].arg)]]
  /\ UNCHANGED comments

\* UPDATE tickets SET every column, from the copy read earlier with the PATCH
\* applied to it, WHERE the ticket is still not deleted.
UpdateWrite(r) ==
  /\ Statement(r, "update")
  /\ tickets' = IF Live(call[r].tid)
                THEN [tickets EXCEPT ![call[r].tid] =
                        [row[r] EXCEPT !.content = Patched(@, call[r].arg)]]
                ELSE tickets
  /\ UNCHANGED comments

DeleteRead(r) ==
  Read(r, "delete", CanSoftDeleteTicket(call[r].actor, tickets[call[r].tid]))

\* UPDATE tickets SET deleted_at, whatever the row's status is by now.
DeleteWrite(r) ==
  /\ Statement(r, "delete")
  /\ tickets' = IF Live(call[r].tid)
                THEN [tickets EXCEPT ![call[r].tid].deleted = TRUE]
                ELSE tickets
  /\ UNCHANGED comments

CommentRead(r) ==
  Read(r, "comment", CanCommentOnTicket(call[r].actor, tickets[call[r].tid]))

\* INSERT INTO comments; its foreign key takes a KEY SHARE lock on the ticket.
CommentWrite(r) ==
  /\ Statement(r, "comment")
  /\ comments' = comments \cup
       {[ticket |-> call[r].tid, author |-> call[r].actor.user,
         kind |-> "user", reason |-> NULL]}
  /\ UNCHANGED tickets

\* Mutant: Cancel does not name the status it wants.
CancelReadNoStatus(r) ==
  /\ pc[r] = "read" /\ call[r].op = "cancel"
  /\ IF /\ Live(call[r].tid)
        /\ CanCancel(call[r].actor, tickets[call[r].tid])
     THEN /\ pc' = [pc EXCEPT ![r] = "begin"]
          /\ call' = [call EXCEPT ![r].op = "transition"]
          /\ UNCHANGED <<row, note>>
     ELSE Answer(r)
  /\ UNCHANGED <<tickets, comments, userRoles, lock>>

\* Cancel checks an unlocked copy, then calls Transition to cancelled.
CancelRead(r) ==
  /\ pc[r] = "read" /\ call[r].op = "cancel"
  /\ IF /\ Live(call[r].tid)
        /\ CanCancel(call[r].actor, tickets[call[r].tid])
     THEN /\ pc' = [pc EXCEPT ![r] = "begin"]
          /\ call' = [call EXCEPT ![r].op = "transition",
                                  ![r].arg = "cancelled"]
          /\ UNCHANGED <<row, note>>
     ELSE Answer(r)
  /\ UNCHANGED <<tickets, comments, userRoles, lock>>

-----------------------------------------------------------------------------
(***************************************************************************)
(* The workflow operations: BEGIN; SELECT FOR UPDATE; UPDATE; [INSERT INTO *)
(* comments]; COMMIT; notify.                                              *)
(***************************************************************************)

\* Mutant: the row is read with GetTicketByID, which locks nothing.
ReadRowUnlocked(r, op, allowed) ==
  /\ pc[r] = "begin" /\ call[r].op = op
  /\ IF Live(call[r].tid) /\ allowed
     THEN /\ pc' = [pc EXCEPT ![r] = "locked"]
          /\ row' = [row EXCEPT ![r] = tickets[call[r].tid]]
          /\ UNCHANGED <<call, note>>
     ELSE Answer(r)
  /\ UNCHANGED <<tickets, comments, userRoles, lock>>

\* GetTicketByIDForUpdate waits for the row lock; the operation's checks look
\* at the row it returns.
LockRow(r, op, allowed) ==
  /\ pc[r] = "begin" /\ call[r].op = op
  /\ lock[call[r].tid] = NULL
  /\ IF Live(call[r].tid) /\ allowed
     THEN /\ pc' = [pc EXCEPT ![r] = "locked"]
          /\ row' = [row EXCEPT ![r] = tickets[call[r].tid]]
          /\ lock' = [lock EXCEPT ![call[r].tid] = r]
          /\ UNCHANGED <<call, note>>
     ELSE Answer(r) /\ UNCHANGED lock
  /\ UNCHANGED <<tickets, comments, userRoles>>

\* Mutant: the row is written with UpdateTicket, outside the transaction.
SaveAtOnce(r, op, newRow, next) ==
  /\ pc[r] = "locked" /\ call[r].op = op
  /\ tickets' = [tickets EXCEPT ![call[r].tid] = newRow]
  /\ row' = [row EXCEPT ![r] = newRow]
  /\ pc' = [pc EXCEPT ![r] = next]
  /\ UNCHANGED <<comments, userRoles, lock, call, note>>

\* UpdateTicketInTx: nobody else sees the new row before the commit.
Save(r, op, newRow, next) ==
  /\ pc[r] = "locked" /\ call[r].op = op
  /\ row' = [row EXCEPT ![r] = newRow]
  /\ pc' = [pc EXCEPT ![r] = next]
  /\ UNCHANGED <<tickets, comments, userRoles, lock, call, note>>

\* The comment that explains what Complete and Refuse do.
WorkflowComment(c) ==
  [ticket |-> c.tid, author |-> c.actor.user,
   kind |-> IF c.op = "complete" THEN "closing" ELSE "refusal",
   reason |-> IF c.op = "complete" THEN NULL ELSE c.arg]

\* The second statement of Complete and Refuse.
AddCommentInTx(r) ==
  /\ pc[r] = "comment"
  /\ note' = [note EXCEPT ![r] = {WorkflowComment(call[r])}]
  /\ pc' = [pc EXCEPT ![r] = "commit"]
  /\ UNCHANGED <<tickets, comments, userRoles, lock, call, row>>

\* Mutant: Assign takes a ticket of any status.
AssignLockAny(r) == LockRow(r, "assign", TRUE)

AssignLock(r) ==
  LockRow(r, "assign",
          tickets[call[r].tid].status \in {"new", "reopened", "assigned"})

\* Mutant: the roles are looked up in a copy of user_roles that may be out of date.
EligibleStale(u) == \E roles \in RoleTables : roles[u] \cap {"executor", "admin"} # {}

\* assigneeHasRole, on the roles the assignee has at this moment.
Eligible(u) == userRoles[u] \cap {"executor", "admin"} # {}

AssignWrite(r) ==
  /\ Save(r, "assign",
          [row[r] EXCEPT !.assignee = call[r].arg, !.status = "assigned",
                         !.reason = NULL],
          "commit")
  /\ Eligible(call[r].arg)

\* The assignee is not eligible: the deferred Rollback ends the transaction.
AssignReject(r) ==
  /\ pc[r] = "locked" /\ call[r].op = "assign"
  /\ ~Eligible(call[r].arg)
  /\ Answer(r)
  /\ Release(r)
  /\ UNCHANGED <<tickets, comments, userRoles>>

TransitionLock(r) ==
  LET t == tickets[call[r].tid]
  IN LockRow(r, "transition",
             CanActorTransition(call[r].actor, t.status, call[r].arg, t))

TransitionWrite(r) ==
  Save(r, "transition", [row[r] EXCEPT !.status = call[r].arg], "commit")

CompleteLock(r) ==
  LET t == tickets[call[r].tid]
  IN LockRow(r, "complete",
             /\ CanComplete(call[r].actor, t)
             /\ CanActorTransition(call[r].actor, t.status, "closed", t))

CompleteWrite(r) ==
  Save(r, "complete",
       [row[r] EXCEPT !.rating = call[r].arg, !.status = "closed"], "comment")

RefuseLock(r) ==
  LET t == tickets[call[r].tid]
  IN LockRow(r, "refuse",
             /\ CanRefuse(call[r].actor, t)
             /\ \/ CanActorTransition(call[r].actor, t.status, "new", t)
                \/ IsAdmin(call[r].actor))

\* Mutant: the executor who refused stays assigned.
RefuseWriteAssigneeKept(r) ==
  Save(r, "refuse", [row[r] EXCEPT !.reason = call[r].arg, !.status = "new"], "comment")

RefuseWrite(r) ==
  Save(r, "refuse",
       [row[r] EXCEPT !.reason = call[r].arg, !.assignee = NULL,
                      !.status = "new"],
       "comment")

ReopenLock(r) ==
  LockRow(r, "reopen", CanReopen(call[r].actor, tickets[call[r].tid]))

\* Mutant: the reopening is not counted.
ReopenWriteUncounted(r) ==
  Save(r, "reopen", [row[r] EXCEPT !.status = "reopened", !.rating = NULL], "commit")

ReopenWrite(r) ==
  Save(r, "reopen",
       [row[r] EXCEPT !.status = "reopened", !.reopenCount = @ + 1,
                      !.rating = NULL],
       "commit")

\* Mutant: the error of Commit is not looked at.
CommitIgnored(r) ==
  /\ pc[r] = "commit"
  /\ \/ /\ tickets' = [tickets EXCEPT ![call[r].tid] = row[r]]
        /\ comments' = comments \cup note[r]
     \/ UNCHANGED <<tickets, comments>>
  /\ Release(r)
  /\ pc' = [pc EXCEPT ![r] = "notify"]
  /\ row' = [row EXCEPT ![r] = NULL]
  /\ note' = [note EXCEPT ![r] = {}]
  /\ UNCHANGED <<userRoles, call>>

\* COMMIT publishes the row and the comment at once and frees the row lock.
Commit(r) ==
  /\ pc[r] = "commit"
  /\ tickets' = [tickets EXCEPT ![call[r].tid] = row[r]]
  /\ comments' = comments \cup note[r]
  /\ Release(r)
  /\ pc' = [pc EXCEPT ![r] = "notify"]
  /\ row' = [row EXCEPT ![r] = NULL]
  /\ note' = [note EXCEPT ![r] = {}]
  /\ UNCHANGED <<userRoles, call>>

\* The recipient is loaded and the notifier called after the commit; their
\* failures are only logged, and the updated ticket is the response.
Notify(r) ==
  /\ pc[r] = "notify"
  /\ Answer(r)
  /\ UNCHANGED <<tickets, comments, userRoles, lock>>

-----------------------------------------------------------------------------
(***************************************************************************)
(* The specification.                                                      *)
(***************************************************************************)

\* Steps that wait for a row lock.
Locking(r) ==
  \/ AssignLock(r) \/ TransitionLock(r) \/ CompleteLock(r)
  \/ RefuseLock(r) \/ ReopenLock(r)
  \/ UpdateWrite(r) \/ DeleteWrite(r) \/ CommentWrite(r)

\* The other steps of a request's own goroutine.
Working(r) ==
  \/ Insert(r)
  \/ UpdateRead(r) \/ DeleteRead(r) \/ CommentRead(r) \/ CancelRead(r)
  \/ AssignWrite(r) \/ AssignReject(r) \/ TransitionWrite(r)
  \/ CompleteWrite(r) \/ RefuseWrite(r) \/ ReopenWrite(r)
  \/ AddCommentInTx(r) \/ Commit(r) \/ Notify(r)

Next ==
  \/ \E r \in Request :
       \/ \E in \in Input : Arrive(r, in)
       \/ Locking(r)
       \/ Working(r)
       \/ Abort(r)
  \/ Crash
  \/ ChangeRoles

Spec == Init /\ [][Next]_vars

\* Go schedules every runnable goroutine, and PostgreSQL grants a row lock in
\* the order it was asked for, so a waiter is not overtaken for ever.
Fairness ==
  \A r \in Request : WF_vars(Working(r)) /\ SF_vars(Locking(r))

FairSpec == Spec /\ Fairness

-----------------------------------------------------------------------------
(***************************************************************************)
(* What must hold in every state.                                          *)
(***************************************************************************)

\* The program counters at which a request has a transaction that holds the
\* lock on its ticket's row.
InTx == {"locked", "comment", "commit"}

\* The type invariant: rows, calls and copies have the shape of the tables and
\* of the Go values they stand for.
TypeOK ==
  /\ tickets \in [TicketId -> Ticket \cup {NULL}]
  /\ comments \subseteq Comment
  /\ userRoles \in [User -> SUBSET Role]
  /\ lock \in [TicketId -> Request \cup {NULL}]
  /\ pc \in [Request -> {"idle", "read", "write", "begin", "notify"} \cup InTx]
  /\ call \in [Request -> Call \cup {NULL}]
  /\ row \in [Request -> Ticket \cup {NULL}]
  /\ note \in [Request -> SUBSET Comment]

\* What the columns of one row promise each other: work has somebody to do it,
\* a refusal leaves nobody, a closed ticket was rated, one reopening is counted.
RowOK(t) ==
  /\ t.status \in {"assigned", "in_progress", "resolved", "closed", "reopened"}
       => t.assignee # NULL
  /\ t.status = "new" => t.assignee = NULL
  /\ t.reason # NULL => t.status \in {"new", "cancelled"} /\ t.assignee = NULL
  /\ t.status = "closed" => t.rating \in 1..5
  /\ t.reopenCount <= 1

\* No order of operations, not even a stale PATCH that overwrites a newer row,
\* leaves a row whose status contradicts its assignee, refusal reason, rating
\* or reopen count: each operation sets one column and trusts the others.
RowConsistent == \A t \in TicketId : tickets[t] # NULL => RowOK(tickets[t])

\* The comments cs explain the row t of ticket id.
ExplainedBy(cs, id, t) ==
  /\ t.status \in {"closed", "reopened"} \/ t.rating # NULL \/ t.reopenCount > 0
       => \E c \in cs : c.ticket = id /\ c.kind = "closing"
  /\ t.reason # NULL
       => \E c \in cs :
            c.ticket = id /\ c.kind = "refusal" /\ c.reason = t.reason

\* A ticket is never seen closed, reopened, rated or refused without the comment
\* the same transaction writes: Complete and Refuse are atomic although they
\* run two statements, and an abort or a crash may come between them.
RowExplained ==
  \A t \in TicketId : tickets[t] # NULL => ExplainedBy(comments, t, tickets[t])

\* SELECT FOR UPDATE protects what it returned: until the transaction writes,
\* its copy is the committed row and the ticket is not deleted, whatever the
\* other requests, an abort of theirs or a crash do.
LockedCopyFresh ==
  \A r \in Request :
    pc[r] = "locked" => Live(call[r].tid) /\ row[r] = tickets[call[r].tid]

-----------------------------------------------------------------------------
(***************************************************************************)
(* What a step may never do.                                               *)
(***************************************************************************)

\* The workflow lets this actor move the ticket to status `to`, or the actor is a
\* dispatcher who names another executor.
Entitled(actor, ticket, to) ==
  \/ CanActorTransition(actor, ticket.status, to, ticket)
  \/ ticket.status = "assigned" /\ to = "assigned" /\ CanAssign(actor)

\* Checks are made when the row is locked and take effect at the commit.  On
\* the row as it is at the commit, the actor is still entitled to the move, and
\* the ticket keeps its author and is not deleted, nor brought back.
EntitledCommit ==
  \A r \in Request : pc[r] = "commit" /\ pc'[r] = "notify" =>
    LET old == tickets[call[r].tid]
        new == tickets'[call[r].tid]
    IN /\ Live(call[r].tid) /\ ~new.deleted
       /\ new.author = old.author
       /\ Entitled(call[r].actor, old, new.status)

CommitsAreEntitled == [][EntitledCommit]_vars

\* The descriptive columns of a ticket change only when an Update of it writes,
\* and then to what its PATCH names: a transaction that writes every column
\* back does not undo an edit made since it read the row.
EditByUpdate ==
  \A t \in TicketId :
    tickets[t] # NULL /\ tickets'[t].content # tickets[t].content =>
      \E r \in Request :
        /\ pc[r] = "write" /\ call[r].op = "update" /\ call[r].tid = t
        /\ \A k \in DOMAIN call[r].arg : tickets'[t].content[k] = call[r].arg[k]

WorkflowKeepsEdits == [][EditByUpdate]_vars

\* A soft-deleted ticket is out of the workflow for good: no request that was
\* under way when it was deleted changes its row or explains a move of it.
DeletedStays ==
  \A t \in TicketId : tickets[t] # NULL /\ tickets[t].deleted =>
    /\ tickets'[t] = tickets[t]
    /\ \A c \in comments' \ comments : c.ticket = t => c.kind = "user"

DeletedIsFinal == [][DeletedStays]_vars

\* The operation each of these statuses is reserved for.
ReservedFor == [assigned |-> "assign", closed |-> "complete", new |-> "refuse"]

\* "assigned only through Assign; closed/new through Complete/Refuse": an
\* existing ticket gets one of these statuses only at the commit of its own
\* operation.
StatusEnteredByItsOperation ==
  [][\A t \in TicketId, s \in DOMAIN ReservedFor :
       /\ tickets[t] # NULL
       /\ tickets[t].status # s /\ tickets'[t].status = s
       => \E r \in Request :
            /\ pc[r] = "commit" /\ pc'[r] = "notify"
            /\ call[r].tid = t /\ call[r].op = ReservedFor[s]]_vars

\* An author deletes a ticket only while it is new or cancelled; an
\* administrator deletes any.
DeletesAreEntitled ==
  [][\A t \in TicketId :
       Live(t) /\ tickets'[t].deleted =>
         \E r \in Request :
           /\ pc[r] = "write" /\ call[r].op = "delete" /\ call[r].tid = t
           /\ CanSoftDeleteTicket(call[r].actor, tickets[t])]_vars

-----------------------------------------------------------------------------
(***************************************************************************)
(* What the service implements, and what must eventually happen.           *)
(***************************************************************************)

Lifecycle == INSTANCE TicketLifecycle WITH tickets <- tickets, comments <- comments

\* However requests interleave, abort or crash, the committed tickets and
\* comments live the serial life of TicketLifecycle: every operation takes
\* effect whole, at one moment, or not at all.
ServesSerially == Lifecycle!Spec

\* Every request is answered: no lock is left behind by an abort, a rollback
\* or a crash, and nobody waits for a lock for ever.
Answered == \A r \in Request : pc[r] # "idle" ~> pc[r] = "idle"
=============================================================================
