# Verification of the help desk

A TLA+ development of the help-desk service (Go, chi, pgx, PostgreSQL): modules
that model its code, TLC runs on small instances, and TLAPS proofs.

## 1. The system

One HTTP server process (or several replicas of it) over one PostgreSQL database.
Every request runs in its own goroutine: `middleware.Auth` identifies the actor and
loads his roles, a handler decodes the body, one method of a service does the work,
and the repository turns each of its calls into one SQL statement (READ COMMITTED).
The process keeps no state between requests but the pool of connections; requests
interact only through the tables, their row locks and the pool.

| Component | State | Operations | What is hard | What makes it correct |
|---|---|---|---|---|
| Access rules and status graph (`internal/domain`) | none | `Can*`, `HasRole`, `CanTransition` | rules overlap: `CanRefuse` and `CanActorTransition` judge the same move | the rules agree with the graph and with one another |
| Ticket service (`service/ticket.go`) | a request's copy of a row | Create, Get, Update, Delete, Assign, Transition, Complete, Refuse, Reopen, Cancel, AddComment | every pair of statements of two requests may interleave; some operations lock the row, some read it unlocked; aborts and crashes between statements | checks are still true when they take effect; two statements are one change; columns never contradict one another; a ticket is reopened once; a deleted one stays so |
| Ticket store (`repository/postgres*.go`, `migrations`) | `tickets`, `comments`, row locks | one statement each; Begin, Commit, Rollback | what waits for what; what an UPDATE without a lock overwrites | the service implements a serial life of each ticket |
| Authentication (`middleware/auth.go`) | the actor of a request | Auth, RequireRole | roles may change after they were loaded | a request's decisions fit the roles it arrived with |
| Connection pool (`repository/postgres.go`) | at most ten connections | acquire, release | `Assign` takes a second connection while it holds one | nobody waits for ever |
| Roles (`service/admin.go`, `postgres_user.go`) | `user_roles` | GrantRole, RevokeRole | revoked in mid-request, revoked from an assignee | an assignee can do the work, somebody can administrate |
| Catalog (`service/admin.go`) | `categories`, `rooms` | Create*, UpdateRoom, Deactivate* | read-modify-write; check, then insert | a deactivation is not undone |
| Links (`service/ticket.go`) | `ticket_links` | Link, Unlink | two keys per statement, in opposite orders | both directions or none; deadlocks end |
| Accounts (`service/auth.go`, `postgres_user.go`) | `users` | Register, Login, EnsureDemoUsers | lookup, then insert, on several replicas | an e-mail has one user, a user has roles |
| Notifier (`service/notifier.go`) | none | four messages | sent after the commit, lost or overtaken | a message tells of a committed change |
| Lists and reports | none | List, Get, Report | the rule for "overdue" exists in Go and in SQL | both select the same tickets |
| Start and shutdown (`internal/app`) | the server, the pool | New, Run | shutdown with requests in flight | the pool outlives the requests |
| Handlers and DTOs (`internal/handler`) | none | decoding, one call of a service, encoding | optional fields, absent and given | a field that is absent changes nothing |
| Configuration, build | none | read once at start | none | not modelled |

`PROJECT.json` lists the components with their files, and every hazard of the code at
the line where it bites.

## 2. Modules

| Module | What it models |
|---|---|
| `Domain` | `internal/domain`: roles, statuses, the graph, the access rules, as operators |
| `Tables` | rows of `tickets` and `comments` as the migrations declare them, PATCH bodies |
| `TicketLifecycle` | the abstract specification: tickets and comments when operations take effect one at a time and at once |
| `TicketService` | the ten operations of the ticket service, statement by statement, for concurrent requests |
| `TicketInvariant` | the inductive invariant of `TicketService` |
| `TicketServiceProofs` | its proof, and the theorems that follow; how the access rules agree |
| `RefinementProofs` | the proof that `TicketService` implements `TicketLifecycle` |
| `ReopenHistory` | `TicketService` with a history variable that counts reopenings |
| `RoleHistory` | `TicketService` with a history of `user_roles`: which contents it had while each request was served |
| `TicketAudience` | `ReopenHistory` with the notices sent after commits and the requests of `GET /tickets/{id}` |
| `TicketLinks` | Link and Unlink, row by row, with the waits for keys and PostgreSQL's deadlock detector |
| `Catalog` | categories and rooms, and what tickets copy of them |
| `Registry` | the abstract specification of accounts: opened whole, by one owner, once |
| `Deployment` | replicas that start, seed, serve, drain and exit; registration, login, roles; implements `Registry` |
| `Lists` | the queries of lists and reports, with theorems about them |
| `ConnPool` | the pool of connections and the row locks, for every kind of request |
| `ConnPoolProofs` | its invariant, and the one way in which requests deadlock |
| `AudienceProofs` | (extends `RefinementProofs`) what follows for `ReopenHistory`, `RoleHistory` and `TicketAudience`, and for clients that are restricted |
| `TicketLinksProofs` | the inductive invariant of `TicketLinks` and its safety properties |
| `CatalogProofs` | the same for `Catalog` |
| `DeploymentProofs` | the same for `Deployment`, and that it implements `Registry` |
| `MC*` | the instances for TLC |

### How `TicketService` corresponds to the code

State. `tickets`, `comments` and `userRoles` are the committed tables. `lock[t]` names
the request whose transaction holds the lock on row t. `pc[r]`, `call[r]`, `row[r]` and
`note[r]` are the goroutine of request r: where it is, its arguments and actor, its local
`ticket` variable, and the comment its open transaction has inserted. Outside a
transaction `row` is the copy `GetTicketByID` returned; inside one it is also the version
of the row that only this transaction sees.

Steps. One step is one SQL statement and the Go code up to the next one.

| `pc` | Next statement | Actions |
|---|---|---|
| `idle` | the request arrives; `Auth` loads the roles; validation | `Arrive` |
| `read` | `GetTicketByID` and the access check | `UpdateRead`, `DeleteRead`, `CommentRead`, `CancelRead` |
| `write` | one statement outside a transaction | `Insert`, `UpdateWrite`, `DeleteWrite`, `CommentWrite` |
| `begin` | `GetTicketByIDForUpdate` and the checks | `AssignLock`, `TransitionLock`, `CompleteLock`, `RefuseLock`, `ReopenLock` |
| `locked` | `UpdateTicketInTx` (and, in Assign, the lookup of the assignee) | `AssignWrite`, `AssignReject`, `TransitionWrite`, ... |
| `comment` | `AddCommentInTx` | `AddCommentInTx` |
| `commit` | `COMMIT` | `Commit` |
| `notify` | recipient lookup, notifier, response | `Notify` |

`Abort` is a statement that fails or a client that goes away, at any of these points;
`Crash` is the death of the process, after which PostgreSQL rolls back; `ChangeRoles` is
any grant or revocation. A call that fails validation changes nothing and is no step.

Locks. `SELECT ... FOR UPDATE`, the single UPDATEs of Update and Delete, and the foreign
key check of `INSERT INTO comments` (a KEY SHARE lock) all conflict with a `FOR UPDATE`
lock, so they wait while `lock[t]` is held. PostgreSQL evaluates the WHERE clause on the
row as it is when the wait ends, and so do the actions.

Data. The descriptive columns are two, `title` and `details`, enough to tell apart a
PATCH of one from a PATCH of the other. A comment is told apart by what put it there: a
user, Complete or Refuse; comments that are alike are one element of a set. Ids come from
the finite set `TicketId`; when it is used up, an insertion fails. `Rating` holds valid
and invalid numbers, and `Text` the blank string too. The lookups of category and room
in Create and Update are in `Catalog`: here they turn a call away, which `Abort` covers,
or fill descriptive columns.

### How `ConnPool` corresponds to the code

`TicketService` lets every request have a connection; `ConnPool` looks at the
connections alone. Each request has the label `at` of its next statement; `After` is the
order of statements in each operation. A statement outside a transaction (`auth`, `read`,
`query`, `user`, `write`, `notify`) acquires a connection of the pool, runs and gives it
back; `Begin` acquires one that `Commit` or an early return (the deferred Rollback) gives
back. `lock` and `write` wait for a row lock while their connection is held. `user` is the
lookup of the assignee at `service/ticket.go:222`: the one statement that needs a
connection of its own inside a transaction. Queries that follow one another and take no
row lock are one step. `Return` is every early end: a failed check, a failed statement, a
client that goes away (`r.Context()` is cancelled, which ends waiting too).

### What `RoleHistory` adds

Roles are looked up twice: `Auth` loads the actor's when a request arrives, and Assign
looks at the assignee's before it writes (`service/ticket.go:222`); `ChangeRoles` may come
between any two steps. `inForce[r]` collects the contents `user_roles` has had since r
arrived, up to the present ones. `appointed` collects the pairs of a ticket and a user
whom an Assign of the ticket named and committed, if one of these contents made him an
executor or an administrator. Both are written by every step (`Record`) and read by none.

### What `TicketAudience` adds

`updated[r]` is the row that `UPDATE ... RETURNING` gave back and the notice is made of;
`NoticeOf` is the call of the notifier each operation makes (`AssignNotice`,
`CompleteNotice`, `RefuseNotice`, `notifyStatus`), `Notifies` the step that makes it (Complete tells nobody when there is no assignee). `view[g]` is a GET: one step
reads the ticket and applies `CanViewTicket`, the next reads the comments, the third
answers; the steps of `TicketService` go on between them. `past` remembers which rows each
ticket has had.

### How `TicketLinks` corresponds to the code

`links` holds the committed rows of `ticket_links`, two for a pair. Link looks both
tickets up (`check`, `check_linked`) and runs one INSERT of two rows; PostgreSQL handles
them one after the other, so each is a step (`InsertRow`): it waits while another open
statement is inserting or deleting the same key, and passes over a row that is there (ON
CONFLICT DO NOTHING) without locking it. Unlink's DELETE works on the rows its snapshot
found (`Scan`, `DeleteRow`); a row that another DELETE has removed meanwhile is skipped.
`held` are the keys of the open statement; `Circle` is what the deadlock detector looks
for (requests each of which waits, directly or through others of the circle, for every
other one) and `DetectDeadlock` what it does. A failed statement leaves nothing.

### How `Catalog` corresponds to the code

Nothing in it runs in a transaction. A request reads rows into its copy `row[r]` and
writes all of the copy's columns with its last statement: `TicketRead`, `CategoryLookup`,
`RoomLookup`, then `CreateTicket` or `UpdateTicket`; `RoomRead`, then `UpdateRoom`. The
other operations are one statement. A body's optional fields are the domain of `arg`.
`Taken` is the UNIQUE constraint on the names of rooms, on which the statement fails. Three
history variables remember what was out of service since the request arrived, which
columns others changed under it, and which names each room has borne.

### How `Deployment` corresponds to the code

`phase[i]` is where replica i is in `main`: `exited` (Docker will start it again),
`seeding` (`app.New`), `serving` and `draining` (`App.Run`), `closing` (the pool is being
closed) or `stopped` (by a signal). CreateUser is a transaction of several statements,
`tx[w]`, used by requests and by replicas that seed; an INSERT of an e-mail waits for an
open transaction that has inserted the same one and then fails (`SeedTaken`,
`RegisterTaken`). `Exit` is the end of a process, from an error or a timeout of Shutdown
alike: its requests are gone and PostgreSQL rolls their transactions back. A password is
the person who knows it; a token names the account and that person.

### How `Lists` corresponds to the code

`ListQuery` and `ReportQuery` are the filters the handlers build from the parameters;
`Restricted` is what `TicketService.List` adds, `Selected` the WHERE clause of
`buildListQuery`, `IsOverdue` the method of the same name. There is no state: the module
has theorems only.

## 3. Properties and runs

| Property | What it says | Why it could fail |
|---|---|---|
| `TypeOK` | in every module: variables have the types of the tables and Go values; in `TicketLinks` also that a key is in the hands of one running statement, in `Catalog` that room names are unique and not blank, in `Deployment` that one transaction at most has inserted an e-mail | |
| `RowConsistent` | status, assignee, refusal reason, rating and count of a row never contradict one another | each operation sets some columns and trusts the others; PATCH writes all of them from an old copy |
| `RowExplained` | a closed, rated, reopened or refused ticket has the comment the same transaction wrote | two statements, with aborts and crashes between them |
| `LockedCopyFresh` | until it writes, a transaction's copy is the committed row | unlocked writers |
| `CommitsAreEntitled` | at the commit the move is still one the actor may make on the row as it is | checked earlier than it takes effect; roles change meanwhile |
| `WorkflowKeepsEdits` | only Update changes descriptive columns, and to what its PATCH names | workflow operations write every column back |
| `DeletedIsFinal` | nothing under way changes or revives a deleted ticket | writes prepared before the deletion |
| `ServesSerially` | the tables live the serial life of `TicketLifecycle` (as long as no Update races) | any loss of atomicity |
| `AssigneesQualified` | who has a ticket in hand was put in charge of it by an Assign, while which was served he was an executor or administrator | the role is looked up outside the transaction; it may be revoked before the request, before the commit or later; PATCH brings old assignees back |
| `RevokedRolesMoveNothing` | at the commit the move is one the actor may make on the row as it is, by roles he had at some time since the request arrived | roles are loaded once and used after waits; they change meanwhile |
| `StatusEnteredByItsOperation` | new, assigned and closed are entered by Refuse, Assign and Complete only | the general `/transitions`, and PATCH |
| `ReopenedOnce` | a ticket is reopened at most once | concurrency, retries, a second way to reopen |
| `DeletesAreEntitled` | an author deletes only a new or cancelled ticket | check on an unlocked copy |
| `Answered` | every request is answered | a lock left behind, a waiter overtaken for ever |
| `NoticesAreTrue` | what a notice says was true of a committed row of the ticket, and concerned its recipient | it is sent after the commit, without the lock |
| `SeenExplained` | a GET shows no closed or refused ticket without the comment that explains it | ticket and comments are read by two statements |
| `OneWayOnlyByRace` | a pair is linked in both directions or in none, unless an Unlink committed after a Link had found one row there | two rows, deadlocks, aborts, unlocked conflicts |
| `CirclesShareAPair` | links deadlock only over the pair of tickets they share | every key waited for is a candidate |
| `NoLinkToDeleted` | no request links a ticket deleted before it arrived | the two lookups are not in the statement that inserts |
| `RoomNameBelongs` | a ticket shows a name its room has borne, or a text a client typed | id and name are copied, renamed and PATCHed separately |
| `RetiredStaysOut` | what was out of service since before a request is not put on a ticket by it, nor back into service unless its body says so | checked, then written; whole rows written back |
| `PatchKeepsOthers` | a PATCH changes a column it does not name only by taking back a change made since it read the row | whole rows written back |
| `ServedInTime` | a replica serves only with all demo users in the database and its pool open | other replicas seed, fail and drain at the same time |
| `TokensAreBacked` | who holds a token owns the account it names | two registrations of one e-mail, aborts, crashes, Shutdown timing out |
| `KeepsRegistry` | accounts appear whole, with a role, are never taken over and never vanish | two tables, several statements, seeding and registration at once |
| `Settles` | a replica that is not serving comes to serve, or is stopped | the loser of the race for a demo user exits; partly seeded databases |
| `IInv`, `PInv`, `HInv`, `AInv`, `LInv`, `CInv`, `DInv` | the inductive invariants of the proofs, of `TicketService`, `ConnPool`, `ReopenHistory`, `TicketAudience`, `TicketLinks`, `Catalog` and `Deployment`: what each request or replica knows at each program counter | |
| `StuckOnlyInAssign` | requests deadlock on connections and row locks only through an Assign that waits for its second connection, with as many requests in flight as connections | every wait that holds a connection is a candidate: row locks, lookups for notifications |

Passing runs (the first four with one ticket and two request slots; `Request` is a
symmetry set, except where liveness is checked):

| Run | Instance | Shows |
|---|---|---|
| `safety` | of `RoleHistory`: author, dispatcher, executor, whose role is granted and revoked; every operation but AddComment, a PATCH by author and dispatcher, an Assign to one who never has the role, calls some check rejects | the nine properties of `TicketService` and `RoleHistory` |
| `serial` | every operation but Update, the executor's role granted and revoked | `ServesSerially`, `StatusEnteredByItsOperation` |
| `live` | the operations that contend for the row, fair scheduling | `Answered`, and that `IInv` holds where it is reachable |
| `audience` | reopening through `/reopen` only, by author and dispatcher, no PATCH; deletions; the author's GET at any moment | `ReopenedOnce`, `SeenExplained`, `NoticesAreTrue`, and `HInv` and `AInv` |
| `pool_gridlock` | three requests of any operation, two tickets, two connections | `PInv`, `StuckOnlyInAssign` |
| `pool_roomy` | two requests of any operation, three connections, fair scheduling | `Answered` of `ConnPool` |
| `links` | two requests; t1 and t2 linked in both orders and unlinked, t2 linked to t3; any ticket deleted | the five properties of `TicketLinks`, and `LInv` |
| `catalog` | two requests; a room in service and one that can be created under the name the first may take; a ticket created and PATCHed | the four properties of `Catalog`, and `CInv` |
| `deployment` | two replicas, an administrator and a user to be seeded; two persons who register the same e-mail, one who registers a demo user's; one crash or failed connection | the five properties of `Deployment`, and `DInv` |

Bounds. Rows interact only through the lock and the writes of one row, so one ticket shows
what concurrency can do to it. Two slots are enough for every pair of operations to
interleave in every order; a slot is used again and again, so histories of any length
are explored, limited only by the reopening count the code itself limits. The proofs do
away with all of these bounds. In `pool_gridlock` the requests outnumber the connections
and the tickets are two, so that both circles arise: two Assigns that each wait for the
other's connection, and an Assign that waits for the connection of a request that waits
for its row lock.

In `links`, opposite orders need two requests and one pair; the third ticket is there so
that a wait between different pairs could arise. In `catalog`, the second room has the name
the first is renamed to, so that the unique names collide. In `deployment`, two replicas
race for every demo user and two registrations for one e-mail; `MaxFaults` = 1 lets a
replica die in any state of the others, and signals, timeouts and lost races end replicas
any number of times besides.

**What the runs leave open.** `OneWayOnlyByRace` has an exception because the race exists:
a Link that finds (a, b) there inserts only (b, a), and an Unlink whose snapshot had (a, b)
but not yet (b, a) deletes the former, so b shows a link to a and a none to b. Likewise
`RetiredStaysOut` and `PatchKeepsOthers` say how far a lost update goes: an UpdateRoom
that read the room before DeactivateRoom puts it into service again, and a PATCH takes
back another PATCH that came between its read and its write. The repository says nothing
to the contrary, so these are no violated runs. A notice may be lost (its failure is
logged) and may overtake another.

**The pool can deadlock.** In `pool_gridlock` states that satisfy `Stuck` are reachable:
with ten connections, one Assign and nine requests that wait for its ticket's row are
enough, or ten Assigns. Nothing in the repository speaks of the matter, so this is no
violated run; `StuckOnlyInAssign` says how far it goes, and `pool_roomy` and two theorems
under which conditions it cannot happen.

Where the code departs from what the repository says (runs that TLC must find violated):

| Run | Property | What happens |
|---|---|---|
| `patch_overwrites` | `StatusEnteredByItsOperation` | A PATCH read the ticket before a workflow operation committed, and writes the old status, assignee, rating and reopening count back (`service/ticket.go:186`); the comment at `service/ticket.go:250` reserves these statuses for their operations. |
| `transition_reopens` | `ReopenedOnce` | `POST /transitions` to `reopened` is not excluded at `service/ticket.go:251`, does not count and leaves the rating; `api/openapi.yaml:117` says "Reopen ticket (once)". |
| `delete_unentitled` | `DeletesAreEntitled` | Delete looks at the status without a lock and `SoftDeleteTicket` not at all; `domain/transitions_test.go:116` denies an author the deletion of a ticket in progress. |

That `RowConsistent` and `RowExplained` survive the stale PATCH is not luck: it restores
a whole row that was once committed, every column of it (`Copied` in the invariant).

### Fairness

`Answered` assumes weak fairness of every request's own steps: Go schedules every runnable
goroutine and PostgreSQL executes every statement. For steps that wait for a row lock it
assumes strong fairness: while others lock and release the row such a step is enabled
again and again but not continuously, and PostgreSQL queues the waiters of a row, so none
is overtaken for ever. With weak fairness only, TLC finds a request that starves.
Nothing is assumed of `Arrive`, `Abort`, `Crash` and `ChangeRoles`.
`Answered` of `TicketService` speaks of a pool that is never exhausted; what an exhausted
pool does is the subject of `ConnPool`, where acquiring a connection is strongly fair too
(the semaphore of the pool serves waiters in order).
`Answered` of `TicketLinks` assumes strong fairness of the row steps, which wait for keys
(PostgreSQL queues them), and weak fairness of the deadlock detector, which runs whenever
a wait has lasted a second. `Settles` assumes that Docker restarts what exited (`restart:
unless-stopped`), that Shutdown returns or times out, and strong fairness of the
statements of a worker, because an INSERT that waits for another transaction of the same
e-mail may be disabled and enabled again. Nothing is assumed of signals, of `Up` or of
clients; crashes are bounded by `MaxFaults`, for a replica that dies again and again
never settles.

## 4. Proofs

Every safety property the passing runs check is also proved, for all finite or infinite
sets of users, tickets, requests, texts, calls, role tables, rooms, replicas, e-mails and
so on (the pool: for finitely many requests), from the assumptions named where the
constants are declared: NULL is none of the values, calls have the fields and arguments
their operation takes, role tables assign sets of roles; in `Deployment`, replicas and
requests are different things, every demo user has a role, and the person the demo
passwords belong to does not register.

| Theorem | Says |
|---|---|
| `Invariance` | `Spec => []IInv` |
| `TypeCorrect`, `RowsStayConsistent`, `RowsStayExplained`, `LocksProtect` | the state properties of `TicketService` |
| `DeletionIsFinal`, `EditsAreKept`, `CommitsStayEntitled` | its action properties |
| `RulesAgree` | the rules of Complete, Refuse, Reopen and Cancel agree with `CanActorTransition` |
| `MoversAreViewers` | nobody moves a ticket that he could not view at the commit |
| `AssigneesStayQualified` | `RSpec => []AssigneesQualified` |
| `RolesInvariance` | `RSpec => [](IInv /\ RInv)` of `RoleHistory` |
| `RevokedRolesStayRevoked` | `RSpec => RevokedRolesMoveNothing` |
| `WaitsAreShort` | who waits for a row lock (of those in `TicketService`) waits for a transaction that has this lock, no other, and asks for none |
| `ServiceImplementsLifecycle` | if no call is an Update, `Spec => ServesSerially` |
| `ReservedStatusesKept` | if no call is an Update, `Spec => StatusEnteredByItsOperation` |
| `CountingInvariance` | if no call is an Update or a transition to reopened, `HSpec => [](IInv /\ HInv)` |
| `ReopenedAtMostOnce` | if no call is an Update or a transition to reopened, `HSpec => []ReopenedOnce` |
| `OneAtATimeIsRight` | with one request at a time and any calls, `Spec => DeletesAreEntitled /\ StatusEnteredByItsOperation` |
| `OneAtATimeIsSerial` | with one request at a time and any calls, `Spec => ServesSerially` |
| `MovesByTheGraph` | with one request at a time, or without Update, statuses change only along `CanTransition` |
| `RepeatsAreHarmless` | a workflow call that finds the ticket as its own effect left it is refused, or is an Assign that changes nothing |
| `AuthorsNeverChange` | a ticket stays in the table and keeps its author |
| `WatchingChangesNothing`, `AudienceInvariance` | `ASpec => HSpec /\ Spec`, `ASpec => [](IInv /\ AInv)` |
| `PatchAtWorstRestores` | with any calls, `ASpec => [][Lifecycle!Next \/ \E t \in TicketId : Restores(t)]_<<tickets, comments>>` |
| `WritesWereEntitled` | who PATCHes, deletes or comments on a ticket was entitled to by the row the request read, which the ticket had, undeleted |
| `AnswersAreExplained`, `NoticesTellTheTruth` | `ASpec => []SeenExplained`, `ASpec => NoticesAreTrue` |
| `LinksInvariance` | `Spec => []LInv` of `TicketLinks` |
| `LinksTypeCorrect`, `OneWayLinksAreRaces`, `CirclesKeepToAPair`, `DeletedStayUnlinked` | its safety properties |
| `LinksAreMutual` | if nobody unlinks a and b, or with one request at a time, links between a and b go both ways or none, in every state |
| `CatalogInvariance` | `Spec => []CInv` of `Catalog` |
| `CatalogTypeCorrect`, `RoomNamesStayBelonging`, `RetiredIsFinal`, `PatchesKeepOthers` | its properties |
| `CatalogOneAtATime` | with one request at a time, nothing out of service is put on a ticket, a room returns only when a body says so, and a PATCH changes no column its body does not stand for |
| `DeploymentInvariance` | `Spec => []DInv` of `Deployment` |
| `DeploymentTypeCorrect`, `ServesInTime`, `TokensStayBacked` | its safety properties |
| `SoloSeedsCleanly` | a single replica that leaves the seeding without serving has crashed or lost its connection |
| `DeploymentImplementsRegistry` | `Spec => KeepsRegistry`: the step-by-step refinement of `Registry` |
| `PoolInvariance`, `GridlockNeedsAssign` | `Spec => []PInv`, `Spec => []StuckOnlyInAssign`, for any pool and any finite set of requests |
| `RoomyNeverStuck` | with fewer requests than connections, `Spec => []~Stuck` |
| `PlainNeverStuck` | without Assign, `Spec => []~Stuck` |
| `ListsWhatIsVisible`, `FiltersOnlyNarrow`, `ReportsWithinLists` | lists and reports show what `CanViewTicket` lets the actor see, and no parameter shows more |
| `OverdueAgrees` | the SQL filter and `IsOverdue` agree, as long as the server's clock is not behind the database's |

**The ticket service.** `RowConsistent` and the others are not inductive: whether a commit keeps them
depends on what the transaction carries. `IInv` adds what each request knows at each
program counter. A transaction between its `SELECT FOR UPDATE` and its commit holds the
lock and its row is live (`RowThere`); before it writes, its copy is the committed row and
the operation's checks are true of it (`Checked`); after it has written, its copy is the
result of the operation on the committed row and may be published with its comment
(`Saved`); an Update's copy may be old, but could be published (`Copied`); and a lock that
is held belongs to such a transaction (`LockUsed`), so no two requests hold one row. The
lemma `Step` shows once that a step which leaves other requests' rows alone preserves
what they know; then there is a lemma per kind of action. The action properties follow from
`IInv` and a list of the steps that write the tables (`Writers`). The refinement maps the
tables to themselves: commits, insertions, deletions and comments are the abstract
operations, everything else stutters.

Who is in charge of a ticket: `AssigneesQualified` alone is not inductive, because a
PATCH writes its copy's assignee back and an Assign commits after it has looked. `RInv`
says in addition that the assignee in an Update's copy was appointed to this ticket, that
an Assign about to commit has seen a qualified assignee since it arrived
(`QualifiedDuring`), and, for `RevokedRolesMoveNothing`, that the roles an actor carries
are those of some time since his request arrived (`RolesOfItsTime`). The latter turns
what `IInv` says of the actor's copy of his roles into a statement about the table.

`WaitsAreShort` is a consequence of `IInv`: a transaction asks for its lock with its first
statement and for no other later (`LockUsed`), so what holds a lock never waits for one;
that is why the model of the row locks, unlike the one of links, needs no deadlock
detector. The theorem speaks of the row locks of `TicketService` only. The INSERT of a Link
also takes KEY SHARE locks on two rows of `tickets` for its foreign keys, and neither module has
them. So a Link may wait for a workflow transaction, which asks for nothing more and
ends, and a workflow transaction that asks for its lock, holding none yet, may wait for a
Link; KEY SHARE locks do not conflict with one another.

**The pool.** `PInv` says at which statements a request holds which connection and that a
row lock is held only after SELECT FOR UPDATE. If all wait, whoever holds a row lock needs
a connection, so it is an Assign at its lookup (`HolderWaits`); nobody holds two
connections, for that request could run its query (`OneEach`); so the connections, all of
them in use, have as many holders.

Why the assumption on Update: a PATCH may write an old row back, which is no step of the
serial life; that is the finding above. How bad it can be is `PatchAtWorstRestores`: the
row that comes back is, but for the columns the body names, a whole row that the live
ticket once had (`Recorded`: the copies of Updates are in the history `past`), never a
mixture of two and never a deleted ticket's. `OneAtATimeIsRight` says the converse of this
finding and of the one about Delete: where nothing comes between a request's read and its
write (`CopyIsRow`), both properties hold, PATCH and Delete included, and so does
`ServesSerially` (`OneAtATimeIsSerial`): an Update is then the `Edit` of `TicketLifecycle`.
`MovesByTheGraph` holds for the same reason, or because without Updates only commits change
a status (`CommitEdge`). Whatever races, the checks of PATCH, Delete and AddComment were
made on a row the ticket had (`Permitted` of the copy, which is in `past`), and the author of
every copy is the row's (`AuthorCopied`). The latter is of use to the model itself, which writes
whole rows where the UPDATE statements leave `author_id` out. `RepeatsAreHarmless`
compares a commit with the row it finds: each workflow operation leaves a row that its
own check refuses, but for Assign. The third finding is
no race: there `ReopenedAtMostOnce` excludes the calls that pass the count by. Its
invariant is that the column `reopen_count` is at least the number of reopenings
(`Counted`), which a stale PATCH or an uncounted transition breaks; the rest is
`RowConsistent`, which bounds the column.

**Notices and GETs.** What a request will say is true of the row it has committed (`Told`)
from the commit on, because `past` and `comments` only grow; the row a GET has read is
explained by the comments there are (`Readable`), because `RowExplained` held when it was
read and comments are only added, so the comments read later explain it too. Read in the
other order the two statements would lose this.

**Links.** Symmetry of `links` is not inductive: an insertion may have passed over a row that
a deletion then takes. `FoundThere` says that a row a Link has passed over is there or the
pair is in `torn`; `TakesBothOrNone` that a deletion of a pair that is not torn has both
rows, which are there until somebody commits their deletion, or none; and `OnItsPair`
that statements keep to the rows of their call, so other pairs are never involved. The last
also gives `CirclesShareAPair`: who waits shares the pair of whom he waits for, and in a
circle the requests that share a pair cannot be only a part. (In a set of two circles
over different pairs they can, so `Circle` asks for a single one.) `LinksAreMutual` says
who alone can tear a pair: an Unlink of the same two tickets, while a Link of them runs.
Deadlocks, aborts, repetitions and what is done to other pairs cannot.

**Catalog.** `CInv` says of the copy a request holds that its room name belongs to its room
(`Belongs`), that a category or room that has been looked up was in service at some time
since the request arrived, and that a column which nobody else has changed since the read,
and which the body does not name, is still the table's (`TicketCopied`, `RoomCopied`). Where
requests are served one at a time nothing has changed since the request arrived
(`Alone`), so that the exceptions of `RetiredStaysOut` and `PatchKeepsOthers` vanish.

**Deployment.** `DInv` adds to the types: a replica that seeds has the demo users it has passed
in the database, and all of them once it serves (`Seeds`); a request that is served has a
replica that waits for it, and what it looked up is still so when it writes (`Serves`); an
open CreateUser has roles to give, and once its row is inserted nobody else commits that
e-mail (`Creates`); a demo user's e-mail is nobody else's, and no role is without its user
(`RowsBelong`). The refinement maps the commit of a CreateUser to the opening of an account
and the changes of `user_roles` to those of `Registry`; everything else stutters. `SoloSeedsCleanly`
shows that a failed start over demo users that are there already takes a second replica:
between a single one's lookup and its INSERT no one else inserts (`Unseeded`), because it
does not serve while it seeds, and its own requests of before are gone.

Only model-checked: `Answered` (three modules) and `Settles`, for liveness under fairness is
beyond the prover. The violated runs state what is false; under which conditions it is true
is in the table above.

## 5. Not modelled, and plan

Not modelled: configuration (read once at start); build files and the API description;
JSON decoding, the HTTP status of an error and the CSV layout, which keep no state; the
expiry of tokens and password hashing (libraries); the content of titles, descriptions and
comments beyond what is told apart above; read-only lists of categories, rooms and roles.
`ConnPool` leaves out the requests of links, catalog and roles: they hold one connection
at a time and no row lock between two statements.

Plan: that a PATCH loses nothing when every other step of its ticket between its read and
its write is a comment; that a repeated Create leaves one ticket more and a repeated comment
one comment more (for which comments would have to be told apart); and that the readers of
the lists see one state of the table.

## 6. Running

    tlc -workers 2 -config MCRoleHistory.cfg MCRoleHistory.tla
    tlapm TicketServiceProofs.tla
    tlapm RefinementProofs.tla
    tlapm ConnPoolProofs.tla
    tlapm AudienceProofs.tla
    tlapm TicketLinksProofs.tla
    tlapm CatalogProofs.tla
    tlapm DeploymentProofs.tla
    tlapm Lists.tla
