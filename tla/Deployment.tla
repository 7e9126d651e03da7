------------------------------ MODULE Deployment ------------------------------
(***************************************************************************)
(* The life of the server processes and of the accounts they open.  Every  *)
(* replica is a container that runs main: app.New pings the database and   *)
(* seeds the demo users, Run serves until a signal, drains and closes the  *)
(* pool; Docker starts it again unless it was stopped (docker-compose.yml).*)
(* The compose service and a developer's `make run` share one database, so *)
(* there may be several.                                                   *)
(*                                                                         *)
(* Registration and seeding insert accounts with the same CreateUser: one  *)
(* transaction for the row of users and its rows of user_roles.            *)
(***************************************************************************)
EXTENDS Domain, Sequences

CONSTANTS
  Replica,     \* server processes
  Request,     \* request slots: bounds the requests in flight at once
  Email,       \* e-mail addresses
  Demo,        \* the demo users in order: sequence of [email, roles]
  Person,      \* who knows an account's password
  Seeder,      \* the person the demo passwords belong to
  Input,       \* the calls clients make: records [op, email, who, role]
  MaxFaults,   \* bounds crashes and failed connections
  NULL

Worker == Replica \cup Request

Op == {"register", "login", "grant", "revoke"}

\* An open CreateUser: the row, and its roles yet to be inserted and inserted.
Creation == [email : Email, who : Person, todo : SUBSET Role, done : SUBSET Role]

ASSUME InputAssumption ==
  Input \subseteq [op : Op, email : Email, who : Person, role : Role] /\ NULL \notin Input

ASSUME DemoAssumption ==
  /\ Demo \in Seq([email : Email, roles : (SUBSET Role) \ {{}}])
  /\ Seeder \in Person
  /\ \A in \in Input : in.op = "register" => in.who # Seeder

ASSUME ReplicaAssumption ==
  /\ Replica \cap Request = {} /\ NULL \notin Replica \cup Person \cup Creation
  /\ NULL \notin [owner : Person, roles : SUBSET Role]
  /\ MaxFaults \in Nat

DemoEmail == {Demo[i].email : i \in DOMAIN Demo}

VARIABLES
  users,       \* committed rows of users: Email -> owner of the password, or NULL
  userRoles,   \* committed rows of user_roles: pairs of an e-mail and a role
  phase,       \* where each replica is in main
  next,        \* the demo user a replica seeds next, 1 .. Len(Demo) + 1
  pc,          \* where each worker is: a request, or a replica that seeds
  call,        \* the call each request serves
  on,          \* the replica that serves it
  tx,          \* each worker's open CreateUser: [email, who, todo, done] or NULL
  tokens,      \* history: tokens issued, [email, who]
  faults       \* crashes and failed connections so far

tables == <<users, userRoles>>

vars == <<tables, phase, next, pc, call, on, tx, tokens, faults>>

Init ==
  /\ users = [e \in Email |-> NULL]
  /\ userRoles = {}
  /\ phase = [i \in Replica |-> "exited"]
  /\ next = [i \in Replica |-> 1]
  /\ pc = [w \in Worker |-> "idle"]
  /\ call = [q \in Request |-> NULL]
  /\ on = [q \in Request |-> NULL]
  /\ tx = [w \in Worker |-> NULL]
  /\ tokens = {}
  /\ faults = 0

InFlight(i) == {q \in Request : on[q] = i}

-----------------------------------------------------------------------------
(***************************************************************************)
(* CreateUser, by a request or by a replica that seeds.                    *)
(***************************************************************************)

\* The transaction begins; the user's row is inserted next.
BeginCreate(w, email, who, roles) ==
  /\ pc' = [pc EXCEPT ![w] = "insert"]
  /\ tx' = [tx EXCEPT ![w] = [email |-> email, who |-> who, todo |-> roles, done |-> {}]]

\* Another open transaction has inserted the same e-mail: INSERT waits for it.
Contended(w) ==
  \E v \in Worker \ {w} : tx[v] # NULL /\ pc[v] # "insert" /\ tx[v].email = tx[w].email

\* Mutant: the user is inserted with the pool, not in the transaction.
InsertUserAlone(w) ==
  /\ pc[w] = "insert" /\ ~Contended(w)
  /\ users[tx[w].email] = NULL
  /\ users' = [users EXCEPT ![tx[w].email] = tx[w].who]
  /\ pc' = [pc EXCEPT ![w] = "roles"]
  /\ UNCHANGED <<userRoles, phase, next, call, on, tx, tokens, faults>>

InsertUser(w) ==
  /\ pc[w] = "insert" /\ ~Contended(w)
  /\ users[tx[w].email] = NULL
  /\ pc' = [pc EXCEPT ![w] = "roles"]
  /\ UNCHANGED <<tables, phase, next, call, on, tx, tokens, faults>>

\* One statement for each role; then Commit.
InsertRole(w) ==
  /\ pc[w] = "roles"
  /\ \E role \in tx[w].todo :
       tx' = [tx EXCEPT ![w].todo = @ \ {role}, ![w].done = @ \cup {role}]
  /\ UNCHANGED <<tables, phase, next, pc, call, on, tokens, faults>>

\* What COMMIT publishes.
Publish(w) ==
  /\ pc[w] = "roles" /\ tx[w].todo = {}
  /\ users' = [users EXCEPT ![tx[w].email] = tx[w].who]
  /\ userRoles' = userRoles \cup {<<tx[w].email, role>> : role \in tx[w].done}

-----------------------------------------------------------------------------
(***************************************************************************)
(* app.New: connect, ping, seed.                                           *)
(***************************************************************************)

\* Docker starts the container; NewPostgres and Ping succeed.
Start(i) ==
  /\ phase[i] = "exited"
  /\ phase' = [phase EXCEPT ![i] = "seeding"]
  /\ next' = [next EXCEPT ![i] = 1]
  /\ UNCHANGED <<tables, pc, call, on, tx, tokens, faults>>

\* Mutant: EnsureDemoUsers does not look the e-mail up.
SeedLookupNot(i) ==
  /\ phase[i] = "seeding" /\ pc[i] = "idle" /\ next[i] <= Len(Demo)
  /\ BeginCreate(i, Demo[next[i]].email, Seeder, Demo[next[i]].roles)
  /\ UNCHANGED <<tables, phase, next, call, on, tokens, faults>>

\* GetUserByEmail: a demo user that is there is passed over.
SeedLookup(i) ==
  /\ phase[i] = "seeding" /\ pc[i] = "idle" /\ next[i] <= Len(Demo)
  /\ LET d == Demo[next[i]]
     IN IF users[d.email] = NULL
        THEN BeginCreate(i, d.email, Seeder, d.roles) /\ UNCHANGED next
        ELSE next' = [next EXCEPT ![i] = @ + 1] /\ UNCHANGED <<pc, tx>>
  /\ UNCHANGED <<tables, phase, call, on, tokens, faults>>

SeedCommit(i) ==
  /\ i \in Replica /\ Publish(i)
  /\ next' = [next EXCEPT ![i] = @ + 1]
  /\ pc' = [pc EXCEPT ![i] = "idle"]
  /\ tx' = [tx EXCEPT ![i] = NULL]
  /\ UNCHANGED <<phase, call, on, tokens, faults>>

\* The process is gone, with its requests; PostgreSQL rolls its transactions back.
Exit(i, to) ==
  LET gone == {i} \cup InFlight(i)
  IN /\ phase' = [phase EXCEPT ![i] = to]
     /\ pc' = [w \in Worker |-> IF w \in gone THEN "idle" ELSE pc[w]]
     /\ tx' = [w \in Worker |-> IF w \in gone THEN NULL ELSE tx[w]]
     /\ call' = [q \in Request |-> IF q \in gone THEN NULL ELSE call[q]]
     /\ on' = [q \in Request |-> IF q \in gone THEN NULL ELSE on[q]]
     /\ UNCHANGED <<tables, next, tokens>>

\* ErrEmailTaken: somebody was faster.  New closes the pool and fails, main exits.
SeedTaken(i) ==
  /\ i \in Replica /\ pc[i] = "insert" /\ ~Contended(i)
  /\ users[tx[i].email] # NULL
  /\ Exit(i, "exited")
  /\ UNCHANGED faults

\* Mutant: the server starts while the demo users are seeded.
ServeAtOnce(i) ==
  /\ phase[i] = "seeding" /\ pc[i] = "idle"
  /\ phase' = [phase EXCEPT ![i] = "serving"]
  /\ UNCHANGED <<tables, next, pc, call, on, tx, tokens, faults>>

\* Run: the server listens.
Serve(i) ==
  /\ phase[i] = "seeding" /\ pc[i] = "idle" /\ next[i] > Len(Demo)
  /\ phase' = [phase EXCEPT ![i] = "serving"]
  /\ UNCHANGED <<tables, next, pc, call, on, tx, tokens, faults>>

-----------------------------------------------------------------------------
(***************************************************************************)
(* The end of a process.                                                   *)
(***************************************************************************)

\* Ping, a statement of the seeding or ListenAndServe fails, or the process dies.
Fail(i) ==
  /\ phase[i] \notin {"exited", "stopped"} /\ faults < MaxFaults
  /\ faults' = faults + 1
  /\ Exit(i, "exited")

\* SIGTERM: Shutdown closes the listener and waits for the requests in flight.
Signal(i) ==
  /\ phase[i] = "serving"
  /\ phase' = [phase EXCEPT ![i] = "draining"]
  /\ UNCHANGED <<tables, next, pc, call, on, tx, tokens, faults>>

\* Mutant: the pool is closed without waiting for Shutdown.
DrainedEarly(i) ==
  /\ phase[i] = "draining"
  /\ phase' = [phase EXCEPT ![i] = "closing"]
  /\ UNCHANGED <<tables, next, pc, call, on, tx, tokens, faults>>

\* Shutdown returns and the pool is closed.
Drained(i) ==
  /\ phase[i] = "draining" /\ InFlight(i) = {}
  /\ phase' = [phase EXCEPT ![i] = "closing"]
  /\ UNCHANGED <<tables, next, pc, call, on, tx, tokens, faults>>

Closed(i) == phase[i] = "closing" /\ Exit(i, "stopped") /\ UNCHANGED faults

\* Ten seconds are over: Run returns the error of Shutdown, main exits.
DrainTimeout(i) ==
  /\ phase[i] = "draining" /\ InFlight(i) # {}
  /\ Exit(i, "stopped")
  /\ UNCHANGED faults

\* Somebody starts a stopped container.
Up(i) ==
  /\ phase[i] = "stopped"
  /\ phase' = [phase EXCEPT ![i] = "exited"]
  /\ UNCHANGED <<tables, next, pc, call, on, tx, tokens, faults>>

-----------------------------------------------------------------------------
(***************************************************************************)
(* Requests: registration, login and the administration of roles.          *)
(***************************************************************************)

\* The body is valid; RequireRole has let an administrator's call pass.
Arrive(q, i, c) ==
  /\ pc[q] = "idle" /\ phase[i] = "serving"
  /\ call' = [call EXCEPT ![q] = c]
  /\ on' = [on EXCEPT ![q] = i]
  /\ IF c.op = "register"
     THEN BeginCreate(q, c.email, c.who, {"user"})
     ELSE /\ pc' = [pc EXCEPT ![q] = IF c.op = "revoke" THEN "write" ELSE "find"]
          /\ UNCHANGED tx
  /\ UNCHANGED <<tables, phase, next, tokens, faults>>

\* Mutant: no deferred Rollback.
AnswerNoRollback(q) ==
  /\ pc' = [pc EXCEPT ![q] = "idle"]
  /\ call' = [call EXCEPT ![q] = NULL]
  /\ on' = [on EXCEPT ![q] = NULL]
  /\ UNCHANGED <<phase, next, faults, tx>>

Answer(q) ==
  /\ pc' = [pc EXCEPT ![q] = "idle"]
  /\ tx' = [tx EXCEPT ![q] = NULL]
  /\ call' = [call EXCEPT ![q] = NULL]
  /\ on' = [on EXCEPT ![q] = NULL]
  /\ UNCHANGED <<phase, next, faults>>

\* A statement fails or the client goes away; the deferred Rollback undoes.
Abort(q) ==
  /\ q \in Request /\ pc[q] # "idle"
  /\ Answer(q)
  /\ UNCHANGED <<tables, tokens>>

RegisterTaken(q) ==
  /\ q \in Request /\ pc[q] = "insert" /\ ~Contended(q)
  /\ users[tx[q].email] # NULL
  /\ Answer(q)
  /\ UNCHANGED <<tables, tokens>>

\* Mutant: the error of Commit is not looked at, the token is issued all the same.
RegisterCommitIgnored(q) ==
  /\ q \in Request /\ pc[q] = "roles" /\ tx[q].todo = {}
  /\ \/ Publish(q) \/ UNCHANGED tables
  /\ tokens' = tokens \cup {[email |-> tx[q].email, who |-> tx[q].who]}
  /\ Answer(q)

RegisterCommit(q) ==
  /\ q \in Request /\ Publish(q)
  /\ tokens' = tokens \cup {[email |-> tx[q].email, who |-> tx[q].who]}
  /\ Answer(q)

\* GetUserByEmail, or GetUserByID of a grant.  Login compares the password.
Find(q) ==
  /\ q \in Request /\ pc[q] = "find"
  /\ LET c == call[q]
         found == users[c.email] # NULL /\ (c.op = "login" => users[c.email] = c.who)
     IN \/ /\ found
           /\ pc' = [pc EXCEPT ![q] = "write"]
           /\ UNCHANGED <<phase, next, call, on, tx, faults>>
        \/ ~found /\ Answer(q)
  /\ UNCHANGED <<tables, tokens>>

\* issueToken, after the roles were loaded.
Login(q) ==
  /\ q \in Request /\ pc[q] = "write" /\ call[q].op = "login"
  /\ tokens' = tokens \cup {[email |-> call[q].email, who |-> call[q].who]}
  /\ Answer(q)
  /\ UNCHANGED tables

Grant(q) ==
  /\ q \in Request /\ pc[q] = "write" /\ call[q].op = "grant"
  /\ userRoles' = userRoles \cup {<<call[q].email, call[q].role>>}
  /\ Answer(q)
  /\ UNCHANGED <<users, tokens>>

\* DELETE FROM user_roles; without a lookup before.
Revoke(q) ==
  /\ q \in Request /\ pc[q] = "write" /\ call[q].op = "revoke"
  /\ userRoles' = userRoles \ {<<call[q].email, call[q].role>>}
  /\ Answer(q)
  /\ UNCHANGED <<users, tokens>>

-----------------------------------------------------------------------------
(***************************************************************************)
(* The specification.                                                      *)
(***************************************************************************)

\* Statements and Go code of worker w that run on by themselves.
Working(w) ==
  \/ InsertUser(w) \/ InsertRole(w)
  \/ SeedCommit(w) \/ SeedTaken(w)
  \/ RegisterTaken(w) \/ RegisterCommit(w)
  \/ Find(w) \/ Login(w) \/ Grant(w) \/ Revoke(w)

Starting(i) == Start(i) \/ SeedLookup(i) \/ Serve(i)

Stopping(i) == Drained(i) \/ Closed(i) \/ DrainTimeout(i)

Next ==
  \/ \E w \in Worker : Working(w)
  \/ \E i \in Replica : Starting(i) \/ Stopping(i) \/ Signal(i) \/ Up(i) \/ Fail(i)
  \/ \E q \in Request :
       Abort(q) \/ \E i \in Replica, c \in Input : Arrive(q, i, c)

Spec == Init /\ [][Next]_vars

\* Go runs every goroutine, Docker restarts what exited, Shutdown returns or
\* times out.  An INSERT that waits for another transaction goes on when that
\* one ends: the transactions of CreateUser are only waited for by others of the
\* same e-mail, and end with the process at the latest.
Fairness ==
  /\ \A w \in Worker : SF_vars(Working(w))
  /\ \A i \in Replica : WF_vars(Starting(i)) /\ WF_vars(Stopping(i))

FairSpec == Spec /\ Fairness

-----------------------------------------------------------------------------
(***************************************************************************)
(* Properties.                                                             *)
(***************************************************************************)

\* The type invariant; a transaction is open where CreateUser runs, and one at
\* most has inserted an e-mail.
TypeOK ==
  /\ users \in [Email -> Person \cup {NULL}]
  /\ userRoles \subseteq Email \X Role
  /\ phase \in [Replica -> {"exited", "seeding", "serving", "draining", "closing", "stopped"}]
  /\ next \in [Replica -> 1 .. Len(Demo) + 1]
  /\ pc \in [Worker -> {"idle", "insert", "roles", "find", "write"}]
  /\ call \in [Request -> Input \cup {NULL}]
  /\ on \in [Request -> Replica \cup {NULL}]
  /\ tx \in [Worker -> Creation \cup {NULL}]
  /\ tokens \subseteq [email : Email, who : Person]
  /\ faults \in 0 .. MaxFaults
  /\ \A w \in Worker : tx[w] # NULL <=> pc[w] \in {"insert", "roles"}
  /\ \A v, w \in Worker :
       pc[v] = "roles" /\ pc[w] = "roles" /\ v # w => tx[v].email # tx[w].email

\* No request is served before its replica has all demo users in the database, as
\* the seeder's accounts, or after that replica's pool was closed, whatever
\* replicas start, fail, drain and time out next to it.
ServedInTime ==
  \A q \in Request : pc[q] # "idle" =>
    /\ phase[on[q]] \in {"serving", "draining"}
    /\ \A e \in DemoEmail : users[e] = Seeder

\* Whoever holds a token owns the account it names: of two that register the same
\* e-mail at once one gets an account, and only that one a token; an account
\* whose insertion is rolled back by an abort, a crash or a timeout got none.
TokensAreBacked ==
  \A token \in tokens : users[token.email] = token.who

\* The accounts that the tables amount to.
accounts ==
  [e \in Email |->
     IF users[e] = NULL THEN NULL
     ELSE [owner |-> users[e], roles |-> {role \in Role : <<e, role>> \in userRoles}]]

TheRegistry == INSTANCE Registry WITH accounts <- accounts

\* Users and their roles are in two tables, written by several statements: the
\* accounts are opened whole all the same, by one owner, once.
KeepsRegistry == TheRegistry!Spec

\* A replica always comes up: one that lost the race for a demo user exits, is
\* started again and passes it over; a partly seeded database is no obstacle.
\* One that was told to stop is stopped in the end.
Settles ==
  \A i \in Replica : phase[i] # "serving" ~> phase[i] \in {"serving", "stopped"}

-----------------------------------------------------------------------------
(***************************************************************************)
(* The inductive invariant of the proofs: what each worker relies on at    *)
(* each program counter.                                                   *)
(***************************************************************************)

\* A replica creates accounts only while it seeds, the demo users' in order; those
\* it has passed are there, and all of them once it serves.
Seeds(i) ==
  /\ pc[i] # "idle" =>
       /\ phase[i] = "seeding" /\ pc[i] \in {"insert", "roles"} /\ next[i] <= Len(Demo)
       /\ tx[i].email = Demo[next[i]].email /\ tx[i].who = Seeder
  /\ phase[i] = "seeding" => \A k \in 1 .. next[i] - 1 : users[Demo[k].email] # NULL
  /\ phase[i] \in {"serving", "draining"} => \A e \in DemoEmail : users[e] # NULL

\* A request is served by a replica that waits for it, and what Find has looked
\* up is still so when the request writes.
Serves(q) ==
  /\ pc[q] = "idle" <=> call[q] = NULL
  /\ pc[q] # "idle" =>
       /\ on[q] # NULL /\ phase[on[q]] \in {"serving", "draining"}
       /\ pc[q] \in {"insert", "roles"} <=> call[q].op = "register"
       /\ pc[q] \in {"insert", "roles"} => tx[q].email = call[q].email /\ tx[q].who = call[q].who
  /\ pc[q] = "find" => call[q].op \in {"login", "grant"}
  /\ pc[q] = "write" /\ call[q].op = "login" => users[call[q].email] = call[q].who
  /\ pc[q] = "write" /\ call[q].op = "grant" => users[call[q].email] # NULL

\* An open CreateUser has roles to give; nobody else commits its e-mail.
Creates(w) ==
  /\ tx[w] # NULL => tx[w].todo \cup tx[w].done # {}
  /\ pc[w] = "roles" => users[tx[w].email] = NULL

\* A demo user's e-mail never belongs to anybody but the seeder, and no row of
\* user_roles is without its user.
RowsBelong ==
  /\ \A e \in DemoEmail : users[e] \in {NULL, Seeder}
  /\ \A p \in userRoles : users[p[1]] # NULL

DInv ==
  /\ TypeOK
  /\ \A i \in Replica : Seeds(i)
  /\ \A q \in Request : Serves(q)
  /\ \A w \in Worker : Creates(w)
  /\ RowsBelong
  /\ TokensAreBacked
=============================================================================
