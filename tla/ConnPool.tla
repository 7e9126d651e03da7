------------------------------ MODULE ConnPool ------------------------------
(***************************************************************************)
(* The pool of database connections (internal/repository/postgres.go) and  *)
(* the requests that share it.  A statement outside a transaction takes a  *)
(* connection, runs and gives it back; Begin takes one and Commit or       *)
(* Rollback gives it back.  Assign looks its assignee up on the pool while *)
(* its transaction is open, so it holds one connection and asks for        *)
(* another; and a statement that waits for a row lock holds its connection *)
(* meanwhile.                                                              *)
(*                                                                         *)
(* Rows are reduced to their locks.  Queries that follow one another and   *)
(* take no row lock are one step: between two of them a request holds what *)
(* it held before the first.                                               *)
(***************************************************************************)
EXTENDS Naturals, FiniteSets

CONSTANTS
  Request,     \* request slots: bounds the requests in flight at once
  TicketId,    \* tickets whose rows are locked
  MaxConns,    \* cfg.MaxConns of the pool
  Ops,         \* the operations clients call
  NULL         \* no request

\* Operations that lock a ticket's row in a transaction, and operations whose
\* last statement waits for the row lock of another.
TxOp == {"assign", "transition", "complete", "refuse", "reopen", "cancel"}
UnlockedOp == {"update", "delete", "addComment"}

\* "get" stands for every operation that only queries and inserts.
Op == TxOp \cup UnlockedOp \cup {"get", "login", "register"}

ASSUME PoolAssumption ==
  /\ IsFiniteSet(Request) /\ NULL \notin Request
  /\ MaxConns \in Nat \ {0}
  /\ Ops \subseteq Op

VARIABLES
  at,     \* the next statement of each request
  op,     \* the operation it runs
  tid,    \* and the ticket it is about
  stmt,   \* requests that hold a connection for one statement
  tx,     \* requests that hold a connection for a transaction
  lock    \* which request's transaction holds the lock on a ticket row

vars == <<at, op, tid, stmt, tx, lock>>

\* Statements on a connection of their own, and in the transaction's.
Pooled == {"auth", "read", "query", "user", "write", "notify"}
Inside == {"lock", "update", "comment", "commit"}

\* The first statement: of everyone but who has no token yet, that of Auth.
First(o) == CASE o = "register" -> "begin"
              [] o = "login"    -> "query"
              [] OTHER          -> "auth"

\* The statement that follows one that succeeded.
After(o, s) ==
  CASE s = "auth"    -> CASE o \in UnlockedOp \cup {"cancel"} -> "read"
                          [] o \in TxOp \ {"cancel"}          -> "begin"
                          [] OTHER                            -> "query"
    [] s = "read"    -> IF o = "cancel" THEN "begin" ELSE "write"
    [] s = "begin"   -> IF o = "register" THEN "update" ELSE "lock"
    [] s = "lock"    -> IF o = "assign" THEN "user" ELSE "update"
    [] s = "user"    -> "update"
    [] s = "update"  -> IF o \in {"complete", "refuse"} THEN "comment" ELSE "commit"
    [] s = "comment" -> "commit"
    [] s = "commit"  -> IF o \in {"assign", "register"} THEN "idle" ELSE "notify"
    [] OTHER         -> "idle"

InUse == Cardinality(stmt) + Cardinality(tx)

-----------------------------------------------------------------------------

Init ==
  /\ at = [r \in Request |-> "idle"]
  /\ op = [r \in Request |-> "get"]
  /\ tid \in [Request -> TicketId]
  /\ stmt = {}
  /\ tx = {}
  /\ lock = [t \in TicketId |-> NULL]

Arrive(r, o, t) ==
  /\ at[r] = "idle"
  /\ at' = [at EXCEPT ![r] = First(o)]
  /\ op' = [op EXCEPT ![r] = o]
  /\ tid' = [tid EXCEPT ![r] = t]
  /\ UNCHANGED <<stmt, tx, lock>>

Proceed(r) == at' = [at EXCEPT ![r] = After(op[r], at[r])]

\* pgxpool hands out a connection as long as fewer than MaxConns are out.
Acquire(r) ==
  /\ at[r] \in Pooled /\ r \notin stmt
  /\ InUse < MaxConns
  /\ stmt' = stmt \cup {r}
  /\ UNCHANGED <<at, op, tid, tx, lock>>

Query(r) ==
  /\ r \in stmt /\ at[r] # "write"
  /\ stmt' = stmt \ {r}
  /\ Proceed(r)
  /\ UNCHANGED <<op, tid, tx, lock>>

\* A write outside a transaction waits, on its connection, for the row lock.
Write(r) ==
  /\ r \in stmt /\ at[r] = "write"
  /\ lock[tid[r]] = NULL
  /\ stmt' = stmt \ {r}
  /\ Proceed(r)
  /\ UNCHANGED <<op, tid, tx, lock>>

Begin(r) ==
  /\ at[r] = "begin"
  /\ InUse < MaxConns
  /\ tx' = tx \cup {r}
  /\ Proceed(r)
  /\ UNCHANGED <<op, tid, stmt, lock>>

\* SELECT FOR UPDATE.
LockRow(r) ==
  /\ at[r] = "lock"
  /\ lock[tid[r]] = NULL
  /\ lock' = [lock EXCEPT ![tid[r]] = r]
  /\ Proceed(r)
  /\ UNCHANGED <<op, tid, stmt, tx>>

\* The statements of a transaction that need nothing it does not have.
Execute(r) ==
  /\ at[r] \in {"update", "comment"}
  /\ Proceed(r)
  /\ UNCHANGED <<op, tid, stmt, tx, lock>>

Unlocked(r) == [t \in TicketId |-> IF lock[t] = r THEN NULL ELSE lock[t]]

\* Mutant: the transaction's connection is not given back.
CommitConnKept(r) ==
  /\ at[r] = "commit"
  /\ lock' = Unlocked(r)
  /\ Proceed(r)
  /\ UNCHANGED <<op, tid, stmt, tx>>

Commit(r) ==
  /\ at[r] = "commit"
  /\ tx' = tx \ {r}
  /\ lock' = Unlocked(r)
  /\ Proceed(r)
  /\ UNCHANGED <<op, tid, stmt>>

\* Mutant: an early return leaves the transaction open.
ReturnNoRollback(r) ==
  /\ at[r] # "idle"
  /\ at' = [at EXCEPT ![r] = "idle"]
  /\ stmt' = stmt \ {r}
  /\ UNCHANGED <<op, tid, tx, lock>>

\* A check or a statement fails, or the client goes away, which also ends the
\* wait for a connection or a lock: the deferred Rollback ends a transaction.
Return(r) ==
  /\ at[r] # "idle"
  /\ at' = [at EXCEPT ![r] = "idle"]
  /\ stmt' = stmt \ {r}
  /\ tx' = tx \ {r}
  /\ lock' = Unlocked(r)
  /\ UNCHANGED <<op, tid>>

\* Steps that need nothing the request does not have, and steps that wait.
Working(r) == Query(r) \/ Execute(r) \/ Commit(r)
Waiting(r) == Acquire(r) \/ Write(r) \/ Begin(r) \/ LockRow(r)

Next ==
  \E r \in Request :
    \/ \E o \in Ops, t \in TicketId : Arrive(r, o, t)
    \/ Working(r)
    \/ Waiting(r)
    \/ Return(r)

Spec == Init /\ [][Next]_vars

\* Goroutines and statements run; the pool's semaphore and PostgreSQL's lock
\* queues serve waiters in the order they came.
Fairness == \A r \in Request : WF_vars(Working(r)) /\ SF_vars(Waiting(r))

FairSpec == Spec /\ Fairness

-----------------------------------------------------------------------------

\* The type invariant, with the limit of the pool.
TypeOK ==
  /\ at \in [Request -> Pooled \cup Inside \cup {"idle", "begin"}]
  /\ op \in [Request -> Op]
  /\ tid \in [Request -> TicketId]
  /\ stmt \subseteq Request
  /\ tx \subseteq Request
  /\ lock \in [TicketId -> Request \cup {NULL}]
  /\ InUse <= MaxConns

Busy == {r \in Request : at[r] # "idle"}

WaitsForConn(r) == at[r] \in Pooled \cup {"begin"} /\ r \notin stmt

WaitsForRow(r) ==
  /\ at[r] = "lock" \/ (at[r] = "write" /\ r \in stmt)
  /\ lock[tid[r]] # NULL

\* Everyone waits for everyone: only a client that goes away ends it.
Stuck ==
  /\ Busy # {}
  /\ \A r \in Busy : WaitsForRow(r) \/ (WaitsForConn(r) /\ InUse = MaxConns)

\* Row locks and connections, which PostgreSQL and the pool hand out without
\* knowing of each other, deadlock in one way only: an Assign with an open
\* transaction waits for a second connection, and MaxConns different requests
\* hold all there are.
StuckOnlyInAssign ==
  Stuck => /\ \E r \in tx : op[r] = "assign" /\ at[r] = "user"
           /\ Cardinality(Busy) >= MaxConns

\* The inductive invariant: a connection for a statement is held at statements
\* that need one, one for a transaction while it is open, and a row lock after
\* SELECT FOR UPDATE; only Assign asks for a second connection.
PInv ==
  /\ TypeOK
  /\ \A r \in Request :
       /\ r \in stmt => at[r] \in Pooled
       /\ r \in tx <=> at[r] \in Inside \cup {"user"}
       /\ at[r] = "user" => op[r] = "assign"
       /\ at[r] # "idle" => op[r] \in Ops
  /\ \A t \in TicketId : lock[t] # NULL =>
       at[lock[t]] \in {"user", "update", "comment", "commit"}

\* With more connections than requests in flight every request is answered, although
\* each Assign holds two at a time: somebody always comes by a connection.
Answered == \A r \in Request : at[r] # "idle" ~> at[r] = "idle"
=============================================================================
