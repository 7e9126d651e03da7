--------------------------- MODULE ConnPoolProofs ---------------------------
(***************************************************************************)
(* The invariant of ConnPool, and that requests and connections deadlock   *)
(* in one way only.                                                        *)
(***************************************************************************)
EXTENDS ConnPool, FiniteSetTheorems, TLAPS

\* Sets of requests are finite.
LEMMA RequestsFinite ==
  ASSUME NEW S \in SUBSET Request
  PROVE  IsFiniteSet(S) /\ Cardinality(S) \in Nat
BY PoolAssumption, FS_Subset, FS_CardinalityType

\* A request that takes a connection adds one to the connections in use.
LEMMA OneMore ==
  ASSUME NEW S \in SUBSET Request, NEW r \in Request, r \notin S
  PROVE  Cardinality(S \cup {r}) = Cardinality(S) + 1
BY RequestsFinite, FS_AddElement

\* Giving connections back keeps the limit of the pool.
LEMMA Fewer ==
  ASSUME TypeOK, stmt' \in SUBSET stmt, tx' \in SUBSET tx
  PROVE  InUse' <= MaxConns
<1>1. stmt \in SUBSET Request /\ tx \in SUBSET Request
  BY DEF TypeOK
<1>2. /\ Cardinality(stmt) \in Nat /\ Cardinality(tx) \in Nat
      /\ Cardinality(stmt') \in Nat /\ Cardinality(tx') \in Nat
  BY <1>1, RequestsFinite
<1>3. Cardinality(stmt') <= Cardinality(stmt) /\ Cardinality(tx') <= Cardinality(tx)
  BY <1>1, RequestsFinite, FS_Subset
<1> QED
  BY <1>2, <1>3, PoolAssumption DEF InUse, TypeOK

\* The invariant holds initially.
LEMMA PInit == Init => PInv
<1> SUFFICES ASSUME Init PROVE PInv
  OBVIOUS
<1>1. InUse = 0
  BY FS_EmptySet DEF Init, InUse
<1> QED
  BY <1>1, PoolAssumption DEF Init, PInv, TypeOK, Op, Pooled, Inside

\* Every step keeps the invariant.
LEMMA PNext == PInv /\ [Next]_vars => PInv'
<1> SUFFICES ASSUME PInv, [Next]_vars PROVE PInv'
  OBVIOUS
<1> USE PoolAssumption DEF PInv, TypeOK
<1>1. CASE UNCHANGED vars
  BY <1>1 DEF vars, InUse
<1>2. ASSUME NEW r \in Request, NEW o \in Ops, NEW t \in TicketId, Arrive(r, o, t)
      PROVE  PInv'
  BY <1>2 DEF Arrive, First, Op, TxOp, UnlockedOp, Pooled, Inside, InUse
<1>3. ASSUME NEW r \in Request, Acquire(r) PROVE PInv'
  <2>1. Cardinality(stmt') = Cardinality(stmt) + 1
    BY <1>3, OneMore DEF Acquire
  <2>2. InUse' <= MaxConns
    BY <1>3, <2>1, RequestsFinite DEF Acquire, InUse
  <2> QED
    BY <1>3, <2>2 DEF Acquire
<1>4. ASSUME NEW r \in Request, Query(r) PROVE PInv'
  <2>1. InUse' <= MaxConns
    BY <1>4, Fewer DEF Query
  <2> QED
    BY <1>4, <2>1 DEF Query, Proceed, After, TxOp, UnlockedOp, Pooled, Inside
<1>5. ASSUME NEW r \in Request, Write(r) PROVE PInv'
  <2>1. InUse' <= MaxConns
    BY <1>5, Fewer DEF Write
  <2> QED
    BY <1>5, <2>1 DEF Write, Proceed, After, Pooled, Inside
<1>6. ASSUME NEW r \in Request, Begin(r) PROVE PInv'
  <2>1. Cardinality(tx') = Cardinality(tx) + 1
    BY <1>6, OneMore DEF Begin, Inside
  <2>2. InUse' <= MaxConns
    BY <1>6, <2>1, RequestsFinite DEF Begin, InUse
  <2> QED
    BY <1>6, <2>2 DEF Begin, Proceed, After, Pooled, Inside
<1>7. ASSUME NEW r \in Request, LockRow(r) PROVE PInv'
  BY <1>7 DEF LockRow, Proceed, After, Pooled, Inside, InUse
<1>8. ASSUME NEW r \in Request, Execute(r) PROVE PInv'
  BY <1>8 DEF Execute, Proceed, After, Pooled, Inside, InUse
<1>9. ASSUME NEW r \in Request, Commit(r) PROVE PInv'
  <2>1. InUse' <= MaxConns
    BY <1>9, Fewer DEF Commit
  <2> QED
    BY <1>9, <2>1 DEF Commit, Unlocked, Proceed, After, Pooled, Inside
<1>10. ASSUME NEW r \in Request, Return(r) PROVE PInv'
  <2>1. InUse' <= MaxConns
    BY <1>10, Fewer DEF Return
  <2> QED
    BY <1>10, <2>1 DEF Return, Unlocked, Pooled, Inside
<1> QED
  BY <1>1, <1>2, <1>3, <1>4, <1>5, <1>6, <1>7, <1>8, <1>9, <1>10
     DEF Next, Working, Waiting

\* PInv is an invariant of the pool and the requests that share it.
THEOREM PoolInvariance == Spec => []PInv
BY PInit, PNext, PTL DEF Spec

-----------------------------------------------------------------------------

\* When all wait, whoever holds a row lock is an Assign that waits for its
\* second connection: every other holder of a row lock needs nothing more.
LEMMA HolderWaits ==
  ASSUME PInv, Stuck, NEW t \in TicketId, lock[t] # NULL
  PROVE  /\ lock[t] \in tx /\ at[lock[t]] = "user" /\ op[lock[t]] = "assign"
         /\ InUse = MaxConns
<1> DEFINE q == lock[t]
<1>1. q \in Request /\ at[q] \in {"user", "update", "comment", "commit"}
  BY DEF PInv, TypeOK
<1>2. q \in Busy /\ ~WaitsForRow(q)
  BY <1>1 DEF Busy, WaitsForRow
<1>3. WaitsForConn(q) /\ InUse = MaxConns
  BY <1>2 DEF Stuck
<1>4. at[q] = "user"
  BY <1>1, <1>3 DEF WaitsForConn, Pooled
<1> QED
  BY <1>1, <1>3, <1>4 DEF PInv

\* When all wait, whoever waits for a row lock waits for such an Assign.
LEMMA RowWaiter ==
  ASSUME PInv, Stuck, NEW r \in Request, WaitsForRow(r)
  PROVE  \E p \in tx : op[p] = "assign" /\ at[p] = "user"
<1>1. tid[r] \in TicketId /\ lock[tid[r]] # NULL
  BY DEF PInv, TypeOK, WaitsForRow
<1> QED
  BY <1>1, HolderWaits

\* When all wait, all connections are in use, and somebody holds one.
LEMMA PoolExhausted ==
  ASSUME PInv, Stuck
  PROVE  InUse = MaxConns /\ stmt \cup tx # {}
<1>1. PICK r \in Busy : WaitsForRow(r) \/ (WaitsForConn(r) /\ InUse = MaxConns)
  BY DEF Stuck
<1>2. InUse = MaxConns
  <2>1. CASE WaitsForRow(r)
    <3>1. tid[r] \in TicketId /\ lock[tid[r]] # NULL
      BY <1>1, <2>1 DEF PInv, TypeOK, WaitsForRow, Busy
    <3> QED
      BY <3>1, HolderWaits
  <2> QED
    BY <1>1, <2>1
<1>3. stmt \cup tx = {} => InUse = 0
  BY FS_EmptySet DEF InUse
<1> QED
  BY <1>2, <1>3, PoolAssumption

\* When all wait, no request holds two connections: it could run its query.
LEMMA OneEach ==
  ASSUME PInv, Stuck
  PROVE  stmt \cap tx = {}
<1> SUFFICES ASSUME NEW r \in stmt, r \in tx PROVE FALSE
  OBVIOUS
<1>1. r \in Request /\ at[r] = "user"
  BY DEF PInv, TypeOK, Pooled, Inside
<1>2. r \in Busy /\ ~WaitsForRow(r) /\ ~WaitsForConn(r)
  BY <1>1 DEF Busy, WaitsForRow, WaitsForConn
<1> QED
  BY <1>2 DEF Stuck

\* The only deadlock of requests and connections.
LEMMA StuckShape == PInv => StuckOnlyInAssign
<1> SUFFICES ASSUME PInv, Stuck
             PROVE  /\ \E r \in tx : op[r] = "assign" /\ at[r] = "user"
                    /\ Cardinality(Busy) >= MaxConns
  BY DEF StuckOnlyInAssign
<1>1. \E r \in tx : op[r] = "assign" /\ at[r] = "user"
  <2>1. PICK q \in stmt \cup tx : TRUE
    BY PoolExhausted
  <2>2. q \in Busy
    BY <2>1 DEF PInv, TypeOK, Busy, Pooled, Inside
  <2>3. CASE q \in stmt
    <3>1. WaitsForRow(q)
      BY <2>2, <2>3 DEF Stuck, WaitsForConn
    <3> QED
      BY <2>2, <3>1, RowWaiter DEF Busy
  <2>4. CASE q \notin stmt
    <3>1. q \in tx /\ at[q] \in Inside \cup {"user"}
      BY <2>1, <2>4, <2>2 DEF PInv, Busy
    <3>2. CASE at[q] = "user"
      BY <2>2, <3>1, <3>2 DEF PInv, Busy
    <3>3. CASE at[q] # "user"
      <4>1. WaitsForRow(q)
        BY <2>2, <3>1, <3>3 DEF Stuck, WaitsForConn, Pooled, Inside
      <4> QED
        BY <2>2, <4>1, RowWaiter DEF Busy
    <3> QED
      BY <3>2, <3>3
  <2> QED
    BY <2>3, <2>4
<1>2. Cardinality(Busy) >= MaxConns
  <2>1. stmt \in SUBSET Request /\ tx \in SUBSET Request /\ Busy \in SUBSET Request
    BY DEF PInv, TypeOK, Busy
  <2>2. Cardinality(stmt \cup tx) = Cardinality(stmt) + Cardinality(tx)
    <3>1. /\ IsFiniteSet(stmt) /\ IsFiniteSet(tx)
          /\ Cardinality(stmt) \in Nat /\ Cardinality(tx) \in Nat
      BY <2>1, RequestsFinite
    <3>2. Cardinality(stmt \cup tx)
            = Cardinality(stmt) + Cardinality(tx) - Cardinality(stmt \cap tx)
      BY <3>1, FS_Union
    <3>3. Cardinality(stmt \cap tx) = 0
      BY OneEach, FS_EmptySet
    <3> QED
      BY <3>1, <3>2, <3>3
  <2>3. stmt \cup tx \subseteq Busy
    BY <2>1 DEF PInv, Busy, Pooled, Inside
  <2>4. IsFiniteSet(Busy) /\ Cardinality(Busy) \in Nat
    BY <2>1, RequestsFinite
  <2>5. Cardinality(stmt \cup tx) <= Cardinality(Busy)
    BY <2>3, <2>4, FS_Subset
  <2> QED
    BY <2>2, <2>4, <2>5, PoolExhausted, PoolAssumption DEF InUse
<1> QED
  BY <1>1, <1>2

\* Requests that wait for connections and row locks deadlock only when as many
\* requests as the pool has connections are in flight and one of them, an Assign
\* with an open transaction, asks for a second connection (service/ticket.go:222).
THEOREM GridlockNeedsAssign == Spec => []StuckOnlyInAssign
BY PoolInvariance, StuckShape, PTL

\* With more connections than requests in flight nobody is ever stuck.
THEOREM RoomyNeverStuck ==
  ASSUME Cardinality(Request) < MaxConns
  PROVE  Spec => []~Stuck
<1>1. PInv => ~Stuck
  <2> SUFFICES ASSUME PInv, Stuck PROVE FALSE
    OBVIOUS
  <2>1. Cardinality(Busy) >= MaxConns
    BY StuckShape DEF StuckOnlyInAssign
  <2>2. Busy \in SUBSET Request
    BY DEF Busy
  <2>3. Cardinality(Busy) <= Cardinality(Request)
    BY <2>2, PoolAssumption, FS_Subset
  <2>4. Cardinality(Busy) \in Nat /\ Cardinality(Request) \in Nat
    BY <2>2, RequestsFinite
  <2> QED
    BY <2>1, <2>3, <2>4, PoolAssumption
<1> QED
  BY <1>1, PoolInvariance, PTL

\* Operations that hold one connection at a time never deadlock, however many
\* there are and however small the pool is.
THEOREM PlainNeverStuck ==
  ASSUME "assign" \notin Ops
  PROVE  Spec => []~Stuck
<1>1. PInv => ~Stuck
  <2> SUFFICES ASSUME PInv, Stuck PROVE FALSE
    OBVIOUS
  <2>1. PICK r \in tx : op[r] = "assign" /\ at[r] = "user"
    BY StuckShape DEF StuckOnlyInAssign
  <2> QED
    BY <2>1 DEF PInv, TypeOK
<1> QED
  BY <1>1, PoolInvariance, PTL
=============================================================================
