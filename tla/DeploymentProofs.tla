--------------------------- MODULE DeploymentProofs ---------------------------
(***************************************************************************)
(* Proofs about Deployment, for any number of replicas, requests, persons  *)
(* and e-mails, any list of demo users and any set of calls.               *)
(***************************************************************************)
EXTENDS Deployment, TLAPS

PcSet == {"idle", "insert", "roles", "find", "write"}

PhaseSet == {"exited", "seeding", "serving", "draining", "closing", "stopped"}

-----------------------------------------------------------------------------
(***************************************************************************)
(* What the constants and the invariant say of one worker.                 *)
(***************************************************************************)

\* The demo users are a list of records with at least one role each.
LEMMA DemoFacts ==
  /\ Len(Demo) \in Nat /\ DOMAIN Demo = 1 .. Len(Demo)
  /\ \A k \in 1 .. Len(Demo) :
       /\ Demo[k].email \in Email /\ Demo[k].email \in DemoEmail
       /\ Demo[k].roles \in SUBSET Role /\ Demo[k].roles # {}
  /\ \A e \in DemoEmail : \E k \in 1 .. Len(Demo) : e = Demo[k].email
<1>1. Len(Demo) \in Nat /\ DOMAIN Demo = 1 .. Len(Demo)
  BY DemoAssumption
<1>2. \A k \in 1 .. Len(Demo) : Demo[k] \in [email : Email, roles : (SUBSET Role) \ {{}}]
  <2> DEFINE S == [email : Email, roles : (SUBSET Role) \ {{}}]
  <2>1. Demo \in Seq(S)
    BY DemoAssumption
  <2> HIDE DEF S
  <2>2. \A k \in 1 .. Len(Demo) : Demo[k] \in S
    BY <2>1
  <2> QED
    BY <2>2 DEF S
<1> QED
  BY <1>1, <1>2 DEF DemoEmail

\* A call has an e-mail, a person, a role and one of four operations.
LEMMA InputFields ==
  ASSUME NEW c \in Input
  PROVE  /\ c.op \in Op /\ c.email \in Email /\ c.who \in Person /\ c.role \in Role
         /\ c # NULL /\ (c.op = "register" => c.who # Seeder)
BY InputAssumption, DemoAssumption

\* A worker is a replica or a request, and not both.
LEMMA Workers ==
  /\ Replica \subseteq Worker /\ Request \subseteq Worker
  /\ \A i \in Replica : i \notin Request
  /\ \A w \in Worker : w \in Replica \/ w \in Request
BY ReplicaAssumption DEF Worker

\* An open transaction has the fields of Creation.
LEMMA TxFields ==
  ASSUME TypeOK, NEW w \in Worker, pc[w] \in {"insert", "roles"}
  PROVE  /\ tx[w] \in Creation /\ tx[w] # NULL /\ tx[w].email \in Email /\ tx[w].who \in Person
         /\ tx[w].todo \subseteq Role /\ tx[w].done \subseteq Role
<1>1. tx[w] \in Creation
  BY DEF TypeOK
<1> QED
  BY <1>1, ReplicaAssumption DEF Creation

\* A request that is not idle serves one of the calls.
LEMMA Busy ==
  ASSUME DInv, NEW q \in Request, pc[q] # "idle"
  PROVE  call[q] \in Input /\ on[q] \in Replica
BY DEF DInv, TypeOK, Serves

\* The row of a CreateUser that begins.
LEMMA CreationMade ==
  ASSUME NEW e \in Email, NEW who \in Person, NEW roles \in SUBSET Role
  PROVE  /\ [email |-> e, who |-> who, todo |-> roles, done |-> {}] \in Creation
         /\ [email |-> e, who |-> who, todo |-> roles, done |-> {}] # NULL
<1>1. [email |-> e, who |-> who, todo |-> roles, done |-> {}] \in Creation
  BY DEF Creation
<1> QED
  BY <1>1, ReplicaAssumption

-----------------------------------------------------------------------------
(***************************************************************************)
(* Steps that leave the accounts alone.                                    *)
(***************************************************************************)

\* The initial state.
LEMMA InitInv == Init => DInv
<1> SUFFICES ASSUME Init PROVE DInv
  OBVIOUS
<1>1. TypeOK
  BY ReplicaAssumption, DemoFacts, Workers DEF Init, TypeOK
<1>2. \A i \in Replica : Seeds(i)
  BY Workers DEF Init, Seeds
<1>3. \A q \in Request : Serves(q)
  BY Workers DEF Init, Serves
<1>4. \A w \in Worker : Creates(w)
  BY DEF Init, Creates
<1>5. RowsBelong /\ TokensAreBacked
  BY DemoFacts DEF Init, RowsBelong, TokensAreBacked
<1> QED
  BY <1>1, <1>2, <1>3, <1>4, <1>5 DEF DInv

\* A step from one phase to the next.
LEMMA PhaseStep ==
  ASSUME DInv, NEW i \in Replica, UNCHANGED <<tables, pc, call, on, tx, tokens, faults>>,
         NEW p \in PhaseSet, phase' = [phase EXCEPT ![i] = p],
         next' \in {next, [next EXCEPT ![i] = 1]},
         phase[i] \notin {"serving", "draining"} \/ p = "draining" \/ InFlight(i) = {},
         p = "seeding" => next'[i] = 1,
         pc[i] = "idle",
         p \in {"serving", "draining"} => \A e \in DemoEmail : users[e] # NULL
  PROVE  DInv'
<1>1. TypeOK'
  <2>1. next' \in [Replica -> 1 .. Len(Demo) + 1] /\ phase' \in [Replica -> PhaseSet]
    BY DemoFacts DEF DInv, TypeOK, PhaseSet
  <2> QED
    BY <2>1 DEF DInv, TypeOK, PhaseSet, tables
<1>2. ASSUME NEW j \in Replica PROVE Seeds(j)'
  <2>1. CASE j # i
    BY <2>1, <1>1 DEF DInv, TypeOK, Seeds, tables
  <2>2. CASE j = i
    BY <2>2, DemoFacts DEF DInv, TypeOK, Seeds, tables
  <2> QED
    BY <2>1, <2>2
<1>3. ASSUME NEW q \in Request PROVE Serves(q)'
  <2>1. pc[q] # "idle" => on[q] \in Replica /\ phase[on[q]] \in {"serving", "draining"}
    BY Busy DEF DInv, Serves
  <2>2. pc[q] # "idle" => phase'[on[q]] \in {"serving", "draining"}
    BY <2>1 DEF InFlight, DInv, TypeOK
  <2> QED
    BY <2>2 DEF DInv, Serves, tables
<1>4. ASSUME NEW w \in Worker PROVE Creates(w)'
  BY DEF DInv, Creates, tables
<1>5. RowsBelong' /\ TokensAreBacked'
  BY DEF DInv, RowsBelong, TokensAreBacked, tables
<1> QED
  BY <1>1, <1>2, <1>3, <1>4, <1>5 DEF DInv

\* Steps that take a replica from one phase to the next.
LEMMA PhaseSteps ==
  ASSUME DInv, NEW i \in Replica, Start(i) \/ Serve(i) \/ Signal(i) \/ Drained(i) \/ Up(i)
  PROVE  DInv'
<1>1. pc[i] = "idle"
  BY DEF Start, Serve, Signal, Drained, Up, DInv, Seeds
<1>2. CASE Start(i)
  BY <1>1, <1>2, PhaseStep DEF Start, PhaseSet, DInv, TypeOK
<1>3. CASE Serve(i)
  <2>1. \A e \in DemoEmail : users[e] # NULL
    BY <1>3, DemoFacts DEF Serve, DInv, TypeOK, Seeds
  <2> QED
    BY <1>1, <1>3, <2>1, PhaseStep DEF Serve, PhaseSet
<1>4. CASE Signal(i)
  BY <1>1, <1>4, PhaseStep DEF Signal, PhaseSet, DInv, Seeds
<1>5. CASE Drained(i)
  BY <1>1, <1>5, PhaseStep DEF Drained, PhaseSet
<1>6. CASE Up(i)
  BY <1>1, <1>6, PhaseStep DEF Up, PhaseSet
<1> QED
  BY <1>2, <1>3, <1>4, <1>5, <1>6

\* A process that exits takes its transactions and requests along; what other
\* replicas and their requests rely on stays.
LEMMA ExitStep ==
  ASSUME DInv, NEW i \in Replica, NEW p \in {"exited", "stopped"}, Exit(i, p),
         faults' \in 0 .. MaxFaults
  PROVE  DInv'
<1> DEFINE gone == {i} \cup InFlight(i)
<1>1. \A w \in Worker : /\ w \in gone => pc'[w] = "idle" /\ tx'[w] = NULL
                        /\ w \notin gone => pc'[w] = pc[w] /\ tx'[w] = tx[w]
  BY DEF Exit
<1>2. \A q \in Request : /\ q \in gone => call'[q] = NULL /\ on'[q] = NULL
                         /\ q \notin gone => call'[q] = call[q] /\ on'[q] = on[q]
  BY DEF Exit
<1>3. phase' = [phase EXCEPT ![i] = p] /\ UNCHANGED <<users, userRoles, next, tokens>>
  BY DEF Exit, tables
<1>4. \A j \in Replica : j \in gone <=> j = i
  BY Workers DEF InFlight
<1>5. \A q \in Request : q \in gone <=> on[q] = i
  BY Workers DEF InFlight
<1> HIDE DEF gone
<1>6. TypeOK'
  <2>1. pc' \in [Worker -> PcSet] /\ tx' \in [Worker -> Creation \cup {NULL}]
    BY <1>1 DEF Exit, DInv, TypeOK, PcSet
  <2>2. call' \in [Request -> Input \cup {NULL}] /\ on' \in [Request -> Replica \cup {NULL}]
    BY <1>2 DEF Exit, DInv, TypeOK
  <2>3. \A w \in Worker : tx'[w] # NULL <=> pc'[w] \in {"insert", "roles"}
    BY <1>1 DEF DInv, TypeOK
  <2>4. \A v, w \in Worker :
          pc'[v] = "roles" /\ pc'[w] = "roles" /\ v # w => tx'[v].email # tx'[w].email
    BY <1>1 DEF DInv, TypeOK
  <2> QED
    BY <1>3, <2>1, <2>2, <2>3, <2>4 DEF DInv, TypeOK, PcSet
<1>7. ASSUME NEW j \in Replica PROVE Seeds(j)'
  BY <1>1, <1>3, <1>4, Workers DEF DInv, TypeOK, Seeds
<1>8. ASSUME NEW q \in Request PROVE Serves(q)'
  <2>1. CASE q \in gone
    BY <1>1, <1>2, <2>1, Workers DEF Serves
  <2>2. CASE q \notin gone
    <3>1. on[q] # NULL => phase'[on[q]] = phase[on[q]]
      BY <1>3, <1>5, <2>2 DEF DInv, TypeOK
    <3> QED
      BY <1>1, <1>2, <1>3, <2>2, <3>1, Workers DEF DInv, Serves
  <2> QED
    BY <2>1, <2>2
<1>9. ASSUME NEW w \in Worker PROVE Creates(w)'
  BY <1>1, <1>3 DEF DInv, Creates
<1>10. RowsBelong' /\ TokensAreBacked'
  BY <1>3 DEF DInv, RowsBelong, TokensAreBacked
<1> QED
  BY <1>6, <1>7, <1>8, <1>9, <1>10 DEF DInv

-----------------------------------------------------------------------------
(***************************************************************************)
(* Steps of requests and transactions.                                     *)
(***************************************************************************)

\* A request that is answered leaves the owners of accounts alone; tokens are
\* for their owners, and roles for accounts.
LEMMA AnswerStep ==
  ASSUME DInv, NEW q \in Request, Answer(q), UNCHANGED users,
         userRoles' \subseteq Email \X Role, \A x \in userRoles' : users[x[1]] # NULL,
         tokens' \subseteq [email : Email, who : Person], \A k \in tokens' : users[k.email] = k.who
  PROVE  DInv'
<1>1. pc' = [pc EXCEPT ![q] = "idle"] /\ tx' = [tx EXCEPT ![q] = NULL]
      /\ call' = [call EXCEPT ![q] = NULL] /\ on' = [on EXCEPT ![q] = NULL]
      /\ UNCHANGED <<phase, next, faults>>
  BY DEF Answer
<1>2. TypeOK'
  BY <1>1, Workers DEF DInv, TypeOK
<1>3. ASSUME NEW j \in Replica PROVE Seeds(j)'
  BY <1>1, Workers DEF DInv, TypeOK, Seeds
<1>4. ASSUME NEW r \in Request PROVE Serves(r)'
  BY <1>1, Workers DEF DInv, TypeOK, Serves
<1>5. ASSUME NEW w \in Worker PROVE Creates(w)'
  BY <1>1 DEF DInv, TypeOK, Creates
<1>6. RowsBelong' /\ TokensAreBacked'
  BY DEF DInv, RowsBelong, TokensAreBacked
<1> QED
  BY <1>2, <1>3, <1>4, <1>5, <1>6 DEF DInv

\* The ways a request is answered without an account being opened.
LEMMA AnswerSteps ==
  ASSUME DInv, NEW q \in Request,
         Abort(q) \/ RegisterTaken(q) \/ Login(q) \/ Grant(q) \/ Revoke(q)
           \/ (Find(q) /\ Answer(q))
  PROVE  DInv'
<1>1. \A x \in userRoles : users[x[1]] # NULL
  BY DEF DInv, RowsBelong
<1>2. /\ userRoles \subseteq Email \X Role /\ tokens \subseteq [email : Email, who : Person]
      /\ \A k \in tokens : users[k.email] = k.who
  BY DEF DInv, TypeOK, TokensAreBacked
<1>3. CASE Abort(q) \/ RegisterTaken(q) \/ (Find(q) /\ Answer(q))
  BY <1>1, <1>2, <1>3, AnswerStep DEF Abort, RegisterTaken, Find, tables
<1>4. CASE Login(q)
  BY <1>1, <1>2, <1>4, Busy, InputFields, AnswerStep DEF Login, tables, DInv, Serves
<1>5. CASE Grant(q)
  <2>1. pc[q] # "idle" /\ users[call[q].email] # NULL
    BY <1>5 DEF Grant, DInv, Serves
  <2>2. call[q].email \in Email /\ call[q].role \in Role
    BY <2>1, Busy, InputFields
  <2> QED
    BY <1>1, <1>2, <1>5, <2>1, <2>2, AnswerStep DEF Grant
<1>6. CASE Revoke(q)
  BY <1>1, <1>2, <1>6, AnswerStep DEF Revoke
<1> QED
  BY <1>3, <1>4, <1>5, <1>6

\* A call arrives, and what is looked up is found.
LEMMA RequestSteps ==
  ASSUME DInv, NEW q \in Request,
         \/ Find(q) /\ ~Answer(q)
         \/ \E i \in Replica, c \in Input : Arrive(q, i, c) /\ c.op # "register"
  PROVE  DInv'
<1>1. /\ pc' \in {[pc EXCEPT ![q] = "write"], [pc EXCEPT ![q] = "find"]}
      /\ UNCHANGED <<tables, phase, next, tx, tokens, faults>>
      /\ pc[q] \notin {"insert", "roles"}
      /\ call'[q] \in Input /\ on'[q] \in Replica /\ phase[on'[q]] \in {"serving", "draining"}
      /\ call'[q].op # "register"
      /\ call' = [call EXCEPT ![q] = call'[q]] /\ on' = [on EXCEPT ![q] = on'[q]]
  BY Busy, Workers DEF Find, Arrive, tables, DInv, TypeOK, Serves
<1>2. /\ pc'[q] = "find" => call'[q].op \in {"login", "grant"}
      /\ pc'[q] = "write" /\ call'[q].op = "login" => users[call'[q].email] = call'[q].who
      /\ pc'[q] = "write" /\ call'[q].op = "grant" => users[call'[q].email] # NULL
  BY <1>1, InputFields, Workers DEF Find, Arrive, Op, DInv, TypeOK
<1>3. TypeOK'
  <2>1. \A w \in Worker : pc'[w] \in {"insert", "roles"} => pc'[w] = pc[w]
    BY <1>1, Workers DEF DInv, TypeOK
  <2>2. \A w \in Worker : pc[w] \in {"insert", "roles"} => pc'[w] = pc[w]
    BY <1>1, Workers DEF DInv, TypeOK
  <2>3. pc' \in [Worker -> PcSet]
    BY <1>1, Workers DEF DInv, TypeOK, PcSet
  <2>4. call' \in [Request -> Input \cup {NULL}] /\ on' \in [Request -> Replica \cup {NULL}]
    BY <1>1 DEF DInv, TypeOK
  <2> QED
    BY <1>1, <2>1, <2>2, <2>3, <2>4 DEF DInv, TypeOK, tables, PcSet
<1>4. ASSUME NEW j \in Replica PROVE Seeds(j)'
  BY <1>1, Workers DEF DInv, TypeOK, Seeds, tables
<1>5. ASSUME NEW r \in Request PROVE Serves(r)'
  <2>1. CASE r = q
    BY <1>1, <1>2, <2>1, InputFields, ReplicaAssumption, Workers DEF DInv, TypeOK, Serves, tables
  <2>2. CASE r # q
    BY <1>1, <2>2, Workers DEF DInv, TypeOK, Serves, tables
  <2> QED
    BY <2>1, <2>2
<1>6. ASSUME NEW w \in Worker PROVE Creates(w)'
  BY <1>1, Workers DEF DInv, TypeOK, Creates, tables
<1>7. RowsBelong' /\ TokensAreBacked'
  BY <1>1 DEF DInv, RowsBelong, TokensAreBacked, tables
<1> QED
  BY <1>3, <1>4, <1>5, <1>6, <1>7 DEF DInv

\* What a CreateUser that begins changes besides its caller.
LEMMA BeginStep ==
  ASSUME DInv, NEW w \in Worker, NEW e \in Email, NEW who \in Person,
         NEW roles \in SUBSET Role, roles # {}, BeginCreate(w, e, who, roles)
  PROVE  /\ pc' \in [Worker -> PcSet] /\ tx' \in [Worker -> Creation \cup {NULL}]
         /\ \A v \in Worker : tx'[v] # NULL <=> pc'[v] \in {"insert", "roles"}
         /\ \A u, v \in Worker :
              pc'[u] = "roles" /\ pc'[v] = "roles" /\ u # v => tx'[u].email # tx'[v].email
         /\ pc'[w] = "insert" /\ tx'[w].email = e /\ tx'[w].who = who
         /\ \A v \in Worker : v # w => pc'[v] = pc[v] /\ tx'[v] = tx[v]
         /\ UNCHANGED users => \A v \in Worker : Creates(v)'
<1> DEFINE new == [email |-> e, who |-> who, todo |-> roles, done |-> {}]
<1>1. new \in Creation /\ new # NULL
  BY CreationMade
<1>2. new.email = e /\ new.who = who /\ new.todo = roles
  OBVIOUS
<1>3. tx' = [tx EXCEPT ![w] = new] /\ pc' = [pc EXCEPT ![w] = "insert"]
  BY DEF BeginCreate
<1> HIDE DEF new
<1> QED
  BY <1>1, <1>2, <1>3 DEF DInv, TypeOK, Creates, PcSet

\* A registration arrives.
LEMMA RegisterArrives ==
  ASSUME DInv, NEW q \in Request, NEW i \in Replica, NEW c \in Input,
         Arrive(q, i, c), c.op = "register"
  PROVE  DInv'
<1>1. /\ BeginCreate(q, c.email, c.who, {"user"}) /\ UNCHANGED <<tables, phase, next, tokens, faults>>
      /\ call' = [call EXCEPT ![q] = c] /\ on' = [on EXCEPT ![q] = i] /\ phase[i] = "serving"
  BY DEF Arrive
<1>2. {"user"} \in SUBSET Role /\ {"user"} # {}
  BY DEF Role
<1>3. /\ pc' \in [Worker -> PcSet] /\ tx' \in [Worker -> Creation \cup {NULL}]
      /\ \A v \in Worker : tx'[v] # NULL <=> pc'[v] \in {"insert", "roles"}
      /\ \A u, v \in Worker :
           pc'[u] = "roles" /\ pc'[v] = "roles" /\ u # v => tx'[u].email # tx'[v].email
      /\ pc'[q] = "insert" /\ tx'[q].email = c.email /\ tx'[q].who = c.who
      /\ \A v \in Worker : v # q => pc'[v] = pc[v] /\ tx'[v] = tx[v]
      /\ \A v \in Worker : Creates(v)'
  BY <1>1, <1>2, BeginStep, InputFields, Workers DEF tables
<1>4. TypeOK'
  BY <1>1, <1>3 DEF DInv, TypeOK, tables, PcSet
<1>5. ASSUME NEW j \in Replica PROVE Seeds(j)'
  BY <1>1, <1>3, Workers DEF DInv, Seeds, tables
<1>6. ASSUME NEW r \in Request PROVE Serves(r)'
  BY <1>1, <1>3, InputFields, ReplicaAssumption, Workers DEF DInv, TypeOK, Serves, tables
<1>7. RowsBelong' /\ TokensAreBacked'
  BY <1>1 DEF DInv, RowsBelong, TokensAreBacked, tables
<1> QED
  BY <1>3, <1>4, <1>5, <1>6, <1>7 DEF DInv

\* A replica looks the next demo user up, and creates it or passes it over.
LEMMA SeedLookupStep ==
  ASSUME DInv, NEW i \in Replica, SeedLookup(i)
  PROVE  DInv'
<1> DEFINE d == Demo[next[i]]
<1>1. next[i] \in 1 .. Len(Demo)
  BY DemoFacts DEF SeedLookup, DInv, TypeOK
<1>2. d.email \in Email /\ d.roles \in SUBSET Role /\ d.roles # {} /\ Seeder \in Person
  BY <1>1, DemoFacts, DemoAssumption
<1>3. CASE users[d.email] = NULL
  <2>1. BeginCreate(i, d.email, Seeder, d.roles)
    BY <1>3 DEF SeedLookup
  <2>2. /\ UNCHANGED <<tables, phase, next, call, on, tokens, faults>>
        /\ phase[i] = "seeding" /\ next[i] <= Len(Demo)
    BY <1>3 DEF SeedLookup
  <2>3. /\ pc' \in [Worker -> PcSet] /\ tx' \in [Worker -> Creation \cup {NULL}]
        /\ \A v \in Worker : tx'[v] # NULL <=> pc'[v] \in {"insert", "roles"}
        /\ \A u, v \in Worker :
             pc'[u] = "roles" /\ pc'[v] = "roles" /\ u # v => tx'[u].email # tx'[v].email
        /\ pc'[i] = "insert" /\ tx'[i].email = d.email /\ tx'[i].who = Seeder
        /\ \A v \in Worker : v # i => pc'[v] = pc[v] /\ tx'[v] = tx[v]
        /\ \A v \in Worker : Creates(v)'
    <3> HIDE DEF d
    <3> QED
      BY <1>2, <2>1, <2>2, BeginStep, Workers DEF tables
  <2>4. TypeOK'
    BY <2>2, <2>3 DEF DInv, TypeOK, tables, PcSet
  <2>5. ASSUME NEW j \in Replica PROVE Seeds(j)'
    BY <2>2, <2>3, Workers DEF DInv, Seeds, tables
  <2>6. ASSUME NEW r \in Request PROVE Serves(r)'
    BY <2>2, <2>3, Workers DEF DInv, Serves, tables
  <2>7. RowsBelong' /\ TokensAreBacked'
    BY <2>2 DEF DInv, RowsBelong, TokensAreBacked, tables
  <2> QED
    BY <2>3, <2>4, <2>5, <2>6, <2>7 DEF DInv
<1>4. CASE users[d.email] # NULL
  <2>1. /\ UNCHANGED <<tables, phase, pc, call, on, tx, tokens, faults>> /\ pc[i] = "idle"
        /\ next' = [next EXCEPT ![i] = @ + 1] /\ phase[i] = "seeding"
    BY <1>4 DEF SeedLookup
  <2>2. TypeOK'
    BY <1>1, <2>1, DemoFacts DEF DInv, TypeOK, tables
  <2>3. ASSUME NEW j \in Replica PROVE Seeds(j)'
    <3>1. CASE j = i
      <4>1. next'[i] = next[i] + 1 /\ next[i] \in Nat
        BY <1>1, <2>1, DemoFacts DEF DInv, TypeOK
      <4>2. \A k \in 1 .. next[i] - 1 : users[Demo[k].email] # NULL
        BY <2>1 DEF DInv, Seeds
      <4>3. \A k \in 1 .. next'[i] - 1 : users[Demo[k].email] # NULL
        BY <1>4, <4>1, <4>2
      <4> QED
        BY <2>1, <3>1, <4>3 DEF Seeds, tables
    <3>2. CASE j # i
      BY <2>1, <3>2 DEF DInv, TypeOK, Seeds, tables
    <3> QED
      BY <3>1, <3>2
  <2>4. ASSUME NEW r \in Request PROVE Serves(r)'
    BY <2>1 DEF DInv, Serves, tables
  <2>5. ASSUME NEW w \in Worker PROVE Creates(w)'
    BY <2>1 DEF DInv, Creates, tables
  <2>6. RowsBelong' /\ TokensAreBacked'
    BY <2>1 DEF DInv, RowsBelong, TokensAreBacked, tables
  <2> QED
    BY <2>2, <2>3, <2>4, <2>5, <2>6 DEF DInv
<1> QED
  BY <1>3, <1>4

-----------------------------------------------------------------------------
(***************************************************************************)
(* The statements of CreateUser.                                           *)
(***************************************************************************)

\* The row of users is inserted: nobody has it committed, nor inserted.
LEMMA InsertUserStep ==
  ASSUME DInv, NEW w \in Worker, InsertUser(w)
  PROVE  DInv'
<1>1. /\ pc[w] = "insert" /\ users[tx[w].email] = NULL /\ pc' = [pc EXCEPT ![w] = "roles"]
      /\ UNCHANGED <<tables, phase, next, call, on, tx, tokens, faults>>
  BY DEF InsertUser
<1>2. \A v \in Worker : v # w /\ pc[v] = "roles" => tx[v].email # tx[w].email
  BY DEF InsertUser, Contended, DInv, TypeOK
<1>3. TypeOK'
  BY <1>1, <1>2 DEF DInv, TypeOK, tables
<1>4. ASSUME NEW j \in Replica PROVE Seeds(j)'
  BY <1>1, Workers DEF DInv, TypeOK, Seeds, tables
<1>5. ASSUME NEW r \in Request PROVE Serves(r)'
  BY <1>1, Workers DEF DInv, TypeOK, Serves, tables
<1>6. ASSUME NEW v \in Worker PROVE Creates(v)'
  BY <1>1 DEF DInv, TypeOK, Creates, tables
<1>7. RowsBelong' /\ TokensAreBacked'
  BY <1>1 DEF DInv, RowsBelong, TokensAreBacked, tables
<1> QED
  BY <1>3, <1>4, <1>5, <1>6, <1>7 DEF DInv

\* A role is inserted.
LEMMA InsertRoleStep ==
  ASSUME DInv, NEW w \in Worker, InsertRole(w)
  PROVE  DInv'
<1>1. PICK role \in tx[w].todo :
        tx' = [tx EXCEPT ![w].todo = @ \ {role}, ![w].done = @ \cup {role}]
  BY DEF InsertRole
<1>2. /\ pc[w] = "roles"
      /\ UNCHANGED <<tables, phase, next, pc, call, on, tokens, faults>>
  BY DEF InsertRole
<1> DEFINE new == [tx[w] EXCEPT !.todo = @ \ {role}, !.done = @ \cup {role}]
<1>3. /\ new \in Creation /\ new.email = tx[w].email /\ new.who = tx[w].who
      /\ new.todo \cup new.done # {} /\ new # NULL
  <2>1. tx[w] \in Creation /\ role \in Role /\ tx[w].done \subseteq Role
    BY <1>1, <1>2, TxFields DEF DInv
  <2>2. new \in Creation /\ new.email = tx[w].email /\ new.who = tx[w].who
    BY <1>1, <2>1 DEF Creation
  <2>3. role \in new.done
    BY <2>1 DEF Creation
  <2> QED
    BY <2>2, <2>3, ReplicaAssumption
<1>4. tx' = [tx EXCEPT ![w] = new]
  BY <1>1, <1>2 DEF DInv, TypeOK
<1> HIDE DEF new
<1>5. TypeOK'
  BY <1>2, <1>3, <1>4 DEF DInv, TypeOK, tables
<1>6. ASSUME NEW j \in Replica PROVE Seeds(j)'
  BY <1>2, <1>3, <1>4, Workers DEF DInv, TypeOK, Seeds, tables
<1>7. ASSUME NEW r \in Request PROVE Serves(r)'
  BY <1>2, <1>3, <1>4, Workers DEF DInv, TypeOK, Serves, tables
<1>8. ASSUME NEW v \in Worker PROVE Creates(v)'
  BY <1>2, <1>3, <1>4 DEF DInv, TypeOK, Creates, tables
<1>9. RowsBelong' /\ TokensAreBacked'
  BY <1>2 DEF DInv, RowsBelong, TokensAreBacked, tables
<1> QED
  BY <1>5, <1>6, <1>7, <1>8, <1>9 DEF DInv

\* A COMMIT opens one account that was not there, with a role; the owners of all
\* others stay.
LEMMA PublishStep ==
  ASSUME DInv, NEW w \in Worker, Publish(w),
         pc' = [pc EXCEPT ![w] = "idle"], tx' = [tx EXCEPT ![w] = NULL]
  PROVE  /\ pc[w] = "roles" /\ users[tx[w].email] = NULL /\ tx[w].done # {}
         /\ tx[w].email \in Email /\ tx[w].who \in Person /\ tx[w].done \subseteq Role
         /\ users'[tx[w].email] = tx[w].who
         /\ \A e \in Email : e # tx[w].email => users'[e] = users[e]
         /\ \A e \in Email : users[e] # NULL => users'[e] = users[e]
         /\ users' \in [Email -> Person \cup {NULL}] /\ userRoles' \subseteq Email \X Role
         /\ \A x \in userRoles' : users'[x[1]] # NULL
         /\ \A v \in Worker : v # w => pc'[v] = pc[v] /\ tx'[v] = tx[v]
         /\ pc'[w] = "idle" /\ tx'[w] = NULL
         /\ \A v \in Worker : Creates(v)'
<1>1. /\ pc[w] = "roles" /\ tx[w].todo = {} /\ users' = [users EXCEPT ![tx[w].email] = tx[w].who]
      /\ userRoles' = userRoles \cup {<<tx[w].email, role>> : role \in tx[w].done}
  BY DEF Publish
<1>2. /\ tx[w].email \in Email /\ tx[w].who \in Person /\ tx[w].done \subseteq Role
      /\ tx[w] # NULL
  BY <1>1, TxFields DEF DInv
<1>3. users[tx[w].email] = NULL /\ tx[w].done # {}
  BY <1>1, <1>2 DEF DInv, Creates
<1>4. users'[tx[w].email] = tx[w].who /\ \A e \in Email : e # tx[w].email => users'[e] = users[e]
  BY <1>1, <1>2 DEF DInv, TypeOK
<1>5. users' \in [Email -> Person \cup {NULL}] /\ userRoles' \subseteq Email \X Role
  BY <1>1, <1>2 DEF DInv, TypeOK
<1>6. \A x \in userRoles' : users'[x[1]] # NULL
  <2>1. \A x \in userRoles : x[1] \in Email /\ users[x[1]] # NULL
    BY DEF DInv, TypeOK, RowsBelong
  <2> QED
    BY <1>1, <1>2, <1>3, <1>4, <2>1, ReplicaAssumption
<1>7. /\ \A v \in Worker : v # w => pc'[v] = pc[v] /\ tx'[v] = tx[v]
      /\ pc'[w] = "idle" /\ tx'[w] = NULL
  BY DEF DInv, TypeOK
<1>8. ASSUME NEW v \in Worker PROVE Creates(v)'
  <2>1. CASE v = w
    BY <1>7, <2>1 DEF Creates
  <2>2. CASE v # w
    <3>1. pc[v] = "roles" => tx[v].email \in Email /\ tx[v].email # tx[w].email
      BY <1>1, <2>2, TxFields DEF DInv, TypeOK
    <3> QED
      BY <1>4, <1>7, <2>2, <3>1 DEF DInv, Creates
  <2> QED
    BY <2>1, <2>2
<1> QED
  BY <1>1, <1>2, <1>3, <1>4, <1>5, <1>6, <1>7, <1>8

\* What a COMMIT leaves to its caller.
LEMMA PublishType ==
  ASSUME DInv, NEW w \in Worker, Publish(w),
         pc' = [pc EXCEPT ![w] = "idle"], tx' = [tx EXCEPT ![w] = NULL],
         UNCHANGED <<phase, faults>>, tokens' \subseteq [email : Email, who : Person],
         next' \in [Replica -> 1 .. Len(Demo) + 1],
         call' \in [Request -> Input \cup {NULL}], on' \in [Request -> Replica \cup {NULL}]
  PROVE  TypeOK'
<1>1. pc' \in [Worker -> PcSet] /\ tx' \in [Worker -> Creation \cup {NULL}]
  BY DEF DInv, TypeOK, PcSet
<1>2. \A v \in Worker : tx'[v] # NULL <=> pc'[v] \in {"insert", "roles"}
  BY PublishStep DEF DInv, TypeOK
<1>3. \A u, v \in Worker :
        pc'[u] = "roles" /\ pc'[v] = "roles" /\ u # v => tx'[u].email # tx'[v].email
  BY PublishStep DEF DInv, TypeOK
<1>4. users' \in [Email -> Person \cup {NULL}] /\ userRoles' \subseteq Email \X Role
  BY PublishStep
<1> QED
  BY <1>1, <1>2, <1>3, <1>4 DEF DInv, TypeOK, PcSet

\* A replica commits a demo user, as the seeder's, and goes on to the next.
LEMMA SeedCommitStep ==
  ASSUME DInv, NEW i \in Worker, SeedCommit(i)
  PROVE  DInv'
<1>1. /\ i \in Replica /\ Publish(i) /\ next' = [next EXCEPT ![i] = @ + 1]
      /\ pc' = [pc EXCEPT ![i] = "idle"] /\ tx' = [tx EXCEPT ![i] = NULL]
      /\ UNCHANGED <<phase, call, on, tokens, faults>>
  BY DEF SeedCommit
<1>2. /\ pc[i] = "roles" /\ users[tx[i].email] = NULL
      /\ users'[tx[i].email] = tx[i].who /\ tx[i].email \in Email
      /\ \A e \in Email : e # tx[i].email => users'[e] = users[e]
      /\ \A e \in Email : users[e] # NULL => users'[e] = users[e]
      /\ \A x \in userRoles' : users'[x[1]] # NULL
      /\ \A v \in Worker : v # i => pc'[v] = pc[v] /\ tx'[v] = tx[v]
      /\ pc'[i] = "idle"
      /\ \A v \in Worker : Creates(v)'
  BY <1>1, PublishStep
<1>3. /\ phase[i] = "seeding" /\ next[i] \in 1 .. Len(Demo)
      /\ tx[i].email = Demo[next[i]].email /\ tx[i].who = Seeder
  BY <1>1, <1>2, DemoFacts DEF DInv, TypeOK, Seeds
<1>4. TypeOK'
  <2>1. next' \in [Replica -> 1 .. Len(Demo) + 1]
    BY <1>1, <1>3, DemoFacts DEF DInv, TypeOK
  <2> QED
    BY <1>1, <2>1, PublishType DEF DInv, TypeOK
<1>5. ASSUME NEW j \in Replica PROVE Seeds(j)'
  <2>1. \A e \in DemoEmail : e \in Email
    BY DemoFacts
  <2>2. CASE j = i
    <3>1. next'[i] = next[i] + 1 /\ next[i] \in Nat
      BY <1>1, <1>3, DemoFacts DEF DInv, TypeOK
    <3>2. \A k \in 1 .. next[i] - 1 : k \in 1 .. Len(Demo) /\ users[Demo[k].email] # NULL
      <4>1. \A k \in 1 .. next[i] - 1 : users[Demo[k].email] # NULL
        BY <1>1, <1>3 DEF DInv, Seeds
      <4> QED
        BY <1>3, <4>1, DemoFacts
    <3>3. \A k \in 1 .. next'[i] - 1 : users'[Demo[k].email] # NULL
      BY <1>2, <1>3, <3>1, <3>2, DemoFacts, DemoAssumption, ReplicaAssumption
    <3> QED
      BY <1>1, <1>2, <1>3, <2>2, <3>3 DEF Seeds
  <2>3. CASE j # i
    <3>1. next'[j] = next[j] /\ next[j] - 1 <= Len(Demo) /\ next[j] \in Nat
      BY <1>1, <2>3, DemoFacts DEF DInv, TypeOK
    <3>2. \A k \in 1 .. next[j] - 1 : Demo[k].email \in Email
      BY <3>1, DemoFacts
    <3> QED
      BY <1>1, <1>2, <2>1, <2>3, <3>1, <3>2, Workers DEF DInv, Seeds
  <2> QED
    BY <2>2, <2>3
<1>6. ASSUME NEW r \in Request PROVE Serves(r)'
  BY <1>1, <1>2, Busy, InputFields, ReplicaAssumption, Workers DEF DInv, Serves
<1>7. RowsBelong'
  BY <1>1, <1>2, <1>3, DemoFacts DEF DInv, RowsBelong
<1>8. TokensAreBacked'
  <2>1. \A k \in tokens : k.email \in Email /\ k.who # NULL /\ users[k.email] = k.who
    BY ReplicaAssumption DEF DInv, TypeOK, TokensAreBacked
  <2> QED
    BY <1>1, <1>2, <2>1 DEF TokensAreBacked
<1> QED
  BY <1>2, <1>4, <1>5, <1>6, <1>7, <1>8 DEF DInv

\* A registration commits: the account was not there, so it is nobody else's, and
\* not a demo user's, for those are there when a replica serves.
LEMMA RegisterCommitStep ==
  ASSUME DInv, NEW q \in Worker, RegisterCommit(q)
  PROVE  DInv'
<1>1. /\ q \in Request /\ Publish(q) /\ Answer(q)
      /\ tokens' = tokens \cup {[email |-> tx[q].email, who |-> tx[q].who]}
  BY DEF RegisterCommit
<1>2. /\ pc' = [pc EXCEPT ![q] = "idle"] /\ tx' = [tx EXCEPT ![q] = NULL]
      /\ call' = [call EXCEPT ![q] = NULL] /\ on' = [on EXCEPT ![q] = NULL]
      /\ UNCHANGED <<phase, next, faults>>
  BY <1>1 DEF Answer
<1>3. /\ pc[q] = "roles" /\ users[tx[q].email] = NULL
      /\ users'[tx[q].email] = tx[q].who /\ tx[q].email \in Email /\ tx[q].who \in Person
      /\ \A e \in Email : e # tx[q].email => users'[e] = users[e]
      /\ \A e \in Email : users[e] # NULL => users'[e] = users[e]
      /\ \A x \in userRoles' : users'[x[1]] # NULL
      /\ \A v \in Worker : v # q => pc'[v] = pc[v] /\ tx'[v] = tx[v]
      /\ pc'[q] = "idle"
      /\ \A v \in Worker : Creates(v)'
  BY <1>1, <1>2, PublishStep
<1>4. tx[q].email \notin DemoEmail
  BY <1>1, <1>3, Busy DEF DInv, Serves, Seeds
<1>5. TypeOK'
  <2>1. tokens' \subseteq [email : Email, who : Person]
    BY <1>1, <1>3 DEF DInv, TypeOK
  <2>2. call' \in [Request -> Input \cup {NULL}] /\ on' \in [Request -> Replica \cup {NULL}]
    BY <1>2 DEF DInv, TypeOK
  <2> QED
    BY <1>1, <1>2, <2>1, <2>2, PublishType DEF DInv, TypeOK
<1>6. ASSUME NEW j \in Replica PROVE Seeds(j)'
  <2>1. /\ next'[j] = next[j] /\ next[j] \in Nat /\ next[j] - 1 <= Len(Demo)
        /\ pc'[j] = pc[j] /\ tx'[j] = tx[j] /\ phase'[j] = phase[j]
    BY <1>1, <1>2, <1>3, DemoFacts, Workers DEF DInv, TypeOK
  <2>2. /\ \A k \in 1 .. next[j] - 1 : Demo[k].email \in Email
        /\ \A e \in DemoEmail : e \in Email
    BY <2>1, DemoFacts
  <2> QED
    BY <1>3, <2>1, <2>2 DEF DInv, Seeds
<1>7. ASSUME NEW r \in Request PROVE Serves(r)'
  <2>1. CASE r = q
    BY <1>2, <1>3, <2>1 DEF DInv, TypeOK, Serves
  <2>2. CASE r # q
    <3>1. call'[r] = call[r] /\ on'[r] = on[r] /\ pc'[r] = pc[r] /\ tx'[r] = tx[r]
      BY <1>2, <1>3, <2>2, Workers DEF DInv, TypeOK
    <3> QED
      BY <1>2, <1>3, <3>1, Busy, InputFields, ReplicaAssumption DEF DInv, Serves
  <2> QED
    BY <2>1, <2>2
<1>8. RowsBelong'
  BY <1>3, <1>4, DemoFacts DEF DInv, RowsBelong
<1>9. TokensAreBacked'
  <2>1. \A k \in tokens : k.email \in Email /\ k.who # NULL /\ users[k.email] = k.who
    BY ReplicaAssumption DEF DInv, TypeOK, TokensAreBacked
  <2> QED
    BY <1>1, <1>3, <2>1 DEF TokensAreBacked
<1> QED
  BY <1>3, <1>5, <1>6, <1>7, <1>8, <1>9 DEF DInv

-----------------------------------------------------------------------------
(***************************************************************************)
(* The invariants.                                                         *)
(***************************************************************************)

\* Every step keeps the invariant.
LEMMA NextInv == DInv /\ [Next]_vars => DInv'
<1> SUFFICES ASSUME DInv, [Next]_vars PROVE DInv'
  OBVIOUS
<1>1. CASE UNCHANGED vars
  BY <1>1 DEF vars, tables, DInv, TypeOK, Seeds, Serves, Creates, RowsBelong, TokensAreBacked
<1>2. ASSUME NEW w \in Worker, Working(w) PROVE DInv'
  <2>1. CASE InsertUser(w) \/ InsertRole(w)
    BY <2>1, InsertUserStep, InsertRoleStep
  <2>2. CASE SeedCommit(w) \/ RegisterCommit(w)
    BY <2>2, SeedCommitStep, RegisterCommitStep
  <2>3. CASE SeedTaken(w)
    BY <2>3, ExitStep DEF SeedTaken, DInv, TypeOK
  <2>4. CASE RegisterTaken(w) \/ Login(w) \/ Grant(w) \/ Revoke(w)
    BY <2>4, AnswerSteps DEF RegisterTaken, Login, Grant, Revoke
  <2>5. CASE Find(w)
    <3>1. w \in Request
      BY <2>5 DEF Find
    <3> QED
      BY <2>5, <3>1, AnswerSteps, RequestSteps
  <2> QED
    BY <1>2, <2>1, <2>2, <2>3, <2>4, <2>5 DEF Working
<1>3. ASSUME NEW i \in Replica, Starting(i) \/ Signal(i) \/ Up(i) \/ Drained(i) PROVE DInv'
  BY <1>3, PhaseSteps, SeedLookupStep DEF Starting
<1>4. ASSUME NEW i \in Replica, Closed(i) \/ DrainTimeout(i) PROVE DInv'
  BY <1>4, ExitStep DEF Closed, DrainTimeout, DInv, TypeOK
<1>5. ASSUME NEW i \in Replica, Fail(i) PROVE DInv'
  <2>1. faults' \in 0 .. MaxFaults /\ Exit(i, "exited")
    BY <1>5, ReplicaAssumption DEF Fail, DInv, TypeOK
  <2> QED
    BY <2>1, ExitStep
<1>6. ASSUME NEW q \in Request, Abort(q) PROVE DInv'
  BY <1>6, AnswerSteps
<1>7. ASSUME NEW q \in Request, NEW i \in Replica, NEW c \in Input, Arrive(q, i, c) PROVE DInv'
  BY <1>7, RequestSteps, RegisterArrives
<1> QED
  BY <1>1, <1>2, <1>3, <1>4, <1>5, <1>6, <1>7 DEF Next, Stopping

\* The inductive invariant holds in every behaviour.
THEOREM DeploymentInvariance == Spec => []DInv
BY InitInv, NextInv, PTL DEF Spec

\* Types are right, a transaction is open exactly where CreateUser runs, and one
\* at most has inserted an e-mail, for any number of replicas and requests.
THEOREM DeploymentTypeCorrect == Spec => []TypeOK
<1>1. DInv => TypeOK
  BY DEF DInv
<1> QED
  BY <1>1, DeploymentInvariance, PTL

\* No request is served before its replica has seen all demo users in the
\* database, nor after its pool was closed.
THEOREM ServesInTime == Spec => []ServedInTime
<1>1. DInv => ServedInTime
  BY Busy DEF DInv, Serves, Seeds, RowsBelong, ServedInTime
<1> QED
  BY <1>1, DeploymentInvariance, PTL

\* Whoever holds a token owns the account it names.
THEOREM TokensStayBacked == Spec => []TokensAreBacked
<1>1. DInv => TokensAreBacked
  BY DEF DInv
<1> QED
  BY <1>1, DeploymentInvariance, PTL

-----------------------------------------------------------------------------
(***************************************************************************)
(* The refinement of Registry.                                             *)
(***************************************************************************)

\* An account that is not there has no rows in user_roles.
LEMMA NoRoles ==
  ASSUME DInv, NEW e \in Email, users[e] = NULL, NEW role
  PROVE  <<e, role>> \notin userRoles
BY DEF DInv, RowsBelong

\* An account that is there is not NULL.
LEMMA NullAccount ==
  ASSUME DInv, NEW e \in Email, users[e] # NULL
  PROVE  accounts[e] # NULL
<1>1. accounts[e] = [owner |-> users[e], roles |-> {role \in Role : <<e, role>> \in userRoles}]
  BY DEF accounts
<1>2. users[e] \in Person
  BY DEF DInv, TypeOK
<1>3. accounts[e] \in [owner : Person, roles : SUBSET Role]
  BY <1>1, <1>2
<1> QED
  BY <1>3, ReplicaAssumption

\* A COMMIT of CreateUser opens an account, whole.
LEMMA PublishOpens ==
  ASSUME DInv, NEW w \in Worker, Publish(w),
         pc' = [pc EXCEPT ![w] = "idle"], tx' = [tx EXCEPT ![w] = NULL]
  PROVE  TheRegistry!Next
<1> DEFINE e0 == tx[w].email
           done == tx[w].done
           new == [owner |-> tx[w].who, roles |-> done]
<1>1. /\ e0 \in Email /\ users[e0] = NULL /\ done # {} /\ done \subseteq Role
      /\ tx[w].who \in Person /\ users'[e0] = tx[w].who
      /\ \A e \in Email : e # e0 => users'[e] = users[e]
      /\ userRoles' = userRoles \cup {<<e0, role>> : role \in done}
  BY PublishStep DEF Publish
<1> HIDE DEF e0, done
<1>2. {role \in Role : <<e0, role>> \in userRoles'} = done
  BY <1>1, NoRoles
<1>3. accounts'[e0] = new
  BY <1>1, <1>2, ReplicaAssumption DEF accounts
<1>4. \A e \in Email \ {e0} : accounts'[e] = accounts[e]
  <2>1. ASSUME NEW e \in Email, e # e0
        PROVE  {role \in Role : <<e, role>> \in userRoles'} = {role \in Role : <<e, role>> \in userRoles}
    BY <1>1, <2>1
  <2> QED
    BY <1>1, <2>1 DEF accounts
<1>5. accounts' = [accounts EXCEPT ![e0] = new]
  BY <1>1, <1>3, <1>4 DEF accounts
<1>6. accounts[e0] = NULL
  BY <1>1 DEF accounts
<1>7. TheRegistry!Open(e0, tx[w].who, done)
  BY <1>1, <1>5, <1>6 DEF TheRegistry!Open
<1> QED
  BY <1>1, <1>7 DEF TheRegistry!Next, TheRegistry!Role, Role

\* A grant is a Grant: the account Find saw is still there.
LEMMA GrantRefines ==
  ASSUME DInv, NEW q \in Request, Grant(q)
  PROVE  TheRegistry!Next
<1> DEFINE e0 == call[q].email
           role0 == call[q].role
<1>1. /\ e0 \in Email /\ role0 \in Role /\ users[e0] # NULL
      /\ userRoles' = userRoles \cup {<<e0, role0>>} /\ users' = users
  BY Busy, InputFields DEF Grant, DInv, Serves
<1> HIDE DEF e0, role0
<1>2. {role \in Role : <<e0, role>> \in userRoles'}
        = {role \in Role : <<e0, role>> \in userRoles} \cup {role0}
  BY <1>1
<1>3. \A e \in Email \ {e0} :
        {role \in Role : <<e, role>> \in userRoles'} = {role \in Role : <<e, role>> \in userRoles}
  BY <1>1
<1>4. accounts' = [accounts EXCEPT ![e0].roles = @ \cup {role0}]
  <2> DEFINE old == {role \in Role : <<e0, role>> \in userRoles}
  <2>1. accounts'[e0] = [accounts[e0] EXCEPT !.roles = @ \cup {role0}]
    <3>1. accounts[e0] = [owner |-> users[e0], roles |-> old]
      BY <1>1 DEF accounts
    <3>2. accounts'[e0] = [owner |-> users[e0], roles |-> old \cup {role0}]
      BY <1>1, <1>2 DEF accounts
    <3> HIDE DEF old
    <3> QED
      BY <3>1, <3>2
  <2>2. \A e \in Email \ {e0} : accounts'[e] = accounts[e]
    BY <1>1, <1>3 DEF accounts
  <2> QED
    BY <1>1, <2>1, <2>2 DEF accounts
<1>5. accounts[e0] # NULL
  BY <1>1, NullAccount
<1>6. TheRegistry!Grant(e0, role0)
  BY <1>4, <1>5 DEF TheRegistry!Grant
<1> QED
  BY <1>1, <1>6 DEF TheRegistry!Next, TheRegistry!Role, Role

\* A revocation is a Revoke, or finds no account and no row.
LEMMA RevokeRefines ==
  ASSUME DInv, NEW q \in Request, Revoke(q)
  PROVE  TheRegistry!Next \/ UNCHANGED accounts
<1> DEFINE e0 == call[q].email
           role0 == call[q].role
<1>1. /\ e0 \in Email /\ role0 \in Role
      /\ userRoles' = userRoles \ {<<e0, role0>>} /\ users' = users
  BY Busy, InputFields DEF Revoke
<1> HIDE DEF e0, role0
<1>2. {role \in Role : <<e0, role>> \in userRoles'}
        = {role \in Role : <<e0, role>> \in userRoles} \ {role0}
  BY <1>1
<1>3. \A e \in Email \ {e0} :
        {role \in Role : <<e, role>> \in userRoles'} = {role \in Role : <<e, role>> \in userRoles}
  BY <1>1
<1>4. \A e \in Email \ {e0} : accounts'[e] = accounts[e]
  BY <1>1, <1>3 DEF accounts
<1>5. CASE users[e0] = NULL
  <2>1. accounts'[e0] = accounts[e0]
    BY <1>1, <1>5 DEF accounts
  <2> QED
    BY <1>4, <2>1 DEF accounts
<1>6. CASE users[e0] # NULL
  <2> DEFINE old == {role \in Role : <<e0, role>> \in userRoles}
  <2>1. accounts'[e0] = [accounts[e0] EXCEPT !.roles = @ \ {role0}]
    <3>1. accounts[e0] = [owner |-> users[e0], roles |-> old]
      BY <1>1, <1>6 DEF accounts
    <3>2. accounts'[e0] = [owner |-> users[e0], roles |-> old \ {role0}]
      BY <1>1, <1>2, <1>6 DEF accounts
    <3> HIDE DEF old
    <3> QED
      BY <3>1, <3>2
  <2>2. accounts' = [accounts EXCEPT ![e0].roles = @ \ {role0}]
    BY <1>1, <1>4, <2>1 DEF accounts
  <2>3. TheRegistry!Revoke(e0, role0)
    BY <1>1, <1>6, <2>2, NullAccount DEF TheRegistry!Revoke
  <2> QED
    BY <1>1, <2>3 DEF TheRegistry!Next, TheRegistry!Role, Role
<1> QED
  BY <1>5, <1>6

\* The steps that write users or user_roles.
LEMMA Writers ==
  ASSUME [Next]_vars
  PROVE  \/ UNCHANGED tables
         \/ \E w \in Worker : /\ Publish(w)
                             /\ pc' = [pc EXCEPT ![w] = "idle"] /\ tx' = [tx EXCEPT ![w] = NULL]
         \/ \E q \in Request : Grant(q) \/ Revoke(q)
<1>1. CASE UNCHANGED vars
  BY <1>1 DEF vars
<1>2. ASSUME NEW w \in Worker, Working(w)
      PROVE  \/ UNCHANGED tables
             \/ /\ Publish(w)
                /\ pc' = [pc EXCEPT ![w] = "idle"] /\ tx' = [tx EXCEPT ![w] = NULL]
             \/ w \in Request /\ (Grant(w) \/ Revoke(w))
  BY <1>2 DEF Working, InsertUser, InsertRole, SeedCommit, SeedTaken, RegisterTaken,
     RegisterCommit, Find, Login, Grant, Revoke, Exit, Answer
<1>3. ASSUME NEW i \in Replica, Starting(i) \/ Stopping(i) \/ Signal(i) \/ Up(i) \/ Fail(i)
      PROVE  UNCHANGED tables
  BY <1>3 DEF Starting, Start, SeedLookup, Serve, Stopping, Drained, Closed, DrainTimeout,
     Signal, Up, Fail, Exit
<1>4. ASSUME NEW q \in Request, Abort(q) \/ \E i \in Replica, c \in Input : Arrive(q, i, c)
      PROVE  UNCHANGED tables
  BY <1>4 DEF Abort, Arrive
<1> QED
  BY <1>1, <1>2, <1>3, <1>4 DEF Next

\* Every step of the deployment is a step of the registry, or a stutter.
LEMMA NextRefines == DInv /\ [Next]_vars => [TheRegistry!Next]_accounts
<1> SUFFICES ASSUME DInv, [Next]_vars PROVE TheRegistry!Next \/ UNCHANGED accounts
  OBVIOUS
<1>1. CASE UNCHANGED tables
  BY <1>1 DEF tables, accounts
<1> QED
  BY <1>1, Writers, PublishOpens, GrantRefines, RevokeRefines

\* Accounts are opened whole, by one owner, once, although CreateUser writes two
\* tables in several statements while replicas seed, fail and are started again.
THEOREM DeploymentImplementsRegistry == Spec => KeepsRegistry
<1>1. Init => TheRegistry!Init
  BY DEF Init, TheRegistry!Init, accounts
<1> QED
  BY <1>1, DeploymentInvariance, NextRefines, PTL DEF Spec, KeepsRegistry, TheRegistry!Spec
-----------------------------------------------------------------------------
(***************************************************************************)
(* A single replica.                                                       *)
(***************************************************************************)

\* The demo user a replica is about to insert is not there.
Unseeded(i) == pc[i] = "insert" => users[tx[i].email] = NULL

\* While a single replica seeds, no request is under way, and nobody else inserts.
LEMMA UnseededStep ==
  ASSUME DInv, [Next]_vars, NEW i \in Replica, \A j \in Replica : j = i, Unseeded(i)
  PROVE  Unseeded(i)'
<1> SUFFICES ASSUME pc'[i] = "insert" PROVE users'[tx'[i].email] = NULL
  BY DEF Unseeded
<1>1. CASE SeedLookup(i) /\ pc[i] = "idle" /\ users[Demo[next[i]].email] = NULL
  BY <1>1, Workers DEF SeedLookup, BeginCreate, tables, DInv, TypeOK
<1>2. CASE pc[i] = "insert" /\ tx'[i] = tx[i]
  <2>1. \A q \in Request : pc[q] = "idle"
    BY <1>2, Busy DEF DInv, Seeds, Serves
  <2>2. UNCHANGED users
    <3>1. ASSUME NEW w \in Worker, Publish(w) PROVE FALSE
      BY <1>2, <2>1, <3>1 DEF Publish, Worker
    <3>2. \A q \in Request : ~Grant(q) /\ ~Revoke(q)
      BY <2>1 DEF Grant, Revoke
    <3> QED
      BY <3>1, <3>2, Writers DEF tables
  <2> QED
    BY <1>2, <2>2 DEF Unseeded
<1>3. CASE UNCHANGED vars
  BY <1>2, <1>3 DEF vars
<1>4. ASSUME NEW w \in Worker, Working(w) PROVE pc[i] = "insert" /\ tx'[i] = tx[i]
  BY <1>4, Workers DEF Working, InsertUser, InsertRole, SeedCommit, SeedTaken, RegisterTaken,
     RegisterCommit, Find, Login, Grant, Revoke, Exit, Answer, DInv, TypeOK
<1>5. ASSUME NEW j \in Replica,
             \/ Start(j) \/ Serve(j) \/ Stopping(j) \/ Signal(j) \/ Up(j) \/ Fail(j)
      PROVE  pc[i] = "insert" /\ tx'[i] = tx[i]
  BY <1>5, Workers DEF Start, Serve, Stopping, Drained, Closed, DrainTimeout, Signal, Up, Fail,
     Exit, DInv, TypeOK
<1>6. ASSUME NEW j \in Replica, SeedLookup(j)
      PROVE  \/ pc[i] = "insert" /\ tx'[i] = tx[i]
             \/ SeedLookup(i) /\ pc[i] = "idle" /\ users[Demo[next[i]].email] = NULL
  <2>1. j = i
    OBVIOUS
  <2> QED
    BY <1>6, <2>1, Workers DEF SeedLookup, BeginCreate, DInv, TypeOK
<1>7. ASSUME NEW q \in Request, Abort(q) \/ \E j \in Replica, c \in Input : Arrive(q, j, c)
      PROVE  pc[i] = "insert" /\ tx'[i] = tx[i]
  BY <1>7, Workers DEF Abort, Answer, Arrive, BeginCreate, DInv, TypeOK
<1> QED
  BY <1>1, <1>2, <1>3, <1>4, <1>5, <1>6, <1>7 DEF Next, Starting

\* A start fails over a demo user that is already there only where replicas share
\* the database: a single one that leaves the seeding without serving has crashed
\* or lost its connection, however often it was started over a half-seeded
\* database.
THEOREM SoloSeedsCleanly ==
  ASSUME \A i, j \in Replica : i = j
  PROVE  Spec => [][\A i \in Replica :
                      phase[i] = "seeding" /\ phase'[i] = "exited" => faults' = faults + 1]_vars
<1> DEFINE Clean == \A i \in Replica : Unseeded(i)
           Faulty == \A i \in Replica :
                       phase[i] = "seeding" /\ phase'[i] = "exited" => faults' = faults + 1
<1>1. Init => Clean
  BY Workers DEF Init, Unseeded
<1>2. DInv /\ Clean /\ [Next]_vars => Clean'
  BY UnseededStep
<1>3. ASSUME DInv, Clean, Next, NEW i \in Replica, phase[i] = "seeding", phase'[i] = "exited"
      PROVE  faults' = faults + 1
  <2>1. ASSUME NEW w \in Worker, Working(w) PROVE FALSE
    <3>1. ~SeedTaken(w)
      BY <1>3 DEF SeedTaken, Unseeded
    <3> QED
      BY <1>3, <2>1, <3>1 DEF Working, InsertUser, InsertRole, SeedCommit, RegisterTaken,
         RegisterCommit, Find, Login, Grant, Revoke, Answer
  <2>2. ASSUME NEW j \in Replica, Starting(j) \/ Stopping(j) \/ Signal(j) \/ Up(j) PROVE FALSE
    <3>1. j = i
      OBVIOUS
    <3> QED
      BY <1>3, <2>2, <3>1 DEF Starting, Start, SeedLookup, Serve, Stopping, Drained, Closed,
         DrainTimeout, Signal, Up, Exit, DInv, TypeOK
  <2>3. ASSUME NEW q \in Request, Abort(q) \/ \E j \in Replica, c \in Input : Arrive(q, j, c)
        PROVE  FALSE
    BY <1>3, <2>3 DEF Abort, Answer, Arrive
  <2> QED
    BY <1>3, <2>1, <2>2, <2>3 DEF Next, Fail
<1>4. DInv /\ Clean /\ [Next]_vars => [Faulty]_vars
  BY <1>3
<1> QED
  BY <1>1, <1>2, <1>4, DeploymentInvariance, PTL DEF Spec
=============================================================================
