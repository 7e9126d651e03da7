------------------------------- MODULE Registry -------------------------------
(***************************************************************************)
(* What the accounts promise: an account appears whole, with its owner and *)
(* at least one role, it never changes hands and never goes away; roles    *)
(* are granted to it and revoked one at a time.  Deployment implements it. *)
(***************************************************************************)
EXTENDS Domain

CONSTANTS Email, Person, NULL

VARIABLE accounts    \* Email -> [owner, roles], or NULL

Init == accounts = [e \in Email |-> NULL]

Open(e, who, roles) ==
  /\ accounts[e] = NULL
  /\ roles # {}
  /\ accounts' = [accounts EXCEPT ![e] = [owner |-> who, roles |-> roles]]

Grant(e, role) ==
  /\ accounts[e] # NULL
  /\ accounts' = [accounts EXCEPT ![e].roles = @ \cup {role}]

Revoke(e, role) ==
  /\ accounts[e] # NULL
  /\ accounts' = [accounts EXCEPT ![e].roles = @ \ {role}]

Next ==
  \E e \in Email :
    \/ \E who \in Person, roles \in SUBSET Role : Open(e, who, roles)
    \/ \E role \in Role : Grant(e, role) \/ Revoke(e, role)

Spec == Init /\ [][Next]_accounts
=============================================================================
