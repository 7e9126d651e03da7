---------------------------- MODULE MCDeployment ----------------------------
(***************************************************************************)
(* A small instance of Deployment: two replicas, an administrator and a    *)
(* user to be seeded, two persons who register the same e-mail.            *)
(***************************************************************************)
EXTENDS Deployment

CONSTANTS root, demo, mail, ann, bob

MCDemo == <<[email |-> root, roles |-> {"admin"}], [email |-> demo, roles |-> {"user"}]>>

C(op, email, who, role) == [op |-> op, email |-> email, who |-> who, role |-> role]

MCInput ==
  {C("register", mail, ann, "user"), C("register", mail, bob, "user"),
   C("register", demo, bob, "user"), C("login", mail, ann, "user"),
   C("grant", mail, Seeder, "executor"), C("revoke", mail, Seeder, "user")}
=============================================================================
