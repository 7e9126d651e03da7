----------------------------- MODULE MCConnPool -----------------------------
(***************************************************************************)
(* Small instances of ConnPool for TLC.                                    *)
(***************************************************************************)
EXTENDS ConnPool, TLC

CONSTANTS r1, r2, r3, t1, t2

AllOps == Op

Symmetry == Permutations(Request) \cup Permutations(TicketId)
=============================================================================
