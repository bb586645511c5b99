--------------------------- MODULE MCCreditTopup ---------------------------
(* Small instances of CreditTopup.                                         *)
EXTENDS CreditTopup, TLC

CONSTANTS t1, t2, t3, u1, u2, p1, p2, r1

\* One top-up of each kind, the first two of one user.
MCMode == [t \in Topups |-> CASE t = t1 -> "stripe_checkout" [] t = t2 -> "manual_review"
                              [] t = t3 -> "legacy"]

MCManual == [t \in Topups |-> "manual_review"]

MCPayer == [t \in Topups |-> IF t = t3 THEN u2 ELSE u1]

MCOnePayer == [t \in Topups |-> u1]

ProcSymmetry == Permutations(Procs)
=============================================================================
