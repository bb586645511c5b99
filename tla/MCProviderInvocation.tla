------------------------ MODULE MCProviderInvocation ------------------------
(* Small instances of ProviderInvocation.                                  *)
EXTENDS ProviderInvocation, TLC

CONSTANTS o1, o2, r1, r2, r3, r4, s1, u0, u1, u2

Ev(outcome, class, reason, output) ==
  [outcome |-> outcome, failureClass |-> class, failureReason |-> reason, outputCommitted |-> output]

Succeeded == Ev("succeeded", Null, Null, TRUE)
FailedAuth == Ev("failed", Null, "auth_unavailable", FALSE)
FailedDefault == Ev("failed", Null, Null, FALSE)
Aborted == Ev("aborted", Null, Null, TRUE)

EvidenceAll == {Succeeded, FailedAuth, FailedDefault, Aborted}
EvidenceOne == {Succeeded}
EvidenceBasic == {Succeeded, FailedAuth}

OneSource == [r \in Requests |-> s1]
AllProtected == [r \in Requests |-> "protected@1"]
MixedContract == [r \in Requests |-> IF r = r4 THEN "cpa-basic@1" ELSE "protected@1"]
Charges == u0 :> 0 @@ u1 :> 1 @@ u2 :> 3
ChargesTwo == u0 :> 0 @@ u1 :> 1
ChargesAbove == u0 :> 0 @@ u2 :> 3
Limits == [s \in Sources |-> 3]
(* Above the balance, so that the account refuses before the plan does, and *)
(* below what stopped holds would let in.                                   *)
LimitsMoney == [s \in Sources |-> 4]
LimitsWide == [s \in Sources |-> 9]
(* No lease is given back, only the claimless request has its log ended,   *)
(* and three requests at most are under way: keeps the run within reach.   *)
BoundedRun ==
  /\ \A r \in Requests \ {r4} : ~ended[r]
  /\ \A r \in Requests : execution[r].status = "absent" \/ lease[r].owner # NoOwner
  /\ Cardinality({r \in Requests : lease[r].owner # NoOwner}) <= 3
(* One request at a time is under way: the protected one, or until the      *)
(* first take-over the claimless one.                                       *)
Begun(r) == lease[r].owner # NoOwner \/ execution[r].status # "absent" \/ ended[r]
OneRequest ==
  /\ \A r, q \in Requests : Begun(r) /\ Begun(q) => r = q
  /\ \A r \in Requests : Begun(r) /\ Contract[r] = "cpa-basic@1" => now <= LeaseTtl
RequestSymmetry == Permutations(Requests \ {r4})
OwnerSymmetry == Permutations(Owners)
=============================================================================
