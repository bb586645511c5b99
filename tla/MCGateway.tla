----------------------------- MODULE MCGateway -----------------------------
(* Small instances of Gateway: one request with two candidates, under the  *)
(* protected contract or under the claimless one.                          *)
EXTENDS Gateway, TLC

CONSTANTS o1, r1, r2, s1, u0, u1

OneOwner == [r \in Requests |-> o1]
OneSource == [r \in Requests |-> s1]
EachContract == [r \in Requests |-> IF r = r1 THEN "protected@1" ELSE "cpa-basic@1"]
Charges == u0 :> 0 @@ u1 :> 1
Limits == [s \in Sources |-> 9]

Row(outcome, class, output) ==
  [outcome |-> outcome, failureClass |-> class, failureReason |-> Null, outputCommitted |-> output]

GatewayEvidence ==
  {Row("succeeded", Null, TRUE)}
    \cup {Row("failed", class, output) : class \in FailureClasses, output \in BOOLEAN}
    \cup {Row("aborted", Null, output) : output \in BOOLEAN}
=============================================================================
