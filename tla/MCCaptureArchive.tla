-------------------------- MODULE MCCaptureArchive --------------------------
(* Instances of CaptureArchive for TLC.                                    *)
EXTENDS CaptureArchive, TLC

CONSTANTS r1, r2, t1, t2

(* A pre-dispatch attempt, a request whose terminal projection was lost    *)
(* and one that was billed.                                                *)
SomeEvidence ==
  {[execution |-> "none", attempts |-> "predispatch", claim |-> FALSE, facts |-> FALSE, mcp |-> FALSE],
   [execution |-> "terminal", attempts |-> "terminal", claim |-> TRUE, facts |-> FALSE, mcp |-> FALSE],
   [execution |-> "other", attempts |-> "other", claim |-> TRUE, facts |-> TRUE, mcp |-> FALSE]}

(* The evidence of a request whose response came and whose end was lost.   *)
LostEvidence == {e \in SomeEvidence : e.execution = "terminal"}

(* The evidence of a request that a gateway may leave open for good.       *)
OpenEvidence == {e \in SomeEvidence : ~e.facts}

Plan(running, streams, tasks, evid, autoPurge, links) ==
  [running |-> running, streams |-> streams, tasks |-> tasks, evidence |-> evid,
   autoPurge |-> autoPurge, links |-> links, maxCrashes |-> 1]

(* One task archives the month, or two get in each other's way; the        *)
(* request that still runs is a stream or not.                             *)
MCSetups ==
  {Plan({r1}, {}, {t1}, OpenEvidence, TRUE, TRUE),
   Plan({r1}, {r1}, {t1}, SomeEvidence, TRUE, TRUE),
   Plan({r1}, {r1}, {t1, t2}, LostEvidence, TRUE, FALSE),
   Plan({r1}, {}, {t1, t2}, LostEvidence, FALSE, TRUE)}

TornSetups == {Plan({r1, r2}, {}, {t1}, {}, TRUE, FALSE)}
RestartSetups == {Plan({r1}, {r1}, {t1}, LostEvidence, TRUE, TRUE)}
=============================================================================
