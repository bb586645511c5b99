---------------------------- MODULE SellerPayout ----------------------------
(***************************************************************************)
(* What seller settlement promises: a window collects what was earned in   *)
(* it until it is closed, is closed once and for all, and its closing pays *)
(* exactly what the window holds then, or nothing if that is no gain.      *)
(* Workers, leases, row locks and batches are not part of the promise.     *)
(***************************************************************************)
EXTENDS Integers

CONSTANT Windows

VARIABLES
  status,  \* "open" (or not used yet), "paid", "void"
  net,     \* what the window has earned so far
  payout   \* what it has paid

vars == <<status, net, payout>>

Init ==
  /\ status = [x \in Windows |-> "open"]
  /\ net = [x \in Windows |-> 0]
  /\ payout = [x \in Windows |-> 0]

(* Open windows earn, or lose what a refund or an upstream takes.          *)
Earn ==
  /\ \E x \in Windows : net'[x] # net[x]
  /\ \A x \in Windows : status[x] # "open" => net'[x] = net[x]
  /\ UNCHANGED <<status, payout>>

(* A set of open windows is closed at once.                                *)
Close(S) ==
  /\ \A x \in S : status[x] = "open"
  /\ status' = [x \in Windows |-> IF x \notin S THEN status[x]
                                  ELSE IF net[x] > 0 THEN "paid" ELSE "void"]
  /\ payout' = [x \in Windows |-> IF x \in S /\ net[x] > 0 THEN net[x] ELSE payout[x]]
  /\ UNCHANGED net

Next == Earn \/ \E S \in SUBSET Windows : Close(S)

Spec == Init /\ [][Next]_vars
=============================================================================
