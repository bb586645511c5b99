-------------------------- MODULE MCPlanPurchase --------------------------
(* Small instances of PlanPurchase.                                        *)
EXTENDS PlanPurchase, TLC

CONSTANTS o1, o2, u1, u2, p1, p2

MCBuyer == [o \in Orders |-> u1]

With(features, useNow) == [features |-> features, useNow |-> useNow, duplicates |-> FALSE, maxCrashes |-> 0]

(* The payment itself with everything that goes wrong on the way, or what   *)
(* becomes of the cards afterwards.                                        *)
Paying == [features |-> {}, useNow |-> BOOLEAN, duplicates |-> TRUE, maxCrashes |-> 1]
HandlingCards == With({"send", "revise", "replace", "reverse", "cancelSub"}, {FALSE})
MCSetups == {Paying, HandlingCards}

ReverseSetups == {With({"reverse"}, {FALSE})}
PlainSetups == {With({}, {FALSE})}
ReviseSetups == {With({"revise"}, {FALSE})}
UseNowSetups == {With({}, {TRUE})}

ProcSymmetry == Permutations(Procs)
=============================================================================
