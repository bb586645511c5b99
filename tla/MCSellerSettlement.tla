------------------------- MODULE MCSellerSettlement -------------------------
(* Small instances of SellerSettlement.                                    *)
EXTENDS SellerSettlement, TLC

CONSTANTS w1, w2, x1, x2, p1, a1, a2, l1, l2

MCRevenue == [a \in Attempts |-> IF a = a1 THEN 2 ELSE 0]
MCUpstreamCost == [a \in Attempts |-> 1]
MCTranche == [l \in Legacy |-> [x \in PlanWindows |-> IF x = x1 THEN 1 ELSE 2]]

=============================================================================
