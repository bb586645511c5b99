-------------------------- MODULE ShadowRiskProofs --------------------------
(* The shadow-risk guard for any number of reservations, any profile and   *)
(* any delay of the gateways.                                              *)
EXTENDS ShadowRisk, FiniteSetTheorems, TLAPS

(* Sums over finite sets, for the exposure, which the model writes as     *)
(* MapThenSumSet. That operator is a recursive function over the subsets  *)
(* of a set that takes an element chosen from each; what it computes is   *)
(* shown by a set with a smallest member (Least) instead of an induction  *)
(* rule: a smallest set of which the claim is false would have a smaller  *)
(* one.                                                                   *)

(* The element the sum takes from a set.                                   *)
First(S) == CHOOSE e \in S : TRUE

(* g sums f over every subset of S: the equation that defines the fold.    *)
Adds(g, f, S) ==
  g = [T \in SUBSET S |-> IF T = {} THEN 0 ELSE f[First(T)] + g[T \ {First(T)}]]

(* A set of subsets of a finite set has a member none of whose elements    *)
(* can be taken away.                                                      *)
LEMMA Least ==
  ASSUME NEW S, IsFiniteSet(S), NEW Bad, Bad \subseteq SUBSET S, Bad # {}
  PROVE  \E T \in Bad : \A e \in T : T \ {e} \notin Bad
<1>1. IsWellFoundedOn(StrictSubsetOrdering(S), SUBSET S)
  BY FS_StrictSubsetOrderingWellFounded, FS_FiniteSubsetsOfFinite
<1>2. PICK T \in Bad : \A U \in Bad : <<U, T>> \notin StrictSubsetOrdering(S)
  BY <1>1, WFMin
<1>3. ASSUME NEW e \in T PROVE T \ {e} \notin Bad
  BY <1>2, <1>3 DEF StrictSubsetOrdering
<1> QED BY <1>3

LEMMA FirstIn ==
  ASSUME NEW T, T # {}
  PROVE  First(T) \in T
BY DEF First

LEMMA AddsAt ==
  ASSUME NEW S, NEW f, NEW g, Adds(g, f, S)
  PROVE  \A T \in SUBSET S :
           g[T] = IF T = {} THEN 0 ELSE f[First(T)] + g[T \ {First(T)}]
BY DEF Adds

(* Two sums of the same values are the same, whatever sets they are        *)
(* defined over.                                                           *)
LEMMA AddsAgree ==
  ASSUME NEW S, IsFiniteSet(S), NEW R, NEW f, NEW h, NEW g, NEW k,
         Adds(g, f, S), Adds(k, h, R),
         \A e \in S \cap R : f[e] = h[e],
         NEW U, U \subseteq S, U \subseteq R
  PROVE  g[U] = k[U]
<1> DEFINE Bad == {T \in SUBSET S : T \subseteq R /\ g[T] # k[T]}
<1>1. SUFFICES ASSUME Bad # {} PROVE FALSE
  OBVIOUS
<1>2. PICK T \in Bad : \A e \in T : T \ {e} \notin Bad
  <2>1. Bad \subseteq SUBSET S
    OBVIOUS
  <2> HIDE DEF Bad
  <2> QED BY <1>1, <2>1, Least
<1>3. /\ g[T] = IF T = {} THEN 0 ELSE f[First(T)] + g[T \ {First(T)}]
      /\ k[T] = IF T = {} THEN 0 ELSE h[First(T)] + k[T \ {First(T)}]
  <2>1. T \in SUBSET S /\ T \in SUBSET R
    OBVIOUS
  <2> HIDE DEF Bad
  <2>2. \A V \in SUBSET S : g[V] = IF V = {} THEN 0 ELSE f[First(V)] + g[V \ {First(V)}]
    BY DEF Adds
  <2>3. \A V \in SUBSET R : k[V] = IF V = {} THEN 0 ELSE h[First(V)] + k[V \ {First(V)}]
    BY DEF Adds
  <2> QED BY <2>1, <2>2, <2>3
<1>4. T # {}
  BY <1>3
<1>5. First(T) \in T
  BY <1>4, FirstIn
<1>6. g[T \ {First(T)}] = k[T \ {First(T)}]
  BY <1>2, <1>5
<1> QED BY <1>3, <1>4, <1>5, <1>6

(* A sum of integers is an integer.                                        *)
LEMMA AddsInt ==
  ASSUME NEW S, IsFiniteSet(S), NEW f, NEW g, Adds(g, f, S), \A e \in S : f[e] \in Int,
         NEW U, U \subseteq S
  PROVE  g[U] \in Int
<1> DEFINE Bad == {T \in SUBSET S : g[T] \notin Int}
<1>1. SUFFICES ASSUME Bad # {} PROVE FALSE
  OBVIOUS
<1>2. PICK T \in Bad : \A e \in T : T \ {e} \notin Bad
  <2>1. Bad \subseteq SUBSET S
    OBVIOUS
  <2> HIDE DEF Bad
  <2> QED BY <1>1, <2>1, Least
<1> HIDE DEF Bad
<1>a. T \subseteq S
  BY DEF Bad
<1>3. g[T] = IF T = {} THEN 0 ELSE f[First(T)] + g[T \ {First(T)}]
  <2>1. \A W \in SUBSET S :
           g[W] = IF W = {} THEN 0 ELSE f[First(W)] + g[W \ {First(W)}]
    BY DEF Adds
  <2>2. T \in SUBSET S
    BY <1>a
  <2> QED BY <2>1, <2>2
<1>4. T # {} /\ g[T] \notin Int
  BY <1>3 DEF Bad
<1>5. First(T) \in T
  BY <1>4, FirstIn
<1>6. g[T \ {First(T)}] \in Int
  BY <1>2, <1>5, <1>a DEF Bad
<1> QED BY <1>a, <1>3, <1>4, <1>5, <1>6

(* The fold is well defined: put together from the sums over smaller sets. *)
LEMMA AddsExists ==
  ASSUME NEW S, IsFiniteSet(S), NEW f
  PROVE  \E g : Adds(g, f, S)
<1> DEFINE Bad == {T \in SUBSET S : ~ \E g : Adds(g, f, T)}
<1>1. SUFFICES ASSUME Bad # {} PROVE FALSE
  OBVIOUS
<1>2. PICK T \in Bad : \A e \in T : T \ {e} \notin Bad
  <2>1. Bad \subseteq SUBSET S
    OBVIOUS
  <2> HIDE DEF Bad
  <2> QED BY <1>1, <2>1, Least
<1>3. \A e \in T : \E g : Adds(g, f, T \ {e})
  BY <1>2
<1> DEFINE G == [e \in T |-> CHOOSE g : Adds(g, f, T \ {e})]
<1>4. \A e \in T : Adds(G[e], f, T \ {e})
  BY <1>3
<1> HIDE DEF G
<1> DEFINE k == [U \in SUBSET T |-> IF U = {} THEN 0
                                    ELSE f[First(U)] + G[First(U)][U \ {First(U)}]]
<1>5. Adds(k, f, T)
  <2>1. ASSUME NEW U, U \subseteq T, U # {}
        PROVE  k[U \ {First(U)}] = G[First(U)][U \ {First(U)}]
    <3> DEFINE V == U \ {First(U)}
               d == First(U)
               c == First(V)
    <3>1. d \in T /\ V \subseteq T \ {d} /\ V \subseteq T
      BY <2>1, FirstIn
    <3>2. G[d][V] = IF V = {} THEN 0 ELSE f[c] + G[d][V \ {c}]
      <4>1. \A W \in SUBSET (T \ {d}) :
              G[d][W] = IF W = {} THEN 0 ELSE f[First(W)] + G[d][W \ {First(W)}]
        <5> HIDE DEF d, k
        <5>1. Adds(G[d], f, T \ {d})
          BY <3>1, <1>4
        <5> QED BY <5>1, AddsAt
      <4> QED BY <4>1, <3>1
    <3>3. k[V] = IF V = {} THEN 0 ELSE f[c] + G[c][V \ {c}]
      BY <3>1
    <3>4. CASE V = {}
      BY <3>2, <3>3, <3>4
    <3>5. CASE V # {}
      <4>1. c \in V
        BY <3>5, FirstIn
      <4>2. c \in T /\ V \ {c} \subseteq T \ {c} /\ V \ {c} \subseteq T \ {d}
        BY <3>1, <4>1
      <4>3. Adds(G[c], f, T \ {c}) /\ Adds(G[d], f, T \ {d}) /\ IsFiniteSet(T \ {c})
        BY <1>4, <3>1, <4>2, FS_Subset
      <4>4. G[c][V \ {c}] = G[d][V \ {c}]
        <5> HIDE DEF V, c, d
        <5> QED BY <4>2, <4>3, AddsAgree
      <4> QED BY <3>2, <3>3, <3>5, <4>4
    <3> QED BY <3>4, <3>5
  <2> QED BY <2>1 DEF Adds
<1> QED BY <1>2, <1>5

(* The sum of f over S.                                                    *)
Total(f, S) == (CHOOSE g : Adds(g, f, S))[S]

(* Whatever solves the equation of the fold is the sum.                    *)
LEMMA TotalIs ==
  ASSUME NEW S, IsFiniteSet(S), NEW f, NEW R, IsFiniteSet(R), S \subseteq R,
         NEW g, Adds(g, f, R)
  PROVE  Total(f, S) = g[S]
<1>1. PICK k : Adds(k, f, S) /\ Total(f, S) = k[S]
  BY AddsExists DEF Total
<1> QED BY <1>1, AddsAgree

LEMMA TotalAgrees ==
  ASSUME NEW S, IsFiniteSet(S), NEW f, NEW h, \A e \in S : f[e] = h[e]
  PROVE  Total(f, S) = Total(h, S)
<1>1. PICK g : Adds(g, f, S)
  BY AddsExists
<1>2. PICK k : Adds(k, h, S)
  BY AddsExists
<1>3. g[S] = k[S]
  BY <1>1, <1>2, AddsAgree
<1> QED BY <1>1, <1>2, <1>3, TotalIs

LEMMA TotalInt ==
  ASSUME NEW S, IsFiniteSet(S), NEW f, \A e \in S : f[e] \in Int
  PROVE  Total(f, S) \in Int
<1>1. PICK g : Adds(g, f, S)
  BY AddsExists
<1>2. g[S] \in Int
  BY <1>1, AddsInt
<1> QED BY <1>1, <1>2, TotalIs

LEMMA TotalEmpty ==
  ASSUME NEW f
  PROVE  Total(f, {}) = 0
<1>1. PICK g : Adds(g, f, {})
  BY AddsExists, FS_EmptySet
<1>2. \A T \in SUBSET {} : g[T] = IF T = {} THEN 0 ELSE f[First(T)] + g[T \ {First(T)}]
  BY <1>1, AddsAt
<1> QED BY <1>1, <1>2, TotalIs, FS_EmptySet

LEMMA TotalStep ==
  ASSUME NEW S, IsFiniteSet(S), S # {}, NEW f
  PROVE  Total(f, S) = f[First(S)] + Total(f, S \ {First(S)})
<1> DEFINE d == First(S)
<1>1. PICK g : Adds(g, f, S)
  BY AddsExists
<1>2. \A T \in SUBSET S : g[T] = IF T = {} THEN 0 ELSE f[First(T)] + g[T \ {First(T)}]
  BY <1>1, AddsAt
<1>3. g[S] = f[d] + g[S \ {d}]
  BY <1>2
<1>4. Total(f, S) = g[S]
  BY <1>1, TotalIs
<1>5. Total(f, S \ {d}) = g[S \ {d}]
  <2>1. IsFiniteSet(S \ {d}) /\ S \ {d} \subseteq S
    BY FS_Subset
  <2> HIDE DEF d
  <2> QED BY <1>1, <2>1, TotalIs
<1> QED BY <1>3, <1>4, <1>5

(* Any element may be taken first.                                         *)
LEMMA TotalWithout ==
  ASSUME NEW S, IsFiniteSet(S), NEW f, \A e \in S : f[e] \in Int, NEW e \in S
  PROVE  Total(f, S) = f[e] + Total(f, S \ {e})
<1> DEFINE Bad == {T \in SUBSET S : \E c \in T : Total(f, T) # f[c] + Total(f, T \ {c})}
<1>1. SUFFICES ASSUME Bad # {} PROVE FALSE
  OBVIOUS
<1>2. PICK T \in Bad : \A c \in T : T \ {c} \notin Bad
  <2>1. Bad \subseteq SUBSET S
    OBVIOUS
  <2> HIDE DEF Bad
  <2> QED BY <1>1, <2>1, Least
<1>3. T \subseteq S
  BY <1>2
<1>4. PICK c \in T : Total(f, T) # f[c] + Total(f, T \ {c})
  BY <1>2
<1>5. PICK d \in T : Total(f, T) = f[d] + Total(f, T \ {d})
  BY <1>3, <1>4, FS_Subset, TotalStep, FirstIn
<1>6. d # c
  BY <1>4, <1>5
<1>7. Total(f, T \ {d}) = f[c] + Total(f, (T \ {d}) \ {c})
  BY <1>2, <1>3, <1>4, <1>5, <1>6
<1>8. Total(f, T \ {c}) = f[d] + Total(f, (T \ {c}) \ {d})
  BY <1>2, <1>3, <1>4, <1>5, <1>6
<1>9. /\ (T \ {d}) \ {c} = (T \ {c}) \ {d}
      /\ f[c] \in Int /\ f[d] \in Int
  BY <1>3
<1>10. Total(f, (T \ {c}) \ {d}) \in Int
  <2>1. (T \ {c}) \ {d} \subseteq S
    BY <1>3
  <2>2. IsFiniteSet((T \ {c}) \ {d})
    BY <2>1, FS_Subset
  <2> QED BY <2>1, <2>2, TotalInt
<1>11. Total(f, (T \ {d}) \ {c}) = Total(f, (T \ {c}) \ {d})
  BY <1>9, Zenon
<1> HIDE DEF Bad
<1> QED BY <1>4, <1>5, <1>7, <1>8, <1>9, <1>10, <1>11

(* One changed value changes the sum by as much.                           *)
LEMMA TotalChanged ==
  ASSUME NEW S, IsFiniteSet(S), NEW f, NEW h, NEW d \in S,
         \A e \in S : f[e] \in Int /\ h[e] \in Int,
         \A e \in S \ {d} : h[e] = f[e]
  PROVE  Total(h, S) = Total(f, S) - f[d] + h[d]
<1>1. Total(f, S) = f[d] + Total(f, S \ {d})
  BY TotalWithout
<1>2. Total(h, S) = h[d] + Total(h, S \ {d})
  BY TotalWithout
<1>3. IsFiniteSet(S \ {d})
  BY FS_Subset
<1>4. Total(h, S \ {d}) = Total(f, S \ {d})
  BY <1>3, TotalAgrees
<1>5. Total(f, S \ {d}) \in Int
  BY <1>3, TotalInt
<1> QED BY <1>1, <1>2, <1>4, <1>5

(* Larger values have a larger sum.                                        *)
LEMMA TotalMonotone ==
  ASSUME NEW S, IsFiniteSet(S), NEW f, NEW h,
         \A e \in S : f[e] \in Int /\ h[e] \in Int /\ f[e] <= h[e]
  PROVE  Total(f, S) <= Total(h, S)
<1> DEFINE Bad == {T \in SUBSET S : ~ (Total(f, T) <= Total(h, T))}
<1>1. SUFFICES ASSUME Bad # {} PROVE FALSE
  OBVIOUS
<1>2. PICK T \in Bad : \A c \in T : T \ {c} \notin Bad
  <2>1. Bad \subseteq SUBSET S
    OBVIOUS
  <2> HIDE DEF Bad
  <2> QED BY <1>1, <2>1, Least
<1>3. T \subseteq S /\ IsFiniteSet(T) /\ ~ (Total(f, T) <= Total(h, T))
  BY <1>2, FS_Subset
<1>4. T # {}
  BY <1>3, TotalEmpty
<1>5. PICK c \in T : TRUE
  BY <1>4
<1>6. Total(f, T \ {c}) <= Total(h, T \ {c})
  BY <1>2, <1>3, <1>5
<1>7. Total(f, T) = f[c] + Total(f, T \ {c})
  BY <1>3, TotalWithout
<1>8. Total(h, T) = h[c] + Total(h, T \ {c})
  BY <1>3, TotalWithout
<1>9. Total(f, T \ {c}) \in Int /\ Total(h, T \ {c}) \in Int
  <2>1. T \ {c} \subseteq S /\ IsFiniteSet(T \ {c})
    BY <1>3, FS_Subset
  <2> QED BY <2>1, TotalInt
<1>10. f[c] \in Int /\ h[c] \in Int /\ f[c] <= h[c]
  BY <1>3
<1> QED BY <1>3, <1>6, <1>7, <1>8, <1>9, <1>10

(* Elements worth nothing may be left out.                                 *)
LEMMA TotalExtended ==
  ASSUME NEW R, IsFiniteSet(R), NEW f, \A e \in R : f[e] \in Int,
         NEW S, S \subseteq R, \A e \in R \ S : f[e] = 0
  PROVE  Total(f, R) = Total(f, S)
<1> DEFINE Bad == {T \in SUBSET R : S \subseteq T /\ Total(f, T) # Total(f, S)}
<1>1. SUFFICES ASSUME Bad # {} PROVE FALSE
  OBVIOUS
<1>2. PICK T \in Bad : \A c \in T : T \ {c} \notin Bad
  <2>1. Bad \subseteq SUBSET R
    OBVIOUS
  <2> HIDE DEF Bad
  <2> QED BY <1>1, <2>1, Least
<1>3. /\ T \subseteq R /\ IsFiniteSet(T) /\ S \subseteq T
      /\ Total(f, T) # Total(f, S)
  BY <1>2, FS_Subset
<1>4. PICK c \in T : c \notin S
  BY <1>3
<1>5. Total(f, T \ {c}) = Total(f, S)
  BY <1>2, <1>3, <1>4
<1>6. Total(f, T) = f[c] + Total(f, T \ {c})
  BY <1>3, TotalWithout
<1>7. Total(f, S) \in Int
  BY FS_Subset, TotalInt
<1>8. f[c] = 0
  BY <1>3, <1>4
<1> QED BY <1>3, <1>5, <1>6, <1>7, <1>8

LEMMA TotalZero ==
  ASSUME NEW S, IsFiniteSet(S), NEW f, \A e \in S : f[e] = 0
  PROVE  Total(f, S) = 0
<1>1. Total(f, S) = Total(f, {})
  BY TotalExtended
<1> QED BY <1>1, TotalEmpty

-----------------------------------------------------------------------------

(* windowStart rounds down to a multiple of the budget window.             *)
LEMMA WindowStart ==
  ASSUME NEW t \in Nat
  PROVE  windowStart(t) \in Nat /\ windowStart(t) <= t
<1>1. BudgetWindow \in Nat \ {0}
  BY RiskAssumption
<1> DEFINE q == t \div BudgetWindow
<1>2. q \in Nat /\ q * BudgetWindow <= t
  BY <1>1, Z3
<1> QED BY <1>1, <1>2, Z3 DEF windowStart

LEMMA WindowStartMonotone ==
  ASSUME NEW t \in Nat, NEW x \in Nat, t <= x
  PROVE  windowStart(t) <= windowStart(x)
<1>1. BudgetWindow \in Nat \ {0}
  BY RiskAssumption
<1> DEFINE q == t \div BudgetWindow
           p == x \div BudgetWindow
<1>2. /\ q \in Nat /\ q * BudgetWindow <= t
      /\ p \in Nat /\ x < (p + 1) * BudgetWindow
  BY <1>1, Z3
<1>3. q <= p
  <2>1. SUFFICES ASSUME q >= p + 1 PROVE FALSE
    BY <1>2
  <2>2. (p + 1) * BudgetWindow <= q * BudgetWindow
    BY <1>1, <1>2, <2>1, Z3
  <2> QED BY <1>1, <1>2, <2>2, Z3
<1>4. q * BudgetWindow <= p * BudgetWindow
  BY <1>1, <1>2, <1>3, Z3
<1> QED BY <1>4 DEF windowStart

LEMMA WindowStartFixed ==
  ASSUME NEW t \in Nat
  PROVE  windowStart(windowStart(t)) = windowStart(t)
<1>1. BudgetWindow \in Nat \ {0}
  BY RiskAssumption
<1> DEFINE q == t \div BudgetWindow
<1>2. q \in Nat
  BY <1>1, Z3
<1>3. (q * BudgetWindow) \div BudgetWindow = q
  <2> HIDE DEF q
  <2> QED BY <1>1, <1>2, Z3
<1> QED BY <1>3 DEF windowStart

-----------------------------------------------------------------------------
(* Types.                                                                  *)

LEMMA InstantsAreNat == ASSUME TypeOK, NEW t \in Instants PROVE t \in Nat /\ t <= now /\ now - t <= MaxDelay
BY DEF Instants, TypeOK

LEMMA NoRowType == NoRow \in Row /\ DeletedRow \in Row
BY DEF NoRow, DeletedRow, Row

LEMMA RolledType ==
  ASSUME TypeOK, NEW t
  PROVE  rolledRows(t) \in [Ids -> Row] /\ rolledStarts(t) \subseteq Ids
<1>1. PurgedRows(t) \in [Ids -> Row]
  BY NoRowType DEF PurgedRows, TypeOK
<1>2. rolledRows(t) \in [Ids -> Row]
  BY <1>1 DEF rolledRows, TypeOK
<1> QED BY <1>2 DEF rolledStarts, RecentStarts, TypeOK

LEMMA AcquireType ==
  ASSUME TypeOK, NEW i \in Ids, NEW u \in Units, NEW t \in Instants, acquire(i, u, t)
  PROVE  TypeOK'
<1>1. t \in Nat /\ leaseExpiry(t) \in Nat /\ u \in Nat /\ windowStart(t) \in Nat
  BY InstantsAreNat, WindowStart, RiskAssumption DEF leaseExpiry
<1>2. [NoRow EXCEPT !.status = "active", !.reserved = u, !.expiresAt = leaseExpiry(t)] \in Row
  BY <1>1 DEF NoRow, Row
<1>3. reservation' \in [Ids -> Row]
  BY <1>2, RolledType DEF acquire
<1>4. starts' \subseteq Ids
  BY RolledType DEF acquire
<1> QED BY <1>1, <1>3, <1>4 DEF acquire, TypeOK

LEMMA FinishType ==
  ASSUME TypeOK, NEW i \in Ids, NEW status \in {"settled", "conservative"}, NEW u \in Nat,
         NEW t \in Instants, finishReservation(i, status, u, t)
  PROVE  TypeOK'
<1>1. t \in Nat
  BY InstantsAreNat
<1>2. [reservation[i] EXCEPT !.status = status, !.settled = u, !.terminalAt = t] \in Row
  BY <1>1 DEF TypeOK, Row
<1>3. reservation' \in [Ids -> Row]
  BY <1>2 DEF finishReservation, TypeOK
<1> QED BY <1>3 DEF finishReservation, TypeOK

LEMMA RecoverType ==
  ASSUME TypeOK, NEW i \in Ids, NEW t \in Instants, recoverExpiredLease(i, t)
  PROVE  TypeOK'
<1>1. t \in Nat
  BY InstantsAreNat
<1>2. [reservation[i] EXCEPT !.status = "conservative", !.terminalAt = t] \in Row
  BY <1>1 DEF TypeOK, Row
<1> QED BY <1>2 DEF recoverExpiredLease, TypeOK

LEMMA InitType == Init => TypeOK
<1> SUFFICES ASSUME Init PROVE TypeOK
  OBVIOUS
<1> QED BY NoRowType DEF Init, TypeOK, Never

LEMMA NextType == TypeOK /\ [Next]_vars => TypeOK'
<1> SUFFICES ASSUME TypeOK, [Next]_vars PROVE TypeOK'
  OBVIOUS
<1>1. CASE Tick
  BY <1>1 DEF Tick, TypeOK
<1>2. ASSUME NEW i \in Ids, NEW t \in Instants, NEW u \in Units, acquire(i, u, t) PROVE TypeOK'
  BY <1>2, AcquireType
<1>3. ASSUME NEW i \in Ids, NEW t \in Instants, NEW u \in ActualUnits, settle(i, u, t) PROVE TypeOK'
  BY <1>3, FinishType, RiskAssumption DEF settle
<1>4. ASSUME NEW i \in Ids, NEW t \in Instants, closeUnknown(i, t) PROVE TypeOK'
  BY <1>4, FinishType DEF closeUnknown
<1>5. ASSUME NEW i \in Ids, NEW t \in Instants, recoverExpiredLease(i, t) PROVE TypeOK'
  BY <1>5, RecoverType
<1>6. ASSUME NEW i \in Ids, LeaseDropped(i) PROVE TypeOK'
  BY <1>6 DEF LeaseDropped, TypeOK
<1>7. CASE UNCHANGED vars
  BY <1>7 DEF vars, TypeOK
<1> QED BY <1>1, <1>2, <1>3, <1>4, <1>5, <1>6, <1>7 DEF Next

(* Every column of the guard's tables holds a value of its type, whatever  *)
(* the gateways' delays (initialize, acquire, finishReservation,           *)
(* recoverExpiredLease).                                                   *)
THEOREM GuardTypeCorrect == Spec => []TypeOK
<1> QED BY InitType, NextType, PTL DEF Spec

-----------------------------------------------------------------------------
(* Slots.                                                                  *)

LEMMA ActiveIsFinite == IsFiniteSet(Active) /\ IsFiniteSet(Active')
BY RiskAssumption, FS_Subset DEF Active

(* Only acquire makes a reservation active.                                *)
LEMMA OthersFree ==
  ASSUME TypeOK, Next, \A i \in Ids, t \in Instants, u \in Units : ~acquire(i, u, t)
  PROVE  Active' \subseteq Active
<1>1. CASE Tick
  BY <1>1 DEF Tick, Active
<1>2. ASSUME NEW i \in Ids, NEW t \in Instants, NEW u \in ActualUnits, settle(i, u, t)
      PROVE Active' \subseteq Active
  BY <1>2 DEF settle, finishReservation, Active, TypeOK, Row
<1>3. ASSUME NEW i \in Ids, NEW t \in Instants, closeUnknown(i, t) PROVE Active' \subseteq Active
  BY <1>3 DEF closeUnknown, finishReservation, Active, TypeOK, Row
<1>4. ASSUME NEW i \in Ids, NEW t \in Instants, recoverExpiredLease(i, t) PROVE Active' \subseteq Active
  BY <1>4 DEF recoverExpiredLease, Active, TypeOK, Row
<1>5. ASSUME NEW i \in Ids, LeaseDropped(i) PROVE Active' \subseteq Active
  BY <1>5 DEF LeaseDropped, Active
<1> QED BY <1>1, <1>2, <1>3, <1>4, <1>5 DEF Next

LEMMA AcquireAddsOne ==
  ASSUME TypeOK, NEW i \in Ids, NEW u \in Units, NEW t \in Instants, acquire(i, u, t)
  PROVE  Active' \subseteq Active \cup {i}
<1>1. \A j \in Ids : rolledRows(t)[j].status = "active" => reservation[j].status = "active"
  BY DEF rolledRows, PurgedRows, DeletedRow, NoRow
<1> QED BY <1>1, RolledType DEF acquire, Active

LEMMA NextInFlight == TypeOK /\ InFlightLimited /\ [Next]_vars => InFlightLimited'
<1> SUFFICES ASSUME TypeOK, InFlightLimited, [Next]_vars PROVE InFlightLimited'
  OBVIOUS
<1>0. InFlightLimit \in Nat
  BY RiskAssumption
<1>1. CASE UNCHANGED vars
  BY <1>1 DEF vars, InFlightLimited, Active
<1>2. ASSUME NEW i \in Ids, NEW t \in Instants, NEW u \in Units, acquire(i, u, t)
      PROVE InFlightLimited'
  <2>1. Cardinality(Active) < InFlightLimit
    BY <1>2 DEF acquire, SlotFree
  <2>2. IsFiniteSet(Active \cup {i}) /\ Cardinality(Active \cup {i}) <= Cardinality(Active) + 1
    BY ActiveIsFinite, FS_AddElement, FS_CardinalityType
  <2>3. Cardinality(Active') <= Cardinality(Active \cup {i})
    BY <2>2, <1>2, AcquireAddsOne, FS_Subset
  <2> QED BY <1>0, <2>1, <2>2, <2>3, ActiveIsFinite, FS_CardinalityType DEF InFlightLimited
<1>3. CASE Next /\ \A i \in Ids, t \in Instants, u \in Units : ~acquire(i, u, t)
  <2>1. Cardinality(Active') <= Cardinality(Active)
    BY <1>3, OthersFree, ActiveIsFinite, FS_Subset
  <2> QED BY <1>0, <2>1, ActiveIsFinite, FS_CardinalityType DEF InFlightLimited
<1> QED BY <1>1, <1>2, <1>3

LEMMA InitInFlight == Init => InFlightLimited
<1> SUFFICES ASSUME Init PROVE InFlightLimited
  OBVIOUS
<1>1. Active = {}
  BY DEF Init, Active, NoRow
<1> QED BY <1>1, FS_EmptySet, RiskAssumption DEF InFlightLimited

(* Gateways together never hold more active reservations than maxInFlight, *)
(* across window rolls, crashes and recoveries (the count in acquire).     *)
THEOREM SlotsLimited == Spec => []InFlightLimited
<1> QED BY InitType, NextType, InitInFlight, NextInFlight, PTL DEF Spec

-----------------------------------------------------------------------------
(* What a step may do to a reservation that ended.                         *)

EndedKept ==
  \A i \in Ids : Ended(reservation[i]) =>
    /\ reservation'[i] \in {reservation[i], DeletedRow}
    /\ reservation[i].terminalAt >= window' => reservation'[i] = reservation[i]

LEMMA StepKeepsEnded == TypeOK /\ [Next]_vars => EndedKept
<1> SUFFICES ASSUME TypeOK, [Next]_vars PROVE EndedKept
  OBVIOUS
<1>1. CASE Tick
  BY <1>1 DEF Tick, EndedKept
<1>2. ASSUME NEW i \in Ids, NEW t \in Instants, NEW u \in Units, acquire(i, u, t) PROVE EndedKept
  <2>1. ASSUME NEW j \in Ids, Ended(reservation[j])
        PROVE  /\ reservation'[j] \in {reservation[j], DeletedRow}
               /\ reservation[j].terminalAt >= window' => reservation'[j] = reservation[j]
    <3>1. i # j
      BY <1>2, <2>1 DEF acquire, Ended
    <3>2. reservation'[j] = rolledRows(t)[j]
      BY <1>2, <3>1, RolledType DEF acquire
    <3>3. CASE windowStart(t) = window
      BY <3>2, <3>3 DEF rolledRows
    <3>4. CASE windowStart(t) # window
      <4>1. rolledRows(t)[j] = IF reservation[j].terminalAt < windowStart(t)
                               THEN DeletedRow ELSE reservation[j]
        BY <2>1, <3>4 DEF rolledRows, PurgedRows
      <4>2. reservation[j].terminalAt \in Nat /\ windowStart(t) \in Nat
        BY InstantsAreNat, WindowStart DEF TypeOK, Row
      <4>3. window' = windowStart(t)
        BY <1>2 DEF acquire
      <4> QED BY <3>2, <4>1, <4>2, <4>3
    <3> QED BY <3>3, <3>4
  <2> QED BY <2>1 DEF EndedKept
<1>3. ASSUME NEW i \in Ids, NEW t \in Instants, NEW u \in ActualUnits, settle(i, u, t) PROVE EndedKept
  BY <1>3 DEF settle, finishReservation, Finishable, EndedKept, Ended, TypeOK
<1>4. ASSUME NEW i \in Ids, NEW t \in Instants, closeUnknown(i, t) PROVE EndedKept
  BY <1>4 DEF closeUnknown, finishReservation, Finishable, EndedKept, Ended, TypeOK
<1>5. ASSUME NEW i \in Ids, NEW t \in Instants, recoverExpiredLease(i, t) PROVE EndedKept
  BY <1>5 DEF recoverExpiredLease, EndedKept, Ended, TypeOK
<1>6. ASSUME NEW i \in Ids, LeaseDropped(i) PROVE EndedKept
  BY <1>6 DEF LeaseDropped, EndedKept
<1>7. CASE UNCHANGED vars
  BY <1>7 DEF vars, EndedKept
<1> QED BY <1>1, <1>2, <1>3, <1>4, <1>5, <1>6, <1>7 DEF Next

(* A reservation that ended keeps its status and units until it is         *)
(* dropped: a late settle of a recovered reservation changes nothing       *)
(* (finishReservation's WHERE status = 'active').                          *)
THEOREM EndedIsFinal == Spec => EndedNeverRewritten
<1>1. TypeOK /\ [Next]_vars =>
        [\A i \in Ids : Ended(reservation[i]) => reservation'[i] \in {reservation[i], DeletedRow}]_vars
  BY StepKeepsEnded DEF EndedKept
<1> QED BY <1>1, GuardTypeCorrect, PTL DEF Spec, EndedNeverRewritten

(* A reservation that ended in the current window still counts in it: the  *)
(* roll in acquire drops only earlier ones.                                *)
THEOREM CurrentExposureStays == Spec => CurrentExposureKept
<1>1. TypeOK /\ [Next]_vars =>
        [\A i \in Ids : Ended(reservation[i]) /\ reservation[i].terminalAt >= window'
                          => reservation'[i] = reservation[i]]_vars
  BY StepKeepsEnded DEF EndedKept
<1> QED BY <1>1, GuardTypeCorrect, PTL DEF Spec, CurrentExposureKept

-----------------------------------------------------------------------------
(* Starts.                                                                 *)

(* The list holds every start of the current budget window that is still   *)
(* within the starts window, and no start is of a later budget window.     *)
ListComplete ==
  \A j \in Ids : admitted[j] # Never =>
    /\ windowStart(admitted[j]) <= window
    /\ admitted[j] >= window /\ admitted[j] > now - StartsWindow => j \in starts

(* An acquire keeps those starts in the list.                              *)
LEMMA AcquireKeepsStarts ==
  ASSUME TypeOK, ListComplete, NEW i \in Ids, NEW u \in Units, NEW t \in Instants, acquire(i, u, t),
         NEW j \in Ids, admitted[j] # Never, admitted[j] >= windowStart(t),
         admitted[j] > now - StartsWindow
  PROVE  j \in rolledStarts(t)
<1> DEFINE s == admitted[j]
<1>1. s \in Nat /\ t \in Nat /\ t <= now /\ now \in Nat /\ window \in Nat /\ StartsWindow \in Nat
  BY InstantsAreNat, RiskAssumption DEF TypeOK
<1>2. windowStart(t) \in Nat /\ windowStart(s) \in Nat
  BY <1>1, WindowStart
<1>3. window <= windowStart(t)
  BY DEF acquire
<1>4. windowStart(s) <= window /\ j \in starts
  BY <1>1, <1>2, <1>3 DEF ListComplete
<1>5. windowStart(t) <= windowStart(s)
  BY <1>1, <1>2, WindowStartMonotone, WindowStartFixed
<1>6. windowStart(t) = window
  BY <1>1, <1>2, <1>3, <1>4, <1>5
<1>7. s > t - StartsWindow
  BY <1>1
<1> QED BY <1>4, <1>6, <1>7 DEF rolledStarts, RecentStarts

LEMMA InitListComplete == Init => ListComplete
BY DEF Init, ListComplete

LEMMA NextListComplete == TypeOK /\ ListComplete /\ [Next]_vars => ListComplete'
<1> SUFFICES ASSUME TypeOK, ListComplete, [Next]_vars PROVE ListComplete'
  OBVIOUS
<1>1. ASSUME NEW i \in Ids, NEW t \in Instants, NEW u \in Units, acquire(i, u, t) PROVE ListComplete'
  <2>1. /\ t \in Nat /\ now \in Nat /\ windowStart(t) \in Nat /\ window \in Nat
        /\ window <= windowStart(t) /\ window' = windowStart(t) /\ now' = now
        /\ starts' = rolledStarts(t) \cup {i} /\ admitted' = [admitted EXCEPT ![i] = t]
    BY <1>1, InstantsAreNat, WindowStart DEF acquire, TypeOK
  <2>2. ASSUME NEW j \in Ids, admitted'[j] # Never
        PROVE  /\ windowStart(admitted'[j]) <= window'
               /\ admitted'[j] >= window' /\ admitted'[j] > now' - StartsWindow => j \in starts'
    <3>1. CASE j = i
      BY <2>1, <3>1 DEF TypeOK
    <3>2. CASE j # i
      <4>1. admitted'[j] = admitted[j] /\ admitted[j] \in Nat
        BY <2>1, <2>2, <3>2 DEF TypeOK
      <4>2. windowStart(admitted[j]) <= window /\ windowStart(admitted[j]) \in Nat
        BY <2>2, <4>1, WindowStart DEF ListComplete
      <4>3. admitted[j] >= windowStart(t) /\ admitted[j] > now - StartsWindow => j \in rolledStarts(t)
        BY <1>1, <2>2, <4>1, AcquireKeepsStarts
      <4> QED BY <2>1, <4>1, <4>2, <4>3
    <3> QED BY <3>1, <3>2
  <2> QED BY <2>2 DEF ListComplete, windowStart
<1>2. CASE Tick
  BY <1>2, RiskAssumption DEF Tick, ListComplete, TypeOK, windowStart
<1>3. CASE UNCHANGED <<now, window, starts, admitted>>
  BY <1>3 DEF ListComplete, windowStart
<1> QED BY <1>1, <1>2, <1>3 DEF Next, settle, closeUnknown, finishReservation, recoverExpiredLease,
                                LeaseDropped, vars

(* The starts that StartsLimitedInWindow counts at x.                      *)
CountedStarts(x) ==
  {i \in StartsWithin(x - (StartsWindow - MaxDelay), x) : admitted[i] >= windowStart(x)}

LEMMA AcquireLimitsStarts ==
  ASSUME TypeOK, ListComplete, NEW x \in Nat, NEW i \in Ids, NEW t \in Instants, NEW u \in Units,
         acquire(i, u, t), i \in CountedStarts(x)'
  PROVE  CountedStarts(x)' \subseteq starts'
<1>1. /\ t \in Nat /\ t <= now /\ now \in Nat /\ now - t <= MaxDelay
      /\ StartsWindow \in Nat /\ MaxDelay \in Nat
  BY InstantsAreNat, RiskAssumption DEF TypeOK
<1>2. starts' = rolledStarts(t) \cup {i} /\ admitted' = [admitted EXCEPT ![i] = t]
  BY DEF acquire
<1>3. t <= x
  BY <1>2 DEF CountedStarts, StartsWithin, TypeOK
<1>4. windowStart(t) <= windowStart(x) /\ windowStart(t) \in Nat /\ windowStart(x) \in Nat
  BY <1>1, <1>3, WindowStart, WindowStartMonotone
<1>5. SUFFICES ASSUME NEW j \in CountedStarts(x)', j # i PROVE j \in rolledStarts(t)
  BY <1>2
<1>6. /\ j \in Ids /\ admitted[j] # Never /\ admitted[j] \in Nat
      /\ admitted[j] > x - (StartsWindow - MaxDelay) /\ admitted[j] >= windowStart(x)
  BY <1>2, <1>5 DEF CountedStarts, StartsWithin, TypeOK, windowStart
<1>7. admitted[j] > now - StartsWindow /\ admitted[j] >= windowStart(t)
  BY <1>1, <1>3, <1>4, <1>6
<1> QED BY <1>6, <1>7, AcquireKeepsStarts

LEMMA CountedIsFinite == ASSUME NEW x PROVE IsFiniteSet(CountedStarts(x)) /\ IsFiniteSet(CountedStarts(x)')
BY RiskAssumption, FS_Subset DEF CountedStarts, StartsWithin

LEMMA AcquiredList ==
  ASSUME TypeOK, NEW i \in Ids, NEW t \in Instants, NEW u \in Units, acquire(i, u, t)
  PROVE  IsFiniteSet(starts') /\ Cardinality(starts') <= StartsLimit
<1>1. IsFiniteSet(rolledStarts(t)) /\ Cardinality(rolledStarts(t)) \in Nat
  BY RolledType, RiskAssumption, FS_Subset, FS_CardinalityType
<1>2. Cardinality(rolledStarts(t)) < StartsLimit /\ starts' = rolledStarts(t) \cup {i}
  BY DEF acquire, StartFree
<1>3. IsFiniteSet(starts') /\ Cardinality(starts') <= Cardinality(rolledStarts(t)) + 1
  <2> DEFINE S == rolledStarts(t)
  <2>1. IsFiniteSet(S) /\ Cardinality(S) \in Nat
    BY <1>1
  <2> HIDE DEF S
  <2>2. IsFiniteSet(S \cup {i}) /\ Cardinality(S \cup {i}) <= Cardinality(S) + 1
    <3>1. /\ IsFiniteSet(S \cup {i})
          /\ Cardinality(S \cup {i}) = IF i \in S THEN Cardinality(S) ELSE Cardinality(S) + 1
      BY <2>1, FS_AddElement, Zenon
    <3> QED BY <2>1, <3>1
  <2> QED BY <1>2, <2>2 DEF S
<1>4. StartsLimit \in Nat /\ Cardinality(starts') \in Nat
  BY <1>3, RiskAssumption, FS_CardinalityType
<1> QED BY <1>1, <1>2, <1>3, <1>4

LEMMA NextStartsLimited ==
  TypeOK /\ ListComplete /\ StartsLimitedInWindow /\ [Next]_vars => StartsLimitedInWindow'
<1> SUFFICES ASSUME TypeOK, ListComplete, StartsLimitedInWindow, [Next]_vars,
                    NEW x \in 0 .. MaxTime
             PROVE  Cardinality(CountedStarts(x)') <= StartsLimit
  BY DEF StartsLimitedInWindow, CountedStarts
<1>0. x \in Nat /\ StartsLimit \in Nat /\ Cardinality(CountedStarts(x)) <= StartsLimit
  BY RiskAssumption DEF StartsLimitedInWindow, CountedStarts
<1>1. ASSUME NEW i \in Ids, NEW t \in Instants, NEW u \in Units, acquire(i, u, t)
      PROVE Cardinality(CountedStarts(x)') <= StartsLimit
  <2>1. CASE i \in CountedStarts(x)'
    <3>1. Cardinality(CountedStarts(x)') <= Cardinality(starts')
      BY <1>0, <1>1, <2>1, AcquireLimitsStarts, AcquiredList, FS_Subset
    <3> QED BY <1>0, <1>1, <3>1, AcquiredList, CountedIsFinite, FS_CardinalityType
  <2>2. CASE i \notin CountedStarts(x)'
    <3>1. CountedStarts(x)' \subseteq CountedStarts(x)
      BY <1>1, <2>2 DEF acquire, CountedStarts, StartsWithin, TypeOK, windowStart
    <3>2. Cardinality(CountedStarts(x)') <= Cardinality(CountedStarts(x))
      BY <3>1, CountedIsFinite, FS_Subset
    <3> QED BY <1>0, <3>2, CountedIsFinite, FS_CardinalityType
  <2> QED BY <2>1, <2>2
<1>2. CASE UNCHANGED admitted
  BY <1>0, <1>2 DEF CountedStarts, StartsWithin, windowStart
<1> QED BY <1>1, <1>2 DEF Next, Tick, settle, closeUnknown, finishReservation, recoverExpiredLease,
                          LeaseDropped, vars

LEMMA InitStartsLimited == Init => StartsLimitedInWindow
<1> SUFFICES ASSUME Init, NEW x \in 0 .. MaxTime PROVE Cardinality(CountedStarts(x)) <= StartsLimit
  BY DEF StartsLimitedInWindow, CountedStarts
<1>1. CountedStarts(x) = {}
  BY DEF Init, CountedStarts, StartsWithin
<1> QED BY <1>1, FS_EmptySet, RiskAssumption

(* Within one budget window, a period shorter than the starts window by    *)
(* the gateways' delay sees at most requestStartsLimit starts: the list    *)
(* that acquire filters and counts has not lost one of them.               *)
THEOREM StartsAreLimited == Spec => []StartsLimitedInWindow
<1> QED BY InitType, NextType, InitListComplete, NextListComplete, InitStartsLimited,
           NextStartsLimited, PTL DEF Spec

-----------------------------------------------------------------------------
(* Exposure.                                                               *)

CountedOf(row) == IF row.status = "settled" /\ row.settled < row.reserved THEN row.settled
                  ELSE row.reserved
ExposedOf(row) == IF row.status = "settled" THEN row.settled ELSE row.reserved
CountedBy(rows) == MapThenSumSet(LAMBDA i : CountedOf(rows[i]), Ids)

(* The sums of the guard are totals over all reservations.                 *)
LEMMA CountedIsTotal ==
  ASSUME NEW rows
  PROVE  CountedBy(rows) = Total([i \in Ids |-> CountedOf(rows[i])], Ids)
<1> DEFINE f == [i \in Ids |-> CountedOf(rows[i])]
           P(k) == k = [T \in SUBSET Ids |-> IF T = {} THEN 0
                          ELSE CountedOf(rows[CHOOSE e \in T : TRUE])
                                 + k[T \ {CHOOSE e \in T : TRUE}]]
           c == CHOOSE k : P(k)
<1>0. IsFiniteSet(Ids)
  BY RiskAssumption
<1>1. PICK g : Adds(g, f, Ids)
  BY <1>0, AddsExists
<1>2. ASSUME NEW k PROVE P(k) <=> Adds(k, f, Ids)
  <2>1. \A T \in SUBSET Ids : T # {} => f[First(T)] = CountedOf(rows[CHOOSE e \in T : TRUE])
    BY DEF First
  <2> HIDE DEF f
  <2> QED BY <2>1 DEF Adds, First
<1>3. CountedBy(rows) = c[Ids]
  BY DEF CountedBy, MapThenSumSet, MapThenFoldSet
<1> HIDE DEF P, f
<1>4. P(c)
  BY <1>1, <1>2, Zenon
<1> HIDE DEF c
<1> QED BY <1>0, <1>2, <1>3, <1>4, TotalIs DEF f

LEMMA ExposureIsTotal ==
  ASSUME NEW rows
  PROVE  Exposure(rows) = Total([i \in Ids |-> ExposedOf(rows[i])], Ids)
<1> DEFINE f == [i \in Ids |-> ExposedOf(rows[i])]
           P(k) == k = [T \in SUBSET Ids |-> IF T = {} THEN 0
                          ELSE (IF rows[CHOOSE e \in T : TRUE].status = "settled"
                                THEN rows[CHOOSE e \in T : TRUE].settled
                                ELSE rows[CHOOSE e \in T : TRUE].reserved)
                                 + k[T \ {CHOOSE e \in T : TRUE}]]
           c == CHOOSE k : P(k)
<1>0. IsFiniteSet(Ids)
  BY RiskAssumption
<1>1. PICK g : Adds(g, f, Ids)
  BY <1>0, AddsExists
<1>2. ASSUME NEW k PROVE P(k) <=> Adds(k, f, Ids)
  <2>1. \A T \in SUBSET Ids : T # {} =>
          f[First(T)] = (IF rows[CHOOSE e \in T : TRUE].status = "settled"
                         THEN rows[CHOOSE e \in T : TRUE].settled
                         ELSE rows[CHOOSE e \in T : TRUE].reserved)
    BY DEF First, ExposedOf
  <2> HIDE DEF f
  <2> QED BY <2>1 DEF Adds, First
<1>3. Exposure(rows) = c[Ids]
  BY DEF Exposure, MapThenSumSet, MapThenFoldSet
<1> HIDE DEF P, f
<1>4. P(c)
  BY <1>1, <1>2, Zenon
<1> HIDE DEF c
<1> QED BY <1>0, <1>2, <1>3, <1>4, TotalIs DEF f

LEMMA LimitedIsCounted ==
  /\ ExposureLimited <=> CountedBy(reservation) <= UnitsLimit
  /\ ExposureLimited' <=> CountedBy(reservation') <= UnitsLimit
<1>1. MapThenSumSet(CountedUnits, Ids) = CountedBy(reservation)
  BY DEF CountedUnits, CountedBy, CountedOf, MapThenSumSet, MapThenFoldSet
<1>2. MapThenSumSet(CountedUnits, Ids)' = CountedBy(reservation')
  BY DEF CountedUnits, CountedBy, CountedOf, MapThenSumSet, MapThenFoldSet
<1> QED BY <1>1, <1>2 DEF ExposureLimited

LEMMA CountedIsNat ==
  ASSUME NEW row \in Row
  PROVE  CountedOf(row) \in Nat /\ ExposedOf(row) \in Nat /\ CountedOf(row) <= ExposedOf(row)
BY DEF Row, CountedOf, ExposedOf

(* A row that was never written or was dropped counts nothing.             *)
BlankCountsNothing ==
  \A i \in Ids : reservation[i].status \in {"absent", "deleted"} => reservation[i].reserved = 0

(* A step under which no reservation counts more keeps the limit.          *)
LEMMA LessIsCounted ==
  ASSUME TypeOK, TypeOK', ExposureLimited,
         \A i \in Ids : CountedOf(reservation'[i]) <= CountedOf(reservation[i])
  PROVE  ExposureLimited'
<1> DEFINE f == [i \in Ids |-> CountedOf(reservation[i])]
           h == [i \in Ids |-> CountedOf(reservation'[i])]
<1>1. CountedBy(reservation) = Total(f, Ids) /\ CountedBy(reservation') = Total(h, Ids)
  BY CountedIsTotal
<1>2. \A i \in Ids : f[i] \in Int /\ h[i] \in Int /\ h[i] <= f[i]
  <2>1. \A i \in Ids : reservation[i] \in Row /\ reservation'[i] \in Row
    BY DEF TypeOK
  <2> QED BY <2>1, CountedIsNat
<1> HIDE DEF f, h
<1>3. IsFiniteSet(Ids) /\ UnitsLimit \in Nat
  BY RiskAssumption
<1>4. Total(h, Ids) <= Total(f, Ids)
  BY <1>2, <1>3, TotalMonotone
<1>5. Total(f, Ids) \in Int /\ Total(h, Ids) \in Int
  BY <1>2, <1>3, TotalInt
<1>6. CountedBy(reservation) <= UnitsLimit
  BY LimitedIsCounted
<1>7. CountedBy(reservation') <= UnitsLimit
  BY <1>1, <1>3, <1>4, <1>5, <1>6
<1> QED BY <1>7, LimitedIsCounted

(* An acquire adds its units to an exposure that had room for them: what   *)
(* a roll keeps is counted in full.                                        *)
LEMMA AcquireKeepsLimit ==
  ASSUME TypeOK, BlankCountsNothing, NEW i \in Ids, NEW u \in Units, NEW t \in Instants,
         acquire(i, u, t)
  PROVE  BlankCountsNothing' /\ ExposureLimited'
<1> DEFINE row == [NoRow EXCEPT !.status = "active", !.reserved = u, !.expiresAt = leaseExpiry(t)]
           rolled == rolledRows(t)
           f == [j \in Ids |-> ExposedOf(rolled[j])]
           g == [f EXCEPT ![i] = u]
           h == [j \in Ids |-> CountedOf(reservation'[j])]
<1>0. TypeOK'
  BY AcquireType
<1>1. rolled \in [Ids -> Row] /\ u \in Nat /\ IsFiniteSet(Ids) /\ UnitsLimit \in Nat
  BY RolledType, RiskAssumption
<1>2. /\ reservation' = [rolled EXCEPT ![i] = row]
      /\ reservation[i].status = "absent"
      /\ Exposure(rolled) + u <= UnitsLimit
  BY DEF acquire
<1>3. /\ rolled[i] = reservation[i]
      /\ \A j \in Ids : rolled[j] = reservation[j] \/ rolled[j] = DeletedRow
  BY <1>2 DEF rolledRows, PurgedRows, Ended
<1>4. row.status = "active" /\ row.reserved = u
  BY DEF NoRow
<1>5. DeletedRow.reserved = 0 /\ DeletedRow.status = "deleted"
  BY DEF DeletedRow, NoRow
<1> HIDE DEF row, rolled
<1>6. reservation'[i] = row /\ \A j \in Ids \ {i} : reservation'[j] = rolled[j]
  BY <1>1, <1>2
<1>7. BlankCountsNothing'
  BY <1>3, <1>4, <1>5, <1>6 DEF BlankCountsNothing
<1>8. rolled[i].reserved = 0 /\ f[i] = 0
  BY <1>2, <1>3 DEF BlankCountsNothing, ExposedOf
<1>9. h[i] = u /\ g[i] = u
  BY <1>4, <1>6 DEF CountedOf
<1>10. \A j \in Ids : f[j] \in Int
  BY <1>1, CountedIsNat
<1>11. \A j \in Ids \ {i} : g[j] = f[j] /\ h[j] <= f[j] /\ h[j] \in Int
  <2>1. \A j \in Ids : CountedOf(rolled[j]) <= ExposedOf(rolled[j]) /\ CountedOf(rolled[j]) \in Nat
    BY <1>1, CountedIsNat
  <2> QED BY <1>6, <2>1
<1>12. Exposure(rolled) = Total(f, Ids)
  BY ExposureIsTotal
<1>13. CountedBy(reservation') = Total(h, Ids)
  BY CountedIsTotal
<1> HIDE DEF f, g, h
<1>14. Total(g, Ids) = Total(f, Ids) - f[i] + g[i]
  <2>1. \A j \in Ids : f[j] \in Int /\ g[j] \in Int
    BY <1>1, <1>9, <1>10, <1>11
  <2>2. \A j \in Ids \ {i} : g[j] = f[j]
    BY <1>11
  <2> QED BY <1>1, <2>1, <2>2, TotalChanged
<1>15. Total(h, Ids) <= Total(g, Ids)
  <2>1. \A j \in Ids : h[j] \in Int /\ g[j] \in Int /\ h[j] <= g[j]
    BY <1>1, <1>9, <1>10, <1>11
  <2> QED BY <1>1, <2>1, TotalMonotone
<1>16. Total(f, Ids) \in Int /\ Total(h, Ids) \in Int
  <2>1. \A j \in Ids : h[j] \in Int
    BY <1>1, <1>9, <1>11
  <2> QED BY <1>1, <1>10, <2>1, TotalInt
<1>17. CountedBy(reservation') <= UnitsLimit
  BY <1>1, <1>2, <1>8, <1>9, <1>12, <1>13, <1>14, <1>15, <1>16
<1> QED BY <1>7, <1>17, LimitedIsCounted

LEMMA FinishKeepsLimit ==
  ASSUME TypeOK, BlankCountsNothing, ExposureLimited, NEW i \in Ids,
         NEW status \in {"settled", "conservative"}, NEW u \in Nat,
         NEW t \in Instants, finishReservation(i, status, u, t)
  PROVE  BlankCountsNothing' /\ ExposureLimited'
<1> DEFINE row == [reservation[i] EXCEPT !.status = status, !.settled = u, !.terminalAt = t]
<1>0. TypeOK'
  BY FinishType
<1>1. reservation[i] \in Row /\ reservation[i].status = "active"
      /\ reservation' = [reservation EXCEPT ![i] = row]
  BY DEF finishReservation, Finishable, TypeOK
<1>2. row.status = status /\ row.settled = u /\ row.reserved = reservation[i].reserved
  BY <1>1 DEF Row
<1> HIDE DEF row
<1>3. reservation'[i] = row /\ \A j \in Ids \ {i} : reservation'[j] = reservation[j]
  BY <1>1 DEF TypeOK
<1>4. BlankCountsNothing'
  BY <1>2, <1>3 DEF BlankCountsNothing
<1>5. reservation[i].reserved \in Nat
  BY <1>1 DEF Row
<1>6. CountedOf(row) <= CountedOf(reservation[i])
  BY <1>1, <1>2, <1>5 DEF CountedOf
<1>7. \A j \in Ids : reservation[j] \in Row
  BY DEF TypeOK
<1>8. \A j \in Ids : CountedOf(reservation'[j]) <= CountedOf(reservation[j])
  BY <1>3, <1>6, <1>7, CountedIsNat
<1> QED BY <1>0, <1>4, <1>8, LessIsCounted

LEMMA RecoverKeepsLimit ==
  ASSUME TypeOK, BlankCountsNothing, ExposureLimited, NEW i \in Ids,
         NEW t \in Instants, recoverExpiredLease(i, t)
  PROVE  BlankCountsNothing' /\ ExposureLimited'
<1> DEFINE row == [reservation[i] EXCEPT !.status = "conservative", !.terminalAt = t]
<1>0. TypeOK'
  BY RecoverType
<1>1. reservation[i] \in Row /\ reservation[i].status = "active"
      /\ reservation' = [reservation EXCEPT ![i] = row]
  BY DEF recoverExpiredLease, TypeOK
<1>2. row.status = "conservative" /\ row.reserved = reservation[i].reserved
  BY <1>1 DEF Row
<1> HIDE DEF row
<1>3. reservation'[i] = row /\ \A j \in Ids \ {i} : reservation'[j] = reservation[j]
  BY <1>1 DEF TypeOK
<1>4. BlankCountsNothing'
  BY <1>2, <1>3 DEF BlankCountsNothing
<1>5. reservation[i].reserved \in Nat
  BY <1>1 DEF Row
<1>6. CountedOf(row) <= CountedOf(reservation[i])
  BY <1>1, <1>2, <1>5 DEF CountedOf
<1>7. \A j \in Ids : reservation[j] \in Row
  BY DEF TypeOK
<1>8. \A j \in Ids : CountedOf(reservation'[j]) <= CountedOf(reservation[j])
  BY <1>3, <1>6, <1>7, CountedIsNat
<1> QED BY <1>0, <1>4, <1>8, LessIsCounted

LEMMA NextWithinUnits ==
  TypeOK /\ BlankCountsNothing /\ ExposureLimited /\ [Next]_vars
    => (BlankCountsNothing /\ ExposureLimited)'
<1> SUFFICES ASSUME TypeOK, BlankCountsNothing, ExposureLimited, [Next]_vars
             PROVE  BlankCountsNothing' /\ ExposureLimited'
  OBVIOUS
<1>1. ASSUME NEW i \in Ids, NEW t \in Instants, NEW u \in Units, acquire(i, u, t)
      PROVE  BlankCountsNothing' /\ ExposureLimited'
  BY <1>1, AcquireKeepsLimit
<1>2. ASSUME NEW i \in Ids, NEW t \in Instants, NEW u \in ActualUnits, settle(i, u, t)
      PROVE  BlankCountsNothing' /\ ExposureLimited'
  BY <1>2, FinishKeepsLimit, RiskAssumption DEF settle
<1>3. ASSUME NEW i \in Ids, NEW t \in Instants, closeUnknown(i, t)
      PROVE  BlankCountsNothing' /\ ExposureLimited'
  BY <1>3, FinishKeepsLimit DEF closeUnknown
<1>4. ASSUME NEW i \in Ids, NEW t \in Instants, recoverExpiredLease(i, t)
      PROVE  BlankCountsNothing' /\ ExposureLimited'
  BY <1>4, RecoverKeepsLimit
<1>5. CASE UNCHANGED reservation
  <2>1. BlankCountsNothing'
    BY <1>5 DEF BlankCountsNothing
  <2> QED BY <1>5, <2>1, LimitedIsCounted
<1> QED BY <1>1, <1>2, <1>3, <1>4, <1>5 DEF Next, Tick, LeaseDropped, vars

LEMMA InitWithinUnits == Init => BlankCountsNothing /\ ExposureLimited
<1> SUFFICES ASSUME Init PROVE BlankCountsNothing /\ ExposureLimited
  OBVIOUS
<1> DEFINE f == [i \in Ids |-> CountedOf(reservation[i])]
<1>1. \A i \in Ids : reservation[i].reserved = 0 /\ reservation[i].status = "absent"
  BY DEF Init, NoRow
<1>2. \A i \in Ids : f[i] = 0
  BY <1>1 DEF CountedOf
<1>3. CountedBy(reservation) = Total(f, Ids)
  BY CountedIsTotal
<1> HIDE DEF f
<1>4. Total(f, Ids) = 0 /\ UnitsLimit \in Nat
  BY <1>2, TotalZero, RiskAssumption
<1>5. CountedBy(reservation) <= UnitsLimit
  BY <1>3, <1>4
<1> QED BY <1>1, <1>5, LimitedIsCounted DEF BlankCountsNothing

(* Reserved, unknown and settled units, each reservation up to what it     *)
(* reserved, never exceed maxReservedCreditUnits (currentExposure in       *)
(* acquire), whatever rolls, ends late or is recovered in between.         *)
THEOREM ExposureIsLimited == Spec => []ExposureLimited
BY InitWithinUnits, NextWithinUnits, GuardTypeCorrect, PTL DEF Spec
=============================================================================
