---------------------------- MODULE GatewayProofs ----------------------------
(***************************************************************************)
(* The command service and the gateway's program, for any number of        *)
(* requests, owners, attempts, sources, units, candidates, faults and      *)
(* crashes.  The first part is about the service alone, whoever calls it   *)
(* (ProviderInvocation): its types, its inductive invariant, and what      *)
(* follows from it.  The second part is about the program on top of it     *)
(* (Gateway): that it uses the service as it allows, and what holds when   *)
(* an invocation is over.                                                  *)
(***************************************************************************)
EXTENDS Gateway, FiniteSetTheorems, TLAPS

(* Sums over finite sets, for the budgets and holds, which the model      *)
(* writes as MapThenSumSet. That operator is a recursive function over    *)
(* the subsets of a set that takes an element chosen from each; what it   *)
(* computes is shown by a set with a smallest member (Least) instead of   *)
(* an induction rule: a smallest set of which the claim is false would    *)
(* have a smaller one.                                                    *)

(* The element the sum takes from a set.                                   *)
First(S) == CHOOSE e \in S : TRUE

(* x sums f over every subset of S: the equation that defines the fold.    *)
Adds(x, f, S) ==
  x = [T \in SUBSET S |-> IF T = {} THEN 0 ELSE f[First(T)] + x[T \ {First(T)}]]

(* A set of subsets of a finite set has a member none of whose elements    *)
(* can be taken away.                                                      *)
LEMMA Least ==
  ASSUME NEW S, IsFiniteSet(S), NEW Bad, Bad \subseteq SUBSET S, Bad # {}
  PROVE  \E T \in Bad : \A e \in T : T \ {e} \notin Bad
<1>1. IsWellFoundedOn(StrictSubsetOrdering(S), SUBSET S)
  BY FS_StrictSubsetOrderingWellFounded, FS_FiniteSubsetsOfFinite
<1>2. PICK T \in Bad : \A U \in Bad : <<U, T>> \notin StrictSubsetOrdering(S)
  BY <1>1, WFMin
<1>3. ASSUME NEW e \in T PROVE T \ {e} \notin Bad
  BY <1>2, <1>3 DEF StrictSubsetOrdering
<1> QED BY <1>3

LEMMA FirstIn ==
  ASSUME NEW T, T # {}
  PROVE  First(T) \in T
BY DEF First

LEMMA AddsAt ==
  ASSUME NEW S, NEW f, NEW x, Adds(x, f, S)
  PROVE  \A T \in SUBSET S :
           x[T] = IF T = {} THEN 0 ELSE f[First(T)] + x[T \ {First(T)}]
BY DEF Adds

(* Two sums of the same values are the same, whatever sets they are        *)
(* defined over.                                                           *)
LEMMA AddsAgree ==
  ASSUME NEW S, IsFiniteSet(S), NEW R, NEW f, NEW h, NEW x, NEW k,
         Adds(x, f, S), Adds(k, h, R),
         \A e \in S \cap R : f[e] = h[e],
         NEW U, U \subseteq S, U \subseteq R
  PROVE  x[U] = k[U]
<1> DEFINE Bad == {T \in SUBSET S : T \subseteq R /\ x[T] # k[T]}
<1>1. SUFFICES ASSUME Bad # {} PROVE FALSE
  OBVIOUS
<1>2. PICK T \in Bad : \A e \in T : T \ {e} \notin Bad
  <2>1. Bad \subseteq SUBSET S
    OBVIOUS
  <2> HIDE DEF Bad
  <2> QED BY <1>1, <2>1, Least
<1>3. /\ x[T] = IF T = {} THEN 0 ELSE f[First(T)] + x[T \ {First(T)}]
      /\ k[T] = IF T = {} THEN 0 ELSE h[First(T)] + k[T \ {First(T)}]
  <2>1. T \in SUBSET S /\ T \in SUBSET R
    OBVIOUS
  <2> HIDE DEF Bad
  <2>2. \A V \in SUBSET S : x[V] = IF V = {} THEN 0 ELSE f[First(V)] + x[V \ {First(V)}]
    BY DEF Adds
  <2>3. \A V \in SUBSET R : k[V] = IF V = {} THEN 0 ELSE h[First(V)] + k[V \ {First(V)}]
    BY DEF Adds
  <2> QED BY <2>1, <2>2, <2>3
<1>4. T # {}
  BY <1>3
<1>5. First(T) \in T
  BY <1>4, FirstIn
<1>6. x[T \ {First(T)}] = k[T \ {First(T)}]
  BY <1>2, <1>5
<1> QED BY <1>3, <1>4, <1>5, <1>6

(* A sum of integers is an integer.                                        *)
LEMMA AddsInt ==
  ASSUME NEW S, IsFiniteSet(S), NEW f, NEW x, Adds(x, f, S), \A e \in S : f[e] \in Int,
         NEW U, U \subseteq S
  PROVE  x[U] \in Int
<1> DEFINE Bad == {T \in SUBSET S : x[T] \notin Int}
<1>1. SUFFICES ASSUME Bad # {} PROVE FALSE
  OBVIOUS
<1>2. PICK T \in Bad : \A e \in T : T \ {e} \notin Bad
  <2>1. Bad \subseteq SUBSET S
    OBVIOUS
  <2> HIDE DEF Bad
  <2> QED BY <1>1, <2>1, Least
<1> HIDE DEF Bad
<1>a. T \subseteq S
  BY DEF Bad
<1>3. x[T] = IF T = {} THEN 0 ELSE f[First(T)] + x[T \ {First(T)}]
  <2>1. \A W \in SUBSET S :
           x[W] = IF W = {} THEN 0 ELSE f[First(W)] + x[W \ {First(W)}]
    BY DEF Adds
  <2>2. T \in SUBSET S
    BY <1>a
  <2> QED BY <2>1, <2>2
<1>4. T # {} /\ x[T] \notin Int
  BY <1>3 DEF Bad
<1>5. First(T) \in T
  BY <1>4, FirstIn
<1>6. x[T \ {First(T)}] \in Int
  BY <1>2, <1>5, <1>a DEF Bad
<1> QED BY <1>a, <1>3, <1>4, <1>5, <1>6

(* The fold is well defined: put together from the sums over smaller sets. *)
LEMMA AddsExists ==
  ASSUME NEW S, IsFiniteSet(S), NEW f
  PROVE  \E x : Adds(x, f, S)
<1> DEFINE Bad == {T \in SUBSET S : ~ \E x : Adds(x, f, T)}
<1>1. SUFFICES ASSUME Bad # {} PROVE FALSE
  OBVIOUS
<1>2. PICK T \in Bad : \A e \in T : T \ {e} \notin Bad
  <2>1. Bad \subseteq SUBSET S
    OBVIOUS
  <2> HIDE DEF Bad
  <2> QED BY <1>1, <2>1, Least
<1>3. \A e \in T : \E x : Adds(x, f, T \ {e})
  BY <1>2
<1> DEFINE G == [e \in T |-> CHOOSE x : Adds(x, f, T \ {e})]
<1>4. \A e \in T : Adds(G[e], f, T \ {e})
  BY <1>3
<1> HIDE DEF G
<1> DEFINE k == [U \in SUBSET T |-> IF U = {} THEN 0
                                    ELSE f[First(U)] + G[First(U)][U \ {First(U)}]]
<1>5. Adds(k, f, T)
  <2>1. ASSUME NEW U, U \subseteq T, U # {}
        PROVE  k[U \ {First(U)}] = G[First(U)][U \ {First(U)}]
    <3> DEFINE V == U \ {First(U)}
               d == First(U)
               c == First(V)
    <3>1. d \in T /\ V \subseteq T \ {d} /\ V \subseteq T
      BY <2>1, FirstIn
    <3>2. G[d][V] = IF V = {} THEN 0 ELSE f[c] + G[d][V \ {c}]
      <4>1. \A W \in SUBSET (T \ {d}) :
              G[d][W] = IF W = {} THEN 0 ELSE f[First(W)] + G[d][W \ {First(W)}]
        <5> HIDE DEF d, k
        <5>1. Adds(G[d], f, T \ {d})
          BY <3>1, <1>4
        <5> QED BY <5>1, AddsAt
      <4> QED BY <4>1, <3>1
    <3>3. k[V] = IF V = {} THEN 0 ELSE f[c] + G[c][V \ {c}]
      BY <3>1
    <3>4. CASE V = {}
      BY <3>2, <3>3, <3>4
    <3>5. CASE V # {}
      <4>1. c \in V
        BY <3>5, FirstIn
      <4>2. c \in T /\ V \ {c} \subseteq T \ {c} /\ V \ {c} \subseteq T \ {d}
        BY <3>1, <4>1
      <4>3. Adds(G[c], f, T \ {c}) /\ Adds(G[d], f, T \ {d}) /\ IsFiniteSet(T \ {c})
        BY <1>4, <3>1, <4>2, FS_Subset
      <4>4. G[c][V \ {c}] = G[d][V \ {c}]
        <5> HIDE DEF V, c, d
        <5> QED BY <4>2, <4>3, AddsAgree
      <4> QED BY <3>2, <3>3, <3>5, <4>4
    <3> QED BY <3>4, <3>5
  <2> QED BY <2>1 DEF Adds
<1> QED BY <1>2, <1>5

(* The sum of f over S.                                                    *)
Total(f, S) == (CHOOSE x : Adds(x, f, S))[S]

(* Whatever solves the equation of the fold is the sum.                    *)
LEMMA TotalIs ==
  ASSUME NEW S, IsFiniteSet(S), NEW f, NEW R, IsFiniteSet(R), S \subseteq R,
         NEW x, Adds(x, f, R)
  PROVE  Total(f, S) = x[S]
<1>1. PICK k : Adds(k, f, S) /\ Total(f, S) = k[S]
  BY AddsExists DEF Total
<1> QED BY <1>1, AddsAgree

LEMMA TotalAgrees ==
  ASSUME NEW S, IsFiniteSet(S), NEW f, NEW h, \A e \in S : f[e] = h[e]
  PROVE  Total(f, S) = Total(h, S)
<1>1. PICK x : Adds(x, f, S)
  BY AddsExists
<1>2. PICK k : Adds(k, h, S)
  BY AddsExists
<1>3. x[S] = k[S]
  BY <1>1, <1>2, AddsAgree
<1> QED BY <1>1, <1>2, <1>3, TotalIs

LEMMA TotalInt ==
  ASSUME NEW S, IsFiniteSet(S), NEW f, \A e \in S : f[e] \in Int
  PROVE  Total(f, S) \in Int
<1>1. PICK x : Adds(x, f, S)
  BY AddsExists
<1>2. x[S] \in Int
  BY <1>1, AddsInt
<1> QED BY <1>1, <1>2, TotalIs

LEMMA TotalEmpty ==
  ASSUME NEW f
  PROVE  Total(f, {}) = 0
<1>1. PICK x : Adds(x, f, {})
  BY AddsExists, FS_EmptySet
<1>2. \A T \in SUBSET {} : x[T] = IF T = {} THEN 0 ELSE f[First(T)] + x[T \ {First(T)}]
  BY <1>1, AddsAt
<1> QED BY <1>1, <1>2, TotalIs, FS_EmptySet

LEMMA TotalStep ==
  ASSUME NEW S, IsFiniteSet(S), S # {}, NEW f
  PROVE  Total(f, S) = f[First(S)] + Total(f, S \ {First(S)})
<1> DEFINE d == First(S)
<1>1. PICK x : Adds(x, f, S)
  BY AddsExists
<1>2. \A T \in SUBSET S : x[T] = IF T = {} THEN 0 ELSE f[First(T)] + x[T \ {First(T)}]
  BY <1>1, AddsAt
<1>3. x[S] = f[d] + x[S \ {d}]
  BY <1>2
<1>4. Total(f, S) = x[S]
  BY <1>1, TotalIs
<1>5. Total(f, S \ {d}) = x[S \ {d}]
  <2>1. IsFiniteSet(S \ {d}) /\ S \ {d} \subseteq S
    BY FS_Subset
  <2> HIDE DEF d
  <2> QED BY <1>1, <2>1, TotalIs
<1> QED BY <1>3, <1>4, <1>5

(* Any element may be taken first.                                         *)
LEMMA TotalWithout ==
  ASSUME NEW S, IsFiniteSet(S), NEW f, \A e \in S : f[e] \in Int, NEW e \in S
  PROVE  Total(f, S) = f[e] + Total(f, S \ {e})
<1> DEFINE Bad == {T \in SUBSET S : \E c \in T : Total(f, T) # f[c] + Total(f, T \ {c})}
<1>1. SUFFICES ASSUME Bad # {} PROVE FALSE
  OBVIOUS
<1>2. PICK T \in Bad : \A c \in T : T \ {c} \notin Bad
  <2>1. Bad \subseteq SUBSET S
    OBVIOUS
  <2> HIDE DEF Bad
  <2> QED BY <1>1, <2>1, Least
<1>3. T \subseteq S
  BY <1>2
<1>4. PICK c \in T : Total(f, T) # f[c] + Total(f, T \ {c})
  BY <1>2
<1>5. PICK d \in T : Total(f, T) = f[d] + Total(f, T \ {d})
  BY <1>3, <1>4, FS_Subset, TotalStep, FirstIn
<1>6. d # c
  BY <1>4, <1>5
<1>7. Total(f, T \ {d}) = f[c] + Total(f, (T \ {d}) \ {c})
  BY <1>2, <1>3, <1>4, <1>5, <1>6
<1>8. Total(f, T \ {c}) = f[d] + Total(f, (T \ {c}) \ {d})
  BY <1>2, <1>3, <1>4, <1>5, <1>6
<1>9. /\ (T \ {d}) \ {c} = (T \ {c}) \ {d}
      /\ f[c] \in Int /\ f[d] \in Int
  BY <1>3
<1>10. Total(f, (T \ {c}) \ {d}) \in Int
  <2>1. (T \ {c}) \ {d} \subseteq S
    BY <1>3
  <2>2. IsFiniteSet((T \ {c}) \ {d})
    BY <2>1, FS_Subset
  <2> QED BY <2>1, <2>2, TotalInt
<1>11. Total(f, (T \ {d}) \ {c}) = Total(f, (T \ {c}) \ {d})
  BY <1>9, Zenon
<1> HIDE DEF Bad
<1> QED BY <1>4, <1>5, <1>7, <1>8, <1>9, <1>10, <1>11

(* One changed value changes the sum by as much.                           *)
LEMMA TotalChanged ==
  ASSUME NEW S, IsFiniteSet(S), NEW f, NEW h, NEW d \in S,
         \A e \in S : f[e] \in Int /\ h[e] \in Int,
         \A e \in S \ {d} : h[e] = f[e]
  PROVE  Total(h, S) = Total(f, S) - f[d] + h[d]
<1>1. Total(f, S) = f[d] + Total(f, S \ {d})
  BY TotalWithout
<1>2. Total(h, S) = h[d] + Total(h, S \ {d})
  BY TotalWithout
<1>3. IsFiniteSet(S \ {d})
  BY FS_Subset
<1>4. Total(h, S \ {d}) = Total(f, S \ {d})
  BY <1>3, TotalAgrees
<1>5. Total(f, S \ {d}) \in Int
  BY <1>3, TotalInt
<1> QED BY <1>1, <1>2, <1>4, <1>5

(* Larger values have a larger sum.                                        *)
LEMMA TotalMonotone ==
  ASSUME NEW S, IsFiniteSet(S), NEW f, NEW h,
         \A e \in S : f[e] \in Int /\ h[e] \in Int /\ f[e] <= h[e]
  PROVE  Total(f, S) <= Total(h, S)
<1> DEFINE Bad == {T \in SUBSET S : ~ (Total(f, T) <= Total(h, T))}
<1>1. SUFFICES ASSUME Bad # {} PROVE FALSE
  OBVIOUS
<1>2. PICK T \in Bad : \A c \in T : T \ {c} \notin Bad
  <2>1. Bad \subseteq SUBSET S
    OBVIOUS
  <2> HIDE DEF Bad
  <2> QED BY <1>1, <2>1, Least
<1>3. T \subseteq S /\ IsFiniteSet(T) /\ ~ (Total(f, T) <= Total(h, T))
  BY <1>2, FS_Subset
<1>4. T # {}
  BY <1>3, TotalEmpty
<1>5. PICK c \in T : TRUE
  BY <1>4
<1>6. Total(f, T \ {c}) <= Total(h, T \ {c})
  BY <1>2, <1>3, <1>5
<1>7. Total(f, T) = f[c] + Total(f, T \ {c})
  BY <1>3, TotalWithout
<1>8. Total(h, T) = h[c] + Total(h, T \ {c})
  BY <1>3, TotalWithout
<1>9. Total(f, T \ {c}) \in Int /\ Total(h, T \ {c}) \in Int
  <2>1. T \ {c} \subseteq S /\ IsFiniteSet(T \ {c})
    BY <1>3, FS_Subset
  <2> QED BY <2>1, TotalInt
<1>10. f[c] \in Int /\ h[c] \in Int /\ f[c] <= h[c]
  BY <1>3
<1> QED BY <1>3, <1>6, <1>7, <1>8, <1>9, <1>10

(* Elements worth nothing may be left out.                                 *)
LEMMA TotalExtended ==
  ASSUME NEW R, IsFiniteSet(R), NEW f, \A e \in R : f[e] \in Int,
         NEW S, S \subseteq R, \A e \in R \ S : f[e] = 0
  PROVE  Total(f, R) = Total(f, S)
<1> DEFINE Bad == {T \in SUBSET R : S \subseteq T /\ Total(f, T) # Total(f, S)}
<1>1. SUFFICES ASSUME Bad # {} PROVE FALSE
  OBVIOUS
<1>2. PICK T \in Bad : \A c \in T : T \ {c} \notin Bad
  <2>1. Bad \subseteq SUBSET R
    OBVIOUS
  <2> HIDE DEF Bad
  <2> QED BY <1>1, <2>1, Least
<1>3. /\ T \subseteq R /\ IsFiniteSet(T) /\ S \subseteq T
      /\ Total(f, T) # Total(f, S)
  BY <1>2, FS_Subset
<1>4. PICK c \in T : c \notin S
  BY <1>3
<1>5. Total(f, T \ {c}) = Total(f, S)
  BY <1>2, <1>3, <1>4
<1>6. Total(f, T) = f[c] + Total(f, T \ {c})
  BY <1>3, TotalWithout
<1>7. Total(f, S) \in Int
  BY FS_Subset, TotalInt
<1>8. f[c] = 0
  BY <1>3, <1>4
<1> QED BY <1>3, <1>5, <1>6, <1>7, <1>8

(* Natural values: a part sums to no more than the whole.                  *)
LEMMA TotalSubset ==
  ASSUME NEW R, IsFiniteSet(R), NEW f, \A e \in R : f[e] \in Nat,
         NEW S, S \subseteq R
  PROVE  Total(f, S) <= Total(f, R)
<1> DEFINE h == [e \in R |-> IF e \in S THEN f[e] ELSE 0]
<1>1. \A e \in R : h[e] \in Int /\ h[e] <= f[e] /\ (e \in S => h[e] = f[e])
                   /\ (e \notin S => h[e] = 0)
  OBVIOUS
<1> HIDE DEF h
<1>2. IsFiniteSet(S)
  BY FS_Subset
<1>3. Total(h, R) = Total(h, S)
  BY <1>1, TotalExtended
<1>4. Total(h, S) = Total(f, S)
  BY <1>1, <1>2, TotalAgrees
<1>5. Total(h, R) <= Total(f, R)
  BY <1>1, TotalMonotone
<1> QED BY <1>3, <1>4, <1>5

LEMMA TotalZero ==
  ASSUME NEW S, IsFiniteSet(S), NEW f, \A e \in S : f[e] = 0
  PROVE  Total(f, S) = 0
<1>1. Total(f, S) = Total(f, {})
  BY TotalExtended
<1> QED BY <1>1, TotalEmpty

-----------------------------------------------------------------------------

LEMMA AttemptsFacts ==
  ASSUME NEW a \in Attempts
  PROVE  a[1] \in Requests /\ a[2] \in Nat /\ a = <<a[1], a[2]>>
BY ConstantsAssumption DEF Attempts

LEMMA AttemptOf ==
  ASSUME NEW r \in Requests, NEW i \in 0 .. MaxAttempts - 1
  PROVE  <<r, i>> \in Attempts /\ i \in Nat
BY ConstantsAssumption DEF Attempts

-----------------------------------------------------------------------------
(* Type correctness.                                                       *)

LEMMA ExpectedType ==
  ASSUME TypeOK, NEW a \in Attempts, NEW ev \in EvidenceRow
  PROVE  Expected(a, ev) \in EvidenceRow
BY DEF TypeOK, AttemptRow, EvidenceRow, Expected, providerAttemptFailureClass, FailureClasses

LEMMA WithEvidenceType ==
  ASSUME NEW row \in AttemptRow, NEW x \in EvidenceRow
  PROVE  WithEvidence(row, x) \in AttemptRow
BY DEF AttemptRow, EvidenceRow, WithEvidence

LEMMA ArbitratedType ==
  ASSUME TypeOK, NEW r \in Requests, NEW status \in TerminalStatus, NEW code \in Codes,
         NEW output \in BOOLEAN
  PROVE  Arbitrated(r, status, code, output) \in [Requests -> ExecutionRow]
<1>1. execution[r] \in ExecutionRow
  BY DEF TypeOK
<1> DEFINE out == output \/ execution[r].outputCommitted
<1>2. out \in BOOLEAN
  OBVIOUS
<1>3. [execution[r] EXCEPT !.status = status, !.terminalErrorCode = code,
         !.outputCommitted = out] \in ExecutionRow
  <2> HIDE DEF out
  <2> QED BY <1>1, <1>2 DEF ExecutionRow
<1>4. Arbitrated(r, status, code, output)
       \in {execution, [execution EXCEPT ![r] = [execution[r] EXCEPT !.status = status,
              !.terminalErrorCode = code, !.outputCommitted = out]]}
  BY DEF Arbitrated, TypeOK
<1> HIDE DEF out
<1> QED BY <1>3, <1>4 DEF TypeOK

LEMMA MarkType ==
  ASSUME TypeOK, NEW a \in Attempts, NEW exposure, markInvocationBillingReconciliation(a, exposure)
  PROVE  reservation' \in [Attempts -> ReservationRow]
BY DEF TypeOK, ReservationRow, markInvocationBillingReconciliation

LEMMA InitType == Init => TypeOK
<1>1. NoLease \in LeaseRow
  BY DEF NoLease, LeaseRow
<1>2. NoExecution \in ExecutionRow
  BY DEF NoExecution, ExecutionRow, Codes
<1>3. NoAttempt \in AttemptRow
  BY DEF NoAttempt, AttemptRow
<1>4. NoReservation \in ReservationRow
  BY DEF NoReservation, ReservationRow
<1> QED BY <1>1, <1>2, <1>3, <1>4, ConstantsAssumption DEF Init, TypeOK

LEMMA PersistType ==
  ASSUME TypeOK, NEW r \in Requests, NEW i \in 0 .. MaxAttempts - 1, NEW o \in Owners, NEW max \in Nat,
         PersistProviderAttempt(r, i, o, max)
  PROVE  execution' \in [Requests -> ExecutionRow] /\ attempt' \in [Attempts -> AttemptRow]
<1>1. <<r, i>> \in Attempts
  BY AttemptOf
<1>2. execution' \in [Requests -> ExecutionRow]
  <2>1. execution[r] \in ExecutionRow
    BY DEF TypeOK
  <2>2. [NoExecution EXCEPT !.status = "running", !.owner = o, !.attemptCount = 1] \in ExecutionRow
    BY DEF ExecutionRow, NoExecution, Codes
  <2>3. [execution[r] EXCEPT !.attemptCount = @ + 1] \in ExecutionRow
    BY <2>1 DEF ExecutionRow
  <2>4. CASE i = 0
    BY <2>2, <2>4 DEF PersistProviderAttempt, TypeOK
  <2>5. CASE i # 0
    BY <2>3, <2>5 DEF PersistProviderAttempt, TypeOK
  <2> QED BY <2>4, <2>5
<1>3. attempt' \in [Attempts -> AttemptRow]
  <2>1. [NoAttempt EXCEPT !.outcome = "pending", !.owner = o, !.startedAt = now, !.maximum = max]
         \in AttemptRow
    BY DEF TypeOK, AttemptRow, NoAttempt
  <2> QED BY <1>1, <2>1 DEF PersistProviderAttempt, TypeOK
<1> QED BY <1>2, <1>3

LEMMA SettleType ==
  ASSUME TypeOK, NEW a \in Attempts, NEW ev \in EvidenceRow, NEW u \in Usages,
         NEW zeroOutcome \in {"settled", "released"}, NEW t, 
         t = NoTerminal \/ (t.status \in TerminalStatus /\ t.code \in Codes),
         NEW b \in BOOLEAN, settle(a, ev, u, zeroOutcome, t, b)
  PROVE  TypeOK'
<1>1. claims' \subseteq Attempts /\ fact' \in [Attempts -> Usages \cup {NoUsage}]
  BY DEF settle, settleInvocationBilling, TypeOK, billingVars
<1>2. reservation' \in [Attempts -> ReservationRow]
  BY DEF settle, settleInvocationBilling, TypeOK, billingVars, SettledReservation, ReservationRow
<1>3. posting' \in [Attempts -> Nat] /\ balance' \in Int
  <2>1. ChargedUnits(a, u) \in Nat
    BY ConstantsAssumption DEF ChargedUnits
  <2> QED BY <2>1 DEF settle, settleInvocationBilling, TypeOK, billingVars, appendUsageCharge
<1>4. attempt' \in [Attempts -> AttemptRow]
  <2>1. attempt[a] \in AttemptRow
    BY DEF TypeOK
  <2>2. WithEvidence(attempt[a], Expected(a, ev)) \in AttemptRow
    BY <2>1, ExpectedType, WithEvidenceType
  <2>3. [WithEvidence(attempt[a], Expected(a, ev)) EXCEPT !.costExposure = "stopped",
           !.usageSettled = TRUE, !.reconciliationReason = Null] \in AttemptRow
    BY <2>2 DEF AttemptRow
  <2> QED BY <2>3 DEF settle, Complete, TypeOK
<1>5. execution' \in [Requests -> ExecutionRow]
  <2>1. ev.outputCommitted \in BOOLEAN /\ a[1] \in Requests
    BY AttemptsFacts DEF EvidenceRow
  <2> QED BY <2>1, ArbitratedType DEF settle, Complete, TypeOK
<1> QED BY <1>1, <1>2, <1>3, <1>4, <1>5 DEF settle, TypeOK

LEMMA EnterReconciliationType ==
  ASSUME TypeOK, NEW a \in Attempts, NEW ev \in EvidenceRow,
         NEW exposure \in {"accruing", "stopped"}, NEW reason \in Reasons,
         EnterReconciliation(a, ev, exposure, reason)
  PROVE  TypeOK'
<1>1. attempt' \in [Attempts -> AttemptRow]
  <2>1. WithEvidence(attempt[a], Expected(a, ev)) \in AttemptRow
    BY ExpectedType, WithEvidenceType DEF TypeOK
  <2>2. [WithEvidence(attempt[a], Expected(a, ev)) EXCEPT !.costExposure = exposure,
           !.reconciliationReason = reason] \in AttemptRow
    BY <2>1 DEF AttemptRow
  <2> QED BY <2>2 DEF EnterReconciliation, TypeOK
<1>2. execution' \in [Requests -> ExecutionRow]
  <2>1. ev.outputCommitted \in BOOLEAN /\ ev.outcome \in TerminalStatus /\ a[1] \in Requests
    BY AttemptsFacts DEF EvidenceRow
  <2>2. reason \in Codes /\ Null \in Codes
    BY DEF Codes
  <2> QED BY <2>1, <2>2, ArbitratedType DEF EnterReconciliation, TypeOK
<1>3. reservation' \in [Attempts -> ReservationRow]
  BY MarkType DEF EnterReconciliation
<1> QED BY <1>1, <1>2, <1>3 DEF EnterReconciliation, TypeOK

LEMMA DispatchGrantedType ==
  ASSUME TypeOK, NEW a \in Attempts, NEW o \in Owners, DispatchGranted(a, o)
  PROVE  TypeOK'
<1>1. attempt[a] \in AttemptRow
  BY DEF TypeOK
<1>2. [attempt[a] EXCEPT !.costExposure = "accruing"] \in AttemptRow
  BY <1>1 DEF AttemptRow
<1> QED BY <1>2 DEF DispatchGranted, TypeOK, billingVars

LEMMA OwnershipLostType ==
  ASSUME TypeOK, NEW a \in Attempts, NEW o \in Owners, OwnershipLost(a, o)
  PROVE  TypeOK'
<1>1. attempt' \in [Attempts -> AttemptRow]
  <2>1. attempt[a] \in AttemptRow
    BY DEF TypeOK
  <2>2. [attempt[a] EXCEPT !.outcome = "failed", !.failureClass = "non_retryable",
           !.costExposure = "accruing", !.reconciliationReason = "execution_ownership_lost"]
         \in AttemptRow
    BY <2>1 DEF AttemptRow, FailureClasses, Reasons, TerminalStatus
  <2> QED BY <2>2 DEF OwnershipLost, TypeOK
<1>2. execution' \in [Requests -> ExecutionRow]
  <2>1. attempt[a].outputCommitted \in BOOLEAN /\ a[1] \in Requests
    BY AttemptsFacts DEF TypeOK, AttemptRow
  <2>2. "failed" \in TerminalStatus /\ "execution_ownership_lost" \in Codes
    BY DEF TerminalStatus, Codes, Reasons
  <2> QED BY <2>1, <2>2, ArbitratedType DEF OwnershipLost
<1>3. reservation' \in [Attempts -> ReservationRow]
  BY MarkType DEF OwnershipLost
<1> QED BY <1>1, <1>2, <1>3 DEF OwnershipLost, TypeOK

(* The command a transaction is given is well formed.                      *)
LEMMA CommandFacts ==
  ASSUME NEW ev \in Evidence
  PROVE  /\ ev \in EvidenceRow
         /\ [ev EXCEPT !.failureReason = Null] \in EvidenceRow
         /\ \A t \in TerminalOf(ev) :
               t = NoTerminal \/ (t.status \in TerminalStatus /\ t.code \in Codes)
<1>1. ev \in EvidenceRow
  BY ConstantsAssumption
<1>2. [ev EXCEPT !.failureReason = Null] \in EvidenceRow
  BY <1>1 DEF EvidenceRow
<1>3. \A t \in TerminalOf(ev) :
        t = NoTerminal \/ (t.status \in TerminalStatus /\ t.code \in Codes)
  BY <1>1 DEF EvidenceRow, TerminalOf, Codes
<1> QED BY <1>1, <1>2, <1>3

LEMMA NextType == TypeOK /\ [Next]_vars => TypeOK'
<1> SUFFICES ASSUME TypeOK, [Next]_vars PROVE TypeOK'
  OBVIOUS
<1>1. CASE Tick
  BY <1>1 DEF Tick, TypeOK, billingVars
<1>2. ASSUME NEW r \in Requests, NEW o \in Owners,
             AcquireLease(r, o) \/ RenewLease(r, o) \/ ReleaseLease(r, o)
      PROVE  TypeOK'
  <2>1. lease' \in [Requests -> LeaseRow]
    <3>1. requestExecutionLeaseUntil \in Nat
      BY ConstantsAssumption DEF TypeOK, requestExecutionLeaseUntil
    <3> QED BY <1>2, <3>1
          DEF AcquireLease, RenewLease, ReleaseLease, TypeOK, LeaseRow, NoLease
  <2> QED BY <1>2, <2>1 DEF AcquireLease, RenewLease, ReleaseLease, TypeOK, billingVars
<1>3. ASSUME NEW r \in Requests, NEW i \in 0 .. MaxAttempts - 1, NEW o \in Owners,
             AdmitCpaBasic(r, i, o)
      PROVE  TypeOK'
  BY <1>3, PersistType DEF AdmitCpaBasic, TypeOK, billingVars
<1>4. ASSUME NEW r \in Requests, NEW i \in 0 .. MaxAttempts - 1, NEW o \in Owners,
             NEW max \in Maxima, Admit(r, i, o, max)
      PROVE  TypeOK'
  <2>1. max \in Nat /\ <<r, i>> \in Attempts
    BY ConstantsAssumption, AttemptOf
  <2>2. claims' \subseteq Attempts /\ reservation' \in [Attempts -> ReservationRow]
    BY <1>4, <2>1 DEF Admit, createInvocationBillingOccupation, TypeOK, ReservationRow
  <2> QED BY <1>4, <2>1, <2>2, PersistType DEF Admit, TypeOK
<1>5. ASSUME NEW a \in Attempts, NEW o \in Owners, DispatchGranted(a, o) \/ OwnershipLost(a, o)
      PROVE  TypeOK'
  BY <1>5, DispatchGrantedType, OwnershipLostType
<1>6. ASSUME NEW a \in Attempts, NEW ev \in Evidence, NEW t \in TerminalOf(ev),
             ReleaseNotStarted(a, ev, t) \/ \E u \in Usages : SettleFinalUsage(a, ev, u, t)
      PROVE  TypeOK'
  BY <1>6, SettleType, CommandFacts, ConstantsAssumption DEF ReleaseNotStarted, SettleFinalUsage
<1>7. ASSUME NEW a \in Attempts, NEW ev \in Evidence, NEW u \in Usages,
             ReconcileFinalUsage(a, ev, u)
      PROVE  TypeOK'
  BY <1>7, SettleType, CommandFacts DEF ReconcileFinalUsage
<1>8. ASSUME NEW a \in Attempts, NEW ev \in Evidence, NEW exposure \in {"accruing", "stopped"},
             EnterReconciliation(a, ev, exposure, "provider_final_usage_pending")
      PROVE  TypeOK'
  BY <1>8, EnterReconciliationType, CommandFacts DEF Reasons
<1>9. ASSUME NEW a \in Attempts, NEW ev \in Evidence, TransitionFailedCpaBasicSettlement(a, ev)
      PROVE  TypeOK'
  BY <1>9, EnterReconciliationType, CommandFacts DEF TransitionFailedCpaBasicSettlement, Reasons
<1>10. ASSUME NEW r \in Requests, FinishRequestLog(r)
       PROVE  TypeOK'
  BY <1>10 DEF FinishRequestLog, TypeOK, billingVars
<1>11. ASSUME NEW r \in Requests, NEW o \in Owners, NEW code \in ErrorCodes,
              FailRequestExecution(r, o, code)
       PROVE  TypeOK'
  <2>1. "failed" \in TerminalStatus /\ code \in Codes /\ FALSE \in BOOLEAN
    BY DEF TerminalStatus, Codes
  <2>2. execution' \in [Requests -> ExecutionRow]
    BY <1>11, <2>1, ArbitratedType DEF FailRequestExecution
  <2> QED BY <1>11, <2>2 DEF FailRequestExecution, TypeOK, billingVars
<1>12. CASE UNCHANGED vars
  BY <1>12 DEF vars, TypeOK
<1> QED
  BY <1>1, <1>2, <1>3, <1>4, <1>5, <1>6, <1>7, <1>8, <1>9, <1>10, <1>11, <1>12
     DEF Next, LeaseStep, AdmissionStep, SettlementStep, ReconciliationStep

(* Every table of the command service keeps rows of its columns' types.    *)
THEOREM TypeCorrect == Spec => []TypeOK
BY InitType, NextType, PTL DEF Spec

-----------------------------------------------------------------------------
(* The inductive invariant: the parts below hold only together.            *)

IInv ==
  /\ TypeOK
  /\ OneUnsettledAttempt
  /\ AttemptRowsCoherent
  /\ OccupationMatchesAttempt
  /\ ReconcilingIsListed
  /\ AtMostOnceDispatch
  /\ ChargedOnce

-----------------------------------------------------------------------------
(* What a transaction does to the rows.                                    *)

(* Every transaction but an admission touches at most the attempt a and    *)
(* the execution of its request, which keeps its owner and its attempts.   *)
Touches(a) ==
  /\ attempt'[a].owner = attempt[a].owner
  /\ \A b \in Attempts \ {a} :
       /\ attempt'[b] = attempt[b] /\ reservation'[b] = reservation[b]
       /\ fact'[b] = fact[b] /\ posting'[b] = posting[b] /\ dispatches'[b] = dispatches[b]
       /\ b \in claims' <=> b \in claims
  /\ \A r \in Requests :
       /\ execution'[r].owner = execution[r].owner
       /\ execution'[r].attemptCount = execution[r].attemptCount
       /\ execution[r].status # "running" => execution'[r] = execution[r]
       /\ execution[r].status = "running" => execution'[r].status # "absent"
       /\ r # a[1] => execution'[r] = execution[r]

LEMMA ArbitratedFacts ==
  ASSUME TypeOK, NEW r \in Requests, NEW status \in TerminalStatus, NEW code, NEW output,
         execution' = Arbitrated(r, status, code, output)
  PROVE  /\ \A q \in Requests :
              /\ execution'[q].owner = execution[q].owner
              /\ execution'[q].attemptCount = execution[q].attemptCount
              /\ execution[q].status # "running" => execution'[q] = execution[q]
              /\ execution[q].status = "running" => execution'[q].status # "absent"
              /\ q # r => execution'[q] = execution[q]
         /\ execution[r].status = "running" => execution'[r].status = status
<1> DEFINE out == output \/ execution[r].outputCommitted
<1>1. Arbitrated(r, status, code, output)
        = IF execution[r].status = "running"
          THEN [execution EXCEPT ![r] = [execution[r] EXCEPT !.status = status,
                  !.terminalErrorCode = code, !.outputCommitted = out]]
          ELSE execution
  BY DEF Arbitrated, TypeOK, ExecutionRow
<1> HIDE DEF out
<1> QED BY <1>1 DEF TypeOK, ExecutionRow, TerminalStatus

(* The first settlement of a.                                              *)
SettleChanges(a, ev, u, zeroOutcome) ==
  /\ Present(a) /\ ~attempt[a].usageSettled
  /\ EvidenceAgrees(a, ev)
  /\ Touches(a)
  /\ attempt' = [attempt EXCEPT ![a] = [WithEvidence(attempt[a], Expected(a, ev)) EXCEPT
       !.costExposure = "stopped", !.usageSettled = TRUE, !.reconciliationReason = Null]]
  /\ fact'[a] = u
  /\ posting'[a] = posting[a] + ChargedUnits(a, u)
  /\ claims' = claims \ {a}
  /\ reservation'[a] = IF reservation[a].status = "absent" THEN reservation[a]
                       ELSE [status |-> zeroOutcome, held |-> 0]
  /\ UNCHANGED <<now, lease, ended, dispatches>>

LEMMA SettleEffect ==
  ASSUME IInv, NEW a \in Attempts, NEW ev \in EvidenceRow, NEW u \in Usages,
         NEW zeroOutcome \in {"settled", "released"}, NEW t,
         t = NoTerminal \/ (t.status \in TerminalStatus /\ t.code \in Codes),
         NEW b \in BOOLEAN, settle(a, ev, u, zeroOutcome, t, b)
  PROVE  \/ UNCHANGED vars
         \/ SettleChanges(a, ev, u, zeroOutcome)
<1> USE DEF IInv
<1>1. CASE attempt[a].usageSettled
  <2>1. fact[a] # NoUsage
    BY <1>1 DEF OccupationMatchesAttempt, OccupationMatches
  <2>2. UNCHANGED <<billingVars, attempt, execution>>
    BY <1>1, <2>1 DEF settle, settleInvocationBilling, Complete, FirstSettlement
  <2> QED BY <2>2 DEF settle, vars, billingVars
<1>2. CASE ~attempt[a].usageSettled
  <2>1. fact[a] = NoUsage /\ fact[a] # u
    BY <1>2, ConstantsAssumption DEF OccupationMatchesAttempt, OccupationMatches
  <2>2. /\ fact' = [fact EXCEPT ![a] = u]
        /\ posting' = [posting EXCEPT ![a] = @ + ChargedUnits(a, u)]
        /\ claims' = claims \ {a}
        /\ reservation' = IF reservation[a].status = "absent" THEN reservation
                          ELSE [reservation EXCEPT ![a] = [status |-> zeroOutcome, held |-> 0]]
    BY <2>1 DEF settle, settleInvocationBilling, appendUsageCharge, SettledReservation
  <2>3. attempt' = [attempt EXCEPT ![a] = [WithEvidence(attempt[a], Expected(a, ev)) EXCEPT
          !.costExposure = "stopped", !.usageSettled = TRUE, !.reconciliationReason = Null]]
    BY <1>2 DEF settle, Complete, TypeOK
  <2>4. /\ Present(a) /\ EvidenceAgrees(a, ev)
        /\ UNCHANGED <<now, lease, ended, dispatches>>
    BY DEF settle, FinalizeLock
  <2>5. \/ execution' = execution
        \/ /\ execution' = Arbitrated(a[1], t.status, t.code, ev.outputCommitted)
           /\ t.status \in TerminalStatus
    BY <1>2 DEF settle, Complete
  <2>6. a[1] \in Requests
    BY AttemptsFacts
  <2>7. \A r \in Requests :
       /\ execution'[r].owner = execution[r].owner
       /\ execution'[r].attemptCount = execution[r].attemptCount
       /\ execution[r].status # "running" => execution'[r] = execution[r]
       /\ execution[r].status = "running" => execution'[r].status # "absent"
       /\ r # a[1] => execution'[r] = execution[r]
    BY <2>5, <2>6, ArbitratedFacts
  <2>8. attempt'[a].owner = attempt[a].owner
    BY <2>3 DEF TypeOK, WithEvidence, AttemptRow
  <2>9. Touches(a)
    BY <2>2, <2>3, <2>4, <2>7, <2>8 DEF Touches, TypeOK
  <2> QED BY <1>2, <2>2, <2>3, <2>4, <2>9 DEF TypeOK, SettleChanges
<1> QED BY <1>1, <1>2

(* The outcome of a is known, its usage is not.                            *)
ReconciliationChanges(a, ev, exposure, reason) ==
  /\ Present(a) /\ ~attempt[a].usageSettled
  /\ EvidenceAgrees(a, ev)
  /\ Touches(a)
  /\ attempt' = [attempt EXCEPT ![a] = [WithEvidence(attempt[a], Expected(a, ev)) EXCEPT
       !.costExposure = exposure, !.reconciliationReason = reason]]
  /\ execution'[a[1]].status \in TerminalStatus
  /\ attempt[a].costExposure = "stopped" => exposure = "stopped"
  /\ UNCHANGED <<now, lease, ended, dispatches, claims, fact, posting, balance>>
  /\ markInvocationBillingReconciliation(a, exposure)

LEMMA EnterReconciliationEffect ==
  ASSUME IInv, NEW a \in Attempts, NEW ev \in EvidenceRow,
         NEW exposure \in {"accruing", "stopped"}, NEW reason \in Reasons,
         EnterReconciliation(a, ev, exposure, reason)
  PROVE  ReconciliationChanges(a, ev, exposure, reason)
<1> USE DEF IInv
<1>1. a[1] \in Requests
  BY AttemptsFacts
<1>2. attempt' = [attempt EXCEPT ![a] = [WithEvidence(attempt[a], Expected(a, ev)) EXCEPT
        !.costExposure = exposure, !.reconciliationReason = reason]]
  BY DEF EnterReconciliation, TypeOK
<1>3. attempt'[a].owner = attempt[a].owner
  BY <1>2 DEF TypeOK, WithEvidence, AttemptRow
<1>4. ev.outcome \in TerminalStatus
  BY DEF EvidenceRow
<1>5. /\ \A r \in Requests :
           /\ execution'[r].owner = execution[r].owner
           /\ execution'[r].attemptCount = execution[r].attemptCount
           /\ execution[r].status # "running" => execution'[r] = execution[r]
           /\ execution[r].status = "running" => execution'[r].status # "absent"
           /\ r # a[1] => execution'[r] = execution[r]
      /\ execution'[a[1]].status \in TerminalStatus
  <2>1. CASE execution[a[1]].status = "running"
    BY <2>1, <1>1, <1>4, ArbitratedFacts DEF EnterReconciliation
  <2>2. CASE execution[a[1]].status # "running"
    <3>1. execution' = execution
      BY <2>2 DEF EnterReconciliation
    <3>2. execution[a[1]].status \in TerminalStatus
      BY <2>2, <1>1 DEF EnterReconciliation, TypeOK, ExecutionRow
    <3> QED BY <3>1, <3>2
  <2> QED BY <2>1, <2>2
<1>6. Touches(a)
  BY <1>2, <1>3, <1>5 DEF EnterReconciliation, markInvocationBillingReconciliation, Touches, TypeOK
<1> QED BY <1>2, <1>5, <1>6 DEF EnterReconciliation, ExposureMayBecome, ReconciliationChanges

LEMMA OwnershipLostEffect ==
  ASSUME IInv, NEW a \in Attempts, NEW o \in Owners, OwnershipLost(a, o)
  PROVE  /\ attempt[a].outcome = "pending"
         /\ Touches(a)
         /\ attempt' = [attempt EXCEPT ![a] =
              [attempt[a] EXCEPT !.outcome = "failed", !.failureClass = "non_retryable",
                 !.costExposure = "accruing",
                 !.reconciliationReason = "execution_ownership_lost"]]
         /\ execution'[a[1]].status \in TerminalStatus
         /\ UNCHANGED <<now, lease, ended, dispatches, claims, fact, posting, balance>>
         /\ markInvocationBillingReconciliation(a, "accruing")
<1> USE DEF IInv
<1>1. a[1] \in Requests /\ "failed" \in TerminalStatus
  BY AttemptsFacts DEF TerminalStatus
<1>2. attempt' = [attempt EXCEPT ![a] =
        [attempt[a] EXCEPT !.outcome = "failed", !.failureClass = "non_retryable",
           !.costExposure = "accruing", !.reconciliationReason = "execution_ownership_lost"]]
  BY DEF OwnershipLost, TypeOK
<1>3. attempt'[a].owner = attempt[a].owner
  BY <1>2 DEF TypeOK, AttemptRow
<1>4. execution' = Arbitrated(a[1], "failed", "execution_ownership_lost", attempt[a].outputCommitted)
  BY DEF OwnershipLost
<1>5. Touches(a)
  BY <1>1, <1>2, <1>3, <1>4, ArbitratedFacts
     DEF OwnershipLost, markInvocationBillingReconciliation, Touches, TypeOK
<1>6. execution'[a[1]].status \in TerminalStatus
  BY <1>1, <1>4, ArbitratedFacts DEF OwnershipLost, ArbiterAccepts, isTerminalExecutionStatus
<1> QED BY <1>2, <1>5, <1>6 DEF OwnershipLost

LEMMA DispatchGrantedEffect ==
  ASSUME IInv, NEW a \in Attempts, NEW o \in Owners, DispatchGranted(a, o)
  PROVE  /\ attempt[a].outcome = "pending" /\ attempt[a].costExposure = "not_started"
         /\ Touches(a)
         /\ attempt' = [attempt EXCEPT ![a] = [attempt[a] EXCEPT !.costExposure = "accruing"]]
         /\ dispatches' = [dispatches EXCEPT ![a] = @ + 1]
         /\ UNCHANGED <<now, lease, execution, ended, billingVars>>
<1>1. attempt' = [attempt EXCEPT ![a] = [attempt[a] EXCEPT !.costExposure = "accruing"]]
  BY DEF DispatchGranted, IInv, TypeOK
<1>2. Touches(a)
  BY <1>1 DEF DispatchGranted, Touches, billingVars, IInv, TypeOK, AttemptRow
<1> QED BY <1>1, <1>2 DEF DispatchGranted, DispatchOwned

-----------------------------------------------------------------------------
(* Preservation.                                                           *)

LEMMA UnchangedPreserves ==
  ASSUME IInv, UNCHANGED vars
  PROVE  IInv'
BY DEF vars, IInv, TypeOK, OneUnsettledAttempt, AttemptRowsCoherent, RowCoherent,
       OccupationMatchesAttempt, OccupationMatches, ReconcilingIsListed, Listed,
       AtMostOnceDispatch, DispatchedOnce, ChargedOnce, Charged, Present, Open, Unresolved,
       ReconciliationReady, isTerminalExecutionStatus, Protected, Paygo

(* It is enough to look at the attempt a transaction touches.              *)
LEMMA TouchPreserves ==
  ASSUME IInv, TypeOK', NEW a \in Attempts, Touches(a), UNCHANGED ended,
         Present(a), Present(a)', attempt[a].usageSettled => attempt'[a].usageSettled,
         RowCoherent(a)', OccupationMatches(a)', Listed(a)', DispatchedOnce(a)', Charged(a)'
  PROVE  IInv'
<1> USE DEF IInv
<1>1. OneUnsettledAttempt'
  <2> SUFFICES ASSUME NEW b \in Attempts
               PROVE  LET e == execution'[b[1]] IN
                      /\ Present(b)' <=> b[2] < e.attemptCount
                      /\ Present(b)' => attempt'[b].owner = e.owner
                      /\ b[2] + 1 < e.attemptCount => attempt'[b].usageSettled
    BY DEF OneUnsettledAttempt
  <2>1. b[1] \in Requests
    BY AttemptsFacts
  <2> QED BY <2>1 DEF Touches, OneUnsettledAttempt, Present
<1>2. ASSUME NEW b \in Attempts \ {a}
      PROVE  RowCoherent(b)' /\ OccupationMatches(b)' /\ DispatchedOnce(b)' /\ Charged(b)'
  BY <1>2 DEF Touches, AttemptRowsCoherent, RowCoherent, OccupationMatchesAttempt,
         OccupationMatches, AtMostOnceDispatch, DispatchedOnce, ChargedOnce, Charged, Present,
         Open, Protected, Paygo
<1>3. ASSUME NEW b \in Attempts \ {a}
      PROVE  Listed(b)'
  <2>1. b[1] \in Requests
    BY AttemptsFacts
  <2>2. isTerminalExecutionStatus(b[1]) => isTerminalExecutionStatus(b[1])'
    BY <2>1 DEF Touches, isTerminalExecutionStatus, TerminalStatus
  <2> QED BY <1>3, <2>2
          DEF Touches, ReconcilingIsListed, Listed, Unresolved, ReconciliationReady, Protected
<1>4. AttemptRowsCoherent'
  BY <1>2 DEF Touches, AttemptRowsCoherent
<1> QED BY <1>1, <1>2, <1>3, <1>4
        DEF OccupationMatchesAttempt, ReconcilingIsListed, AtMostOnceDispatch, ChargedOnce

LEMMA SettlePreserves ==
  ASSUME IInv, NEW a \in Attempts, NEW ev \in EvidenceRow, NEW u \in Usages,
         NEW zeroOutcome \in {"settled", "released"}, NEW t,
         t = NoTerminal \/ (t.status \in TerminalStatus /\ t.code \in Codes),
         NEW b \in BOOLEAN, settle(a, ev, u, zeroOutcome, t, b)
  PROVE  IInv'
<1>1. CASE UNCHANGED vars
  BY <1>1, UnchangedPreserves
<1>2. CASE ~UNCHANGED vars
  <2> DEFINE x == Expected(a, ev)
  <2>1. /\ Present(a) /\ ~attempt[a].usageSettled /\ EvidenceAgrees(a, ev) /\ Touches(a)
        /\ attempt' = [attempt EXCEPT ![a] = [WithEvidence(attempt[a], x) EXCEPT
             !.costExposure = "stopped", !.usageSettled = TRUE, !.reconciliationReason = Null]]
        /\ fact'[a] = u
        /\ posting'[a] = posting[a] + ChargedUnits(a, u)
        /\ claims' = claims \ {a}
        /\ reservation'[a] = IF reservation[a].status = "absent" THEN reservation[a]
                             ELSE [status |-> zeroOutcome, held |-> 0]
        /\ UNCHANGED <<now, lease, ended, dispatches>>
    <3>1. SettleChanges(a, ev, u, zeroOutcome)
      BY <1>2, SettleEffect
    <3> QED BY <3>1 DEF SettleChanges
  <2> USE DEF IInv
  <2>2. x \in EvidenceRow /\ x.outcome = ev.outcome
    BY ExpectedType DEF Expected
  <2>3. TypeOK'
    BY SettleType
  <2>4. x.failureClass # Null <=> x.outcome = "failed"
    BY DEF Expected, providerAttemptFailureClass, EvidenceRow, FailureClasses, Null
  <2>5. x.failureReason # Null => x.outcome = "failed"
    BY <2>2, <2>1 DEF EvidenceAgrees
  <2> HIDE DEF x
  <2>6. /\ attempt'[a].outcome = x.outcome /\ attempt'[a].failureClass = x.failureClass
        /\ attempt'[a].failureReason = x.failureReason
        /\ attempt'[a].costExposure = "stopped" /\ attempt'[a].usageSettled
        /\ attempt'[a].reconciliationReason = Null
        /\ attempt'[a].maximum = attempt[a].maximum
    BY <2>1 DEF TypeOK, AttemptRow, WithEvidence
  <2>7. RowCoherent(a)' /\ Present(a)'
    BY <2>2, <2>4, <2>5, <2>6 DEF RowCoherent, Present, EvidenceRow, TerminalStatus
  <2>8. OccupationMatches(a)'
    <3>1. u # NoUsage
      BY ConstantsAssumption
    <3>2. a \notin Open' /\ reservation'[a].held = 0
      BY <2>1 DEF Open, TypeOK, ReservationRow, OccupationMatchesAttempt, OccupationMatches
    <3>3. reservation'[a].status # "absent" <=> reservation[a].status # "absent"
      BY <2>1
    <3> QED BY <2>1, <2>6, <2>7, <3>1, <3>2, <3>3
            DEF OccupationMatchesAttempt, OccupationMatches, Protected, Paygo
  <2>9. Charged(a)'
    <3>1. u # NoUsage /\ ChargeUnits[u] \in Nat
      BY ConstantsAssumption
    <3>2. posting[a] = 0
      BY <2>1 DEF OccupationMatchesAttempt, OccupationMatches, ChargedOnce, Charged
    <3>3. ChargedUnits(a, u) = IF Paygo(a) THEN ChargeUnits[u] ELSE 0
      BY <2>1 DEF OccupationMatchesAttempt, OccupationMatches, ChargedUnits
    <3> QED BY <2>1, <3>1, <3>2, <3>3 DEF Charged, Paygo
  <2>10. Listed(a)' /\ DispatchedOnce(a)'
    BY <2>1, <2>6 DEF Listed, DispatchedOnce, AtMostOnceDispatch
  <2> QED BY <2>1, <2>3, <2>6, <2>7, <2>8, <2>9, <2>10, TouchPreserves
<1> QED BY <1>1, <1>2

(* Entering reconciliation keeps the reservation open.                     *)
LEMMA MarkKeepsOpen ==
  ASSUME IInv, NEW a \in Attempts, NEW exposure, markInvocationBillingReconciliation(a, exposure)
  PROVE  /\ a \in Open' <=> a \in Open
         /\ reservation'[a].status # "absent" <=> reservation[a].status # "absent"
         /\ a \notin Open => reservation'[a] = reservation[a]
BY DEF markInvocationBillingReconciliation, Open, IInv, TypeOK, ReservationRow

LEMMA EnterReconciliationPreserves ==
  ASSUME IInv, NEW a \in Attempts, NEW ev \in EvidenceRow,
         NEW exposure \in {"accruing", "stopped"}, NEW reason \in Reasons,
         EnterReconciliation(a, ev, exposure, reason)
  PROVE  IInv'
<1> DEFINE x == Expected(a, ev)
<1>1. /\ Present(a) /\ ~attempt[a].usageSettled /\ EvidenceAgrees(a, ev) /\ Touches(a)
      /\ attempt' = [attempt EXCEPT ![a] = [WithEvidence(attempt[a], x) EXCEPT
           !.costExposure = exposure, !.reconciliationReason = reason]]
      /\ execution'[a[1]].status \in TerminalStatus
      /\ UNCHANGED <<now, lease, ended, dispatches, claims, fact, posting, balance>>
      /\ markInvocationBillingReconciliation(a, exposure)
  <2>1. ReconciliationChanges(a, ev, exposure, reason)
    BY EnterReconciliationEffect
  <2> QED BY <2>1 DEF ReconciliationChanges
<1>2. /\ a \in Open' <=> a \in Open
      /\ reservation'[a].status # "absent" <=> reservation[a].status # "absent"
      /\ a \notin Open => reservation'[a] = reservation[a]
  BY <1>1, MarkKeepsOpen
<1> USE DEF IInv
<1>3. x \in EvidenceRow /\ x.outcome = ev.outcome
  BY ExpectedType DEF Expected
<1>4. TypeOK'
  BY EnterReconciliationType
<1>5. x.failureClass # Null <=> x.outcome = "failed"
  BY DEF Expected, providerAttemptFailureClass, EvidenceRow, FailureClasses, Null
<1>6. x.failureReason # Null => x.outcome = "failed"
  BY <1>1, <1>3 DEF EvidenceAgrees
<1> HIDE DEF x
<1>7. /\ attempt'[a].outcome = x.outcome /\ attempt'[a].failureClass = x.failureClass
      /\ attempt'[a].failureReason = x.failureReason
      /\ attempt'[a].costExposure = exposure /\ ~attempt'[a].usageSettled
      /\ attempt'[a].reconciliationReason = reason
  BY <1>1 DEF TypeOK, AttemptRow, WithEvidence
<1>8. x.outcome \in TerminalStatus /\ reason # Null
  BY <1>3 DEF EvidenceRow, Reasons, Null
<1>9. RowCoherent(a)' /\ Present(a)'
  BY <1>5, <1>6, <1>7, <1>8 DEF RowCoherent, Present, TerminalStatus
<1>10. OccupationMatches(a)'
  BY <1>1, <1>2, <1>7, <1>9 DEF OccupationMatchesAttempt, OccupationMatches, Protected, Paygo
<1>11. Charged(a)'
  BY <1>1 DEF ChargedOnce, Charged, Paygo
<1>12. Listed(a)'
  BY <1>1, <1>7, <1>8
     DEF Listed, Unresolved, ReconciliationReady, isTerminalExecutionStatus, Protected
<1>13. DispatchedOnce(a)'
  BY <1>1, <1>7 DEF DispatchedOnce, AtMostOnceDispatch
<1> QED BY <1>1, <1>4, <1>9, <1>10, <1>11, <1>12, <1>13, TouchPreserves

LEMMA OwnershipLostPreserves ==
  ASSUME IInv, NEW a \in Attempts, NEW o \in Owners, OwnershipLost(a, o)
  PROVE  IInv'
<1>1. /\ attempt[a].outcome = "pending" /\ Touches(a)
      /\ attempt' = [attempt EXCEPT ![a] =
           [attempt[a] EXCEPT !.outcome = "failed", !.failureClass = "non_retryable",
              !.costExposure = "accruing",
              !.reconciliationReason = "execution_ownership_lost"]]
      /\ execution'[a[1]].status \in TerminalStatus
      /\ UNCHANGED <<now, lease, ended, dispatches, claims, fact, posting, balance>>
      /\ markInvocationBillingReconciliation(a, "accruing")
  BY OwnershipLostEffect
<1>2. /\ a \in Open' <=> a \in Open
      /\ reservation'[a].status # "absent" <=> reservation[a].status # "absent"
      /\ a \notin Open => reservation'[a] = reservation[a]
  BY <1>1, MarkKeepsOpen
<1> USE DEF IInv
<1>3. TypeOK'
  BY OwnershipLostType
<1>4. /\ attempt'[a].outcome = "failed" /\ attempt'[a].failureClass = "non_retryable"
      /\ attempt'[a].costExposure = "accruing"
      /\ attempt'[a].usageSettled = attempt[a].usageSettled
      /\ attempt'[a].reconciliationReason = "execution_ownership_lost"
  BY <1>1 DEF TypeOK, AttemptRow
<1>5. ~attempt[a].usageSettled /\ Present(a)
  BY <1>1 DEF AttemptRowsCoherent, RowCoherent, Present
<1>6. RowCoherent(a)' /\ Present(a)'
  BY <1>4, <1>5 DEF RowCoherent, Present, Null
<1>7. OccupationMatches(a)'
  BY <1>1, <1>2, <1>4, <1>5, <1>6 DEF OccupationMatchesAttempt, OccupationMatches, Protected, Paygo
<1>8. Charged(a)'
  BY <1>1 DEF ChargedOnce, Charged, Paygo
<1>9. Listed(a)'
  BY <1>1, <1>4, <1>5 DEF Listed, Unresolved, ReconciliationReady, isTerminalExecutionStatus,
                          Protected, Null, TerminalStatus
<1>10. DispatchedOnce(a)'
  BY <1>1, <1>4 DEF DispatchedOnce, AtMostOnceDispatch
<1> QED BY <1>1, <1>3, <1>5, <1>6, <1>7, <1>8, <1>9, <1>10, TouchPreserves

LEMMA DispatchGrantedPreserves ==
  ASSUME IInv, NEW a \in Attempts, NEW o \in Owners, DispatchGranted(a, o)
  PROVE  IInv'
<1>1. /\ attempt[a].outcome = "pending" /\ attempt[a].costExposure = "not_started"
      /\ Touches(a)
      /\ attempt' = [attempt EXCEPT ![a] = [attempt[a] EXCEPT !.costExposure = "accruing"]]
      /\ dispatches' = [dispatches EXCEPT ![a] = @ + 1]
      /\ UNCHANGED <<now, lease, execution, ended, claims, reservation, fact, posting, balance>>
  BY DispatchGrantedEffect DEF billingVars
<1> USE DEF IInv
<1>2. TypeOK'
  BY DispatchGrantedType
<1>3. /\ attempt'[a].costExposure = "accruing" /\ attempt'[a].outcome = "pending"
      /\ attempt'[a].usageSettled = attempt[a].usageSettled
      /\ attempt'[a].reconciliationReason = attempt[a].reconciliationReason
      /\ attempt'[a].failureClass = attempt[a].failureClass
      /\ attempt'[a].failureReason = attempt[a].failureReason
      /\ attempt'[a].outputCommitted = attempt[a].outputCommitted
  BY <1>1 DEF TypeOK, AttemptRow
<1>4. Present(a) /\ Present(a)'
  BY <1>1, <1>3 DEF Present
<1>5. RowCoherent(a)'
  BY <1>1, <1>3 DEF AttemptRowsCoherent, RowCoherent
<1>6. OccupationMatches(a)'
  BY <1>1, <1>3, <1>4 DEF OccupationMatchesAttempt, OccupationMatches, Protected, Paygo, Open
<1>7. Charged(a)'
  BY <1>1 DEF ChargedOnce, Charged, Paygo
<1>8. Listed(a)'
  BY <1>1, <1>3 DEF AttemptRowsCoherent, RowCoherent, Listed, TerminalStatus
<1>9. DispatchedOnce(a)'
  <2>1. dispatches[a] = 0
    BY <1>1 DEF DispatchedOnce, AtMostOnceDispatch, TypeOK
  <2> QED BY <1>1, <1>3, <2>1 DEF DispatchedOnce, TypeOK
<1> QED BY <1>1, <1>2, <1>3, <1>4, <1>5, <1>6, <1>7, <1>8, <1>9, TouchPreserves

(* An admission writes the row of an attempt that did not exist, the next  *)
(* one of its request.                                                     *)
LEMMA AdmissionPreserves ==
  ASSUME IInv, TypeOK', NEW r \in Requests, NEW i \in 0 .. MaxAttempts - 1, NEW o \in Owners,
         NEW max \in Nat, ~Present(<<r, i>>), InspectNewAdmission(r, i, o),
         PersistProviderAttempt(r, i, o, max),
         IF Protected(<<r, i>>) THEN createInvocationBillingOccupation(<<r, i>>, max)
         ELSE UNCHANGED <<claims, reservation>>,
         UNCHANGED <<now, lease, ended, dispatches, fact, posting, balance>>
  PROVE  IInv'
<1> DEFINE a == <<r, i>>
<1>1. a \in Attempts /\ a[1] = r /\ a[2] = i /\ i \in Nat
  BY AttemptOf
<1> HIDE DEF a
<1> USE DEF IInv
<1>2. /\ attempt'[a].outcome = "pending" /\ attempt'[a].owner = o
      /\ attempt'[a].failureClass = Null /\ attempt'[a].failureReason = Null
      /\ attempt'[a].outputCommitted = FALSE /\ attempt'[a].costExposure = "not_started"
      /\ attempt'[a].usageSettled = FALSE /\ attempt'[a].reconciliationReason = Null
      /\ \A b \in Attempts \ {a} : attempt'[b] = attempt[b]
  BY <1>1 DEF PersistProviderAttempt, NoAttempt, TypeOK, a
<1>3. /\ execution[r].attemptCount = i
      /\ execution'[r].attemptCount = i + 1 /\ execution'[r].owner = o
      /\ execution'[r].status = "running"
      /\ i > 0 => execution[r].owner = o /\ attempt[<<r, i - 1>>].usageSettled
      /\ \A q \in Requests \ {r} : execution'[q] = execution[q]
      /\ ~isTerminalExecutionStatus(r)
  <2>1. execution[r] \in ExecutionRow
    BY DEF TypeOK
  <2>2. CASE i = 0
    BY <1>1, <2>1, <2>2 DEF InspectNewAdmission, ExecutionAdmits, PersistProviderAttempt, NoExecution,
         TypeOK, AttemptRowsCoherent, ExecutionRow, isTerminalExecutionStatus, TerminalStatus
  <2>3. CASE i # 0
    BY <1>1, <2>1, <2>3 DEF InspectNewAdmission, ExecutionAdmits, PreviousSettled,
         PersistProviderAttempt, TypeOK, ExecutionRow, isTerminalExecutionStatus, TerminalStatus
  <2> QED BY <2>2, <2>3
<1>4. /\ a \in claims' <=> Protected(a)
      /\ a \in Open' <=> Protected(a) /\ Paygo(a)
      /\ reservation'[a].status # "absent" <=> Protected(a) /\ Paygo(a)
      /\ a \notin Open' => reservation'[a].held = 0
      /\ \A b \in Attempts \ {a} :
           /\ b \in claims' <=> b \in claims
           /\ reservation'[b] = reservation[b]
  <2>1. /\ ~Present(a) /\ a \notin claims /\ a \notin Open
        /\ reservation[a].status = "absent" /\ reservation[a].held = 0
    BY <1>1 DEF a, OccupationMatchesAttempt, OccupationMatches
  <2>2. CASE Protected(a)
    <3>1. createInvocationBillingOccupation(a, max)
      BY <2>2 DEF a
    <3> QED BY <1>1, <2>1, <2>2, <3>1 DEF createInvocationBillingOccupation, Open, TypeOK
  <2>3. CASE ~Protected(a)
    BY <1>1, <2>1, <2>3 DEF a, Open
  <2> QED BY <2>2, <2>3
<1>5. OneUnsettledAttempt'
  <2> SUFFICES ASSUME NEW b \in Attempts
               PROVE  LET e == execution'[b[1]] IN
                      /\ Present(b)' <=> b[2] < e.attemptCount
                      /\ Present(b)' => attempt'[b].owner = e.owner
                      /\ b[2] + 1 < e.attemptCount => attempt'[b].usageSettled
    BY DEF OneUnsettledAttempt
  <2>1. b[1] \in Requests /\ b[2] \in Nat /\ b = <<b[1], b[2]>>
    BY AttemptsFacts
  <2>2. CASE b[1] # r
    BY <1>1, <1>2, <1>3, <2>1, <2>2 DEF OneUnsettledAttempt, Present
  <2>3. CASE b = a
    BY <1>1, <1>2, <1>3, <2>1, <2>3 DEF Present
  <2>4. CASE b[1] = r /\ b # a
    <3>1. b[2] # i
      BY <2>1, <2>4 DEF a
    <3>2. /\ Present(b) <=> b[2] < i
          /\ Present(b) => attempt[b].owner = execution[r].owner
          /\ b[2] + 1 < i => attempt[b].usageSettled
      BY <1>3, <2>4 DEF OneUnsettledAttempt
    <3>3. b[2] + 1 = i => attempt[b].usageSettled
      <4> SUFFICES ASSUME b[2] + 1 = i PROVE attempt[b].usageSettled
        OBVIOUS
      <4>1. i > 0 /\ b = <<r, i - 1>>
        BY <2>1, <2>4
      <4> QED BY <1>3, <4>1
    <3>4. attempt'[b] = attempt[b]
      BY <1>2, <2>4
    <3> QED BY <1>1, <1>3, <2>1, <2>4, <3>1, <3>2, <3>3, <3>4 DEF Present
  <2> QED BY <2>2, <2>3, <2>4
<1>6. AttemptRowsCoherent'
  <2>1. RowCoherent(a)'
    BY <1>2 DEF RowCoherent
  <2>2. \A b \in Attempts \ {a} : RowCoherent(b)'
    BY <1>2 DEF AttemptRowsCoherent, RowCoherent
  <2>3. \A q \in Requests : execution'[q].status = "absent" <=> execution'[q].attemptCount = 0
    BY <1>1, <1>3 DEF AttemptRowsCoherent
  <2> QED BY <2>1, <2>2, <2>3 DEF AttemptRowsCoherent
<1>7. OccupationMatchesAttempt'
  <2>1. OccupationMatches(a)'
    <3>1. fact[a] = NoUsage
      BY <1>1 DEF a, OccupationMatchesAttempt, OccupationMatches, AttemptRowsCoherent, RowCoherent,
                  Present
    <3> QED BY <1>2, <1>4, <3>1 DEF OccupationMatches, Present, Protected, Paygo
  <2>2. \A b \in Attempts \ {a} : OccupationMatches(b)'
    BY <1>2, <1>4 DEF OccupationMatchesAttempt, OccupationMatches, Present, Protected, Paygo, Open
  <2> QED BY <2>1, <2>2 DEF OccupationMatchesAttempt
<1>8. ReconcilingIsListed'
  <2> SUFFICES ASSUME NEW b \in Attempts PROVE Listed(b)'
    BY DEF ReconcilingIsListed
  <2>1. CASE b = a
    BY <1>2, <2>1 DEF Listed, TerminalStatus
  <2>2. CASE b # a
    <3>1. b[1] \in Requests
      BY AttemptsFacts
    <3>2. isTerminalExecutionStatus(b[1]) => isTerminalExecutionStatus(b[1])'
      BY <1>3, <3>1 DEF isTerminalExecutionStatus
    <3> QED BY <1>2, <2>2, <3>2
            DEF ReconcilingIsListed, Listed, Unresolved, ReconciliationReady, Protected
  <2> QED BY <2>1, <2>2
<1>9. AtMostOnceDispatch'
  <2>1. dispatches[a] = 0
    BY <1>1 DEF a, AtMostOnceDispatch, DispatchedOnce, TypeOK, AttemptRowsCoherent, RowCoherent,
                Present
  <2> QED BY <1>2, <2>1 DEF AtMostOnceDispatch, DispatchedOnce
<1>10. ChargedOnce'
  BY DEF ChargedOnce, Charged, Paygo
<1> QED BY <1>5, <1>6, <1>7, <1>8, <1>9, <1>10

LEMMA InitInvariant == Init => IInv
<1> SUFFICES ASSUME Init PROVE IInv
  OBVIOUS
<1>1. TypeOK
  BY InitType
<1>2. \A a \in Attempts : attempt[a] = NoAttempt /\ reservation[a] = NoReservation
                            /\ fact[a] = NoUsage /\ posting[a] = 0 /\ dispatches[a] = 0
                            /\ a \notin claims
  BY DEF Init
<1>3. \A r \in Requests : execution[r] = NoExecution
  BY DEF Init
<1>4. OneUnsettledAttempt
  BY <1>2, <1>3, AttemptsFacts DEF OneUnsettledAttempt, Present, NoAttempt, NoExecution
<1>5. AttemptRowsCoherent
  BY <1>2, <1>3 DEF AttemptRowsCoherent, RowCoherent, NoAttempt, NoExecution
<1>6. OccupationMatchesAttempt
  BY <1>2 DEF OccupationMatchesAttempt, OccupationMatches, Open, Present, NoAttempt, NoReservation
<1>7. ReconcilingIsListed
  BY <1>2 DEF ReconcilingIsListed, Listed, NoAttempt, TerminalStatus
<1>8. AtMostOnceDispatch /\ ChargedOnce
  BY <1>2 DEF AtMostOnceDispatch, DispatchedOnce, ChargedOnce, Charged
<1> QED BY <1>1, <1>4, <1>5, <1>6, <1>7, <1>8 DEF IInv

(* Leases, the clock and the request log are not part of the rows above,   *)
(* except that a log that has ended stays ended.                           *)
LEMMA RowsKept ==
  ASSUME IInv, TypeOK', UNCHANGED <<execution, attempt, dispatches, billingVars>>,
         \A r \in Requests : ended[r] => ended'[r]
  PROVE  IInv'
<1> USE DEF IInv, billingVars
<1>1. OneUnsettledAttempt' /\ AttemptRowsCoherent'
  BY DEF OneUnsettledAttempt, AttemptRowsCoherent, RowCoherent, Present
<1>2. OccupationMatchesAttempt' /\ AtMostOnceDispatch' /\ ChargedOnce'
  BY DEF OccupationMatchesAttempt, OccupationMatches, AtMostOnceDispatch, DispatchedOnce,
         ChargedOnce, Charged, Present, Open, Protected, Paygo
<1>3. ReconcilingIsListed'
  BY AttemptsFacts DEF ReconcilingIsListed, Listed, Unresolved, ReconciliationReady,
         isTerminalExecutionStatus, Protected
<1> QED BY <1>1, <1>2, <1>3

LEMMA FailRequestExecutionPreserves ==
  ASSUME IInv, TypeOK', NEW r \in Requests, NEW o \in Owners, NEW code,
         FailRequestExecution(r, o, code)
  PROVE  IInv'
<1> USE DEF IInv
<1>1. UNCHANGED <<attempt, ended, dispatches, claims, reservation, fact, posting, balance>>
  BY DEF FailRequestExecution, billingVars
<1>2. "failed" \in TerminalStatus /\ execution' = Arbitrated(r, "failed", code, FALSE)
  BY DEF FailRequestExecution, TerminalStatus
<1>3. \A q \in Requests :
           /\ execution'[q].owner = execution[q].owner
           /\ execution'[q].attemptCount = execution[q].attemptCount
           /\ execution[q].status # "running" => execution'[q] = execution[q]
           /\ execution[q].status = "running" => execution'[q].status # "absent"
  BY <1>2, ArbitratedFacts
<1>4. OneUnsettledAttempt'
  BY <1>1, <1>3, AttemptsFacts DEF OneUnsettledAttempt, Present
<1>5. AttemptRowsCoherent'
  BY <1>1, <1>3 DEF AttemptRowsCoherent, RowCoherent
<1>6. OccupationMatchesAttempt' /\ AtMostOnceDispatch' /\ ChargedOnce'
  BY <1>1 DEF OccupationMatchesAttempt, OccupationMatches, AtMostOnceDispatch, DispatchedOnce,
              ChargedOnce, Charged, Present, Open, Protected, Paygo
<1>7. ReconcilingIsListed'
  <2> SUFFICES ASSUME NEW b \in Attempts PROVE Listed(b)'
    BY DEF ReconcilingIsListed
  <2>1. b[1] \in Requests
    BY AttemptsFacts
  <2>2. isTerminalExecutionStatus(b[1]) => isTerminalExecutionStatus(b[1])'
    BY <1>3, <2>1 DEF isTerminalExecutionStatus, TerminalStatus
  <2> QED BY <1>1, <2>2
          DEF ReconcilingIsListed, Listed, Unresolved, ReconciliationReady, Protected
<1> QED BY <1>4, <1>5, <1>6, <1>7

LEMMA NextInvariant == IInv /\ [Next]_vars => IInv'
<1> SUFFICES ASSUME IInv, [Next]_vars PROVE IInv'
  OBVIOUS
<1>0. TypeOK'
  BY NextType DEF IInv
<1>1. CASE Tick
  BY <1>0, <1>1, RowsKept DEF Tick
<1>2. ASSUME NEW r \in Requests, NEW o \in Owners,
             AcquireLease(r, o) \/ RenewLease(r, o) \/ ReleaseLease(r, o)
      PROVE  IInv'
  BY <1>0, <1>2, RowsKept DEF AcquireLease, RenewLease, ReleaseLease
<1>3. ASSUME NEW r \in Requests, NEW i \in 0 .. MaxAttempts - 1, NEW o \in Owners,
             AdmitCpaBasic(r, i, o)
      PROVE  IInv'
  BY <1>0, <1>3, AdmissionPreserves DEF AdmitCpaBasic, billingVars
<1>4. ASSUME NEW r \in Requests, NEW i \in 0 .. MaxAttempts - 1, NEW o \in Owners,
             NEW max \in Maxima, Admit(r, i, o, max)
      PROVE  IInv'
  <2>1. max \in Nat
    BY ConstantsAssumption
  <2> QED BY <1>0, <1>4, <2>1, AdmissionPreserves DEF Admit
<1>5. ASSUME NEW a \in Attempts, NEW o \in Owners, DispatchGranted(a, o) \/ OwnershipLost(a, o)
      PROVE  IInv'
  BY <1>5, DispatchGrantedPreserves, OwnershipLostPreserves
<1>6. ASSUME NEW a \in Attempts, NEW ev \in Evidence, NEW t \in TerminalOf(ev),
             ReleaseNotStarted(a, ev, t) \/ \E u \in Usages : SettleFinalUsage(a, ev, u, t)
      PROVE  IInv'
  BY <1>6, SettlePreserves, CommandFacts, ConstantsAssumption DEF ReleaseNotStarted, SettleFinalUsage
<1>7. ASSUME NEW a \in Attempts, NEW ev \in Evidence, NEW u \in Usages,
             ReconcileFinalUsage(a, ev, u)
      PROVE  IInv'
  BY <1>7, SettlePreserves, CommandFacts DEF ReconcileFinalUsage
<1>8. ASSUME NEW a \in Attempts, NEW ev \in Evidence, NEW exposure \in {"accruing", "stopped"},
             EnterReconciliation(a, ev, exposure, "provider_final_usage_pending")
      PROVE  IInv'
  BY <1>8, EnterReconciliationPreserves, CommandFacts DEF Reasons
<1>9. ASSUME NEW a \in Attempts, NEW ev \in Evidence, TransitionFailedCpaBasicSettlement(a, ev)
      PROVE  IInv'
  BY <1>9, EnterReconciliationPreserves, CommandFacts
     DEF TransitionFailedCpaBasicSettlement, Reasons
<1>10. ASSUME NEW r \in Requests, FinishRequestLog(r)
       PROVE  IInv'
  BY <1>0, <1>10, RowsKept DEF FinishRequestLog, IInv, TypeOK
<1>11. ASSUME NEW r \in Requests, NEW o \in Owners, NEW code \in ErrorCodes,
              FailRequestExecution(r, o, code)
       PROVE  IInv'
  BY <1>0, <1>11, FailRequestExecutionPreserves
<1>12. CASE UNCHANGED vars
  BY <1>12, UnchangedPreserves
<1> QED
  BY <1>1, <1>2, <1>3, <1>4, <1>5, <1>6, <1>7, <1>8, <1>9, <1>10, <1>11, <1>12
     DEF Next, LeaseStep, AdmissionStep, SettlementStep, ReconciliationStep

(* The inductive invariant holds of every reachable state.                 *)
THEOREM Invariance == Spec => []IInv
BY InitInvariant, NextInvariant, PTL DEF Spec

(* A protected or claimless request never has two attempts whose usage is  *)
(* not final, and a later lease holder never adds one.                     *)
THEOREM OneUnsettled == Spec => []OneUnsettledAttempt
BY Invariance, PTL DEF IInv

(* The state CHECK of request_provider_attempts is never violated.         *)
THEOREM RowsCoherent == Spec => []AttemptRowsCoherent
BY Invariance, PTL DEF IInv

(* Billing and RequestExecution, two packages writing in one transaction,  *)
(* never disagree on what an attempt occupies.                             *)
THEOREM OccupationAgrees == Spec => []OccupationMatchesAttempt
BY Invariance, PTL DEF IInv

(* Whatever is retried or raced, an attempt is charged at most once.       *)
THEOREM SingleCharge == Spec => []ChargedOnce
BY Invariance, PTL DEF IInv

(* No attempt waits for usage outside the operator's list.                 *)
THEOREM NothingUnlisted == Spec => []ReconcilingIsListed
BY Invariance, PTL DEF IInv

(* The Provider is called at most once for an attempt.                     *)
THEOREM SingleDispatch == Spec => []AtMostOnceDispatch
BY Invariance, PTL DEF IInv

LEMMA ListedSettleable == IInv => UnresolvedIsSettleable
<1> SUFFICES ASSUME IInv, NEW a \in Unresolved
             PROVE  /\ FinalizeLock(a, [Terminal(attempt[a]) EXCEPT !.failureReason = Null], TRUE)
                    /\ fact[a] = NoUsage
                    /\ a \in claims <=> Protected(a)
  BY DEF UnresolvedIsSettleable
<1> USE DEF IInv
<1>1. a \in Attempts /\ ~attempt[a].usageSettled /\ ReconciliationReady(a)
  BY DEF Unresolved
<1>2. attempt[a].outcome \in TerminalStatus /\ Present(a)
  BY <1>1 DEF ReconciliationReady, ReconcilingIsListed, Listed, Present, TerminalStatus
<1> DEFINE ev == [Terminal(attempt[a]) EXCEPT !.failureReason = Null]
<1>3. /\ ev.outcome = attempt[a].outcome /\ ev.failureClass = attempt[a].failureClass
      /\ ev.failureReason = Null /\ ev.outputCommitted = attempt[a].outputCommitted
  BY DEF Terminal
<1> HIDE DEF ev
<1>4. providerAttemptFailureClass(ev.outcome, ev.failureClass) = attempt[a].failureClass
  BY <1>1, <1>3 DEF providerAttemptFailureClass, AttemptRowsCoherent, RowCoherent
<1>5. Expected(a, ev) = Terminal(attempt[a])
  BY <1>3, <1>4 DEF Expected, Terminal
<1>6. EvidenceAgrees(a, ev)
  BY <1>1, <1>3, <1>5 DEF EvidenceAgrees, AttemptRowsCoherent, RowCoherent, Terminal
<1>7. FinalizeLock(a, ev, TRUE)
  BY <1>1, <1>2, <1>6 DEF FinalizeLock
<1> QED BY <1>1, <1>2, <1>7 DEF ev, OccupationMatchesAttempt, OccupationMatches

(* The operator can settle every attempt of the list with the evidence the *)
(* attempt already holds.                                                  *)
THEOREM EveryListedIsSettleable == Spec => []UnresolvedIsSettleable
BY Invariance, ListedSettleable, PTL

-----------------------------------------------------------------------------
(* What a transaction never does.                                          *)

(* A step that no history forbids.                                         *)
LegalStep ==
  /\ \A r \in Requests : isTerminalExecutionStatus(r) => execution'[r] = execution[r]
  /\ \A a \in Attempts : EvidenceKept(a)
  /\ \A a \in Attempts : Present(a) /\ attempt'[a] # attempt[a]
                            => TriggerAdmits(attempt[a], attempt'[a])
  /\ \A a \in Attempts : ExposureKept(a)

LEMMA TouchIsLegal ==
  ASSUME NEW a \in Attempts, Touches(a), EvidenceKept(a),
         TriggerAdmits(attempt[a], attempt'[a]), ExposureKept(a)
  PROVE  LegalStep
<1>1. \A r \in Requests : isTerminalExecutionStatus(r) => execution'[r] = execution[r]
  BY DEF Touches, isTerminalExecutionStatus, TerminalStatus
<1>2. \A b \in Attempts \ {a} : EvidenceKept(b) /\ attempt'[b] = attempt[b] /\ ExposureKept(b)
  BY DEF Touches, EvidenceKept, ExposureKept
<1> QED BY <1>1, <1>2 DEF LegalStep

LEMMA RowsKeptIsLegal ==
  ASSUME UNCHANGED <<execution, attempt, fact, posting, reservation>>
  PROVE  LegalStep
BY DEF LegalStep, EvidenceKept, ExposureKept

LEMMA SettleIsLegal ==
  ASSUME IInv, NEW a \in Attempts, NEW ev \in EvidenceRow, NEW u \in Usages,
         NEW zeroOutcome \in {"settled", "released"}, NEW t,
         t = NoTerminal \/ (t.status \in TerminalStatus /\ t.code \in Codes),
         NEW b \in BOOLEAN, settle(a, ev, u, zeroOutcome, t, b)
  PROVE  LegalStep
<1>1. CASE UNCHANGED vars
  BY <1>1, RowsKeptIsLegal DEF vars
<1>2. CASE ~UNCHANGED vars
  <2> DEFINE x == Expected(a, ev)
  <2>1. SettleChanges(a, ev, u, zeroOutcome)
    BY <1>2, SettleEffect
  <2>2. /\ ~attempt[a].usageSettled /\ Touches(a)
        /\ attempt[a].outcome # "pending" => Terminal(attempt[a]) = x
        /\ attempt' = [attempt EXCEPT ![a] = [WithEvidence(attempt[a], x) EXCEPT
             !.costExposure = "stopped", !.usageSettled = TRUE, !.reconciliationReason = Null]]
    BY <2>1 DEF SettleChanges, EvidenceAgrees
  <2>3. x \in EvidenceRow /\ x = Terminal(x)
    BY ExpectedType DEF IInv, Expected, Terminal
  <2>4. x.failureClass # Null <=> x.outcome = "failed"
    BY DEF Expected, providerAttemptFailureClass, EvidenceRow, FailureClasses, Null
  <2> HIDE DEF x
  <2>5. /\ attempt'[a].outcome = x.outcome /\ attempt'[a].failureClass = x.failureClass
        /\ attempt'[a].failureReason = x.failureReason
        /\ attempt'[a].outputCommitted = x.outputCommitted
        /\ attempt'[a].costExposure = "stopped" /\ attempt'[a].usageSettled
    BY <2>2 DEF IInv, TypeOK, AttemptRow, WithEvidence
  <2>6. Terminal(attempt'[a]) = x
    BY <2>3, <2>5 DEF Terminal
  <2>7. EvidenceKept(a)
    BY <2>2, <2>6 DEF EvidenceKept, TerminalStatus
  <2>8. TriggerAdmits(attempt[a], attempt'[a]) /\ ExposureKept(a)
    BY <2>2, <2>3, <2>4, <2>5 DEF TriggerAdmits, ExposureKept, EvidenceRow
  <2> QED BY <2>2, <2>7, <2>8, TouchIsLegal
<1> QED BY <1>1, <1>2

LEMMA EnterReconciliationIsLegal ==
  ASSUME IInv, NEW a \in Attempts, NEW ev \in EvidenceRow,
         NEW exposure \in {"accruing", "stopped"}, NEW reason \in Reasons,
         EnterReconciliation(a, ev, exposure, reason)
  PROVE  LegalStep
<1> DEFINE x == Expected(a, ev)
<1>1. ReconciliationChanges(a, ev, exposure, reason)
  BY EnterReconciliationEffect
<1>2. /\ ~attempt[a].usageSettled /\ Touches(a)
      /\ attempt[a].outcome # "pending" => Terminal(attempt[a]) = x
      /\ attempt[a].costExposure = "stopped" => exposure = "stopped"
      /\ attempt' = [attempt EXCEPT ![a] = [WithEvidence(attempt[a], x) EXCEPT
           !.costExposure = exposure, !.reconciliationReason = reason]]
  BY <1>1 DEF ReconciliationChanges, EvidenceAgrees
<1>3. x \in EvidenceRow /\ x = Terminal(x)
  BY ExpectedType DEF IInv, Expected, Terminal
<1>4. x.failureClass # Null <=> x.outcome = "failed"
  BY DEF Expected, providerAttemptFailureClass, EvidenceRow, FailureClasses, Null
<1> HIDE DEF x
<1>5. /\ attempt'[a].outcome = x.outcome /\ attempt'[a].failureClass = x.failureClass
      /\ attempt'[a].failureReason = x.failureReason
      /\ attempt'[a].outputCommitted = x.outputCommitted
      /\ attempt'[a].costExposure = exposure /\ ~attempt'[a].usageSettled
  BY <1>2 DEF IInv, TypeOK, AttemptRow, WithEvidence
<1>6. Terminal(attempt'[a]) = x
  BY <1>3, <1>5 DEF Terminal
<1>7. EvidenceKept(a)
  BY <1>2, <1>6 DEF EvidenceKept, TerminalStatus
<1>8. TriggerAdmits(attempt[a], attempt'[a]) /\ ExposureKept(a)
  BY <1>2, <1>3, <1>4, <1>5 DEF TriggerAdmits, ExposureKept, EvidenceRow
<1> QED BY <1>2, <1>7, <1>8, TouchIsLegal

LEMMA DispatchIsLegal ==
  ASSUME IInv, NEW a \in Attempts, NEW o \in Owners, DispatchGranted(a, o) \/ OwnershipLost(a, o)
  PROVE  LegalStep
<1>1. ~attempt[a].usageSettled /\ attempt[a].failureClass = Null /\ attempt[a].outcome = "pending"
      /\ attempt[a].costExposure # "stopped"
  BY DispatchGrantedEffect, OwnershipLostEffect DEF IInv, AttemptRowsCoherent, RowCoherent
<1>2. CASE DispatchGranted(a, o)
  <2>1. /\ attempt[a].costExposure = "not_started" /\ Touches(a)
        /\ attempt' = [attempt EXCEPT ![a] = [attempt[a] EXCEPT !.costExposure = "accruing"]]
    BY <1>2, DispatchGrantedEffect
  <2>2. TriggerAdmits(attempt[a], attempt'[a]) /\ ExposureKept(a) /\ EvidenceKept(a)
    BY <1>1, <2>1 DEF TriggerAdmits, ExposureKept, EvidenceKept, TerminalStatus, IInv, TypeOK, AttemptRow
  <2> QED BY <2>1, <2>2, TouchIsLegal
<1>3. CASE OwnershipLost(a, o)
  <2>1. /\ Touches(a)
        /\ attempt' = [attempt EXCEPT ![a] =
              [attempt[a] EXCEPT !.outcome = "failed", !.failureClass = "non_retryable",
                 !.costExposure = "accruing",
                 !.reconciliationReason = "execution_ownership_lost"]]
    BY <1>3, OwnershipLostEffect
  <2>2. TriggerAdmits(attempt[a], attempt'[a]) /\ ExposureKept(a) /\ EvidenceKept(a)
    BY <1>1, <2>1 DEF TriggerAdmits, ExposureKept, EvidenceKept, TerminalStatus, Null, IInv, TypeOK,
                      AttemptRow
  <2> QED BY <2>1, <2>2, TouchIsLegal
<1> QED BY <1>2, <1>3

LEMMA AdmissionIsLegal ==
  ASSUME IInv, NEW r \in Requests, NEW i \in 0 .. MaxAttempts - 1, NEW o \in Owners,
         NEW max \in Nat, ~Present(<<r, i>>), InspectNewAdmission(r, i, o),
         PersistProviderAttempt(r, i, o, max),
         UNCHANGED reservation \/ createInvocationBillingOccupation(<<r, i>>, max),
         UNCHANGED <<fact, posting>>
  PROVE  LegalStep
<1> DEFINE a == <<r, i>>
<1> USE DEF IInv
<1>1. a \in Attempts
  BY AttemptOf
<1>2. attempt[a].outcome = "absent" /\ ~attempt[a].usageSettled
      /\ attempt[a].costExposure = "not_started"
  BY <1>1 DEF Present, AttemptRowsCoherent, RowCoherent
<1>3. \A b \in Attempts \ {a} : attempt'[b] = attempt[b] /\ reservation'[b] = reservation[b]
  BY <1>1 DEF PersistProviderAttempt, createInvocationBillingOccupation, TypeOK
<1>4. \A q \in Requests : isTerminalExecutionStatus(q) => execution'[q] = execution[q]
  BY DEF InspectNewAdmission, ExecutionAdmits, PersistProviderAttempt, isTerminalExecutionStatus,
         TerminalStatus, TypeOK
<1>5. \A b \in Attempts : EvidenceKept(b) /\ ExposureKept(b)
  <2>1. EvidenceKept(a) /\ ExposureKept(a)
    BY <1>1, <1>2 DEF EvidenceKept, ExposureKept, TerminalStatus
  <2>2. \A b \in Attempts \ {a} : EvidenceKept(b) /\ ExposureKept(b)
    BY <1>3 DEF EvidenceKept, ExposureKept
  <2> QED BY <2>1, <2>2
<1> QED BY <1>2, <1>3, <1>4, <1>5 DEF LegalStep, Present

LEMMA StepIsLegal ==
  ASSUME IInv, [Next]_vars
  PROVE  LegalStep
<1>1. ASSUME Tick \/ \E r \in Requests : FinishRequestLog(r)
      PROVE  LegalStep
  BY <1>1, RowsKeptIsLegal DEF Tick, FinishRequestLog, billingVars
<1>2. ASSUME NEW r \in Requests, NEW o \in Owners,
             AcquireLease(r, o) \/ RenewLease(r, o) \/ ReleaseLease(r, o)
      PROVE  LegalStep
  BY <1>2, RowsKeptIsLegal DEF AcquireLease, RenewLease, ReleaseLease, billingVars
<1>3. ASSUME NEW r \in Requests, NEW i \in 0 .. MaxAttempts - 1, NEW o \in Owners,
             AdmitCpaBasic(r, i, o)
      PROVE  LegalStep
  BY <1>3, AdmissionIsLegal DEF AdmitCpaBasic, billingVars
<1>4. ASSUME NEW r \in Requests, NEW i \in 0 .. MaxAttempts - 1, NEW o \in Owners,
             NEW max \in Maxima, Admit(r, i, o, max)
      PROVE  LegalStep
  <2>1. max \in Nat
    BY ConstantsAssumption
  <2> QED BY <1>4, <2>1, AdmissionIsLegal DEF Admit
<1>5. ASSUME NEW a \in Attempts, NEW o \in Owners, DispatchGranted(a, o) \/ OwnershipLost(a, o)
      PROVE  LegalStep
  BY <1>5, DispatchIsLegal
<1>6. ASSUME NEW a \in Attempts, NEW ev \in Evidence, NEW t \in TerminalOf(ev),
             ReleaseNotStarted(a, ev, t) \/ \E u \in Usages : SettleFinalUsage(a, ev, u, t)
      PROVE  LegalStep
  BY <1>6, SettleIsLegal, CommandFacts, ConstantsAssumption DEF ReleaseNotStarted, SettleFinalUsage
<1>7. ASSUME NEW a \in Attempts, NEW ev \in Evidence, NEW u \in Usages,
             ReconcileFinalUsage(a, ev, u)
      PROVE  LegalStep
  BY <1>7, SettleIsLegal, CommandFacts DEF ReconcileFinalUsage
<1>8. ASSUME NEW a \in Attempts, NEW ev \in Evidence, NEW exposure \in {"accruing", "stopped"},
             EnterReconciliation(a, ev, exposure, "provider_final_usage_pending")
      PROVE  LegalStep
  BY <1>8, EnterReconciliationIsLegal, CommandFacts DEF Reasons
<1>9. ASSUME NEW a \in Attempts, NEW ev \in Evidence, TransitionFailedCpaBasicSettlement(a, ev)
      PROVE  LegalStep
  BY <1>9, EnterReconciliationIsLegal, CommandFacts DEF TransitionFailedCpaBasicSettlement, Reasons
<1>10. ASSUME NEW r \in Requests, NEW o \in Owners, NEW code \in ErrorCodes,
              FailRequestExecution(r, o, code)
       PROVE  LegalStep
  <2>1. execution' = Arbitrated(r, "failed", code, FALSE)
        /\ "failed" \in TerminalStatus /\ UNCHANGED <<attempt, fact, posting, reservation>>
    BY <1>10 DEF FailRequestExecution, billingVars, TerminalStatus
  <2>2. \A q \in Requests : isTerminalExecutionStatus(q) => execution'[q] = execution[q]
    BY <2>1, ArbitratedFacts DEF IInv, isTerminalExecutionStatus, TerminalStatus
  <2> QED BY <2>1, <2>2 DEF LegalStep, EvidenceKept, ExposureKept
<1>11. CASE UNCHANGED vars
  BY <1>11, RowsKeptIsLegal DEF vars
<1> QED
  BY <1>1, <1>2, <1>3, <1>4, <1>5, <1>6, <1>7, <1>8, <1>9, <1>10, <1>11
     DEF Next, LeaseStep, AdmissionStep, SettlementStep, ReconciliationStep

LEMMA StepsAreLegal == IInv /\ [Next]_vars => [LegalStep]_vars
BY StepIsLegal

(* The terminal arbiter: a closed execution is never reopened or rewritten. *)
THEOREM TerminalIsFinal == Spec => TerminalNeverRewritten
<1>1. [LegalStep]_vars =>
        [\A r \in Requests : isTerminalExecutionStatus(r) => execution'[r] = execution[r]]_vars
  BY DEF LegalStep
<1> QED BY <1>1, Invariance, StepsAreLegal, PTL DEF Spec, TerminalNeverRewritten

(* Recorded evidence and settled attempts are final in every table.        *)
THEOREM EvidenceIsFinal == Spec => EvidenceNeverRewritten
<1>1. [LegalStep]_vars => [\A a \in Attempts : EvidenceKept(a)]_vars
  BY DEF LegalStep
<1> QED BY <1>1, Invariance, StepsAreLegal, PTL DEF Spec, EvidenceNeverRewritten

(* The row trigger never has to refuse an update.                          *)
THEOREM TriggerNeverFires == Spec => DatabaseChecksHold
<1>1. [LegalStep]_vars =>
        [\A a \in Attempts : Present(a) /\ attempt'[a] # attempt[a]
                               => TriggerAdmits(attempt[a], attempt'[a])]_vars
  BY DEF LegalStep
<1> QED BY <1>1, Invariance, StepsAreLegal, PTL DEF Spec, DatabaseChecksHold

(* Cost exposure only moves from not started through accruing to stopped.  *)
THEOREM ExposureIsMonotone == Spec => ExposureNeverGoesBack
<1>1. [LegalStep]_vars => [\A a \in Attempts : ExposureKept(a)]_vars
  BY DEF LegalStep
<1> QED BY <1>1, Invariance, StepsAreLegal, PTL DEF Spec, ExposureNeverGoesBack

-----------------------------------------------------------------------------
(* The concurrency limit.                                                  *)

LEMMA AttemptsFinite == IsFiniteSet(Attempts)
<1>1. IsFiniteSet(0 .. MaxAttempts - 1)
  BY FS_Interval, ConstantsAssumption
<1> QED BY <1>1, FS_Product, FiniteAssumption DEF Attempts

LEMMA OpenIsFinite == IsFiniteSet(Open) /\ IsFiniteSet(Open')
<1>1. Open \in SUBSET Attempts /\ Open' \in SUBSET Attempts
  BY DEF Open
<1> QED BY <1>1, AttemptsFinite, FS_Subset

(* Nothing but a protected admission opens a reservation.                  *)
LEMMA OpenedByAdmission ==
  ASSUME IInv, [Next]_vars
  PROVE  \/ Open' \subseteq Open
         \/ \E r \in Requests, i \in 0 .. MaxAttempts - 1, o \in Owners, max \in Maxima :
               Admit(r, i, o, max)
<1>1. ASSUME UNCHANGED reservation
      PROVE  Open' \subseteq Open
  BY <1>1 DEF Open
<1>2. ASSUME NEW a \in Attempts, NEW ev \in EvidenceRow, NEW u \in Usages,
             NEW zeroOutcome \in {"settled", "released"}, NEW t, NEW b,
             settle(a, ev, u, zeroOutcome, t, b)
      PROVE  Open' \subseteq Open
  BY <1>2 DEF settle, settleInvocationBilling, SettledReservation, billingVars, Open, IInv, TypeOK
<1>3. ASSUME NEW a \in Attempts, NEW exposure, markInvocationBillingReconciliation(a, exposure)
      PROVE  Open' \subseteq Open
  BY <1>3 DEF markInvocationBillingReconciliation, Open, IInv, TypeOK
<1>4. ASSUME NEW a \in Attempts, NEW ev \in Evidence, NEW t \in TerminalOf(ev),
             ReleaseNotStarted(a, ev, t) \/ \E u \in Usages : SettleFinalUsage(a, ev, u, t)
      PROVE  Open' \subseteq Open
  BY <1>2, <1>4, CommandFacts, ConstantsAssumption DEF ReleaseNotStarted, SettleFinalUsage
<1>5. ASSUME NEW a \in Attempts, NEW ev \in Evidence, NEW u \in Usages,
             ReconcileFinalUsage(a, ev, u)
      PROVE  Open' \subseteq Open
  BY <1>2, <1>5, CommandFacts DEF ReconcileFinalUsage
<1>6. ASSUME NEW a \in Attempts, NEW ev \in Evidence,
             TransitionFailedCpaBasicSettlement(a, ev) \/
             \E exposure \in {"accruing", "stopped"} :
               EnterReconciliation(a, ev, exposure, "provider_final_usage_pending")
      PROVE  Open' \subseteq Open
  BY <1>3, <1>6 DEF TransitionFailedCpaBasicSettlement, EnterReconciliation
<1>7. ASSUME NEW a \in Attempts, NEW o \in Owners, DispatchGranted(a, o) \/ OwnershipLost(a, o)
      PROVE  Open' \subseteq Open
  BY <1>1, <1>3, <1>7 DEF DispatchGranted, OwnershipLost, billingVars
<1>8. ASSUME \/ Tick \/ LeaseStep \/ UNCHANGED vars \/ \E r \in Requests : FinishRequestLog(r)
             \/ \E r \in Requests, o \in Owners, code \in ErrorCodes :
                  FailRequestExecution(r, o, code)
             \/ \E r \in Requests, i \in 0 .. MaxAttempts - 1, o \in Owners : AdmitCpaBasic(r, i, o)
      PROVE  Open' \subseteq Open
  <2>1. UNCHANGED reservation
    BY <1>8 DEF Tick, LeaseStep, AcquireLease, RenewLease, ReleaseLease, vars, FinishRequestLog,
                FailRequestExecution, AdmitCpaBasic, billingVars
  <2> QED BY <1>1, <2>1
<1> QED BY <1>4, <1>5, <1>6, <1>7, <1>8
        DEF Next, AdmissionStep, SettlementStep, ReconciliationStep

LEMMA NextWithinLimit == IInv /\ WithinConcurrencyLimit /\ [Next]_vars => WithinConcurrencyLimit'
<1> SUFFICES ASSUME IInv, WithinConcurrencyLimit, [Next]_vars PROVE WithinConcurrencyLimit'
  OBVIOUS
<1>1. CASE Open' \subseteq Open
  <2>1. Cardinality(Open') <= Cardinality(Open)
    BY <1>1, OpenIsFinite, FS_Subset
  <2>2. Cardinality(Open') \in Nat /\ Cardinality(Open) \in Nat
    BY OpenIsFinite, FS_CardinalityType
  <2> QED BY <2>1, <2>2, ConstantsAssumption DEF WithinConcurrencyLimit
<1>2. ASSUME NEW r \in Requests, NEW i \in 0 .. MaxAttempts - 1, NEW o \in Owners,
             NEW max \in Maxima, Admit(r, i, o, max), ~(Open' \subseteq Open)
      PROVE  WithinConcurrencyLimit'
  <2> DEFINE a == <<r, i>>
  <2>1. a \in Attempts
    BY AttemptOf
  <2>2. Open' \subseteq Open \cup {a} /\ Paygo(a)
    BY <1>2, <2>1 DEF Admit, createInvocationBillingOccupation, Open, IInv, TypeOK
  <2>3. Cardinality(Open) < ConcurrencyLimit
    BY <1>2, <2>2 DEF Admit, assertInvocationBillingCapacity
  <2>4. Cardinality(Open) \in Nat /\ Cardinality(Open') \in Nat
    BY OpenIsFinite, FS_CardinalityType
  <2> HIDE DEF a
  <2>5. Cardinality(Open \cup {a}) <= Cardinality(Open) + 1 /\ IsFiniteSet(Open \cup {a})
        /\ Cardinality(Open \cup {a}) \in Nat
    <3>1. /\ IsFiniteSet(Open \cup {a})
          /\ Cardinality(Open \cup {a}) = IF a \in Open THEN Cardinality(Open) ELSE Cardinality(Open) + 1
      BY OpenIsFinite, FS_AddElement
    <3> QED BY <2>4, <3>1
  <2>6. Cardinality(Open') <= Cardinality(Open \cup {a})
    BY <2>2, <2>5, FS_Subset
  <2> QED BY <2>3, <2>4, <2>5, <2>6, ConstantsAssumption DEF WithinConcurrencyLimit
<1> QED BY <1>1, <1>2, OpenedByAdmission

LEMMA InitWithinLimit == Init => WithinConcurrencyLimit
<1> SUFFICES ASSUME Init PROVE WithinConcurrencyLimit
  OBVIOUS
<1>1. Open = {}
  BY DEF Init, Open, NoReservation
<1> QED BY <1>1, FS_EmptySet, ConstantsAssumption DEF WithinConcurrencyLimit

(* A user's pay-as-you-go invocations never exceed the limit, whatever     *)
(* fails or is retried while they are open.                                *)
THEOREM ConcurrencyIsLimited == Spec => []WithinConcurrencyLimit
BY InitWithinLimit, NextWithinLimit, Invariance, PTL DEF Spec

-----------------------------------------------------------------------------
(* The verdict of an execution.                                            *)

Verdict(r) ==
  LET last == attempt[<<r, execution[r].attemptCount - 1>>] IN
  /\ execution[r].status \in {"succeeded", "aborted"} => last.outcome = execution[r].status
  /\ execution[r].outputCommitted => last.outputCommitted

(* An execution that is open has committed no output yet.                  *)
VInv ==
  \A r \in Requests :
    /\ Verdict(r)
    /\ execution[r].attemptCount <= MaxAttempts
    /\ execution[r].status \in {"absent", "running"} => ~execution[r].outputCommitted

(* Closing an open execution writes the verdict it is given.               *)
LEMMA ArbitratedVerdict ==
  ASSUME TypeOK, NEW r \in Requests, NEW status \in TerminalStatus, NEW code,
         NEW output \in BOOLEAN, execution' = Arbitrated(r, status, code, output),
         execution[r].status = "running", ~execution[r].outputCommitted
  PROVE  execution'[r].status = status /\ execution'[r].outputCommitted = output
<1> DEFINE out == output \/ execution[r].outputCommitted
<1>1. out = output
  OBVIOUS
<1>2. Arbitrated(r, status, code, output)
        = [execution EXCEPT ![r] = [execution[r] EXCEPT !.status = status,
                  !.terminalErrorCode = code, !.outputCommitted = out]]
  BY DEF Arbitrated, TypeOK, ExecutionRow
<1> HIDE DEF out
<1> QED BY <1>1, <1>2 DEF TypeOK, ExecutionRow

(* An unsettled attempt is the last of its request.                        *)
LEMMA UnsettledIsLast ==
  ASSUME IInv, NEW a \in Attempts, Present(a), ~attempt[a].usageSettled
  PROVE  a = <<a[1], execution[a[1]].attemptCount - 1>>
<1>1. a[1] \in Requests /\ a[2] \in Nat /\ a = <<a[1], a[2]>>
  BY AttemptsFacts
<1>2. execution[a[1]].attemptCount \in Nat
  BY <1>1 DEF IInv, TypeOK, ExecutionRow
<1>3. a[2] < execution[a[1]].attemptCount /\ ~(a[2] + 1 < execution[a[1]].attemptCount)
  BY DEF IInv, OneUnsettledAttempt
<1> QED BY <1>1, <1>2, <1>3

(* The verdict of an execution that a step leaves alone still stands.      *)
LEMMA VerdictStands ==
  ASSUME IInv, VInv, LegalStep, NEW r \in Requests, execution'[r] = execution[r]
  PROVE  Verdict(r)' /\ execution'[r].attemptCount <= MaxAttempts
         /\ (execution'[r].status \in {"absent", "running"} => ~execution'[r].outputCommitted)
<1> DEFINE c == execution[r].attemptCount
           last == <<r, c - 1>>
<1>1. CASE execution[r].status \in {"absent", "running"}
  BY <1>1 DEF Verdict, VInv
<1>2. CASE execution[r].status \notin {"absent", "running"}
  <2>1. c \in Nat /\ c # 0 /\ c <= MaxAttempts
    BY <1>2 DEF VInv, IInv, TypeOK, ExecutionRow, AttemptRowsCoherent
  <2>2. last \in Attempts
    BY <2>1, ConstantsAssumption DEF Attempts
  <2> HIDE DEF last
  <2>3. EvidenceKept(last)
    BY <2>2 DEF LegalStep
  <2>4. Verdict(r)
    BY DEF VInv
  <2>5. attempt[last].outcome \in TerminalStatus =>
          /\ attempt'[last].outcome = attempt[last].outcome
          /\ attempt'[last].outputCommitted = attempt[last].outputCommitted
    BY <2>3 DEF EvidenceKept, Terminal
  <2>6. attempt[last].outputCommitted => attempt[last].outcome \in TerminalStatus
    BY <2>2 DEF IInv, TypeOK, AttemptRow, AttemptRowsCoherent, RowCoherent
  <2>7. execution[r].status \in {"succeeded", "aborted"} =>
          attempt'[last].outcome = execution[r].status
    BY <2>4, <2>5 DEF Verdict, last, TerminalStatus
  <2>8. execution[r].outputCommitted => attempt'[last].outputCommitted
    BY <2>4, <2>5, <2>6 DEF Verdict, last
  <2> QED BY <1>2, <2>1, <2>7, <2>8 DEF Verdict, last
<1> QED BY <1>1, <1>2

(* A transaction on the attempt a closes at most a's execution, with a's   *)
(* outcome and output.                                                     *)
LEMMA VerdictWritten ==
  ASSUME IInv, VInv, LegalStep, NEW a \in Attempts, Present(a), ~attempt[a].usageSettled, Touches(a),
         \/ execution'[a[1]] = execution[a[1]]
         \/ /\ execution'[a[1]].status \in {"failed", attempt'[a].outcome}
            /\ execution'[a[1]].outputCommitted => attempt'[a].outputCommitted
            /\ execution'[a[1]].status \in TerminalStatus
  PROVE  VInv'
<1>1. a[1] \in Requests
  BY AttemptsFacts
<1>2. ASSUME NEW r \in Requests, execution'[r] = execution[r]
      PROVE  Verdict(r)' /\ execution'[r].attemptCount <= MaxAttempts
             /\ (execution'[r].status \in {"absent", "running"} => ~execution'[r].outputCommitted)
  BY <1>2, VerdictStands
<1>3. CASE execution'[a[1]] # execution[a[1]]
  <2>1. execution'[a[1]].attemptCount = execution[a[1]].attemptCount
    BY <1>1 DEF Touches
  <2>2. a = <<a[1], execution'[a[1]].attemptCount - 1>>
    BY <2>1, UnsettledIsLast
  <2>3. Verdict(a[1])'
    BY <1>3, <2>2 DEF Verdict
  <2>4. execution'[a[1]].status \notin {"absent", "running"}
    BY <1>3 DEF TerminalStatus
  <2>5. execution'[a[1]].attemptCount <= MaxAttempts
    BY <1>1, <2>1 DEF VInv
  <2> QED BY <1>1, <1>2, <2>3, <2>4, <2>5 DEF Touches, VInv
<1> QED BY <1>1, <1>2, <1>3 DEF Touches, VInv

LEMMA ExecutionsKeptVerdict ==
  ASSUME IInv, VInv, LegalStep, UNCHANGED execution
  PROVE  VInv'
BY VerdictStands DEF VInv

LEMMA SettleVerdict ==
  ASSUME IInv, VInv, NEW a \in Attempts, NEW ev \in EvidenceRow, NEW u \in Usages,
         NEW zeroOutcome \in {"settled", "released"}, NEW t,
         t = NoTerminal \/ (t.status = ev.outcome /\ t.code \in Codes),
         NEW b \in BOOLEAN, settle(a, ev, u, zeroOutcome, t, b)
  PROVE  VInv'
<1>1. ev.outcome \in TerminalStatus /\ ev.outputCommitted \in BOOLEAN /\ a[1] \in Requests
  BY AttemptsFacts DEF EvidenceRow
<1>2. LegalStep
  BY <1>1, SettleIsLegal
<1>3. CASE UNCHANGED execution
  BY <1>2, <1>3, ExecutionsKeptVerdict
<1>4. CASE ~UNCHANGED execution
  <2>1. SettleChanges(a, ev, u, zeroOutcome)
    BY <1>1, <1>4, SettleEffect DEF vars
  <2>2. /\ Present(a) /\ ~attempt[a].usageSettled /\ Touches(a)
        /\ attempt' = [attempt EXCEPT ![a] = [WithEvidence(attempt[a], Expected(a, ev)) EXCEPT
             !.costExposure = "stopped", !.usageSettled = TRUE, !.reconciliationReason = Null]]
    BY <2>1 DEF SettleChanges
  <2>3. Expected(a, ev) \in EvidenceRow /\ Expected(a, ev).outcome = ev.outcome
        /\ Expected(a, ev).outputCommitted = ev.outputCommitted
    BY ExpectedType DEF IInv, Expected
  <2>4. attempt'[a].outcome = ev.outcome /\ attempt'[a].outputCommitted = ev.outputCommitted
    BY <2>2, <2>3 DEF IInv, TypeOK, AttemptRow, WithEvidence
  <2>5. /\ execution' = Arbitrated(a[1], t.status, t.code, ev.outputCommitted)
        /\ t.status = ev.outcome
    BY <1>4, <2>2 DEF settle, Complete
  <2>6. execution[a[1]].status = "running" /\ ~execution[a[1]].outputCommitted
    BY <1>1, <1>4, <2>5 DEF Arbitrated, VInv
  <2>7. execution'[a[1]].status = ev.outcome /\ execution'[a[1]].outputCommitted = ev.outputCommitted
    BY <1>1, <2>5, <2>6, ArbitratedVerdict DEF IInv
  <2> QED BY <1>1, <1>2, <2>2, <2>4, <2>7, VerdictWritten
<1> QED BY <1>3, <1>4

LEMMA EnterReconciliationVerdict ==
  ASSUME IInv, VInv, NEW a \in Attempts, NEW ev \in EvidenceRow,
         NEW exposure \in {"accruing", "stopped"}, NEW reason \in Reasons,
         EnterReconciliation(a, ev, exposure, reason)
  PROVE  VInv'
<1>1. ev.outcome \in TerminalStatus /\ ev.outputCommitted \in BOOLEAN /\ a[1] \in Requests
  BY AttemptsFacts DEF EvidenceRow
<1>2. LegalStep
  BY EnterReconciliationIsLegal
<1>3. CASE UNCHANGED execution
  BY <1>2, <1>3, ExecutionsKeptVerdict
<1>4. CASE ~UNCHANGED execution
  <2>1. ReconciliationChanges(a, ev, exposure, reason)
    BY EnterReconciliationEffect
  <2>2. /\ Present(a) /\ ~attempt[a].usageSettled /\ Touches(a)
        /\ attempt' = [attempt EXCEPT ![a] = [WithEvidence(attempt[a], Expected(a, ev)) EXCEPT
             !.costExposure = exposure, !.reconciliationReason = reason]]
    BY <2>1 DEF ReconciliationChanges
  <2>3. Expected(a, ev) \in EvidenceRow /\ Expected(a, ev).outcome = ev.outcome
        /\ Expected(a, ev).outputCommitted = ev.outputCommitted
    BY ExpectedType DEF IInv, Expected
  <2>4. attempt'[a].outcome = ev.outcome /\ attempt'[a].outputCommitted = ev.outputCommitted
    BY <2>2, <2>3 DEF IInv, TypeOK, AttemptRow, WithEvidence
  <2>5. PICK code : execution' = Arbitrated(a[1], ev.outcome, code, ev.outputCommitted)
    BY <1>4 DEF EnterReconciliation
  <2>6. execution[a[1]].status = "running" /\ ~execution[a[1]].outputCommitted
    BY <1>1, <1>4 DEF EnterReconciliation, VInv
  <2>7. execution'[a[1]].status = ev.outcome /\ execution'[a[1]].outputCommitted = ev.outputCommitted
    BY <1>1, <2>5, <2>6, ArbitratedVerdict DEF IInv
  <2> QED BY <1>1, <1>2, <2>2, <2>4, <2>7, VerdictWritten
<1> QED BY <1>3, <1>4

LEMMA OwnershipLostVerdict ==
  ASSUME IInv, VInv, NEW a \in Attempts, NEW o \in Owners, OwnershipLost(a, o)
  PROVE  VInv'
<1>1. LegalStep
  BY DispatchIsLegal
<1>2. CASE UNCHANGED execution
  BY <1>1, <1>2, ExecutionsKeptVerdict
<1>3. CASE ~UNCHANGED execution
  <2>1. /\ attempt[a].outcome = "pending" /\ Touches(a) /\ a[1] \in Requests
        /\ execution' = Arbitrated(a[1], "failed", "execution_ownership_lost", attempt[a].outputCommitted)
    BY OwnershipLostEffect, AttemptsFacts DEF OwnershipLost
  <2>2. Present(a) /\ ~attempt[a].usageSettled /\ attempt[a].outputCommitted = FALSE
    BY <2>1 DEF IInv, AttemptRowsCoherent, RowCoherent, Present, TypeOK, AttemptRow
  <2>3. execution[a[1]].status = "running" /\ ~execution[a[1]].outputCommitted
    BY <1>3, <2>1 DEF Arbitrated, VInv
  <2>4. execution'[a[1]].status = "failed" /\ execution'[a[1]].outputCommitted = FALSE
        /\ "failed" \in TerminalStatus
    BY <2>1, <2>2, <2>3, ArbitratedVerdict DEF IInv, TerminalStatus
  <2> QED BY <1>1, <2>1, <2>2, <2>4, VerdictWritten
<1> QED BY <1>2, <1>3

LEMMA AdmissionVerdict ==
  ASSUME IInv, VInv, LegalStep, NEW r \in Requests, NEW i \in 0 .. MaxAttempts - 1, NEW o \in Owners,
         NEW max \in Nat, InspectNewAdmission(r, i, o), PersistProviderAttempt(r, i, o, max)
  PROVE  VInv'
<1>1. \A q \in Requests \ {r} : execution'[q] = execution[q]
  BY DEF PersistProviderAttempt, IInv, TypeOK
<1>2. execution'[r].status = "running" /\ ~execution'[r].outputCommitted
      /\ execution'[r].attemptCount = i + 1
  <2>1. execution[r] \in ExecutionRow
    BY DEF IInv, TypeOK
  <2>2. CASE i = 0
    BY <2>1, <2>2 DEF PersistProviderAttempt, NoExecution, IInv, TypeOK
  <2>3. CASE i # 0
    BY <2>1, <2>3 DEF PersistProviderAttempt, InspectNewAdmission, ExecutionAdmits, VInv, IInv, TypeOK,
                      ExecutionRow
  <2> QED BY <2>2, <2>3
<1>3. Verdict(r)' /\ execution'[r].attemptCount <= MaxAttempts
  BY <1>2, ConstantsAssumption DEF Verdict
<1> QED BY <1>1, <1>2, <1>3, VerdictStands DEF VInv

LEMMA FailRequestExecutionVerdict ==
  ASSUME IInv, VInv, LegalStep, NEW r \in Requests, NEW o \in Owners, NEW code,
         FailRequestExecution(r, o, code)
  PROVE  VInv'
<1>1. execution' = Arbitrated(r, "failed", code, FALSE) /\ execution[r].status = "running"
      /\ "failed" \in TerminalStatus
  BY DEF FailRequestExecution, TerminalStatus
<1>2. ~execution[r].outputCommitted
  BY <1>1 DEF VInv
<1>3. execution'[r].status = "failed" /\ execution'[r].outputCommitted = FALSE
  BY <1>1, <1>2, ArbitratedVerdict DEF IInv
<1>4. /\ \A q \in Requests \ {r} : execution'[q] = execution[q]
      /\ execution'[r].attemptCount = execution[r].attemptCount
  BY <1>1, ArbitratedFacts DEF IInv
<1>5. Verdict(r)' /\ execution'[r].attemptCount <= MaxAttempts
  BY <1>3, <1>4 DEF Verdict, VInv
<1> QED BY <1>3, <1>4, <1>5, VerdictStands DEF VInv

LEMMA NextVerdict == IInv /\ VInv /\ [Next]_vars => VInv'
<1> SUFFICES ASSUME IInv, VInv, [Next]_vars PROVE VInv'
  OBVIOUS
<1>0. LegalStep
  BY StepIsLegal
<1>1. ASSUME \/ Tick \/ LeaseStep \/ UNCHANGED vars \/ \E r \in Requests : FinishRequestLog(r)
             \/ \E a \in Attempts, o \in Owners : DispatchGranted(a, o)
      PROVE  VInv'
  <2>1. UNCHANGED execution
    BY <1>1 DEF Tick, LeaseStep, AcquireLease, RenewLease, ReleaseLease, vars, FinishRequestLog,
                DispatchGranted
  <2> QED BY <1>0, <2>1, ExecutionsKeptVerdict
<1>2. ASSUME NEW r \in Requests, NEW i \in 0 .. MaxAttempts - 1, NEW o \in Owners,
             AdmitCpaBasic(r, i, o) \/ \E max \in Maxima : Admit(r, i, o, max)
      PROVE  VInv'
  <2>1. 0 \in Nat /\ Maxima \subseteq Nat
    BY ConstantsAssumption
  <2> QED BY <1>0, <1>2, <2>1, AdmissionVerdict DEF AdmitCpaBasic, Admit
<1>3. ASSUME NEW ev \in Evidence
      PROVE  \A t \in TerminalOf(ev) : t = NoTerminal \/ (t.status = ev.outcome /\ t.code \in Codes)
  BY <1>3 DEF TerminalOf, Codes
<1>4. ASSUME NEW a \in Attempts, NEW ev \in Evidence, NEW t \in TerminalOf(ev),
             ReleaseNotStarted(a, ev, t) \/ \E u \in Usages : SettleFinalUsage(a, ev, u, t)
      PROVE  VInv'
  BY <1>3, <1>4, SettleVerdict, CommandFacts, ConstantsAssumption
     DEF ReleaseNotStarted, SettleFinalUsage
<1>5. ASSUME NEW a \in Attempts, NEW ev \in Evidence, NEW u \in Usages,
             ReconcileFinalUsage(a, ev, u)
      PROVE  VInv'
  BY <1>5, SettleVerdict, CommandFacts DEF ReconcileFinalUsage
<1>6. ASSUME NEW a \in Attempts, NEW ev \in Evidence, NEW exposure \in {"accruing", "stopped"},
             EnterReconciliation(a, ev, exposure, "provider_final_usage_pending")
      PROVE  VInv'
  BY <1>6, EnterReconciliationVerdict, CommandFacts DEF Reasons
<1>7. ASSUME NEW a \in Attempts, NEW ev \in Evidence, TransitionFailedCpaBasicSettlement(a, ev)
      PROVE  VInv'
  BY <1>7, EnterReconciliationVerdict, CommandFacts DEF TransitionFailedCpaBasicSettlement, Reasons
<1>8. ASSUME NEW a \in Attempts, NEW o \in Owners, OwnershipLost(a, o)
      PROVE  VInv'
  BY <1>8, OwnershipLostVerdict
<1>9. ASSUME NEW r \in Requests, NEW o \in Owners, NEW code \in ErrorCodes,
             FailRequestExecution(r, o, code)
      PROVE  VInv'
  BY <1>0, <1>9, FailRequestExecutionVerdict
<1> QED BY <1>1, <1>2, <1>4, <1>5, <1>6, <1>7, <1>8, <1>9
        DEF Next, AdmissionStep, SettlementStep, ReconciliationStep

LEMMA InitVerdict == Init => VInv
BY ConstantsAssumption DEF Init, VInv, Verdict, NoExecution

(* A request that succeeded or was aborted did so by the verdict of its    *)
(* last attempt, and reports output only if that attempt committed some.   *)
THEOREM VerdictFollowsLastAttempt == Spec => []VerdictIsLastAttempts
<1>1. VInv => VerdictIsLastAttempts
  BY DEF VInv, Verdict, VerdictIsLastAttempts
<1> QED BY <1>1, InitVerdict, NextVerdict, Invariance, PTL DEF Spec

-----------------------------------------------------------------------------
(* The sums of the model, as totals of functions.                          *)

HeldBy(res, S) == MapThenSumSet(LAMBDA a : res[a].held, S)

LEMMA HeldIsTotal ==
  ASSUME NEW res, NEW S, IsFiniteSet(S)
  PROVE  HeldBy(res, S) = Total([a \in S |-> res[a].held], S)
<1> DEFINE f == [a \in S |-> res[a].held]
           P(k) == k = [T \in SUBSET S |-> IF T = {} THEN 0
                          ELSE res[CHOOSE e \in T : TRUE].held + k[T \ {CHOOSE e \in T : TRUE}]]
           c == CHOOSE k : P(k)
<1>1. PICK s : Adds(s, f, S)
  BY AddsExists
<1>2. ASSUME NEW k PROVE P(k) <=> Adds(k, f, S)
  <2>1. \A T \in SUBSET S : T # {} => f[First(T)] = res[CHOOSE e \in T : TRUE].held
    BY DEF First
  <2> HIDE DEF f
  <2> QED BY <2>1 DEF Adds, First
<1>3. HeldBy(res, S) = c[S]
  BY DEF HeldBy, MapThenSumSet, MapThenFoldSet
<1> HIDE DEF P, f
<1>4. P(c)
  BY <1>1, <1>2, Zenon
<1> HIDE DEF c
<1> QED BY <1>2, <1>3, <1>4, TotalIs DEF f

UseOf(fac, cl, att, a) == IF fac[a] # NoUsage THEN ChargeUnits[fac[a]]
                          ELSE IF a \in cl THEN att[a].maximum ELSE 0
UseBy(fac, cl, att, S) == MapThenSumSet(LAMBDA a : UseOf(fac, cl, att, a), S)

LEMMA UseIsTotal ==
  ASSUME NEW fac, NEW cl, NEW att, NEW S, IsFiniteSet(S)
  PROVE  UseBy(fac, cl, att, S) = Total([a \in S |-> UseOf(fac, cl, att, a)], S)
<1> DEFINE f == [a \in S |-> UseOf(fac, cl, att, a)]
           P(k) == k = [T \in SUBSET S |-> IF T = {} THEN 0
                          ELSE UseOf(fac, cl, att, CHOOSE e \in T : TRUE)
                                 + k[T \ {CHOOSE e \in T : TRUE}]]
           c == CHOOSE k : P(k)
<1>1. PICK s : Adds(s, f, S)
  BY AddsExists
<1>2. ASSUME NEW k PROVE P(k) <=> Adds(k, f, S)
  <2>1. \A T \in SUBSET S : T # {} => f[First(T)] = UseOf(fac, cl, att, CHOOSE e \in T : TRUE)
    BY DEF First
  <2> HIDE DEF f
  <2> QED BY <2>1 DEF Adds, First
<1>3. UseBy(fac, cl, att, S) = c[S]
  BY DEF UseBy, MapThenSumSet, MapThenFoldSet
<1> HIDE DEF P, f
<1>4. P(c)
  BY <1>1, <1>2, Zenon
<1> HIDE DEF c
<1> QED BY <1>2, <1>3, <1>4, TotalIs DEF f

AdmittedOf(fac, att, a) ==
  LET settled == ChargeUnits[fac[a]] IN
  IF fac[a] = NoUsage \/ settled > att[a].maximum THEN att[a].maximum ELSE settled
AdmittedBy(fac, att, S) == MapThenSumSet(LAMBDA a : AdmittedOf(fac, att, a), S)

LEMMA AdmittedIsTotal ==
  ASSUME NEW fac, NEW att, NEW S, IsFiniteSet(S)
  PROVE  AdmittedBy(fac, att, S) = Total([a \in S |-> AdmittedOf(fac, att, a)], S)
<1> DEFINE f == [a \in S |-> AdmittedOf(fac, att, a)]
           P(k) == k = [T \in SUBSET S |-> IF T = {} THEN 0
                          ELSE AdmittedOf(fac, att, CHOOSE e \in T : TRUE)
                                 + k[T \ {CHOOSE e \in T : TRUE}]]
           c == CHOOSE k : P(k)
<1>1. PICK s : Adds(s, f, S)
  BY AddsExists
<1>2. ASSUME NEW k PROVE P(k) <=> Adds(k, f, S)
  <2>1. \A T \in SUBSET S : T # {} => f[First(T)] = AdmittedOf(fac, att, CHOOSE e \in T : TRUE)
    BY DEF First
  <2> HIDE DEF f
  <2> QED BY <2>1 DEF Adds, First
<1>3. AdmittedBy(fac, att, S) = c[S]
  BY DEF AdmittedBy, MapThenSumSet, MapThenFoldSet
<1> HIDE DEF P, f
<1>4. P(c)
  BY <1>1, <1>2, Zenon
<1> HIDE DEF c
<1> QED BY <1>2, <1>3, <1>4, TotalIs DEF f

LEMMA SumsOfTheModel ==
  /\ Held = HeldBy(reservation, Open)
  /\ Held' = HeldBy(reservation', Open')
  /\ \A S : BudgetUse(S) = UseBy(fact, claims, attempt, S)
  /\ \A S : MapThenSumSet(Admitted, S) = AdmittedBy(fact, attempt, S)
  /\ \A S : MapThenSumSet(Admitted, S)' = AdmittedBy(fact', attempt', S')
<1>1. Held = HeldBy(reservation, Open)
  BY DEF Held, HeldBy
<1>2. Held' = HeldBy(reservation', Open')
  BY DEF Held, HeldBy, MapThenSumSet, MapThenFoldSet
<1>3. ASSUME NEW S PROVE BudgetUse(S) = UseBy(fact, claims, attempt, S)
  BY DEF BudgetUse, UseBy, UseOf
<1>4. ASSUME NEW S PROVE MapThenSumSet(Admitted, S) = AdmittedBy(fact, attempt, S)
  BY DEF Admitted, AdmittedBy, AdmittedOf, MapThenSumSet, MapThenFoldSet
<1>5. ASSUME NEW S PROVE MapThenSumSet(Admitted, S)' = AdmittedBy(fact', attempt', S')
  BY DEF Admitted, AdmittedBy, AdmittedOf, MapThenSumSet, MapThenFoldSet
<1> QED BY <1>1, <1>2, <1>3, <1>4, <1>5

-----------------------------------------------------------------------------
(* The budgets.                                                            *)

(* An attempt nobody admitted may cost nothing.                            *)
UnadmittedIsFree == \A a \in Attempts : ~Present(a) => attempt[a].maximum = 0

(* No attempt appears, no maximum changes, and a usage is written once.    *)
KeepsMaxima ==
  \A a \in Attempts :
    /\ Present(a)' <=> Present(a)
    /\ attempt'[a].maximum = attempt[a].maximum
    /\ fact'[a] = fact[a] \/ fact[a] = NoUsage

LEMMA SettleKeepsMaxima ==
  ASSUME IInv, NEW a \in Attempts, NEW ev \in EvidenceRow, NEW u \in Usages,
         NEW zeroOutcome \in {"settled", "released"}, NEW t,
         t = NoTerminal \/ (t.status \in TerminalStatus /\ t.code \in Codes),
         NEW b \in BOOLEAN, settle(a, ev, u, zeroOutcome, t, b)
  PROVE  KeepsMaxima
<1>1. CASE UNCHANGED vars
  BY <1>1 DEF vars, KeepsMaxima, Present
<1>2. CASE SettleChanges(a, ev, u, zeroOutcome)
  <2>1. /\ Present(a) /\ Touches(a) /\ fact[a] = NoUsage
        /\ attempt' = [attempt EXCEPT ![a] = [WithEvidence(attempt[a], Expected(a, ev)) EXCEPT
             !.costExposure = "stopped", !.usageSettled = TRUE, !.reconciliationReason = Null]]
    BY <1>2 DEF SettleChanges, IInv, OccupationMatchesAttempt, OccupationMatches
  <2>2. Expected(a, ev).outcome = ev.outcome /\ ev.outcome # "absent"
    BY DEF Expected, EvidenceRow, TerminalStatus
  <2>3. attempt'[a].maximum = attempt[a].maximum /\ attempt'[a].outcome = ev.outcome
    BY <2>1, <2>2 DEF IInv, TypeOK, AttemptRow, WithEvidence
  <2> QED BY <2>1, <2>2, <2>3 DEF KeepsMaxima, Touches, Present
<1> QED BY <1>1, <1>2, SettleEffect

LEMMA EnterReconciliationKeepsMaxima ==
  ASSUME IInv, NEW a \in Attempts, NEW ev \in EvidenceRow,
         NEW exposure \in {"accruing", "stopped"}, NEW reason \in Reasons,
         EnterReconciliation(a, ev, exposure, reason)
  PROVE  KeepsMaxima
<1>1. /\ Present(a) /\ Touches(a)
      /\ attempt' = [attempt EXCEPT ![a] = [WithEvidence(attempt[a], Expected(a, ev)) EXCEPT
           !.costExposure = exposure, !.reconciliationReason = reason]]
  <2>1. ReconciliationChanges(a, ev, exposure, reason)
    BY EnterReconciliationEffect
  <2> QED BY <2>1 DEF ReconciliationChanges
<1>2. Expected(a, ev).outcome = ev.outcome /\ ev.outcome # "absent"
  BY DEF Expected, EvidenceRow, TerminalStatus
<1>3. attempt'[a].maximum = attempt[a].maximum /\ attempt'[a].outcome = ev.outcome
  BY <1>1, <1>2 DEF IInv, TypeOK, AttemptRow, WithEvidence
<1>4. UNCHANGED fact
  BY DEF EnterReconciliation
<1> QED BY <1>1, <1>2, <1>3, <1>4 DEF KeepsMaxima, Touches, Present

LEMMA DispatchKeepsMaxima ==
  ASSUME IInv, NEW a \in Attempts, NEW o \in Owners, DispatchGranted(a, o) \/ OwnershipLost(a, o)
  PROVE  KeepsMaxima
<1>1. /\ attempt[a].outcome = "pending" /\ Touches(a) /\ UNCHANGED fact
      /\ attempt'[a].outcome \in {"pending", "failed"} /\ attempt'[a].maximum = attempt[a].maximum
  <2>1. CASE DispatchGranted(a, o)
    BY <2>1, DispatchGrantedEffect DEF billingVars, IInv, TypeOK, AttemptRow
  <2>2. CASE OwnershipLost(a, o)
    <3>1. /\ attempt[a].outcome = "pending" /\ Touches(a) /\ UNCHANGED fact
          /\ attempt' = [attempt EXCEPT ![a] =
               [attempt[a] EXCEPT !.outcome = "failed", !.failureClass = "non_retryable",
                  !.costExposure = "accruing",
                  !.reconciliationReason = "execution_ownership_lost"]]
      BY <2>2, OwnershipLostEffect
    <3>2. attempt \in [Attempts -> AttemptRow]
      BY DEF IInv, TypeOK
    <3>3. attempt'[a] = [attempt[a] EXCEPT !.outcome = "failed", !.failureClass = "non_retryable",
                          !.costExposure = "accruing",
                          !.reconciliationReason = "execution_ownership_lost"]
      BY <3>1, <3>2
    <3>4. attempt[a] \in AttemptRow
      BY <3>2
    <3>5. attempt'[a].outcome = "failed" /\ attempt'[a].maximum = attempt[a].maximum
      BY <3>3, <3>4 DEF AttemptRow
    <3> QED BY <3>1, <3>5
  <2> QED BY <2>1, <2>2
<1> QED BY <1>1 DEF KeepsMaxima, Touches, Present

(* Only an admission adds to what may be spent.                            *)
LEMMA StepKeepsMaxima ==
  ASSUME IInv, [Next]_vars
  PROVE  \/ KeepsMaxima
         \/ \E r \in Requests, i \in 0 .. MaxAttempts - 1, o \in Owners :
              AdmitCpaBasic(r, i, o) \/ \E max \in Maxima : Admit(r, i, o, max)
<1>1. ASSUME UNCHANGED <<attempt, fact>>
      PROVE  KeepsMaxima
  BY <1>1 DEF KeepsMaxima, Present
<1>2. ASSUME NEW a \in Attempts, NEW ev \in Evidence, NEW t \in TerminalOf(ev),
             ReleaseNotStarted(a, ev, t) \/ \E u \in Usages : SettleFinalUsage(a, ev, u, t)
      PROVE  KeepsMaxima
  BY <1>2, SettleKeepsMaxima, CommandFacts, ConstantsAssumption DEF ReleaseNotStarted, SettleFinalUsage
<1>3. ASSUME NEW a \in Attempts, NEW ev \in Evidence, NEW u \in Usages,
             ReconcileFinalUsage(a, ev, u)
      PROVE  KeepsMaxima
  BY <1>3, SettleKeepsMaxima, CommandFacts DEF ReconcileFinalUsage
<1>4. ASSUME NEW a \in Attempts, NEW ev \in Evidence, NEW exposure \in {"accruing", "stopped"},
             EnterReconciliation(a, ev, exposure, "provider_final_usage_pending")
      PROVE  KeepsMaxima
  BY <1>4, EnterReconciliationKeepsMaxima, CommandFacts DEF Reasons
<1>5. ASSUME NEW a \in Attempts, NEW ev \in Evidence, TransitionFailedCpaBasicSettlement(a, ev)
      PROVE  KeepsMaxima
  BY <1>5, EnterReconciliationKeepsMaxima, CommandFacts
     DEF TransitionFailedCpaBasicSettlement, Reasons
<1>6. ASSUME NEW a \in Attempts, NEW o \in Owners, DispatchGranted(a, o) \/ OwnershipLost(a, o)
      PROVE  KeepsMaxima
  BY <1>6, DispatchKeepsMaxima
<1>7. ASSUME \/ Tick \/ LeaseStep \/ UNCHANGED vars \/ \E r \in Requests : FinishRequestLog(r)
             \/ \E r \in Requests, o \in Owners, code \in ErrorCodes :
                  FailRequestExecution(r, o, code)
      PROVE  KeepsMaxima
  <2>1. UNCHANGED <<attempt, fact>>
    BY <1>7 DEF Tick, LeaseStep, AcquireLease, RenewLease, ReleaseLease, vars, FinishRequestLog,
                FailRequestExecution, billingVars
  <2> QED BY <1>1, <2>1
<1> QED BY <1>2, <1>3, <1>4, <1>5, <1>6, <1>7
        DEF Next, AdmissionStep, SettlementStep, ReconciliationStep

BudgetOf(s) == {a \in Attempts : Source[a[1]] = s /\ Protected(a)}

LEMMA AmountsAreNat ==
  ASSUME TypeOK, NEW a \in Attempts
  PROVE  AdmittedOf(fact, attempt, a) \in Nat /\ UseOf(fact, claims, attempt, a) \in Nat
<1>1. attempt[a].maximum \in Nat /\ fact[a] \in Usages \cup {NoUsage}
  BY DEF TypeOK, AttemptRow
<1>2. fact[a] # NoUsage => ChargeUnits[fact[a]] \in Nat
  BY <1>1, ConstantsAssumption
<1> QED BY <1>1, <1>2 DEF AdmittedOf, UseOf

(* What an attempt may cost is counted by the next admission, as its       *)
(* charge or as its claim.                                                 *)
LEMMA AdmittedIsCounted ==
  ASSUME IInv, UnadmittedIsFree, NEW a \in Attempts, Protected(a)
  PROVE  AdmittedOf(fact, attempt, a) <= UseOf(fact, claims, attempt, a)
<1>1. attempt[a].maximum \in Nat /\ fact[a] \in Usages \cup {NoUsage}
  BY DEF IInv, TypeOK, AttemptRow
<1>2. CASE fact[a] # NoUsage
  <2>1. ChargeUnits[fact[a]] \in Nat
    BY <1>1, <1>2, ConstantsAssumption
  <2> QED BY <1>1, <1>2, <2>1 DEF AdmittedOf, UseOf
<1>3. CASE fact[a] = NoUsage
  <2>1. a \in claims \/ attempt[a].maximum = 0
    BY <1>3 DEF IInv, OccupationMatchesAttempt, OccupationMatches, UnadmittedIsFree
  <2> QED BY <1>1, <1>3, <2>1 DEF AdmittedOf, UseOf
<1> QED BY <1>2, <1>3

LEMMA BudgetFinite ==
  \A s : IsFiniteSet(BudgetOf(s)) /\ BudgetOf(s) \subseteq Attempts
BY AttemptsFinite, FS_Subset DEF BudgetOf

LEMMA QuietKeepsBudget ==
  ASSUME IInv, TypeOK', UnadmittedIsFree, PlanBudgetRespected, KeepsMaxima
  PROVE  UnadmittedIsFree' /\ PlanBudgetRespected'
<1>1. UnadmittedIsFree'
  BY DEF UnadmittedIsFree, KeepsMaxima
<1>2. ASSUME NEW a \in Attempts
      PROVE  AdmittedOf(fact', attempt', a) <= AdmittedOf(fact, attempt, a)
  <2>1. attempt[a].maximum \in Nat /\ fact'[a] \in Usages \cup {NoUsage}
    BY DEF IInv, TypeOK, AttemptRow
  <2>2. fact'[a] # NoUsage => ChargeUnits[fact'[a]] \in Nat
    BY <2>1, ConstantsAssumption
  <2>3. attempt'[a].maximum = attempt[a].maximum /\ (fact'[a] = fact[a] \/ fact[a] = NoUsage)
    BY DEF KeepsMaxima
  <2> QED BY <2>1, <2>2, <2>3 DEF AdmittedOf
<1>3. ASSUME NEW s \in Sources
      PROVE  MapThenSumSet(Admitted, BudgetOf(s))' <= PlanLimit[s]
  <2> DEFINE S == BudgetOf(s)
             f == [a \in S |-> AdmittedOf(fact, attempt, a)]
             h == [a \in S |-> AdmittedOf(fact', attempt', a)]
  <2>1. IsFiniteSet(S) /\ S \subseteq Attempts
    BY BudgetFinite
  <2>2. \A a \in S : h[a] \in Int /\ f[a] \in Int /\ h[a] <= f[a]
    <3>1. ASSUME NEW a \in Attempts PROVE AdmittedOf(fact', attempt', a) \in Nat
      <4>1. attempt'[a].maximum \in Nat /\ fact'[a] \in Usages \cup {NoUsage}
        BY DEF TypeOK, AttemptRow
      <4>2. fact'[a] # NoUsage => ChargeUnits[fact'[a]] \in Nat
        BY <4>1, ConstantsAssumption
      <4> QED BY <4>1, <4>2 DEF AdmittedOf
    <3> QED BY <1>2, <2>1, <3>1, AmountsAreNat DEF IInv
  <2> HIDE DEF f, h
  <2>3. Total(h, S) <= Total(f, S)
    <3> HIDE DEF S
    <3> QED BY <2>1, <2>2, TotalMonotone
  <2>4. Total(f, S) <= PlanLimit[s] /\ Total(f, S) \in Int
    <3>1. MapThenSumSet(Admitted, S) = Total(f, S)
      <4> HIDE DEF S
      <4> QED BY <2>1, SumsOfTheModel, AdmittedIsTotal DEF f
    <3>2. MapThenSumSet(Admitted, S) <= PlanLimit[s]
      BY DEF PlanBudgetRespected, BudgetOf
    <3>3. Total(f, S) \in Int
      <4> HIDE DEF S
      <4> QED BY <2>1, <2>2, TotalInt
    <3> QED BY <3>1, <3>2, <3>3
  <2>5. MapThenSumSet(Admitted, S)' = Total(h, S)
    <3>1. S' = S
      BY DEF BudgetOf, Protected
    <3>2. MapThenSumSet(Admitted, S)' = AdmittedBy(fact', attempt', S)
      BY <3>1, SumsOfTheModel
    <3> HIDE DEF S
    <3> QED BY <2>1, <3>2, AdmittedIsTotal DEF h
  <2>6. Total(h, S) \in Int
    <3> HIDE DEF S
    <3> QED BY <2>1, <2>2, TotalInt
  <2>7. PlanLimit[s] \in Int
    BY ConstantsAssumption
  <2> HIDE DEF S
  <2>8. Total(h, S) <= PlanLimit[s]
    BY <2>3, <2>4, <2>6, <2>7
  <2> QED BY <2>5, <2>8 DEF S
<1> QED BY <1>1, <1>3 DEF PlanBudgetRespected, BudgetOf

(* What an admission writes: one attempt with its maximum, no usage.       *)
LEMMA AdmissionWrites ==
  ASSUME IInv, NEW r \in Requests, NEW i \in 0 .. MaxAttempts - 1, NEW o \in Owners,
         NEW max \in Nat, PersistProviderAttempt(r, i, o, max), ~Present(<<r, i>>)
  PROVE  /\ <<r, i>> \in Attempts
         /\ attempt'[<<r, i>>].maximum = max /\ Present(<<r, i>>)'
         /\ \A b \in Attempts \ {<<r, i>>} : attempt'[b] = attempt[b]
         /\ fact[<<r, i>>] = NoUsage /\ <<r, i>> \notin Open /\ reservation[<<r, i>>].status = "absent"
<1> DEFINE a == <<r, i>>
<1>1. a \in Attempts
  BY AttemptOf
<1>2. attempt' = [attempt EXCEPT ![a] = [NoAttempt EXCEPT !.outcome = "pending", !.owner = o,
                                            !.startedAt = now, !.maximum = max]]
  BY DEF PersistProviderAttempt
<1>3. attempt'[a].maximum = max /\ attempt'[a].outcome = "pending"
      /\ \A b \in Attempts \ {a} : attempt'[b] = attempt[b]
  BY <1>1, <1>2 DEF IInv, TypeOK, NoAttempt
<1>4. OccupationMatches(a) /\ RowCoherent(a)
  BY <1>1 DEF IInv, OccupationMatchesAttempt, AttemptRowsCoherent
<1>5. ~attempt[a].usageSettled
  BY <1>1, <1>4 DEF RowCoherent, Present
<1>6. fact[a] = NoUsage /\ a \notin Open /\ reservation[a].status = "absent"
  BY <1>1, <1>4, <1>5 DEF OccupationMatches, IInv, TypeOK, ReservationRow
<1> QED BY <1>1, <1>3, <1>6 DEF Present

(* A protected admission adds its maximum to the budgets of its source,    *)
(* which had room for it.                                                  *)
LEMMA AdmitKeepsBudget ==
  ASSUME IInv, UnadmittedIsFree, PlanBudgetRespected,
         NEW r \in Requests, NEW i \in 0 .. MaxAttempts - 1, NEW o \in Owners,
         NEW max \in Maxima, Admit(r, i, o, max)
  PROVE  UnadmittedIsFree' /\ PlanBudgetRespected'
<1> DEFINE a == <<r, i>>
<1>0. max \in Nat
  BY ConstantsAssumption
<1>1. /\ a \in Attempts /\ Protected(a) /\ a[1] = r
      /\ attempt'[a].maximum = max /\ Present(a)'
      /\ \A b \in Attempts \ {a} : attempt'[b] = attempt[b]
      /\ fact[a] = NoUsage /\ attempt[a].maximum = 0
  <2>1. ~Present(a) /\ PersistProviderAttempt(r, i, o, max) /\ Protected(a)
    BY DEF Admit
  <2> QED BY <1>0, <2>1, AdmissionWrites DEF UnadmittedIsFree
<1>2. fact' = fact
  BY DEF Admit
<1>3. UnadmittedIsFree'
  BY <1>1 DEF UnadmittedIsFree, Present
<1> HIDE DEF a
<1>4. /\ \A b \in Attempts \ {a} : AdmittedOf(fact', attempt', b) = AdmittedOf(fact, attempt, b)
      /\ AdmittedOf(fact', attempt', a) = max /\ AdmittedOf(fact, attempt, a) = 0
  BY <1>1, <1>2 DEF AdmittedOf
<1>5. ASSUME NEW s \in Sources
      PROVE  MapThenSumSet(Admitted, BudgetOf(s))' <= PlanLimit[s]
  <2> DEFINE S == BudgetOf(s)
             f == [b \in S |-> AdmittedOf(fact, attempt, b)]
             h == [b \in S |-> AdmittedOf(fact', attempt', b)]
  <2>1. IsFiniteSet(S) /\ S \subseteq Attempts /\ S' = S
    BY BudgetFinite DEF BudgetOf, Protected
  <2>2. MapThenSumSet(Admitted, S)' = Total(h, S)
    <3>1. MapThenSumSet(Admitted, S)' = AdmittedBy(fact', attempt', S)
      BY <2>1, SumsOfTheModel
    <3> HIDE DEF S
    <3> QED BY <2>1, <3>1, AdmittedIsTotal DEF h
  <2>3. MapThenSumSet(Admitted, S) = Total(f, S)
    <3> HIDE DEF S
    <3> QED BY <2>1, SumsOfTheModel, AdmittedIsTotal DEF f
  <2>4. /\ \A b \in S : f[b] \in Int /\ h[b] \in Int
        /\ \A b \in S \ {a} : h[b] = f[b]
        /\ a \in S => f[a] = 0 /\ h[a] = max
    BY <1>0, <1>1, <1>4, <2>1, AmountsAreNat DEF IInv
  <2>5. PlanLimit[s] \in Int
    BY ConstantsAssumption
  <2>6. CASE a \notin S
    <3>1. Total(h, S) = Total(f, S)
      <4> HIDE DEF S, f, h
      <4> QED BY <2>1, <2>4, <2>6, TotalAgrees
    <3>2. MapThenSumSet(Admitted, S) <= PlanLimit[s]
      BY DEF PlanBudgetRespected, BudgetOf
    <3> HIDE DEF S, f, h
    <3>3. MapThenSumSet(Admitted, S)' <= PlanLimit[s]
      BY <2>2, <2>3, <3>1, <3>2
    <3> QED BY <3>3 DEF S
  <2>7. CASE a \in S
    <3> DEFINE R == {b \in Attempts : Source[b[1]] = Source[r]}
               mx == [b \in R |-> UseOf(fact, claims, attempt, b)]
    <3>1. Source[r] = s
      BY <1>1, <2>7 DEF BudgetOf
    <3>2. IsFiniteSet(R) /\ S \subseteq R /\ R \subseteq Attempts
      BY <3>1, AttemptsFinite, FS_Subset DEF BudgetOf
    <3>3. BudgetUse(R) + max <= PlanLimit[s]
      BY <3>1 DEF Admit, assertInvocationPlanBudgets
    <3>4. BudgetUse(R) = Total(mx, R)
      <4> HIDE DEF R
      <4> QED BY <3>2, SumsOfTheModel, UseIsTotal DEF mx
    <3>5. /\ \A b \in R : mx[b] \in Nat
          /\ \A b \in S : f[b] \in Int /\ mx[b] \in Int /\ f[b] <= mx[b]
      <4>1. ASSUME NEW b \in S PROVE f[b] \in Int /\ mx[b] \in Int /\ f[b] <= mx[b]
        <5>1. Protected(b) /\ b \in Attempts /\ b \in R
          BY <3>2 DEF BudgetOf
        <5>2. AdmittedOf(fact, attempt, b) <= UseOf(fact, claims, attempt, b)
          BY <5>1, AdmittedIsCounted
        <5> QED BY <5>1, <5>2, AmountsAreNat DEF IInv
      <4> QED BY <3>2, <4>1, AmountsAreNat DEF IInv
    <3> HIDE DEF S, f, h, R, mx
    <3>6. Total(f, S) <= Total(mx, S)
      BY <2>1, <3>5, TotalMonotone
    <3>7. Total(mx, S) <= Total(mx, R)
      BY <3>2, <3>5, TotalSubset
    <3>8. Total(h, S) = Total(f, S) - f[a] + h[a]
      BY <2>1, <2>4, <2>7, TotalChanged
    <3>9. Total(f, S) \in Int /\ Total(mx, S) \in Int /\ Total(mx, R) \in Int
      <4>1. \A b \in S : f[b] \in Int /\ mx[b] \in Int
        BY <3>5
      <4>2. \A b \in R : mx[b] \in Int
        BY <3>5
      <4> QED BY <2>1, <3>2, <4>1, <4>2, TotalInt
    <3>10. Total(h, S) <= PlanLimit[s]
      BY <1>0, <2>4, <2>5, <2>7, <3>3, <3>4, <3>6, <3>7, <3>8, <3>9
    <3>11. MapThenSumSet(Admitted, S)' <= PlanLimit[s]
      BY <2>2, <3>10
    <3> QED BY <3>11 DEF S
  <2> QED BY <2>6, <2>7
<1> QED BY <1>3, <1>5 DEF PlanBudgetRespected, BudgetOf

(* A claimless attempt counts for no budget of protected ones.             *)
LEMMA AdmitCpaBasicKeepsBudget ==
  ASSUME IInv, UnadmittedIsFree, PlanBudgetRespected, NEW r \in Requests,
         NEW i \in 0 .. MaxAttempts - 1, NEW o \in Owners, AdmitCpaBasic(r, i, o)
  PROVE  UnadmittedIsFree' /\ PlanBudgetRespected'
<1> DEFINE a == <<r, i>>
<1>1. /\ a \in Attempts /\ ~Protected(a) /\ Present(a)'
      /\ \A b \in Attempts \ {a} : attempt'[b] = attempt[b]
  <2>1. ~Present(a) /\ PersistProviderAttempt(r, i, o, 0) /\ ~Protected(a) /\ 0 \in Nat
    BY DEF AdmitCpaBasic
  <2> QED BY <2>1, AdmissionWrites
<1>2. fact' = fact
  BY DEF AdmitCpaBasic, billingVars
<1>3. UnadmittedIsFree'
  BY <1>1 DEF UnadmittedIsFree, Present
<1> HIDE DEF a
<1>4. ASSUME NEW s \in Sources
      PROVE  MapThenSumSet(Admitted, BudgetOf(s))' <= PlanLimit[s]
  <2> DEFINE S == BudgetOf(s)
             f == [b \in S |-> AdmittedOf(fact, attempt, b)]
             h == [b \in S |-> AdmittedOf(fact', attempt', b)]
  <2>1. IsFiniteSet(S) /\ S \subseteq Attempts \ {a} /\ S' = S
    BY <1>1, BudgetFinite DEF BudgetOf, Protected
  <2>2. MapThenSumSet(Admitted, S)' = Total(h, S)
    <3>1. MapThenSumSet(Admitted, S)' = AdmittedBy(fact', attempt', S)
      BY <2>1, SumsOfTheModel
    <3> HIDE DEF S
    <3> QED BY <2>1, <3>1, AdmittedIsTotal DEF h
  <2>3. MapThenSumSet(Admitted, S) = Total(f, S)
    <3> HIDE DEF S
    <3> QED BY <2>1, SumsOfTheModel, AdmittedIsTotal DEF f
  <2>4. h = f
    BY <1>1, <1>2, <2>1 DEF AdmittedOf
  <2>5. MapThenSumSet(Admitted, S) <= PlanLimit[s]
    BY DEF PlanBudgetRespected, BudgetOf
  <2> HIDE DEF S, f, h
  <2>6. MapThenSumSet(Admitted, S)' <= PlanLimit[s]
    BY <2>2, <2>3, <2>4, <2>5
  <2> QED BY <2>6 DEF S
<1> QED BY <1>3, <1>4 DEF PlanBudgetRespected, BudgetOf

LEMMA InitWithinBudget == Init => UnadmittedIsFree /\ PlanBudgetRespected
<1> SUFFICES ASSUME Init PROVE UnadmittedIsFree /\ PlanBudgetRespected
  OBVIOUS
<1>1. \A a \in Attempts : attempt[a].maximum = 0 /\ fact[a] = NoUsage
  BY DEF Init, NoAttempt
<1>2. ASSUME NEW s \in Sources PROVE MapThenSumSet(Admitted, BudgetOf(s)) <= PlanLimit[s]
  <2> DEFINE S == BudgetOf(s)
             f == [b \in S |-> AdmittedOf(fact, attempt, b)]
  <2>1. IsFiniteSet(S) /\ S \subseteq Attempts
    BY BudgetFinite
  <2>2. MapThenSumSet(Admitted, S) = Total(f, S)
    <3> HIDE DEF S
    <3> QED BY <2>1, SumsOfTheModel, AdmittedIsTotal DEF f
  <2>3. \A b \in S : f[b] = 0
    BY <1>1, <2>1 DEF AdmittedOf
  <2> HIDE DEF S, f
  <2>4. Total(f, S) = 0
    BY <2>1, <2>3, TotalZero
  <2>5. MapThenSumSet(Admitted, S) <= PlanLimit[s]
    BY <2>2, <2>4, ConstantsAssumption
  <2> QED BY <2>5 DEF S
<1> QED BY <1>1, <1>2 DEF UnadmittedIsFree, PlanBudgetRespected, BudgetOf

LEMMA NextWithinBudget ==
  IInv /\ UnadmittedIsFree /\ PlanBudgetRespected /\ [Next]_vars
    => (UnadmittedIsFree /\ PlanBudgetRespected)'
<1> SUFFICES ASSUME IInv, UnadmittedIsFree, PlanBudgetRespected, [Next]_vars
             PROVE  UnadmittedIsFree' /\ PlanBudgetRespected'
  OBVIOUS
<1>1. TypeOK'
  BY NextType DEF IInv
<1>2. CASE KeepsMaxima
  BY <1>1, <1>2, QuietKeepsBudget
<1>3. ASSUME NEW r \in Requests, NEW i \in 0 .. MaxAttempts - 1, NEW o \in Owners,
             AdmitCpaBasic(r, i, o) \/ \E max \in Maxima : Admit(r, i, o, max)
      PROVE  UnadmittedIsFree' /\ PlanBudgetRespected'
  BY <1>3, AdmitCpaBasicKeepsBudget, AdmitKeepsBudget
<1> QED BY <1>2, <1>3, StepKeepsMaxima

(* Protected admissions of any number of gateways keep every plan within   *)
(* its amount budget: what each may cost stays counted from its admission, *)
(* through its claim, to its charge.                                       *)
THEOREM BudgetIsKept == Spec => []PlanBudgetRespected
BY InitWithinBudget, NextWithinBudget, Invariance, PTL DEF Spec

-----------------------------------------------------------------------------
(* Holds and the balance.                                                  *)

(* Only open reservations hold anything, so the sum may run over all.      *)
LEMMA HeldIsTotalOfAll ==
  ASSUME IInv, IInv'
  PROVE  /\ Held = Total([a \in Attempts |-> reservation[a].held], Attempts)
         /\ Held' = Total([a \in Attempts |-> reservation'[a].held], Attempts)
         /\ \A a \in Attempts : reservation[a].held \in Nat /\ reservation'[a].held \in Nat
<1>1. \A a \in Attempts : reservation[a].held \in Nat /\ reservation'[a].held \in Nat
  BY DEF IInv, TypeOK, ReservationRow
<1>2. ASSUME NEW res, NEW S \in SUBSET Attempts, \A a \in Attempts : res[a].held \in Nat,
             \A a \in Attempts \ S : res[a].held = 0
      PROVE  HeldBy(res, S) = Total([a \in Attempts |-> res[a].held], Attempts)
  <2> DEFINE f == [a \in S |-> res[a].held]
             h == [a \in Attempts |-> res[a].held]
  <2>1. IsFiniteSet(S)
    BY AttemptsFinite, FS_Subset
  <2>2. HeldBy(res, S) = Total(f, S)
    BY <2>1, HeldIsTotal
  <2>3. /\ \A a \in S : f[a] = h[a]
        /\ \A a \in Attempts : h[a] \in Int
        /\ \A a \in Attempts \ S : h[a] = 0
    BY <1>2
  <2> HIDE DEF f, h
  <2>4. Total(f, S) = Total(h, S)
    BY <2>1, <2>3, TotalAgrees
  <2>5. Total(h, Attempts) = Total(h, S)
    BY <2>3, AttemptsFinite, TotalExtended
  <2> QED BY <2>2, <2>4, <2>5 DEF h
<1>3. Open \in SUBSET Attempts /\ Open' \in SUBSET Attempts
  BY DEF Open
<1>4. /\ \A a \in Attempts \ Open : reservation[a].held = 0
      /\ \A a \in Attempts \ Open' : reservation'[a].held = 0
  BY DEF IInv, OccupationMatchesAttempt, OccupationMatches
<1>5. HeldBy(reservation, Open) = Total([a \in Attempts |-> reservation[a].held], Attempts)
  BY <1>1, <1>2, <1>3, <1>4
<1>6. HeldBy(reservation', Open') = Total([a \in Attempts |-> reservation'[a].held], Attempts)
  BY <1>1, <1>2, <1>3, <1>4
<1> QED BY <1>1, <1>5, <1>6, SumsOfTheModel

Covered == balance >= Held /\ balance' < Held' =>
             \E a \in Attempts : posting'[a] - posting[a] > reservation[a].held

(* Holds that do not grow cannot exceed a balance that did not change.     *)
LEMMA LessIsHeld ==
  ASSUME IInv, IInv', balance' = balance,
         \A a \in Attempts : reservation'[a].held <= reservation[a].held
  PROVE  Covered
<1> DEFINE f == [a \in Attempts |-> reservation[a].held]
           h == [a \in Attempts |-> reservation'[a].held]
<1>1. Held = Total(f, Attempts) /\ Held' = Total(h, Attempts)
  BY HeldIsTotalOfAll
<1>2. \A a \in Attempts : f[a] \in Int /\ h[a] \in Int /\ h[a] <= f[a]
  BY HeldIsTotalOfAll
<1>3. balance \in Int
  BY DEF IInv, TypeOK
<1> HIDE DEF f, h
<1>4. Total(h, Attempts) <= Total(f, Attempts)
  BY <1>2, AttemptsFinite, TotalMonotone
<1>5. Total(f, Attempts) \in Int /\ Total(h, Attempts) \in Int
  BY <1>2, AttemptsFinite, TotalInt
<1> QED BY <1>1, <1>3, <1>4, <1>5 DEF Covered

(* One reservation changes.                                                *)
LEMMA OneHoldChanges ==
  ASSUME IInv, IInv', NEW a \in Attempts,
         \A b \in Attempts \ {a} : reservation'[b].held = reservation[b].held
  PROVE  /\ Held' = Held - reservation[a].held + reservation'[a].held
         /\ Held \in Int /\ reservation[a].held \in Nat /\ reservation'[a].held \in Nat
<1> DEFINE f == [b \in Attempts |-> reservation[b].held]
           h == [b \in Attempts |-> reservation'[b].held]
<1>1. Held = Total(f, Attempts) /\ Held' = Total(h, Attempts)
  BY HeldIsTotalOfAll
<1>2. /\ \A b \in Attempts : f[b] \in Int /\ h[b] \in Int
      /\ \A b \in Attempts \ {a} : h[b] = f[b]
      /\ f[a] = reservation[a].held /\ h[a] = reservation'[a].held
      /\ f[a] \in Nat /\ h[a] \in Nat
  BY HeldIsTotalOfAll
<1> HIDE DEF f, h
<1>3. Total(h, Attempts) = Total(f, Attempts) - f[a] + h[a]
  <2>1. \A b \in Attempts : f[b] \in Int /\ h[b] \in Int
    BY <1>2
  <2>2. \A b \in Attempts \ {a} : h[b] = f[b]
    BY <1>2
  <2> QED BY ONLY <2>1, <2>2, AttemptsFinite, TotalChanged, a \in Attempts
<1>4. Total(f, Attempts) \in Int
  BY <1>2, AttemptsFinite, TotalInt
<1> QED BY <1>1, <1>2, <1>3, <1>4

(* A settlement gives back what was held and charges what was used.        *)
LEMMA SettleIsCovered ==
  ASSUME IInv, IInv', NEW a \in Attempts, NEW ev, NEW u \in Usages,
         NEW zeroOutcome, NEW t, NEW b, settle(a, ev, u, zeroOutcome, t, b)
  PROVE  Covered
<1>1. CASE UNCHANGED billingVars
  <2>1. balance' = balance /\ reservation' = reservation
    BY <1>1 DEF billingVars
  <2> QED BY <2>1, HeldIsTotalOfAll, LessIsHeld
<1>2. CASE ~UNCHANGED billingVars
  <2>1. /\ appendUsageCharge(a, ChargedUnits(a, u))
        /\ reservation' = IF reservation[a].status = "absent" THEN reservation
                          ELSE [reservation EXCEPT ![a] = SettledReservation(a, zeroOutcome)]
    BY <1>2 DEF settle, settleInvocationBilling
  <2>2. PICK units \in Nat : units = ChargedUnits(a, u)
    BY ConstantsAssumption DEF ChargedUnits
  <2>3. balance' = balance - units /\ posting'[a] = posting[a] + units
    BY <2>1, <2>2 DEF appendUsageCharge, IInv, TypeOK
  <2>4. posting[a] \in Nat /\ balance \in Int
    BY DEF IInv, TypeOK
  <2>5. \A c \in Attempts \ {a} : reservation'[c].held = reservation[c].held
    BY <2>1 DEF IInv, TypeOK
  <2>6. reservation'[a].held = 0
    <3>1. CASE reservation[a].status = "absent"
      <4>1. a \notin Open /\ reservation' = reservation
        BY <2>1, <3>1 DEF Open
      <4> QED BY <4>1 DEF IInv, OccupationMatchesAttempt, OccupationMatches
    <3>2. CASE reservation[a].status # "absent"
      BY <2>1, <3>2 DEF SettledReservation, IInv, TypeOK
    <3> QED BY <3>1, <3>2
  <2>7. Held' = Held - reservation[a].held /\ Held \in Int /\ reservation[a].held \in Nat
    BY <2>5, <2>6, OneHoldChanges
  <2> QED BY <2>3, <2>4, <2>7 DEF Covered
<1> QED BY <1>1, <1>2

(* A reconciliation keeps a hold or gives it back.                         *)
LEMMA MarkIsCovered ==
  ASSUME IInv, IInv', NEW a \in Attempts, NEW exposure,
         markInvocationBillingReconciliation(a, exposure), balance' = balance
  PROVE  Covered
<1>1. \A c \in Attempts : reservation'[c].held \in {0, reservation[c].held}
  BY DEF markInvocationBillingReconciliation, IInv, TypeOK, ReservationRow
<1>2. \A c \in Attempts : reservation[c].held \in Nat
  BY HeldIsTotalOfAll
<1>3. \A c \in Attempts : reservation'[c].held <= reservation[c].held
  BY <1>1, <1>2
<1> QED BY <1>3, LessIsHeld

(* An admission holds no more than what is free.                           *)
LEMMA AdmitIsCovered ==
  ASSUME IInv, IInv', NEW r \in Requests, NEW i \in 0 .. MaxAttempts - 1, NEW o \in Owners,
         NEW max \in Maxima, Admit(r, i, o, max)
  PROVE  Covered
<1> DEFINE a == <<r, i>>
<1>0. max \in Nat
  BY ConstantsAssumption
<1>1. a \in Attempts /\ a \notin Open
  <2>1. PersistProviderAttempt(r, i, o, max) /\ ~Present(a)
    BY DEF Admit
  <2> QED BY <1>0, <2>1, AdmissionWrites
<1>2. balance' = balance
  BY DEF Admit
<1>3. CASE ~Paygo(a)
  <2>1. reservation' = reservation
    BY <1>3 DEF Admit, createInvocationBillingOccupation
  <2> QED BY <1>2, <2>1, HeldIsTotalOfAll, LessIsHeld
<1>4. CASE Paygo(a)
  <2>1. /\ reservation' = [reservation EXCEPT ![a] = [status |-> "active", held |-> max]]
        /\ balance - Held >= max
    BY <1>4 DEF Admit, createInvocationBillingOccupation, assertInvocationBillingCapacity
  <2> HIDE DEF a
  <2>2. /\ reservation'[a].held = max
        /\ \A b \in Attempts \ {a} : reservation'[b].held = reservation[b].held
    BY <1>1, <2>1 DEF IInv, TypeOK
  <2>3. reservation[a].held = 0
    BY <1>1 DEF IInv, OccupationMatchesAttempt, OccupationMatches
  <2>4. Held' = Held + max /\ Held \in Int
    BY <1>0, <1>1, <2>2, <2>3, OneHoldChanges
  <2>5. balance \in Int
    BY DEF IInv, TypeOK
  <2> QED BY <1>0, <1>2, <2>1, <2>4, <2>5 DEF Covered
<1> QED BY <1>3, <1>4

LEMMA StepIsCovered ==
  ASSUME IInv, [Next]_vars
  PROVE  Covered
<1>0. IInv'
  BY NextInvariant
<1>1. ASSUME UNCHANGED <<reservation, balance>>
      PROVE  Covered
  BY <1>0, <1>1, HeldIsTotalOfAll, LessIsHeld
<1>2. ASSUME NEW a \in Attempts, NEW ev \in Evidence, NEW t \in TerminalOf(ev),
             ReleaseNotStarted(a, ev, t) \/ \E u \in Usages : SettleFinalUsage(a, ev, u, t)
      PROVE  Covered
  BY <1>0, <1>2, SettleIsCovered, ConstantsAssumption DEF ReleaseNotStarted, SettleFinalUsage
<1>3. ASSUME NEW a \in Attempts, NEW ev \in Evidence, NEW u \in Usages,
             ReconcileFinalUsage(a, ev, u)
      PROVE  Covered
  BY <1>0, <1>3, SettleIsCovered DEF ReconcileFinalUsage
<1>4. ASSUME NEW a \in Attempts, NEW ev \in Evidence,
             TransitionFailedCpaBasicSettlement(a, ev) \/
             \E exposure \in {"accruing", "stopped"} :
               EnterReconciliation(a, ev, exposure, "provider_final_usage_pending")
      PROVE  Covered
  BY <1>0, <1>4, MarkIsCovered DEF TransitionFailedCpaBasicSettlement, EnterReconciliation
<1>5. ASSUME NEW a \in Attempts, NEW o \in Owners, DispatchGranted(a, o) \/ OwnershipLost(a, o)
      PROVE  Covered
  BY <1>0, <1>1, <1>5, MarkIsCovered DEF DispatchGranted, OwnershipLost, billingVars
<1>6. ASSUME NEW r \in Requests, NEW i \in 0 .. MaxAttempts - 1, NEW o \in Owners,
             NEW max \in Maxima, Admit(r, i, o, max)
      PROVE  Covered
  BY <1>0, <1>6, AdmitIsCovered
<1>7. ASSUME \/ Tick \/ LeaseStep \/ UNCHANGED vars \/ \E r \in Requests : FinishRequestLog(r)
             \/ \E r \in Requests, o \in Owners, code \in ErrorCodes :
                  FailRequestExecution(r, o, code)
             \/ \E r \in Requests, i \in 0 .. MaxAttempts - 1, o \in Owners : AdmitCpaBasic(r, i, o)
      PROVE  Covered
  <2>1. UNCHANGED <<reservation, balance>>
    BY <1>7 DEF Tick, LeaseStep, AcquireLease, RenewLease, ReleaseLease, vars, FinishRequestLog,
                FailRequestExecution, AdmitCpaBasic, billingVars
  <2> QED BY <1>1, <2>1
<1> QED BY <1>2, <1>3, <1>4, <1>5, <1>6, <1>7
        DEF Next, AdmissionStep, SettlementStep, ReconciliationStep

(* The holds of a user never exceed the balance, whatever is admitted,     *)
(* retried or reconciled, unless a settlement charges an attempt more than *)
(* it held.                                                                *)
THEOREM DeficitIsUncovered == Spec => DeficitOnlyFromUncoveredCharge
<1>1. IInv /\ [Next]_vars => [Covered]_vars
  BY StepIsCovered
<1> QED BY <1>1, Invariance, PTL DEF Spec, DeficitOnlyFromUncoveredCharge, Covered

-----------------------------------------------------------------------------
(* The gateway.                                                            *)

(* Where an attempt of the request may be pending: it is the current one.  *)
InFlight == {"resolve", "risk", "refresh", "renew", "own", "fresh", "invoke", "finalize", "chosen",
             "stream", "complete"}

Handled == {"acquire", "finalize", "closeRisk", "failExecution", "finish", "release", "ended", "crashed"}
Completed == {"settleRisk", "closeRisk", "finish", "release", "ended", "crashed"}

(* The program counter and the registers of the program agree.             *)
Control(r) ==
  /\ At(r, "acquire") => g[r].then \in {"select", "finish"} /\ (g[r].handling <=> g[r].then = "finish")
  /\ At(r, "finalize") => \/ g[r].then \in {"closeRisk", "finish", "chosen"}
                          \/ g[r].then = "admit" /\ g[r].i < MaxAttempts - 1 /\ ~g[r].stream
  /\ At(r, "stream") => g[r].stream
  /\ g[r].handling => g[r].pc \in Handled
  /\ g[r].verdict = "completed" => g[r].pc \in Completed /\ ~g[r].handling
  /\ g[r].pc \in {"idle", "acquire", "select", "enrich"} => g[r].risk = "none"
  /\ g[r].stream => g[r].pc \notin {"idle", "acquire", "select", "enrich", "admit", "resolve", "risk",
                                    "refresh", "renew", "own", "fresh", "invoke"}

(* The Provider is only called, and only answers, for a pending attempt of *)
(* a running execution that is recorded as costing something.              *)
Dispatching(r) ==
  /\ At(r, "fresh") => attempt[Current(r)].costExposure # "not_started"
  /\ g[r].pc \in {"fresh", "invoke", "complete"} => attempt[Current(r)].outcome = "pending"
  /\ At(r, "chosen") /\ ~g[r].stream => attempt[Current(r)].outcome = "pending"
  /\ g[r].pc \in InFlight \ {"finalize"} /\ attempt[Current(r)].outcome = "pending" =>
       execution[r].status = "running"

(* What was answered was settled.                                          *)
Completing(r) ==
  g[r].verdict = "completed" \/ log[r] = "completed" => execution[r].status = "succeeded"

(* As long as no call was thrown, the resources of an invocation follow    *)
(* its program counter.                                                    *)
Returning(r) ==
  faults = 0 =>
    /\ g[r].finished <=> ended[r]
    /\ g[r].finished => g[r].pc \in {"release", "lateClose", "ended", "crashed"}
    /\ g[r].pc \in {"release", "lateClose"} => g[r].finished
    /\ At(r, "ended") /\ ~Dropped(r) => g[r].finished /\ g[r].risk # "held"
    /\ At(r, "lateClose") \/ (At(r, "ended") /\ ~Dropped(r)) => lease[r].owner # OwnerOf[r]
    /\ g[r].risk = "held" /\ g[r].pc \in {"finish", "release"} => ~g[r].handling /\ g[r].verdict = "failed"
    /\ At(r, "failExecution") => g[r].risk # "held"
    /\ \A i \in 0 .. MaxAttempts - 1 : attempt[<<r, i>>].outcome = "pending" =>
         (g[r].pc \in InFlight /\ i = g[r].i) \/ At(r, "crashed") \/ Dropped(r)
    /\ At(r, "finalize") /\ attempt[Current(r)].outcome = "pending" => execution[r].status = "running"

Invocation(r) == Control(r) /\ Dispatching(r) /\ Completing(r) /\ Returning(r)

GInv ==
  /\ IInv
  /\ GTypeOK
  /\ \A r \in Requests : Invocation(r)
  /\ CalledIsRecorded

-----------------------------------------------------------------------------
(* The states of the program.                                              *)

GRow == [pc: Labels, i: 0 .. MaxAttempts - 1, verdict: {"failed", "completed"},
         risk: {"none", "held", "closed"}, finished: BOOLEAN, stream: BOOLEAN,
         read: BOOLEAN, output: BOOLEAN, handling: BOOLEAN, aborted: BOOLEAN,
         failure: Failures, outcome: {"failed", "aborted"}, terminal: BOOLEAN, then: Labels]

LEMMA GatewayTypes ==
  GTypeOK <=> /\ g \in [Requests -> GRow]
              /\ log \in [Requests -> {"none", "started", "failed", "completed"}]
              /\ called \subseteq Attempts
              /\ faults \in 0 .. MaxFaults
BY DEF GTypeOK, GRow

LEMMA KnownFailures ==
  /\ \A class \in FailureClasses : Unknown(class) \in Failures /\ NotStarted(class) \in Failures
  /\ \A f \in Failures : f.usage \in Usages
  /\ "retryable" \in FailureClasses /\ "non_retryable" \in FailureClasses
BY ConstantsAssumption DEF Failures, Unknown, NotStarted, Kinds, FailureClasses

LEMMA FreshType == Fresh \in GRow
BY KnownFailures, ConstantsAssumption DEF Fresh, GRow, Labels

(* What the registers are after a jump ...                                 *)
Keeps(x, y) ==
  /\ y.i = x.i /\ y.risk = x.risk /\ y.finished = x.finished /\ y.stream = x.stream /\ y.read = x.read

LEMMA Jump ==
  ASSUME GTypeOK, NEW r \in Requests, NEW l \in Labels
  PROVE  /\ To(r, l) \in GRow /\ Keeps(g[r], To(r, l)) /\ To(r, l).pc = l
         /\ To(r, l).handling = g[r].handling /\ To(r, l).verdict = g[r].verdict /\ To(r, l).then = g[r].then
<1>1. g[r] \in GRow
  BY GatewayTypes
<1> QED BY <1>1 DEF To, GRow, Keeps

(* ... and after an exception.                                             *)
LEMMA ThrownRow ==
  ASSUME GTypeOK, NEW r \in Requests, NEW x, x = Thrown(r)
  PROVE  /\ x \in GRow /\ Keeps(g[r], x) /\ x.handling
         /\ x.pc = IF g[r].handling THEN "ended" ELSE IF g[r].stream THEN "finalize" ELSE "closeRisk"
         /\ x.verdict = IF g[r].handling THEN g[r].verdict ELSE "failed"
         /\ x.then \in Labels /\ (x.pc = "finalize" => x.then = "closeRisk")
<1>1. g[r] \in GRow /\ Unknown("non_retryable") \in Failures
  BY GatewayTypes, KnownFailures
<1>2. {"ended", "finalize", "closeRisk"} \subseteq Labels
  BY DEF Labels
<1>3. CASE g[r].handling
  BY <1>1, <1>2, <1>3, Jump DEF Thrown, To, GRow
<1>4. CASE ~g[r].handling /\ ~g[r].stream
  <2>1. x = [g[r] EXCEPT !.pc = "closeRisk", !.handling = TRUE, !.verdict = "failed"]
    BY <1>4 DEF Thrown
  <2> QED BY <1>1, <1>2, <1>4, <2>1 DEF GRow, Keeps
<1>5. CASE ~g[r].handling /\ g[r].stream
  <2> DEFINE f == Unknown("non_retryable")
  <2>1. x = [g[r] EXCEPT !.pc = "finalize", !.handling = TRUE, !.then = "closeRisk",
                         !.failure = f, !.terminal = TRUE,
                         !.outcome = "failed", !.verdict = "failed"]
    BY <1>5 DEF Thrown
  <2> HIDE DEF f
  <2>2. f \in Failures
    BY <1>1 DEF f
  <2>3. x \in GRow
    BY <1>1, <1>2, <2>1, <2>2 DEF GRow
  <2> QED BY <1>1, <1>2, <1>5, <2>1, <2>3 DEF GRow, Keeps
<1> QED BY <1>3, <1>4, <1>5

-----------------------------------------------------------------------------
(* Every call is a command of the service.                                 *)

LEMMA CurrentAttempt ==
  ASSUME GTypeOK, NEW r \in Requests
  PROVE  /\ Current(r) \in Attempts /\ Current(r)[1] = r /\ Current(r)[2] = g[r].i
         /\ g[r] \in GRow /\ g[r].i \in 0 .. MaxAttempts - 1 /\ OwnerOf[r] \in Owners
         /\ log[r] \in {"none", "started", "failed", "completed"}
<1>1. g[r] \in GRow /\ g[r].i \in 0 .. MaxAttempts - 1
  BY GatewayTypes DEF GRow
<1> QED BY <1>1, AttemptOf, GatewayAssumption, GatewayTypes DEF Current

LEMMA Commands ==
  ASSUME GTypeOK, NEW r \in Requests, NEW a, a = Current(r), NEW o, o = OwnerOf[r]
  PROVE  /\ AcquireLease(r, o) \/ RenewLease(r, o) \/ ReleaseLease(r, o) => Next
         /\ AdmitCpaBasic(r, g[r].i, o) \/ (\E max \in Maxima : Admit(r, g[r].i, o, max)) => Next
         /\ DispatchGranted(a, o) \/ OwnershipLost(a, o) => Next
         /\ FinishRequestLog(r) => Next
         /\ (\E code \in ErrorCodes : FailRequestExecution(r, o, code)) => Next
         /\ \A ev \in Evidence :
              /\ \A t \in TerminalOf(ev) :
                   /\ ReleaseNotStarted(a, ev, t) => Next
                   /\ \A u \in Usages : SettleFinalUsage(a, ev, u, t) => Next
              /\ \A exposure \in {"accruing", "stopped"} :
                   EnterReconciliation(a, ev, exposure, "provider_final_usage_pending") => Next
              /\ TransitionFailedCpaBasicSettlement(a, ev) => Next
<1>1. a \in Attempts /\ o \in Owners /\ g[r].i \in 0 .. MaxAttempts - 1
  BY CurrentAttempt
<1>2. AcquireLease(r, o) \/ RenewLease(r, o) \/ ReleaseLease(r, o) => Next
  BY <1>1 DEF Next, LeaseStep
<1>3. AdmitCpaBasic(r, g[r].i, o) \/ (\E max \in Maxima : Admit(r, g[r].i, o, max)) => Next
  BY <1>1 DEF Next, AdmissionStep
<1>4. DispatchGranted(a, o) \/ OwnershipLost(a, o) => Next
  BY <1>1 DEF Next
<1>5. FinishRequestLog(r) => Next
  BY DEF Next
<1>6. (\E code \in ErrorCodes : FailRequestExecution(r, o, code)) => Next
  BY <1>1 DEF Next
<1>7. ASSUME NEW ev \in Evidence, NEW t \in TerminalOf(ev)
      PROVE  /\ ReleaseNotStarted(a, ev, t) => Next
             /\ \A u \in Usages : SettleFinalUsage(a, ev, u, t) => Next
  BY <1>1 DEF Next, SettlementStep
<1>8. ASSUME NEW ev \in Evidence
      PROVE  /\ \A exposure \in {"accruing", "stopped"} :
                  EnterReconciliation(a, ev, exposure, "provider_final_usage_pending") => Next
             /\ TransitionFailedCpaBasicSettlement(a, ev) => Next
  BY <1>1 DEF Next, ReconciliationStep
<1> QED BY <1>2, <1>3, <1>4, <1>5, <1>6, <1>7, <1>8

Refines == UNCHANGED vars \/ Next

(* A step of the program of r: its registers change, and the calls that    *)
(* are recorded about it.                                                  *)
Program(r) ==
  /\ g'[r] \in GRow /\ g' = [g EXCEPT ![r] = g'[r]]
  /\ log' \in [Requests -> {"none", "started", "failed", "completed"}]
  /\ \A q \in Requests \ {r} : log'[q] = log[q]
  /\ called' \in {called, called \cup {Current(r)}}
  /\ faults' \in {faults, faults + 1} /\ faults' \in 0 .. MaxFaults
  /\ called' = called \/ attempt'[Current(r)].costExposure # "not_started"
  /\ Refines

(* It goes on at l without further ado.                                    *)
Goes(r, l) ==
  /\ g'[r].pc = l /\ Keeps(g[r], g'[r])
  /\ g'[r].handling = g[r].handling /\ g'[r].verdict = g[r].verdict

(* It goes wherever an exception leads.                                    *)
Raises(r) ==
  /\ Keeps(g[r], g'[r]) /\ g'[r].handling
  /\ g'[r].pc = IF g[r].handling THEN "ended" ELSE IF g[r].stream THEN "finalize" ELSE "closeRisk"
  /\ g'[r].verdict = IF g[r].handling THEN g[r].verdict ELSE "failed"

LEMMA ProgramTypes == ASSUME GTypeOK, NEW r \in Requests, Program(r) PROVE GTypeOK'
<1>1. g' \in [Requests -> GRow] /\ called' \subseteq Attempts
  BY GatewayTypes, CurrentAttempt DEF Program
<1>2. GTypeOK' <=> /\ g' \in [Requests -> GRow]
                   /\ log' \in [Requests -> {"none", "started", "failed", "completed"}]
                   /\ called' \subseteq Attempts
                   /\ faults' \in 0 .. MaxFaults
  BY DEF GTypeOK, GRow
<1> QED BY <1>1, <1>2 DEF Program

LEMMA Faulting ==
  ASSUME GTypeOK
  PROVE  /\ Fault => faults' = faults + 1 /\ faults' \in 0 .. MaxFaults
         /\ faults' = faults => faults' \in 0 .. MaxFaults
         /\ log' = log => log' \in [Requests -> {"none", "started", "failed", "completed"}]
BY GatewayAssumption DEF GTypeOK, Fault

LEMMA SetRow ==
  ASSUME GTypeOK, NEW r \in Requests, NEW x \in GRow, Set(r, x)
  PROVE  g'[r] = x /\ g'[r] \in GRow /\ g' = [g EXCEPT ![r] = g'[r]]
BY GatewayTypes DEF Set

LEMMA JumpGoes ==
  ASSUME GTypeOK, NEW r \in Requests, NEW l \in Labels, Set(r, To(r, l))
  PROVE  /\ g'[r] \in GRow /\ g' = [g EXCEPT ![r] = g'[r]]
         /\ Goes(r, l) /\ g'[r].then = g[r].then
BY Jump, SetRow DEF Goes

LEMMA ThrowRaises ==
  ASSUME GTypeOK, NEW r \in Requests, Set(r, Thrown(r))
  PROVE  /\ g'[r] \in GRow /\ g' = [g EXCEPT ![r] = g'[r]]
         /\ Raises(r) /\ (g'[r].pc = "finalize" => g'[r].then = "closeRisk")
BY ThrownRow, SetRow DEF Raises

(* An attempt that failed is finalized.                                    *)
LEMMA FinalizingGoes ==
  ASSUME GTypeOK, NEW r \in Requests, NEW f \in Failures, NEW o \in {"failed", "aborted"}, NEW l \in Labels,
         Set(r, Finalizing(r, f, o, TRUE, l)) \/ Set(r, Finalizing(r, f, o, FALSE, l))
  PROVE  /\ g'[r] \in GRow /\ g' = [g EXCEPT ![r] = g'[r]]
         /\ Goes(r, "finalize") /\ g'[r].then = l
<1>1. g[r] \in GRow /\ "finalize" \in Labels
  BY GatewayTypes DEF Labels
<1>2. PICK t \in BOOLEAN : Set(r, [g[r] EXCEPT !.pc = "finalize", !.failure = f, !.outcome = o,
                                               !.terminal = t, !.then = l])
  BY DEF Finalizing
<1> DEFINE x == [g[r] EXCEPT !.pc = "finalize", !.failure = f, !.outcome = o, !.terminal = t, !.then = l]
<1>3. ASSUME NEW y \in GRow, y = g[r]
      PROVE  [y EXCEPT !.pc = "finalize", !.failure = f, !.outcome = o, !.terminal = t, !.then = l] \in GRow
  BY <1>1 DEF GRow
<1>4. x \in GRow
  BY <1>1, <1>3
<1>5. Keeps(g[r], x) /\ x.pc = "finalize" /\ x.then = l /\ x.handling = g[r].handling /\ x.verdict = g[r].verdict
  BY <1>1 DEF GRow, Keeps
<1>6. Set(r, x)
  BY <1>2
<1> HIDE DEF x
<1>7. g'[r] = x /\ g'[r] \in GRow /\ g' = [g EXCEPT ![r] = g'[r]]
  BY <1>4, <1>6, SetRow
<1> QED BY <1>5, <1>7 DEF Goes

(* The candidates of a plan are numbered: the next one is only tried if    *)
(* there is one.                                                           *)
LEMMA FailedGoes ==
  ASSUME GTypeOK, NEW r \in Requests, NEW f \in Failures, NEW o \in {"failed", "aborted"}, NEW cancelled,
         NEW l \in {"closeRisk", "finish", "chosen"}, AttemptFailed(r, f, o, cancelled, l)
  PROVE  /\ g'[r] \in GRow /\ g' = [g EXCEPT ![r] = g'[r]] /\ Goes(r, "finalize")
         /\ g'[r].then \in {"closeRisk", "finish", "chosen"} \/ (g'[r].then = "admit" /\ g[r].i < MaxAttempts - 1)
<1>0. l \in Labels /\ "admit" \in Labels
  BY DEF Labels
<1>1. CASE Set(r, Finalizing(r, f, o, FALSE, "admit")) /\ g[r].i < MaxAttempts - 1
  BY <1>0, <1>1, FinalizingGoes
<1>2. CASE Set(r, Finalizing(r, f, o, TRUE, l))
  BY <1>0, <1>2, FinalizingGoes
<1> QED BY <1>1, <1>2 DEF AttemptFailed

-----------------------------------------------------------------------------
(* A step of the program of r leaves the rows of every other request alone *)
(* and keeps what is true of its own.                                      *)
Others(r) ==
  \A q \in Requests \ {r} :
    /\ lease'[q] = lease[q] /\ execution'[q] = execution[q] /\ ended'[q] = ended[q]
    /\ \A i \in 0 .. MaxAttempts - 1 : attempt'[<<q, i>>] = attempt[<<q, i>>]

Steps(r) == Program(r) /\ Invocation(r)' /\ Others(r)

LEMMA OthersKept ==
  ASSUME GInv, NEW r \in Requests, Program(r), Others(r), NEW q \in Requests, q # r
  PROVE  Invocation(q)'
<1>1. g'[q] = g[q] /\ log'[q] = log[q]
  BY GatewayTypes DEF GInv, Program
<1>2. faults' = 0 => faults = 0
  BY GatewayTypes DEF GInv, Program
<1>3. /\ lease'[q] = lease[q] /\ execution'[q] = execution[q] /\ ended'[q] = ended[q]
      /\ \A i \in 0 .. MaxAttempts - 1 : attempt'[<<q, i>>] = attempt[<<q, i>>]
  BY DEF Others
<1>4. /\ attempt'[<<q, g[q].i>>] = attempt[<<q, g[q].i>>]
      /\ Control(q) /\ Dispatching(q) /\ Completing(q) /\ Returning(q)
  BY <1>3, CurrentAttempt DEF GInv, Invocation
<1>5. Control(q)'
  BY <1>1, <1>4 DEF Control, At
<1>6. Dispatching(q)'
  BY <1>1, <1>3, <1>4 DEF Dispatching, At, Current
<1>7. Completing(q)'
  BY <1>1, <1>3, <1>4 DEF Completing
<1>8. Returning(q)'
  BY <1>1, <1>2, <1>3, <1>4 DEF Returning, At, Current, Dropped
<1> QED BY <1>5, <1>6, <1>7, <1>8 DEF Invocation

LEMMA StepKeeps == ASSUME GInv, NEW r \in Requests, Steps(r) PROVE GInv'
<1>1. Program(r) /\ Others(r) /\ Invocation(r)' /\ IInv /\ GTypeOK
  BY DEF Steps, GInv
<1>2. GTypeOK'
  BY <1>1, ProgramTypes
<1>3. [Next]_vars
  BY <1>1 DEF Program, Refines
<1>4. IInv'
  BY <1>1, <1>3, NextInvariant
<1>5. \A q \in Requests : Invocation(q)'
  BY <1>1, OthersKept
<1>6. CalledIsRecorded'
  <2>1. \A a \in Attempts : attempt[a].costExposure # "not_started" => attempt'[a].costExposure # "not_started"
    BY <1>1, <1>3, StepIsLegal DEF LegalStep, ExposureKept
  <2>2. called \subseteq Attempts /\ \A a \in called : attempt[a].costExposure # "not_started"
    BY DEF GInv, GTypeOK, CalledIsRecorded
  <2> QED BY <1>1, <2>1, <2>2 DEF Program, CalledIsRecorded
<1> QED BY <1>2, <1>4, <1>5, <1>6 DEF GInv

-----------------------------------------------------------------------------
(* The steps that ask nothing of the command service.                      *)

LEMMA QuietProgram ==
  ASSUME GInv, NEW r \in Requests, g'[r] \in GRow, g' = [g EXCEPT ![r] = g'[r]],
         UNCHANGED <<vars, called>>, Fault \/ NoFault,
         log' = log \/ log' = [log EXCEPT ![r] = "started"]
  PROVE  Program(r) /\ Others(r) /\ faults \in Nat
<1>1. GTypeOK /\ faults' \in {faults, faults + 1} /\ faults' \in 0 .. MaxFaults
  BY Faulting DEF GInv, GTypeOK, NoFault
<1>2. /\ log' \in [Requests -> {"none", "started", "failed", "completed"}]
      /\ \A q \in Requests \ {r} : log'[q] = log[q]
  BY <1>1 DEF GTypeOK
<1>3. UNCHANGED <<lease, execution, attempt, ended>>
  BY DEF vars
<1> QED BY <1>1, <1>2, <1>3 DEF Program, Others, Refines, GTypeOK

(* A call without an answer in the rows ends in one of two ways.           *)
LEMMA Asked ==
  ASSUME GInv, NEW r \in Requests, NEW ok \in GRow, NEW thrown \in GRow, Ask(r, ok, thrown)
  PROVE  /\ Program(r) /\ Others(r) /\ UNCHANGED <<vars, log, called>>
         /\ \/ g'[r] = ok /\ faults' = faults
            \/ g'[r] = thrown /\ faults' # 0
<1>0. GTypeOK
  BY DEF GInv
<1>1. /\ (Set(r, ok) /\ NoFault) \/ (Set(r, thrown) /\ Fault)
      /\ UNCHANGED <<vars, log, called>>
  BY DEF Ask
<1>2. /\ g'[r] \in GRow /\ g' = [g EXCEPT ![r] = g'[r]]
      /\ \/ g'[r] = ok /\ NoFault
         \/ g'[r] = thrown /\ Fault
  BY <1>0, <1>1, SetRow
<1>3. Program(r) /\ Others(r) /\ faults \in Nat
  BY <1>1, <1>2, QuietProgram
<1> QED BY <1>1, <1>2, <1>3 DEF NoFault, Fault

(* A decision that asks nobody.                                            *)
LEMMA Decided ==
  ASSUME GInv, NEW r \in Requests, NEW x \in GRow, Set(r, x), UNCHANGED <<vars, log, called, faults>>
  PROVE  Program(r) /\ Others(r) /\ UNCHANGED <<vars, log, called, faults>> /\ g'[r] = x
<1>1. g'[r] = x /\ g'[r] \in GRow /\ g' = [g EXCEPT ![r] = g'[r]]
  BY SetRow DEF GInv
<1> QED BY <1>1, QuietProgram DEF NoFault

(* The rows of attempts and executions do not change.                      *)
LEMMA RowsUntouched ==
  ASSUME GInv, NEW r \in Requests, Program(r), Others(r), UNCHANGED <<execution, attempt, log>>, Control(r)',
         LET x == g'[r] IN
           /\ x.i = g[r].i
           /\ x.verdict = "completed" => g[r].verdict = "completed"
           /\ x.pc = "fresh" => attempt[Current(r)].costExposure # "not_started"
           /\ x.pc \in {"fresh", "invoke", "complete"} => attempt[Current(r)].outcome = "pending"
           /\ x.pc = "chosen" /\ ~x.stream => attempt[Current(r)].outcome = "pending"
           /\ x.pc \in InFlight \ {"finalize"} /\ attempt[Current(r)].outcome = "pending" =>
                execution[r].status = "running",
         Returning(r)'
  PROVE  Steps(r)
<1>1. Dispatching(r) /\ Completing(r) /\ UNCHANGED <<execution, attempt>>
  BY DEF GInv, Invocation
<1>2. Current(r)' = Current(r)
  BY DEF Current
<1>3. Dispatching(r)'
  BY <1>1, <1>2 DEF Dispatching, At
<1>4. Completing(r)'
  BY <1>1 DEF Completing
<1> QED BY <1>3, <1>4 DEF Steps, Invocation

(* Nothing but the registers of r changes.                                 *)
LEMMA RegistersOnly ==
  ASSUME GInv, NEW r \in Requests, Program(r), Others(r), UNCHANGED <<vars, log>>, Control(r)',
         LET x == g'[r] IN
           /\ x.i = g[r].i
           /\ x.verdict = "completed" => g[r].verdict = "completed"
           /\ x.pc = "fresh" => attempt[Current(r)].costExposure # "not_started"
           /\ x.pc \in {"fresh", "invoke", "complete"} => attempt[Current(r)].outcome = "pending"
           /\ x.pc = "chosen" /\ ~x.stream => attempt[Current(r)].outcome = "pending"
           /\ x.pc \in InFlight \ {"finalize"} /\ attempt[Current(r)].outcome = "pending" =>
                execution[r].status = "running",
         Returning(r)'
  PROVE  Steps(r)
BY RowsUntouched DEF vars

LEMMA CreateRequestLogSteps == ASSUME GInv, NEW r \in Requests, CreateRequestLog(r) PROVE Steps(r)
<1>0. GTypeOK /\ Control(r) /\ Dispatching(r) /\ Completing(r) /\ Returning(r) /\ g[r] \in GRow /\ At(r, "idle")
  BY CurrentAttempt DEF GInv, Invocation, CreateRequestLog
<1>1. PICK failed \in BOOLEAN :
        \/ /\ NoFault /\ log' = [log EXCEPT ![r] = "started"]
           /\ Set(r, [g[r] EXCEPT !.pc = "acquire", !.then = IF failed THEN "finish" ELSE "select",
                                  !.handling = failed])
        \/ Fault /\ Set(r, To(r, "ended")) /\ (UNCHANGED log \/ log' = [log EXCEPT ![r] = "started"])
  BY DEF CreateRequestLog, Goto, To
<1> DEFINE l == IF failed THEN "finish" ELSE "select"
           x == [g[r] EXCEPT !.pc = "acquire", !.then = l, !.handling = failed]
<1>2. l \in {"finish", "select"} /\ {"finish", "select", "acquire", "ended"} \subseteq Labels /\ (failed <=> l = "finish")
  BY DEF Labels
<1>3. x \in GRow /\ Keeps(g[r], x) /\ x.pc = "acquire" /\ x.then = l /\ x.handling = failed /\ x.verdict = g[r].verdict
  <2> HIDE DEF l
  <2> QED BY <1>0, <1>2 DEF GRow, Keeps
<1>4. UNCHANGED <<vars, called>>
  BY DEF CreateRequestLog
<1> HIDE DEF x
<1>5. /\ g'[r] \in GRow /\ g' = [g EXCEPT ![r] = g'[r]]
      /\ \/ NoFault /\ log' = [log EXCEPT ![r] = "started"] /\ g'[r] = x
         \/ /\ Fault /\ (UNCHANGED log \/ log' = [log EXCEPT ![r] = "started"])
            /\ Goes(r, "ended")
  BY <1>0, <1>1, <1>2, <1>3, SetRow, JumpGoes DEF x
<1>6. Program(r) /\ Others(r) /\ faults \in Nat
  BY <1>4, <1>5, QuietProgram
<1>7. log'[r] \in {log[r], "started"} /\ UNCHANGED <<lease, execution, attempt, ended>>
  BY <1>0, <1>4, <1>5 DEF GTypeOK, vars
<1> HIDE DEF l
<1>8. Control(r)'
  BY <1>0, <1>2, <1>3, <1>5 DEF Control, At, Goes, Keeps, Handled, Completed
<1>9. Dispatching(r)'
  BY <1>0, <1>3, <1>5, <1>7 DEF Dispatching, At, Goes, InFlight
<1>10. Completing(r)'
  BY <1>0, <1>3, <1>5, <1>7 DEF Completing, Goes
<1>11. Returning(r)'
  BY <1>0, <1>3, <1>5, <1>6, <1>7 DEF Returning, At, Goes, Keeps, InFlight, Fault, NoFault, Dropped
<1> QED BY <1>6, <1>8, <1>9, <1>10, <1>11 DEF Steps, Invocation

LEMMA Parts ==
  ASSUME GInv, NEW r \in Requests
  PROVE  /\ GTypeOK /\ IInv /\ g[r] \in GRow /\ Current(r) \in Attempts
         /\ Control(r) /\ Dispatching(r) /\ Completing(r) /\ Returning(r)
         /\ faults \in Nat /\ Current(r) = <<r, g[r].i>> /\ g[r].i \in 0 .. MaxAttempts - 1
<1>1. faults \in Nat
  BY DEF GInv, GTypeOK
<1> QED BY <1>1, CurrentAttempt DEF GInv, Invocation, Current

LEMMA SelectPlanSourceSteps == ASSUME GInv, NEW r \in Requests, SelectPlanSource(r) PROVE Steps(r)
<1> DEFINE l == IF Protected(Current(r)) THEN "admit" ELSE "enrich"
           x == [g[r] EXCEPT !.pc = "finish", !.handling = TRUE]
           y == To(r, l)
<1>1. l \in {"admit", "enrich"} /\ {"admit", "enrich", "finish"} \subseteq Labels
  BY DEF Labels
<1> HIDE DEF l
<1>2. /\ x \in GRow /\ Keeps(g[r], x) /\ x.pc = "finish" /\ x.verdict = g[r].verdict
      /\ y \in GRow /\ Keeps(g[r], y) /\ y.pc = l /\ y.handling = g[r].handling /\ y.verdict = g[r].verdict
  <2>1. x \in GRow /\ Keeps(g[r], x) /\ x.pc = "finish" /\ x.verdict = g[r].verdict
    BY <1>1, Parts DEF GRow, Keeps
  <2> QED BY <1>1, <2>1, Parts, Jump
<1>3. At(r, "select") /\ (Ask(r, y, x) \/ (Set(r, x) /\ UNCHANGED <<vars, log, called, faults>>))
  BY DEF SelectPlanSource, l
<1> HIDE DEF x, y
<1>4. /\ Program(r) /\ Others(r) /\ UNCHANGED <<vars, log, called>>
      /\ g'[r] = x \/ (g'[r] = y /\ faults' = faults)
  BY <1>2, <1>3, Asked, Decided
<1>5. Control(r)'
  BY <1>1, <1>2, <1>3, <1>4, Parts DEF Control, At, Keeps, Handled, Completed
<1>6. UNCHANGED <<lease, execution, attempt, ended>> /\ faults' \in {faults, faults + 1}
  BY <1>4 DEF vars, Program
<1>7. Returning(r)'
  BY <1>1, <1>2, <1>3, <1>4, <1>6, Parts DEF Returning, At, Keeps, InFlight, Dropped, Control
<1> QED BY <1>1, <1>2, <1>3, <1>4, <1>5, <1>7, Parts, RegistersOnly DEF Keeps, InFlight, At

(* The steps that only jump.                                               *)
LEMMA JumpSteps ==
  ASSUME GInv, NEW r \in Requests, NEW l \in Labels,
         Goes(r, l), Program(r), Others(r), UNCHANGED <<vars, log, called>>,
         \/ At(r, "enrich") /\ l = "admit"
         \/ At(r, "enrich") /\ l = "ended" /\ faults' # 0
         \/ At(r, "resolve") /\ l = "risk"
         \/ At(r, "risk") /\ l = "refresh"
         \/ At(r, "refresh") /\ l = "renew"
  PROVE  Steps(r)
<1>1. UNCHANGED <<lease, execution, attempt, ended>> /\ faults' \in {faults, faults + 1}
  BY DEF vars, Program
<1>2. Control(r)'
  BY Parts DEF Control, At, Goes, Keeps, Handled, Completed
<1>3. Returning(r)'
  BY <1>1, Parts DEF Returning, At, Goes, Keeps, InFlight, Dropped, Control
<1> QED BY <1>2, <1>3, Parts, RegistersOnly DEF Goes, Keeps, InFlight, At, Control, Dispatching

LEMMA EnrichClaimlessSteps == ASSUME GInv, NEW r \in Requests, EnrichClaimless(r) PROVE Steps(r)
<1>1. {"admit", "ended"} \subseteq Labels
  BY DEF Labels
<1>2. PICK l \in {"admit", "ended"} :
        /\ g'[r] = To(r, l) /\ Program(r) /\ Others(r) /\ UNCHANGED <<vars, log, called>>
        /\ l = "ended" => faults' # 0
  BY <1>1, Parts, Jump, Asked DEF EnrichClaimless
<1>3. Goes(r, l) /\ At(r, "enrich") /\ l \in Labels
  BY <1>1, <1>2, Parts, Jump DEF Goes, EnrichClaimless
<1> QED BY <1>2, <1>3, JumpSteps

(* An attempt in flight is finalized without a call.                       *)
LEMMA FinalizeNext ==
  ASSUME GInv, NEW r \in Requests, g[r].pc \in InFlight \ {"chosen", "stream", "complete", "finalize"},
         Goes(r, "finalize"), faults' \in {faults, faults + 1}, log' = log, ended' = ended,
         \/ g'[r].then \in {"closeRisk", "finish", "chosen"}
         \/ g'[r].then = "admit" /\ g[r].i < MaxAttempts - 1,
         execution[r].status = "succeeded" => execution'[r].status = "succeeded",
         \A i \in 0 .. MaxAttempts - 1 : attempt'[<<r, i>>].outcome = "pending" =>
            attempt[<<r, i>>].outcome = "pending" /\ (i = g[r].i => execution'[r] = execution[r])
  PROVE  Invocation(r)'
<1>1. Control(r)'
  BY Parts DEF Control, At, Goes, Keeps, Handled, Completed, InFlight
<1>2. Dispatching(r)'
  BY DEF Dispatching, At, Goes
<1>3. Completing(r)'
  BY Parts DEF Completing, Goes, Control, Completed, InFlight
<1>4. Returning(r)'
  <2>1. Current(r)' = Current(r) /\ g'[r].i = g[r].i
    BY DEF Current, Goes, Keeps
  <2>2. attempt[Current(r)].outcome = "pending" => execution[r].status = "running"
    BY Parts DEF Dispatching
  <2> QED BY <2>1, <2>2, Parts DEF Returning, At, Goes, Keeps, InFlight, Dropped, Control
<1> QED BY <1>1, <1>2, <1>3, <1>4 DEF Invocation

LEMMA QuietFinalize ==
  ASSUME GInv, NEW r \in Requests, g[r].pc \in InFlight \ {"chosen", "stream", "complete", "finalize"},
         Goes(r, "finalize"), Program(r), Others(r), UNCHANGED <<vars, log>>,
         \/ g'[r].then \in {"closeRisk", "finish", "chosen"}
         \/ g'[r].then = "admit" /\ g[r].i < MaxAttempts - 1
  PROVE  Steps(r)
<1>1. UNCHANGED <<lease, execution, attempt, ended>> /\ faults' \in {faults, faults + 1}
  BY DEF vars, Program
<1> QED BY <1>1, FinalizeNext DEF Steps


LEMMA GivenBack ==
  ASSUME GInv, NEW r \in Requests, Set(r, GiveBack(r)), UNCHANGED <<vars, log, called>>, Fault \/ NoFault,
         g[r].pc \in {"resolve", "risk"}
  PROVE  Steps(r)
<1>1. "closeRisk" \in Labels /\ NotStarted("non_retryable") \in Failures
  BY KnownFailures DEF Labels
<1>2. /\ g'[r] \in GRow /\ g' = [g EXCEPT ![r] = g'[r]]
      /\ Goes(r, "finalize") /\ g'[r].then = "closeRisk"
  BY <1>1, Parts, FinalizingGoes DEF GiveBack
<1>3. Program(r) /\ Others(r)
  BY <1>2, QuietProgram
<1> QED BY <1>2, <1>3, QuietFinalize DEF InFlight

LEMMA EnrichProtectedSteps == ASSUME GInv, NEW r \in Requests, EnrichProtected(r) PROVE Steps(r)
<1>0. "risk" \in Labels /\ At(r, "resolve")
  BY DEF Labels, EnrichProtected
<1>1. UNCHANGED <<vars, log, called>> /\ ((NoFault /\ Set(r, To(r, "risk"))) \/ (Fault /\ Set(r, GiveBack(r))))
  BY DEF EnrichProtected, Ask
<1>2. CASE NoFault /\ Set(r, To(r, "risk"))
  <2>1. g'[r] \in GRow /\ g' = [g EXCEPT ![r] = g'[r]] /\ Goes(r, "risk")
    BY <1>0, <1>2, Parts, JumpGoes
  <2>2. Program(r) /\ Others(r)
    BY <1>1, <1>2, <2>1, QuietProgram
  <2> QED BY <1>0, <1>1, <2>1, <2>2, JumpSteps
<1>3. CASE Fault /\ Set(r, GiveBack(r))
  BY <1>0, <1>1, <1>3, GivenBack DEF At
<1> QED BY <1>1, <1>2, <1>3

LEMMA AcquireRiskSteps == ASSUME GInv, NEW r \in Requests, AcquireRisk(r) PROVE Steps(r)
<1> DEFINE x == [g[r] EXCEPT !.pc = "refresh", !.risk = "held"]
<1>0. "refresh" \in Labels /\ At(r, "risk")
  BY DEF Labels, AcquireRisk
<1>1. UNCHANGED <<vars, log, called, faults>> /\ (Set(r, x) \/ Set(r, To(r, "refresh")) \/ Set(r, GiveBack(r)))
  BY DEF AcquireRisk
<1>2. x \in GRow /\ x.pc = "refresh" /\ x.i = g[r].i /\ x.finished = g[r].finished /\ x.stream = g[r].stream
      /\ x.read = g[r].read /\ x.handling = g[r].handling /\ x.verdict = g[r].verdict
  BY <1>0, Parts DEF GRow
<1> HIDE DEF x
<1>3. CASE Set(r, x)
  <2>1. Program(r) /\ Others(r) /\ g'[r] = x /\ UNCHANGED <<lease, execution, attempt, ended>>
    BY <1>1, <1>2, <1>3, Decided DEF vars
  <2>2. Control(r)'
    BY <1>0, <1>2, <2>1, Parts DEF Control, At, Handled, Completed
  <2>3. Returning(r)'
    BY <1>0, <1>1, <1>2, <2>1, Parts DEF Returning, At, InFlight, Dropped, Control
  <2> QED BY <1>0, <1>1, <1>2, <2>1, <2>2, <2>3, Parts, RegistersOnly DEF InFlight, At, Control,
     Dispatching
<1>4. CASE Set(r, To(r, "refresh"))
  <2>1. g'[r] \in GRow /\ g' = [g EXCEPT ![r] = g'[r]] /\ Goes(r, "refresh")
    BY <1>0, <1>4, Parts, JumpGoes
  <2>2. Program(r) /\ Others(r)
    BY <1>1, <2>1, QuietProgram DEF NoFault
  <2> QED BY <1>0, <1>1, <2>1, <2>2, JumpSteps
<1>5. CASE Set(r, GiveBack(r))
  BY <1>0, <1>1, <1>5, GivenBack DEF At, NoFault
<1> QED BY <1>1, <1>3, <1>4, <1>5

(* A failure before any output.                                            *)
LEMMA FailedSteps ==
  ASSUME GInv, NEW r \in Requests, NEW f \in Failures, NEW o \in {"failed", "aborted"}, NEW cancelled,
         NEW l \in {"closeRisk", "finish", "chosen"}, AttemptFailed(r, f, o, cancelled, l),
         g[r].pc \in {"refresh", "fresh", "invoke"}, UNCHANGED <<vars, log, called, faults>>
  PROVE  Steps(r)
<1>1. /\ g'[r] \in GRow /\ g' = [g EXCEPT ![r] = g'[r]] /\ Goes(r, "finalize")
      /\ g'[r].then \in {"closeRisk", "finish", "chosen"} \/ (g'[r].then = "admit" /\ g[r].i < MaxAttempts - 1)
  BY Parts, FailedGoes
<1>2. Program(r) /\ Others(r)
  BY <1>1, QuietProgram DEF NoFault
<1> QED BY <1>1, <1>2, QuietFinalize DEF InFlight

LEMMA OutcomeType == ASSUME NEW r \in Requests PROVE Outcome(r) \in {"failed", "aborted"}
BY DEF Outcome

LEMMA RefreshSteps == ASSUME GInv, NEW r \in Requests, Refresh(r) PROVE Steps(r)
<1>0. "renew" \in Labels /\ At(r, "refresh") /\ UNCHANGED <<vars, log, called, faults>>
  BY DEF Labels, Refresh
<1>1. CASE Set(r, To(r, "renew"))
  <2>1. g'[r] \in GRow /\ g' = [g EXCEPT ![r] = g'[r]] /\ Goes(r, "renew")
    BY <1>0, <1>1, Parts, JumpGoes
  <2>2. Program(r) /\ Others(r)
    BY <1>0, <2>1, QuietProgram DEF NoFault
  <2> QED BY <1>0, <2>1, <2>2, JumpSteps
<1>2. ASSUME NEW f \in {NotStarted("non_retryable"), Unknown("non_retryable")}, Throws(r, f)
      PROVE  Steps(r)
  <2>1. f \in Failures
    BY KnownFailures
  <2> QED BY <1>0, <1>2, <2>1, OutcomeType, FailedSteps DEF Throws, At
<1> QED BY <1>1, <1>2 DEF Refresh, Goto, To

LEMMA ProviderFailsSteps ==
  ASSUME GInv, NEW r \in Requests, ProviderThrows(r) \/ ProviderRefuses(r) \/ PreflightFails(r)
  PROVE  Steps(r)
<1>0. At(r, "invoke") /\ UNCHANGED <<vars, log, called, faults>>
  BY DEF ProviderThrows, ProviderRefuses, PreflightFails
<1>1. ASSUME NEW f \in Failures, Throws(r, f)
      PROVE  Steps(r)
  BY <1>0, <1>1, OutcomeType, FailedSteps DEF Throws, At
<1>2. ASSUME NEW f \in Failures, NEW then \in {"closeRisk", "finish", "chosen"}, NEW cancelled,
             AttemptFailed(r, f, "failed", cancelled, then)
      PROVE  Steps(r)
  BY <1>0, <1>2, FailedSteps DEF At
<1>3. ASSUME NEW f \in Failures, Set(r, Finalizing(r, f, "aborted", TRUE, "closeRisk"))
      PROVE  Steps(r)
  BY <1>0, <1>3, FailedSteps DEF At, AttemptFailed
<1>4. CASE ProviderThrows(r)
  BY <1>1, <1>4 DEF ProviderThrows
<1>5. CASE ProviderRefuses(r)
  BY <1>2, <1>5 DEF ProviderRefuses
<1>6. CASE PreflightFails(r)
  BY <1>2, <1>3, <1>6 DEF PreflightFails
<1> QED BY <1>4, <1>5, <1>6

LEMMA CheckFreshSteps == ASSUME GInv, NEW r \in Requests, CheckFresh(r) PROVE Steps(r)
<1>0. "invoke" \in Labels /\ At(r, "fresh") /\ UNCHANGED <<vars, log, faults>>
  BY DEF Labels, CheckFresh
<1>1. CASE Set(r, To(r, "invoke")) /\ called' = called \cup {Current(r)}
  <2>1. g'[r] \in GRow /\ g' = [g EXCEPT ![r] = g'[r]] /\ Goes(r, "invoke")
    BY <1>0, <1>1, Parts, JumpGoes
  <2>2. UNCHANGED <<lease, execution, attempt, ended>>
    BY <1>0 DEF vars
  <2>3. attempt[Current(r)].costExposure # "not_started" /\ attempt[Current(r)].outcome = "pending"
    BY <1>0, Parts DEF Dispatching, At
  <2>4. /\ faults' \in {faults, faults + 1} /\ faults' \in 0 .. MaxFaults
        /\ log' \in [Requests -> {"none", "started", "failed", "completed"}]
        /\ \A q \in Requests \ {r} : log'[q] = log[q]
    BY <1>0, Parts DEF GTypeOK
  <2>5. Program(r) /\ Others(r)
    BY <1>0, <1>1, <2>1, <2>2, <2>3, <2>4 DEF Program, Others, Refines
  <2>6. Control(r)'
    BY <1>0, <2>1, Parts DEF Control, At, Goes, Keeps, Handled, Completed
  <2>7. Returning(r)'
    BY <1>0, <2>1, <2>2, <2>4, Parts DEF Returning, At, Goes, Keeps, InFlight, Dropped, Control
  <2> QED BY <1>0, <2>1, <2>3, <2>5, <2>6, <2>7, Parts, RegistersOnly DEF Goes, Keeps, InFlight,
     At, Control, Dispatching
<1>2. CASE Throws(r, Unknown("non_retryable")) /\ UNCHANGED called
  <2>1. Unknown("non_retryable") \in Failures
    BY KnownFailures
  <2> QED BY <1>0, <1>2, <2>1, OutcomeType, FailedSteps DEF Throws, At
<1> QED BY <1>1, <1>2 DEF CheckFresh, Goto, To

LEMMA ProviderAnswersSteps == ASSUME GInv, NEW r \in Requests, ProviderAnswers(r) PROVE Steps(r)
<1>0. "chosen" \in Labels /\ At(r, "invoke") /\ UNCHANGED <<vars, log, called, faults>>
  BY DEF Labels, ProviderAnswers
<1>1. PICK stream \in BOOLEAN : Set(r, [g[r] EXCEPT !.pc = "chosen", !.stream = stream, !.then = "chosen"])
  BY DEF ProviderAnswers
<1> DEFINE x == [g[r] EXCEPT !.pc = "chosen", !.stream = stream, !.then = "chosen"]
<1>2. x \in GRow /\ x.pc = "chosen" /\ x.i = g[r].i /\ x.finished = g[r].finished /\ x.risk = g[r].risk
      /\ x.read = g[r].read /\ x.handling = g[r].handling /\ x.verdict = g[r].verdict
  BY <1>0, Parts DEF GRow
<1>3. Set(r, x)
  BY <1>1
<1> HIDE DEF x
<1>4. Program(r) /\ Others(r) /\ g'[r] = x /\ UNCHANGED <<lease, execution, attempt, ended>>
  BY <1>0, <1>2, <1>3, Decided DEF vars
<1>5. Control(r)'
  BY <1>0, <1>2, <1>4, Parts DEF Control, At, Handled, Completed
<1>6. Returning(r)'
  BY <1>0, <1>2, <1>4, Parts DEF Returning, At, InFlight, Dropped, Control
<1> QED BY <1>0, <1>2, <1>4, <1>5, <1>6, Parts, RegistersOnly DEF InFlight, At, Control, Dispatching

LEMMA ChosenSteps == ASSUME GInv, NEW r \in Requests, Chosen(r) PROVE Steps(r)
<1> DEFINE l == IF g[r].stream THEN "stream" ELSE "complete"
           x == [[g[r] EXCEPT !.stream = FALSE] EXCEPT !.pc = "closeRisk", !.handling = TRUE, !.verdict = "failed"]
           y == To(r, l)
<1>0. l \in Labels /\ "closeRisk" \in Labels /\ At(r, "chosen")
  BY DEF Labels, Chosen
<1>1. Ask(r, y, x)
  BY DEF Chosen
<1>2. x \in GRow /\ x.pc = "closeRisk" /\ x.i = g[r].i /\ x.finished = g[r].finished /\ x.risk = g[r].risk
      /\ x.read = g[r].read /\ x.handling = TRUE /\ x.verdict = "failed" /\ ~x.stream
  BY <1>0, Parts DEF GRow
<1>3. y \in GRow /\ Keeps(g[r], y) /\ y.pc = l /\ y.handling = g[r].handling /\ y.verdict = g[r].verdict
  BY <1>0, Parts, Jump
<1> HIDE DEF x, y
<1>4. /\ Program(r) /\ Others(r) /\ UNCHANGED <<vars, log, called>>
      /\ (g'[r] = y /\ faults' = faults) \/ (g'[r] = x /\ faults' # 0)
  BY <1>1, <1>2, <1>3, Asked
<1>5. UNCHANGED <<lease, execution, attempt, ended>>
  BY <1>4 DEF vars
<1>6. Control(r)'
  BY <1>0, <1>2, <1>3, <1>4, Parts DEF Control, At, Handled, Completed, Keeps
<1>7. Returning(r)'
  BY <1>0, <1>2, <1>3, <1>4, <1>5, Parts DEF Returning, At, InFlight, Dropped, Control, Keeps
<1> QED
  BY <1>0, <1>2, <1>3, <1>4, <1>6, <1>7, Parts, RegistersOnly DEF InFlight, At, Control,
     Dispatching, Keeps

-----------------------------------------------------------------------------
(* The stream and the end of an invocation, as far as they ask nothing.    *)

LEMMA StreamEventSteps == ASSUME GInv, NEW r \in Requests, StreamEvent(r) \/ StreamSucceeds(r) PROVE Steps(r)
<1>0. "complete" \in Labels /\ At(r, "stream") /\ UNCHANGED <<vars, log, called, faults>>
  BY DEF Labels, StreamEvent, StreamSucceeds
<1>1. PICK output \in BOOLEAN, l \in {"stream", "complete"} :
        /\ Set(r, [g[r] EXCEPT !.pc = l, !.read = TRUE, !.output = output])
        /\ l = "complete" => attempt[Current(r)].outcome = "pending"
  <2>1. g[r].output \in BOOLEAN /\ g[r].pc = "stream" /\ Replay(r) \in BOOLEAN
    BY <1>0, Parts DEF GRow, At, Replay
  <2>2. CASE StreamEvent(r)
    <3>1. PICK output \in BOOLEAN : Set(r, [g[r] EXCEPT !.read = TRUE, !.output = output])
      BY <2>1, <2>2 DEF StreamEvent, Replay
    <3>2. [g[r] EXCEPT !.read = TRUE, !.output = output] = [g[r] EXCEPT !.pc = "stream", !.read = TRUE, !.output = output]
      BY <2>1, Parts DEF GRow
    <3> QED BY <3>1, <3>2
  <2>3. CASE StreamSucceeds(r)
    BY <2>1, <2>3 DEF StreamSucceeds, Replay
  <2> QED BY <2>2, <2>3
<1> DEFINE x == [g[r] EXCEPT !.pc = l, !.read = TRUE, !.output = output]
<1>2. x \in GRow /\ x.pc = l /\ x.i = g[r].i /\ x.finished = g[r].finished /\ x.risk = g[r].risk
      /\ x.read /\ x.handling = g[r].handling /\ x.verdict = g[r].verdict /\ x.stream = g[r].stream
  <2>1. l \in Labels
    BY DEF Labels
  <2> QED BY <2>1, Parts DEF GRow
<1>3. Set(r, x)
  BY <1>1
<1> HIDE DEF x
<1>4. Program(r) /\ Others(r) /\ g'[r] = x /\ UNCHANGED <<lease, execution, attempt, ended>>
  BY <1>0, <1>2, <1>3, Decided DEF vars
<1>5. Control(r)'
  BY <1>0, <1>2, <1>4, Parts DEF Control, At, Handled, Completed
<1>6. Returning(r)'
  BY <1>0, <1>2, <1>4, Parts DEF Returning, At, InFlight, Dropped, Control
<1> QED BY <1>0, <1>1, <1>2, <1>4, <1>5, <1>6, Parts, RegistersOnly DEF InFlight, At, Control,
   Dispatching

LEMMA StreamFailsSteps ==
  ASSUME GInv, NEW r \in Requests, NEW f \in Failures, NEW o \in {"failed", "aborted"}, StreamFails(r, f, o),
         At(r, "stream"), UNCHANGED <<vars, log, called, faults>>
  PROVE  Steps(r)
<1> DEFINE x == [[g[r] EXCEPT !.pc = "finalize", !.failure = f, !.outcome = o, !.terminal = TRUE,
                              !.then = "closeRisk"] EXCEPT !.handling = TRUE, !.read = TRUE]
<1>1. Set(r, x)
  BY DEF StreamFails, Finalizing
<1>2. {"finalize", "closeRisk"} \subseteq Labels
  BY DEF Labels
<1>3. x \in GRow /\ x.pc = "finalize" /\ x.i = g[r].i /\ x.finished = g[r].finished /\ x.risk = g[r].risk
      /\ x.read /\ x.handling /\ x.verdict = g[r].verdict /\ x.stream = g[r].stream /\ x.then = "closeRisk"
  BY <1>2, Parts DEF GRow
<1> HIDE DEF x
<1>4. Program(r) /\ Others(r) /\ g'[r] = x /\ UNCHANGED <<lease, execution, attempt, ended>>
  BY <1>1, <1>3, Decided DEF vars
<1>5. Control(r)'
  BY <1>3, <1>4, Parts DEF Control, At, Handled, Completed
<1>6. Returning(r)'
  BY <1>3, <1>4, Parts DEF Returning, At, InFlight, Dropped, Control, Dispatching, Current
<1> QED BY <1>3, <1>4, <1>5, <1>6, Parts, RegistersOnly DEF InFlight, At, Control, Dispatching

LEMMA StreamEndsSteps ==
  ASSUME GInv, NEW r \in Requests, StreamErrs(r) \/ StreamReturns(r) \/ StreamDropped(r)
  PROVE  Steps(r)
<1>0. At(r, "stream") /\ UNCHANGED <<vars, log, called, faults>>
  BY DEF StreamErrs, StreamReturns, StreamDropped
<1>1. CASE StreamErrs(r) \/ StreamReturns(r)
  <2>1. g[r].failure \in Failures /\ Unknown("non_retryable") \in Failures
    BY Parts, KnownFailures DEF GRow
  <2>2. PICK f \in Failures, o \in {"failed", "aborted"} : StreamFails(r, f, o)
    BY <1>1, <2>1 DEF StreamErrs, StreamReturns, Returns
  <2> QED BY <1>0, <2>2, StreamFailsSteps
<1>2. CASE StreamDropped(r)
  <2>0. "ended" \in Labels
    BY DEF Labels
  <2>1. g'[r] \in GRow /\ g' = [g EXCEPT ![r] = g'[r]] /\ Goes(r, "ended") /\ ~g[r].read
    BY <1>2, <2>0, Parts, JumpGoes DEF StreamDropped, Goto, To
  <2>2. Program(r) /\ Others(r) /\ UNCHANGED <<lease, execution, attempt, ended>>
    BY <1>0, <2>1, QuietProgram DEF NoFault, vars
  <2>3. Control(r)'
    BY <1>0, <2>1, Parts DEF Control, At, Handled, Completed, Goes, Keeps
  <2>4. Returning(r)'
    BY <1>0, <2>1, <2>2, Parts DEF Returning, At, InFlight, Dropped, Control, Goes, Keeps
  <2> QED BY <1>0, <2>1, <2>2, <2>3, <2>4, Parts, RegistersOnly DEF InFlight, At, Control, Goes,
     Keeps
<1> QED BY <1>1, <1>2

(* The guard's reservation is closed, or its error is logged.              *)
LEMMA EndRiskGoes ==
  ASSUME GInv, NEW r \in Requests, NEW label, NEW l \in Labels, EndRisk(r, label, To(r, l))
  PROVE  /\ At(r, label) /\ g[r].pc = label /\ Program(r) /\ Others(r) /\ UNCHANGED <<vars, log, called>>
         /\ g'[r].pc = l /\ g'[r].i = g[r].i /\ g'[r].finished = g[r].finished /\ g'[r].stream = g[r].stream
         /\ g'[r].read = g[r].read /\ g'[r].handling = g[r].handling /\ g'[r].verdict = g[r].verdict
         /\ g'[r].then = g[r].then
         /\ (faults' = faults /\ g'[r].risk # "held") \/ faults' # 0
<1> DEFINE k == IF g[r].risk = "held" THEN "closed" ELSE g[r].risk
           y == To(r, l)
           x == [y EXCEPT !.risk = k]
<1>1. y \in GRow /\ Keeps(g[r], y) /\ y.pc = l
      /\ y.handling = g[r].handling /\ y.verdict = g[r].verdict /\ y.then = g[r].then
  BY Parts, Jump
<1>2. [y EXCEPT !.risk = IF @ = "held" THEN "closed" ELSE @] = x
  BY <1>1 DEF Keeps
<1>3. UNCHANGED <<vars, log, called>> /\ At(r, label) /\ ((NoFault /\ Set(r, x)) \/ (Fault /\ Set(r, y)))
  BY <1>2 DEF EndRisk
<1> HIDE DEF y
<1>4. /\ x \in GRow /\ x.risk # "held" /\ x.pc = l /\ x.i = g[r].i /\ x.finished = g[r].finished
      /\ x.stream = g[r].stream /\ x.read = g[r].read /\ x.handling = g[r].handling
      /\ x.verdict = g[r].verdict /\ x.then = g[r].then
  <2>1. k \in {"none", "closed"}
    BY Parts DEF GRow
  <2> HIDE DEF k
  <2> QED BY <1>1, <2>1 DEF GRow, Keeps
<1> HIDE DEF x
<1>5. /\ g'[r] \in GRow /\ g' = [g EXCEPT ![r] = g'[r]]
      /\ (NoFault /\ g'[r] = x) \/ (Fault /\ g'[r] = y)
  BY <1>1, <1>3, <1>4, Parts, SetRow
<1>6. Program(r) /\ Others(r) /\ faults \in Nat
  BY <1>3, <1>5, QuietProgram
<1>7. At(r, label) => g[r].pc = label
  BY DEF At
<1>8. (faults' = faults /\ g'[r].risk # "held") \/ faults' # 0
  BY <1>4, <1>5, <1>6 DEF NoFault, Fault
<1> QED BY <1>1, <1>3, <1>4, <1>5, <1>6, <1>7, <1>8 DEF Keeps

LEMMA RiskSteps ==
  ASSUME GInv, NEW r \in Requests, SettleRisk(r) \/ CloseRisk(r) \/ LateClose(r)
  PROVE  Steps(r)
<1>0. {"finish", "ended", "failExecution"} \subseteq Labels
  BY DEF Labels
<1>1. CASE SettleRisk(r)
  <2>1. EndRisk(r, "settleRisk", To(r, "finish"))
    BY <1>1 DEF SettleRisk
  <2>2. Control(r)'
    BY <1>0, <2>1, EndRiskGoes, Parts DEF Control, At, Handled, Completed
  <2>3. Program(r) /\ UNCHANGED <<vars, log>>
    BY <1>0, <2>1, EndRiskGoes
  <2>4. Returning(r)'
    BY <1>0, <2>1, <2>3, EndRiskGoes, Parts DEF Returning, At, InFlight, Dropped, Control, Program,
       vars
  <2> QED BY <1>0, <2>1, <2>2, <2>3, <2>4, EndRiskGoes, Parts, RegistersOnly DEF InFlight
<1>2. CASE CloseRisk(r)
  <2>1. PICK l \in {"finish", "failExecution"} :
          /\ EndRisk(r, "closeRisk", To(r, l))
          /\ l = "failExecution" => g[r].handling
    BY <1>2 DEF CloseRisk
  <2>2. Control(r)'
    BY <1>0, <2>1, EndRiskGoes, Parts DEF Control, At, Handled, Completed
  <2>3. Program(r) /\ UNCHANGED <<vars, log>>
    BY <1>0, <2>1, EndRiskGoes
  <2>4. Returning(r)'
    BY <1>0, <2>1, <2>3, EndRiskGoes, Parts DEF Returning, At, InFlight, Dropped, Control, Program,
       vars
  <2> QED BY <1>0, <2>1, <2>2, <2>3, <2>4, EndRiskGoes, Parts, RegistersOnly DEF InFlight
<1>3. CASE LateClose(r)
  <2>1. EndRisk(r, "lateClose", To(r, "ended"))
    BY <1>3 DEF LateClose
  <2>2. Control(r)'
    BY <1>0, <2>1, EndRiskGoes, Parts DEF Control, At, Handled, Completed
  <2>3. Program(r) /\ UNCHANGED <<vars, log>>
    BY <1>0, <2>1, EndRiskGoes
  <2>4. Returning(r)'
    BY <1>0, <2>1, <2>3, EndRiskGoes, Parts DEF Returning, At, InFlight, Dropped, Control, Program,
       vars
  <2> QED BY <1>0, <2>1, <2>2, <2>3, <2>4, EndRiskGoes, Parts, RegistersOnly DEF InFlight
<1> QED BY <1>1, <1>2, <1>3

LEMMA EnvironmentOfOneSteps ==
  ASSUME GInv, NEW r \in Requests, ClientAborts(r) \/ Crash(r)
  PROVE  Steps(r)
<1>0. g[r].pc \notin {"idle", "ended"} /\ UNCHANGED <<vars, log, called, faults>>
  BY DEF ClientAborts, Crash
<1>1. CASE ClientAborts(r)
  <2> DEFINE x == [g[r] EXCEPT !.aborted = TRUE]
  <2>1. x \in GRow /\ x.pc = g[r].pc /\ Keeps(g[r], x) /\ x.handling = g[r].handling
        /\ x.verdict = g[r].verdict /\ x.then = g[r].then
    BY Parts DEF GRow, Keeps
  <2>2. Set(r, x)
    BY <1>1 DEF ClientAborts
  <2> HIDE DEF x
  <2>3. Program(r) /\ Others(r) /\ g'[r] = x /\ UNCHANGED <<lease, execution, attempt, ended>>
    BY <1>0, <2>1, <2>2, Decided DEF vars
  <2>4. Control(r)'
    BY <2>1, <2>3, Parts DEF Control, At, Keeps
  <2>5. Current(r)' = Current(r)
    BY <2>1, <2>3 DEF Current, Keeps
  <2>6. Returning(r)'
    BY <1>0, <2>1, <2>3, <2>5, Parts DEF Returning, At, Dropped, Keeps
  <2> QED BY <1>0, <2>1, <2>3, <2>4, <2>6, Parts, RegistersOnly DEF Dispatching, At, Keeps
<1>2. CASE Crash(r)
  <2>0. "crashed" \in Labels
    BY DEF Labels
  <2>1. g'[r] \in GRow /\ g' = [g EXCEPT ![r] = g'[r]] /\ Goes(r, "crashed") /\ g'[r].then = g[r].then
    BY <1>2, <2>0, Parts, JumpGoes DEF Crash, Goto, To
  <2>2. Program(r) /\ Others(r) /\ UNCHANGED <<lease, execution, attempt, ended>>
    BY <1>0, <2>1, QuietProgram DEF NoFault, vars
  <2>3. Control(r)'
    BY <1>0, <2>1, Parts DEF Control, At, Handled, Completed, Goes, Keeps
  <2>4. Returning(r)'
    BY <1>0, <2>1, <2>2, Parts DEF Returning, At, InFlight, Dropped, Control, Goes, Keeps
  <2> QED BY <1>0, <2>1, <2>2, <2>3, <2>4, Parts, RegistersOnly DEF InFlight, At, Control, Goes,
     Keeps
<1> QED BY <1>1, <1>2

-----------------------------------------------------------------------------
(* What a command does to the rows of the request that sends it.           *)

SucceededKept(r) == execution[r].status = "succeeded" => execution'[r].status = "succeeded"

OthersOfRequest(r) == \A i \in 0 .. MaxAttempts - 1 : i # g[r].i => attempt'[<<r, i>>] = attempt[<<r, i>>]

(* The current attempt has its outcome now.                                *)
Arbitrates(r) ==
  /\ Others(r) /\ OthersOfRequest(r) /\ SucceededKept(r) /\ UNCHANGED <<lease, ended>>
  /\ attempt'[Current(r)].outcome # "pending"

LEMMA CallProgram ==
  ASSUME GInv, NEW r \in Requests, g'[r] \in GRow, g' = [g EXCEPT ![r] = g'[r]],
         called' = called, log' = log, Fault \/ NoFault, Refines
  PROVE  Program(r) /\ faults \in Nat
<1>1. GTypeOK /\ faults' \in {faults, faults + 1} /\ faults' \in 0 .. MaxFaults
  BY Faulting DEF GInv, GTypeOK, NoFault
<1> QED BY <1>1 DEF Program, GTypeOK

LEMMA LeaseRows ==
  ASSUME GInv, NEW r \in Requests, NEW o \in Owners,
         AcquireLease(r, o) \/ RenewLease(r, o) \/ ReleaseLease(r, o)
  PROVE  /\ Others(r) /\ Refines /\ UNCHANGED <<execution, attempt, ended>>
         /\ ReleaseLease(r, o) => lease'[r].owner = NoOwner
<1>1. lease \in [Requests -> LeaseRow]
  BY DEF GInv, IInv, TypeOK
<1>2. UNCHANGED <<execution, attempt, ended>>
  BY DEF AcquireLease, RenewLease, ReleaseLease
<1>3. \A q \in Requests \ {r} : lease'[q] = lease[q]
  BY <1>1 DEF AcquireLease, RenewLease, ReleaseLease
<1>4. ReleaseLease(r, o) => lease'[r].owner = NoOwner
  BY <1>1 DEF ReleaseLease, NoLease
<1>5. Next
  BY DEF Next, LeaseStep
<1> QED BY <1>2, <1>3, <1>4, <1>5 DEF Others, Refines

LEMMA TouchRows ==
  ASSUME GInv, NEW r \in Requests, Touches(Current(r)), UNCHANGED <<lease, ended>>
  PROVE  Others(r) /\ OthersOfRequest(r) /\ SucceededKept(r)
<1>1. Current(r) = <<r, g[r].i>> /\ Current(r)[1] = r /\ Current(r) \in Attempts
  BY Parts, CurrentAttempt
<1>2. \A q \in Requests, i \in 0 .. MaxAttempts - 1 :
        <<q, i>> # Current(r) => attempt'[<<q, i>>] = attempt[<<q, i>>]
  BY <1>1, AttemptOf DEF Touches
<1>3. \A q \in Requests : /\ q # r => execution'[q] = execution[q]
                          /\ execution[q].status # "running" => execution'[q] = execution[q]
  BY <1>1 DEF Touches
<1>4. Others(r)
  BY <1>1, <1>2, <1>3 DEF Others
<1>5. OthersOfRequest(r)
  BY <1>1, <1>2 DEF OthersOfRequest
<1> QED BY <1>3, <1>4, <1>5 DEF SucceededKept

LEMMA PersistRows ==
  ASSUME GInv, NEW r \in Requests, NEW i \in 0 .. MaxAttempts - 1, NEW o \in Owners, NEW max,
         PersistProviderAttempt(r, i, o, max), InspectNewAdmission(r, i, o)
  PROVE  /\ attempt'[<<r, i>>].outcome = "pending" /\ execution'[r].status = "running"
         /\ execution[r].status \in {"absent", "running"}
         /\ \A q \in Requests, j \in 0 .. MaxAttempts - 1 :
              <<q, j>> # <<r, i>> => attempt'[<<q, j>>] = attempt[<<q, j>>]
         /\ \A q \in Requests : q # r => execution'[q] = execution[q]
<1>1. execution \in [Requests -> ExecutionRow] /\ attempt \in [Attempts -> AttemptRow]
  BY DEF GInv, IInv, TypeOK
<1>2. <<r, i>> \in Attempts /\ \A q \in Requests, j \in 0 .. MaxAttempts - 1 : <<q, j>> \in Attempts
  BY AttemptOf
<1> DEFINE x == [NoAttempt EXCEPT !.outcome = "pending", !.owner = o, !.startedAt = now, !.maximum = max]
           y == IF i = 0 THEN [NoExecution EXCEPT !.status = "running", !.owner = o, !.attemptCount = 1]
                ELSE [execution[r] EXCEPT !.attemptCount = @ + 1]
<1>3. attempt' = [attempt EXCEPT ![<<r, i>>] = x] /\ execution' = [execution EXCEPT ![r] = y]
  BY DEF PersistProviderAttempt
<1>4. execution[r].status = IF i = 0 THEN "absent" ELSE "running"
  BY DEF InspectNewAdmission, ExecutionAdmits
<1>5. x.outcome = "pending" /\ y.status = "running"
  BY <1>1, <1>4 DEF NoAttempt, NoExecution, ExecutionRow
<1> HIDE DEF x, y
<1>6. attempt'[<<r, i>>] = x /\ execution'[r] = y
  BY <1>1, <1>2, <1>3
<1>7. \A q \in Requests, j \in 0 .. MaxAttempts - 1 :
        <<q, j>> # <<r, i>> => attempt'[<<q, j>>] = attempt[<<q, j>>]
  BY <1>1, <1>2, <1>3
<1>8. \A q \in Requests : q # r => execution'[q] = execution[q]
  BY <1>1, <1>3
<1> QED BY <1>4, <1>5, <1>6, <1>7, <1>8

LEMMA AdmissionRows ==
  ASSUME GInv, NEW r \in Requests,
         AdmitCpaBasic(r, g[r].i, OwnerOf[r]) \/ \E max \in Maxima : Admit(r, g[r].i, OwnerOf[r], max)
  PROVE  /\ Others(r) /\ OthersOfRequest(r) /\ Refines /\ UNCHANGED <<lease, ended>>
         /\ attempt'[Current(r)].outcome = "pending" /\ execution'[r].status = "running"
         /\ execution[r].status \in {"absent", "running"}
<1>1. PICK max : /\ PersistProviderAttempt(r, g[r].i, OwnerOf[r], max)
                 /\ InspectNewAdmission(r, g[r].i, OwnerOf[r])
                 /\ UNCHANGED <<lease, ended>>
  BY DEF AdmitCpaBasic, Admit
<1>2. OwnerOf[r] \in Owners /\ g[r].i \in 0 .. MaxAttempts - 1 /\ Current(r) = <<r, g[r].i>>
  BY Parts, CurrentAttempt
<1>3. /\ attempt'[Current(r)].outcome = "pending" /\ execution'[r].status = "running"
      /\ execution[r].status \in {"absent", "running"}
      /\ \A q \in Requests, j \in 0 .. MaxAttempts - 1 :
           <<q, j>> # <<r, g[r].i>> => attempt'[<<q, j>>] = attempt[<<q, j>>]
      /\ \A q \in Requests : q # r => execution'[q] = execution[q]
  BY <1>1, <1>2, PersistRows
<1>4. Next
  BY Parts, Commands
<1> QED BY <1>1, <1>2, <1>3, <1>4 DEF Others, OthersOfRequest, Refines

LEMMA DispatchRows ==
  ASSUME GInv, NEW r \in Requests, NEW o, o = OwnerOf[r]
  PROVE  /\ DispatchGranted(Current(r), o) =>
              /\ Others(r) /\ OthersOfRequest(r) /\ SucceededKept(r) /\ Refines
              /\ UNCHANGED <<lease, ended, execution>>
              /\ attempt'[Current(r)].outcome = "pending" /\ attempt'[Current(r)].costExposure # "not_started"
              /\ attempt[Current(r)].outcome = "pending"
         /\ OwnershipLost(Current(r), o) => Arbitrates(r) /\ Refines
<1>1. Current(r) \in Attempts /\ o \in Owners
  BY Parts, CurrentAttempt
<1>2. attempt \in [Attempts -> AttemptRow]
  BY DEF GInv, IInv, TypeOK
<1>3. ASSUME DispatchGranted(Current(r), o)
      PROVE  /\ Others(r) /\ OthersOfRequest(r) /\ SucceededKept(r) /\ Refines
             /\ UNCHANGED <<lease, ended, execution>>
             /\ attempt'[Current(r)].outcome = "pending" /\ attempt'[Current(r)].costExposure # "not_started"
             /\ attempt[Current(r)].outcome = "pending"
  <2>1. /\ attempt[Current(r)].outcome = "pending" /\ Touches(Current(r))
        /\ attempt' = [attempt EXCEPT ![Current(r)] = [attempt[Current(r)] EXCEPT !.costExposure = "accruing"]]
        /\ UNCHANGED <<lease, ended, execution>>
    BY <1>1, <1>3, Parts, DispatchGrantedEffect
  <2>2. attempt'[Current(r)].outcome = "pending" /\ attempt'[Current(r)].costExposure = "accruing"
    BY <1>1, <1>2, <2>1 DEF AttemptRow
  <2>3. Refines
    BY <1>3, Parts, Commands DEF Refines
  <2> QED BY <2>1, <2>2, <2>3, TouchRows
<1>4. ASSUME OwnershipLost(Current(r), o)
      PROVE  Arbitrates(r) /\ Refines
  <2>1. /\ Touches(Current(r))
        /\ attempt' = [attempt EXCEPT ![Current(r)] =
             [attempt[Current(r)] EXCEPT !.outcome = "failed", !.failureClass = "non_retryable",
                !.costExposure = "accruing",
                !.reconciliationReason = "execution_ownership_lost"]]
        /\ UNCHANGED <<lease, ended>>
    BY <1>1, <1>4, Parts, OwnershipLostEffect
  <2>2. attempt'[Current(r)].outcome = "failed"
    BY <1>1, <1>2, <2>1 DEF AttemptRow
  <2>3. Refines
    BY <1>4, Parts, Commands DEF Refines
  <2> QED BY <2>1, <2>2, <2>3, TouchRows DEF Arbitrates
<1> QED BY <1>3, <1>4

LEMMA SettleRows ==
  ASSUME GInv, NEW r \in Requests, NEW ev \in Evidence, NEW u \in Usages, NEW t \in TerminalOf(ev),
         SettleFinalUsage(Current(r), ev, u, t) \/ ReleaseNotStarted(Current(r), ev, t)
  PROVE  /\ Arbitrates(r) /\ Refines
         /\ t.status = "succeeded" /\ execution[r].status = "running" /\ attempt[Current(r)].outcome = "pending"
              => execution'[r].status = "succeeded"
<1> DEFINE a == Current(r)
<1>1. a \in Attempts /\ a[1] = r /\ IInv /\ ZeroUsage \in Usages
  BY Parts, CurrentAttempt, ConstantsAssumption
<1>2. /\ ev \in EvidenceRow
      /\ t = NoTerminal \/ (t.status \in TerminalStatus /\ t.code \in Codes)
  BY CommandFacts
<1>3. PICK v \in Usages, zeroOutcome \in {"settled", "released"} : settle(a, ev, v, zeroOutcome, t, FALSE)
  BY <1>1 DEF SettleFinalUsage, ReleaseNotStarted
<1> HIDE DEF a
<1>4. \/ UNCHANGED vars
      \/ SettleChanges(a, ev, v, zeroOutcome)
  BY <1>1, <1>2, <1>3, SettleEffect
<1>5. IInv'
  BY <1>1, <1>2, <1>3, SettlePreserves
<1>6. attempt'[a].usageSettled
  <2>1. attempt[a].usageSettled => attempt' = attempt
    BY <1>3 DEF settle, Complete
  <2>2. ASSUME ~attempt[a].usageSettled
        PROVE  attempt' = [attempt EXCEPT ![a] = [WithEvidence(attempt[a], Expected(a, ev)) EXCEPT
                 !.costExposure = "stopped", !.usageSettled = TRUE, !.reconciliationReason = Null]]
    BY <1>1, <1>3, <2>2 DEF settle, Complete, IInv, TypeOK
  <2>3. attempt \in [Attempts -> AttemptRow] /\ WithEvidence(attempt[a], Expected(a, ev)) \in AttemptRow
    BY <1>1, <1>2, ExpectedType, WithEvidenceType DEF IInv, TypeOK
  <2>4. ASSUME NEW x \in AttemptRow
        PROVE  [x EXCEPT !.costExposure = "stopped", !.usageSettled = TRUE,
                         !.reconciliationReason = Null].usageSettled
    BY DEF AttemptRow
  <2>5. ~attempt[a].usageSettled => attempt'[a].usageSettled
    BY <1>1, <2>2, <2>3, <2>4
  <2> QED BY <2>1, <2>5
<1>7. attempt'[a].outcome # "pending"
  BY <1>1, <1>5, <1>6 DEF IInv, AttemptRowsCoherent, RowCoherent
<1>8. Touches(a) /\ UNCHANGED <<lease, ended>>
  BY <1>4 DEF SettleChanges, Touches, vars
<1>9. Arbitrates(r)
  BY <1>7, <1>8, TouchRows DEF Arbitrates, a
<1>10. Refines
  BY Parts, Commands DEF Refines
<1>11. ASSUME t.status = "succeeded", execution[r].status = "running", attempt[a].outcome = "pending"
       PROVE  execution'[r].status = "succeeded"
  <2>1. ~attempt[a].usageSettled /\ t # NoTerminal
    BY <1>1, <1>11 DEF IInv, AttemptRowsCoherent, RowCoherent, NoTerminal, Null
  <2>2. execution' = Arbitrated(a[1], t.status, t.code, ev.outputCommitted)
    BY <1>3, <2>1 DEF settle, Complete
  <2> QED BY <1>1, <1>11, <2>2, ArbitratedFacts DEF IInv, TerminalStatus
<1> QED BY <1>9, <1>10, <1>11 DEF a

LEMMA ReconcileRows ==
  ASSUME GInv, NEW r \in Requests, NEW ev \in Evidence, NEW exposure \in {"accruing", "stopped"}
  PROVE  /\ EnterReconciliation(Current(r), ev, exposure, "provider_final_usage_pending") =>
              /\ Arbitrates(r) /\ Refines
              /\ ev.outcome = "succeeded" /\ execution[r].status = "running" => execution'[r].status = "succeeded"
         /\ TransitionFailedCpaBasicSettlement(Current(r), ev) => Arbitrates(r) /\ Refines
<1> DEFINE a == Current(r)
<1>1. a \in Attempts /\ a[1] = r /\ IInv
  BY Parts, CurrentAttempt
<1>2. ev \in EvidenceRow /\ [ev EXCEPT !.failureReason = Null] \in EvidenceRow
  BY CommandFacts
<1> HIDE DEF a
<1>3. ASSUME NEW e \in EvidenceRow, NEW x \in {"accruing", "stopped"}, NEW reason \in Reasons,
             EnterReconciliation(a, e, x, reason)
      PROVE  Arbitrates(r)
  <2>1. ReconciliationChanges(a, e, x, reason)
    BY <1>1, <1>3, EnterReconciliationEffect
  <2>2. attempt'[a].outcome = e.outcome
    BY <1>1, <2>1 DEF ReconciliationChanges, WithEvidence, Expected, IInv, TypeOK, AttemptRow
  <2>3. e.outcome # "pending"
    BY DEF EvidenceRow, TerminalStatus
  <2>4. Touches(a) /\ UNCHANGED <<lease, ended>>
    BY <2>1 DEF ReconciliationChanges
  <2> QED BY <2>2, <2>3, <2>4, TouchRows DEF Arbitrates, a
<1>4. ASSUME EnterReconciliation(a, ev, exposure, "provider_final_usage_pending")
      PROVE  /\ Arbitrates(r) /\ Refines
             /\ ev.outcome = "succeeded" /\ execution[r].status = "running" => execution'[r].status = "succeeded"
  <2>1. Arbitrates(r)
    BY <1>2, <1>3, <1>4 DEF Reasons
  <2>2. Refines
    BY <1>4, Parts, Commands DEF Refines, a
  <2>3. ASSUME ev.outcome = "succeeded", execution[r].status = "running"
        PROVE  execution'[r].status = "succeeded"
    <3>1. PICK code : execution' = Arbitrated(r, "succeeded", code, ev.outputCommitted)
      BY <1>1, <1>4, <2>3 DEF EnterReconciliation
    <3> QED BY <1>1, <2>3, <3>1, ArbitratedFacts DEF IInv, TerminalStatus
  <2> QED BY <2>1, <2>2, <2>3
<1>5. ASSUME TransitionFailedCpaBasicSettlement(a, ev)
      PROVE  Arbitrates(r) /\ Refines
  <2>1. Arbitrates(r)
    BY <1>2, <1>3, <1>5 DEF TransitionFailedCpaBasicSettlement, Reasons
  <2>2. Refines
    BY <1>5, Parts, Commands DEF Refines, a
  <2> QED BY <2>1, <2>2
<1> QED BY <1>4, <1>5 DEF a

(* The service refuses to close an attempt only if it is closed already.   *)
LEMMA MayArbitrate ==
  ASSUME GInv, NEW r \in Requests, NEW ev \in Evidence, NEW exposure \in {"accruing", "stopped"},
         attempt[Current(r)].outcome = "pending", execution[r].status = "running"
  PROVE  /\ \A u \in Usages : \A t : CanSettle(Current(r), ev, u, t)
         /\ CanReconcile(Current(r), ev, exposure) /\ ~SameReconciliation(Current(r), ev, exposure)
<1> DEFINE a == Current(r)
<1>1. a \in Attempts /\ a[1] = r
  BY Parts, CurrentAttempt
<1>2. /\ OneUnsettledAttempt /\ RowCoherent(a) /\ OccupationMatches(a)
      /\ fact \in [Attempts -> Usages \cup {NoUsage}]
  BY <1>1 DEF GInv, IInv, AttemptRowsCoherent, OccupationMatchesAttempt, TypeOK
<1>3. /\ attempt[a].outcome = "pending" /\ Present(a) /\ ~attempt[a].usageSettled /\ attempt[a].failureReason = Null
      /\ attempt[a].costExposure # "stopped"
  BY <1>2 DEF RowCoherent, Present
<1> HIDE DEF a
<1>4. attempt[a].owner = execution[r].owner
  BY <1>1, <1>2, <1>3 DEF OneUnsettledAttempt
<1>5. EvidenceAgrees(a, ev)
  BY <1>3, EvidenceAssumption DEF EvidenceAgrees, Expected
<1>6. fact[a] = NoUsage
  BY <1>1, <1>2, <1>3 DEF OccupationMatches
<1>7. \A status, code, output : ArbiterAccepts(r, attempt[a].owner, status, code, output)
  BY <1>4 DEF ArbiterAccepts
<1>8. \A u \in Usages : \A t : CanSettle(a, ev, u, t)
  BY <1>1, <1>3, <1>5, <1>6, <1>7 DEF CanSettle, FinalizeLock
<1>9. CanReconcile(a, ev, exposure)
  BY <1>1, <1>3, <1>5, <1>7 DEF CanReconcile, ExposureMayBecome
<1>10. ~SameReconciliation(a, ev, exposure)
  BY <1>3 DEF SameReconciliation
<1> QED BY <1>8, <1>9, <1>10 DEF a

-----------------------------------------------------------------------------
(* The steps that send a command.                                          *)

LEMMA AcquireSteps == ASSUME GInv, NEW r \in Requests, Acquire(r) PROVE Steps(r)
<1> DEFINE effect == AcquireLease(r, OwnerOf[r])
<1>0. "ended" \in Labels /\ At(r, "acquire") /\ g[r].then \in Labels /\ OwnerOf[r] \in Owners
  BY Parts, CurrentAttempt DEF Labels, Acquire, GRow
<1>1. /\ \/ effect /\ NoFault /\ Set(r, To(r, g[r].then))
         \/ Fault /\ Set(r, To(r, "ended")) /\ (effect \/ UNCHANGED vars)
      /\ UNCHANGED <<log, called>>
  BY DEF Acquire, Call
<1>2. effect \/ UNCHANGED vars => Others(r) /\ Refines /\ UNCHANGED <<execution, attempt, ended>>
  BY <1>0, LeaseRows DEF Others, Refines, vars
<1> HIDE DEF effect
<1>3. /\ g'[r] \in GRow /\ g' = [g EXCEPT ![r] = g'[r]]
      /\ \/ NoFault /\ Goes(r, g[r].then)
         \/ Fault /\ Goes(r, "ended")
      /\ g'[r].then = g[r].then
  BY <1>0, <1>1, Parts, JumpGoes
<1>4. Program(r) /\ Others(r) /\ faults \in Nat /\ UNCHANGED <<execution, attempt, ended>>
  BY <1>1, <1>2, <1>3, CallProgram
<1>5. Control(r)'
  BY <1>0, <1>3, Parts DEF Control, At, Goes, Keeps, Handled, Completed
<1>6. Returning(r)'
  BY <1>0, <1>3, <1>4, Parts DEF Returning, At, Goes, Keeps, InFlight, Fault, NoFault, Dropped,
     Control
<1> QED BY <1>0, <1>1, <1>3, <1>4, <1>5, <1>6, Parts, RowsUntouched DEF InFlight, At, Control,
   Goes, Keeps

LEMMA StreamRenewsSteps == ASSUME GInv, NEW r \in Requests, StreamRenews(r) PROVE Steps(r)
<1>1. At(r, "stream") /\ UNCHANGED gatewayVars /\ RenewLease(r, OwnerOf[r]) /\ OwnerOf[r] \in Owners
  BY Parts, CurrentAttempt DEF StreamRenews
<1>2. Others(r) /\ Refines /\ UNCHANGED <<execution, attempt, ended>>
  BY <1>1, LeaseRows
<1>3. g' = g /\ log' = log /\ called' = called /\ faults' = faults
  BY <1>1 DEF gatewayVars
<1>4. g'[r] \in GRow /\ g' = [g EXCEPT ![r] = g'[r]]
  BY <1>3, Parts, GatewayTypes
<1>5. Program(r)
  BY <1>2, <1>3, <1>4, CallProgram DEF NoFault
<1>6. Control(r)'
  BY <1>3, Parts DEF Control, At
<1>7. Returning(r)'
  BY <1>1, <1>2, <1>3, Parts DEF Returning, At, Current, Dropped
<1> QED BY <1>1, <1>2, <1>3, <1>5, <1>6, <1>7, Parts, RowsUntouched DEF InFlight, At, Control,
   Dispatching

LEMMA AdmitAttemptSteps == ASSUME GInv, NEW r \in Requests, AdmitAttempt(r) PROVE Steps(r)
<1> DEFINE admission == \/ AdmitCpaBasic(r, g[r].i, OwnerOf[r])
                        \/ \E max \in Maxima : Admit(r, g[r].i, OwnerOf[r], max)
           l == IF Protected(Current(r)) THEN IF g[r].i = 0 THEN "resolve" ELSE "risk" ELSE "refresh"
<1>0. l \in Labels /\ l \in {"resolve", "risk", "refresh"} /\ At(r, "admit") /\ ~g[r].handling /\ ~g[r].stream
      /\ g[r].verdict # "completed"
  BY Parts DEF Labels, AdmitAttempt, Control, At, Handled, Completed
<1>1. /\ \/ admission /\ NoFault /\ Set(r, To(r, l))
         \/ Fault /\ Set(r, Thrown(r)) /\ (admission \/ UNCHANGED vars)
         \/ Set(r, Thrown(r)) /\ UNCHANGED <<vars, faults>>
      /\ UNCHANGED <<log, called>>
  BY DEF AdmitAttempt, Call
<1>2. admission => /\ Others(r) /\ OthersOfRequest(r) /\ Refines /\ UNCHANGED <<lease, ended>>
                   /\ attempt'[Current(r)].outcome = "pending" /\ execution'[r].status = "running"
                   /\ execution[r].status \in {"absent", "running"}
  BY AdmissionRows
<1>3. UNCHANGED vars => Others(r) /\ Refines /\ UNCHANGED <<lease, ended, execution, attempt>>
  BY DEF Others, Refines, vars
<1> HIDE DEF admission, l
<1>4. CASE Set(r, Thrown(r))
  <2>1. /\ g'[r] \in GRow /\ g' = [g EXCEPT ![r] = g'[r]] /\ Raises(r) /\ g'[r].pc = "closeRisk"
        /\ g'[r].verdict = "failed"
    BY <1>0, <1>4, Parts, ThrowRaises DEF Raises
  <2>2. /\ g'[r].pc = "closeRisk" /\ g'[r].verdict = "failed" /\ g'[r].stream = g[r].stream
        /\ g'[r].finished = g[r].finished /\ g'[r].handling
    BY <2>1 DEF Raises, Keeps
  <2>3. Fault \/ NoFault
    BY <1>0, <1>1, <2>2, Parts, JumpGoes DEF NoFault, Goes
  <2>4. \/ admission /\ faults' # 0
        \/ UNCHANGED vars
    <3>1. CASE NoFault /\ Set(r, To(r, l))
      BY <1>0, <3>1, <2>2, Parts, JumpGoes DEF Goes
    <3> QED BY <1>1, <3>1, Parts DEF Fault
  <2>5. Program(r) /\ Others(r) /\ log' = log
    BY <1>1, <1>2, <1>3, <2>1, <2>3, <2>4, CallProgram
  <2>6. Control(r)'
    BY <1>0, <2>2 DEF Control, At, Handled
  <2>7. Dispatching(r)'
    BY <2>2 DEF Dispatching, At, InFlight
  <2>8. Completing(r)'
    BY <1>2, <1>3, <2>2, <2>4, <2>5, Parts DEF Completing
  <2>9. Returning(r)'
    <3>1. faults' = 0 => faults = 0 /\ UNCHANGED <<lease, ended, execution, attempt>>
      BY <1>3, <2>4, <2>5, Parts DEF Program
    <3> QED BY <1>0, <2>2, <3>1, Parts DEF Returning, At, InFlight, Dropped
  <2> QED BY <2>5, <2>6, <2>7, <2>8, <2>9 DEF Steps, Invocation
<1>5. CASE admission /\ NoFault /\ Set(r, To(r, l))
  <2>1. g'[r] \in GRow /\ g' = [g EXCEPT ![r] = g'[r]] /\ Goes(r, l)
    BY <1>0, <1>5, Parts, JumpGoes
  <2>2. Program(r) /\ Others(r) /\ log' = log
    BY <1>1, <1>2, <1>5, <2>1, CallProgram
  <2>3. Control(r)'
    BY <1>0, <2>1, Parts DEF Control, At, Handled, Completed, Goes, Keeps
  <2>4. Dispatching(r)'
    BY <1>0, <1>2, <1>5, <2>1 DEF Dispatching, At, Goes
  <2>5. Completing(r)'
    BY <1>0, <1>2, <1>5, <2>1, <2>2, Parts DEF Completing, Goes
  <2>6. Returning(r)'
    <3>1. \A i \in 0 .. MaxAttempts - 1 : i # g[r].i => attempt'[<<r, i>>] = attempt[<<r, i>>]
      BY <1>2, <1>5 DEF OthersOfRequest
    <3> QED BY <1>0, <1>2, <1>5, <2>1, <3>1, Parts DEF Returning, At, InFlight, Dropped, Goes,
       Keeps, NoFault
  <2> QED BY <2>2, <2>3, <2>4, <2>5, <2>6 DEF Steps, Invocation
<1> QED BY <1>1, <1>4, <1>5

LEMMA LostGoes ==
  ASSUME GInv, NEW r \in Requests, Throws(r, Unknown("non_retryable"))
  PROVE  /\ g'[r] \in GRow /\ g' = [g EXCEPT ![r] = g'[r]] /\ Goes(r, "finalize")
         /\ g'[r].then \in {"closeRisk", "finish", "chosen"} \/ (g'[r].then = "admit" /\ g[r].i < MaxAttempts - 1)
<1>1. Unknown("non_retryable") \in Failures
  BY KnownFailures
<1> QED BY <1>1, Parts, OutcomeType, FailedGoes DEF Throws

LEMMA RenewSteps == ASSUME GInv, NEW r \in Requests, Renew(r) PROVE Steps(r)
<1> DEFINE effect == RenewLease(r, OwnerOf[r])
           lost == Throws(r, Unknown("non_retryable"))
<1>0. "own" \in Labels /\ At(r, "renew") /\ OwnerOf[r] \in Owners
  BY Parts, CurrentAttempt DEF Labels, Renew
<1>1. /\ \/ effect /\ NoFault /\ Set(r, To(r, "own"))
         \/ Fault /\ lost /\ (effect \/ UNCHANGED vars)
         \/ lost /\ UNCHANGED <<vars, faults>>
      /\ UNCHANGED <<log, called>>
  BY DEF Renew, Goto, To
<1>2. effect \/ UNCHANGED vars => Others(r) /\ Refines /\ UNCHANGED <<execution, attempt, ended>>
  BY <1>0, LeaseRows DEF Others, Refines, vars
<1> HIDE DEF effect
<1>3. CASE lost /\ (Fault \/ NoFault) /\ (effect \/ UNCHANGED vars)
  <2>1. /\ g'[r] \in GRow /\ g' = [g EXCEPT ![r] = g'[r]] /\ Goes(r, "finalize")
        /\ g'[r].then \in {"closeRisk", "finish", "chosen"} \/ (g'[r].then = "admit" /\ g[r].i < MaxAttempts - 1)
    BY <1>3, LostGoes
  <2>2. Program(r) /\ Others(r) /\ UNCHANGED <<execution, attempt, ended, log>>
    BY <1>1, <1>2, <1>3, <2>1, CallProgram
  <2>3. Invocation(r)'
    BY <1>0, <2>1, <2>2, FinalizeNext DEF InFlight, At, Program
  <2> QED BY <2>2, <2>3 DEF Steps
<1>4. CASE effect /\ NoFault /\ Set(r, To(r, "own"))
  <2>1. g'[r] \in GRow /\ g' = [g EXCEPT ![r] = g'[r]] /\ Goes(r, "own")
    BY <1>0, <1>4, Parts, JumpGoes
  <2>2. Program(r) /\ Others(r) /\ UNCHANGED <<execution, attempt, ended, log>>
    BY <1>1, <1>2, <1>4, <2>1, CallProgram
  <2>3. Control(r)'
    BY <1>0, <2>1, Parts DEF Control, At, Handled, Completed, Goes, Keeps
  <2>4. Returning(r)'
    BY <1>0, <1>4, <2>1, <2>2, Parts DEF Returning, At, InFlight, Dropped, Control, Goes, Keeps,
       NoFault
  <2> QED BY <1>0, <2>1, <2>2, <2>3, <2>4, Parts, RowsUntouched DEF InFlight, At, Control,
     Dispatching, Goes, Keeps
<1> QED BY <1>1, <1>3, <1>4 DEF NoFault

LEMMA AssertOwnershipSteps == ASSUME GInv, NEW r \in Requests, AssertOwnership(r) PROVE Steps(r)
<1> DEFINE granted == DispatchGranted(Current(r), OwnerOf[r])
           refused == OwnershipLost(Current(r), OwnerOf[r])
           lost == Throws(r, Unknown("non_retryable"))
<1>0. "fresh" \in Labels /\ At(r, "own")
  BY DEF Labels, AssertOwnership
<1>1. /\ \/ granted /\ NoFault /\ Set(r, To(r, "fresh"))
         \/ lost /\ Fault /\ (granted \/ refused \/ UNCHANGED vars)
         \/ lost /\ NoFault /\ (refused \/ UNCHANGED vars)
      /\ UNCHANGED <<log, called>>
  BY DEF AssertOwnership, Goto, To, NoFault
<1>2. /\ granted => /\ Others(r) /\ OthersOfRequest(r) /\ SucceededKept(r) /\ Refines
                    /\ UNCHANGED <<lease, ended, execution>>
                    /\ attempt'[Current(r)].outcome = "pending"
                    /\ attempt'[Current(r)].costExposure # "not_started"
                    /\ attempt[Current(r)].outcome = "pending"
      /\ refused => Arbitrates(r) /\ Refines
  BY DispatchRows
<1>3. UNCHANGED vars => /\ Others(r) /\ OthersOfRequest(r) /\ SucceededKept(r) /\ Refines
                        /\ UNCHANGED <<lease, ended, execution, attempt>>
  BY DEF Others, OthersOfRequest, SucceededKept, Refines, vars
<1> HIDE DEF granted, refused
<1>4. CASE lost /\ (Fault \/ NoFault) /\ (granted \/ refused \/ UNCHANGED vars)
  <2>1. /\ g'[r] \in GRow /\ g' = [g EXCEPT ![r] = g'[r]] /\ Goes(r, "finalize")
        /\ g'[r].then \in {"closeRisk", "finish", "chosen"} \/ (g'[r].then = "admit" /\ g[r].i < MaxAttempts - 1)
    BY <1>4, LostGoes
  <2>2. Program(r) /\ Others(r) /\ UNCHANGED <<ended, log>> /\ OthersOfRequest(r) /\ SucceededKept(r)
    BY <1>1, <1>2, <1>3, <1>4, <2>1, CallProgram DEF Arbitrates
  <2>3. \A i \in 0 .. MaxAttempts - 1 : attempt'[<<r, i>>].outcome = "pending" =>
            attempt[<<r, i>>].outcome = "pending" /\ (i = g[r].i => execution'[r] = execution[r])
    <3>1. ASSUME NEW i \in 0 .. MaxAttempts - 1, i # g[r].i PROVE attempt'[<<r, i>>] = attempt[<<r, i>>]
      BY <2>2, <3>1 DEF OthersOfRequest
    <3>2. attempt'[<<r, g[r].i>>].outcome = "pending" =>
            attempt[<<r, g[r].i>>].outcome = "pending" /\ execution'[r] = execution[r]
      BY <1>2, <1>3, <1>4, Parts DEF Arbitrates
    <3> QED BY <3>1, <3>2
  <2>4. Invocation(r)'
    BY <1>0, <2>1, <2>2, <2>3, FinalizeNext DEF InFlight, At, Program, SucceededKept
  <2> QED BY <2>2, <2>4 DEF Steps
<1>5. CASE granted /\ NoFault /\ Set(r, To(r, "fresh"))
  <2>1. g'[r] \in GRow /\ g' = [g EXCEPT ![r] = g'[r]] /\ Goes(r, "fresh")
    BY <1>0, <1>5, Parts, JumpGoes
  <2>2. Program(r) /\ Others(r) /\ UNCHANGED <<lease, execution, ended, log>>
    BY <1>1, <1>2, <1>5, <2>1, CallProgram
  <2>3. Control(r)'
    BY <1>0, <2>1, Parts DEF Control, At, Handled, Completed, Goes, Keeps
  <2>4. Current(r)' = Current(r) /\ execution[r].status = "running"
    BY <1>0, <1>2, <1>5, <2>1, Parts DEF Current, Goes, Keeps, Dispatching, InFlight, At
  <2>5. Dispatching(r)'
    BY <1>0, <1>2, <1>5, <2>1, <2>2, <2>4 DEF Dispatching, At, Goes
  <2>6. Completing(r)'
    BY <2>1, <2>2, Parts DEF Completing, Goes
  <2>7. Returning(r)'
    <3>1. \A i \in 0 .. MaxAttempts - 1 : i # g[r].i => attempt'[<<r, i>>] = attempt[<<r, i>>]
      BY <1>2, <1>5 DEF OthersOfRequest
    <3> QED
      BY <1>0, <1>2, <1>5, <2>1, <2>2, <3>1, Parts
         DEF Returning, At, InFlight, Dropped, Control, Goes, Keeps, NoFault
  <2> QED BY <2>2, <2>3, <2>5, <2>6, <2>7 DEF Steps, Invocation
<1> QED BY <1>1, <1>4, <1>5

LEMMA FailRows ==
  ASSUME GInv, NEW r \in Requests, \E code \in ErrorCodes : FailRequestExecution(r, OwnerOf[r], code)
  PROVE  /\ Others(r) /\ Refines /\ UNCHANGED <<lease, ended, attempt>>
         /\ execution[r].status = "running"
<1>1. PICK code \in ErrorCodes : FailRequestExecution(r, OwnerOf[r], code)
  OBVIOUS
<1>2. /\ execution[r].status = "running" /\ UNCHANGED <<lease, ended, attempt>>
      /\ execution' = Arbitrated(r, "failed", code, FALSE)
  BY <1>1 DEF FailRequestExecution
<1>3. \A q \in Requests : q # r => execution'[q] = execution[q]
  BY <1>2, ArbitratedFacts DEF GInv, IInv, TerminalStatus
<1>4. Refines
  BY <1>1, Parts, Commands DEF Refines
<1> QED BY <1>2, <1>3, <1>4 DEF Others

LEMMA FailExecutionSteps == ASSUME GInv, NEW r \in Requests, FailExecution(r) PROVE Steps(r)
<1> DEFINE fail == \E code \in ErrorCodes : FailRequestExecution(r, OwnerOf[r], code)
<1>0. "finish" \in Labels /\ At(r, "failExecution") /\ UNCHANGED <<log, called>> /\ Set(r, To(r, "finish"))
      /\ (Fault \/ NoFault) /\ (fail \/ UNCHANGED vars)
  BY DEF Labels, FailExecution, Goto, To
<1>1. g'[r] \in GRow /\ g' = [g EXCEPT ![r] = g'[r]] /\ Goes(r, "finish")
  BY <1>0, Parts, JumpGoes
<1>2. /\ Others(r) /\ Refines /\ UNCHANGED <<lease, ended, attempt>>
      /\ execution'[r] = execution[r] \/ execution[r].status = "running"
  BY <1>0, FailRows DEF Others, Refines, vars
<1>3. Program(r) /\ faults \in Nat
  BY <1>0, <1>1, <1>2, CallProgram
<1>4. Control(r)'
  BY <1>0, <1>1, Parts DEF Control, At, Handled, Completed, Goes, Keeps
<1>5. Dispatching(r)'
  BY <1>1 DEF Dispatching, At, InFlight, Goes
<1>6. Completing(r)'
  BY <1>0, <1>1, <1>2, Parts DEF Completing, Goes
<1>7. Returning(r)'
  BY <1>0, <1>1, <1>2, <1>3, Parts DEF Returning, At, InFlight, Dropped, Control, Goes, Keeps,
     NoFault, Fault
<1> QED BY <1>2, <1>3, <1>4, <1>5, <1>6, <1>7 DEF Steps, Invocation

LEMMA FinishRows ==
  ASSUME GInv, NEW r \in Requests, FinishRequestLog(r)
  PROVE  Others(r) /\ Refines /\ UNCHANGED <<lease, execution, attempt>> /\ ended'[r]
<1>1. UNCHANGED <<lease, execution, attempt>> /\ ended' = [ended EXCEPT ![r] = TRUE]
  BY DEF FinishRequestLog
<1>2. ended'[r] /\ \A q \in Requests \ {r} : ended'[q] = ended[q]
  BY <1>1 DEF GInv, IInv, TypeOK
<1>3. Refines
  BY Parts, Commands DEF Refines
<1> QED BY <1>1, <1>2, <1>3 DEF Others

LEMMA FinishSteps == ASSUME GInv, NEW r \in Requests, Finish(r) PROVE Steps(r)
<1> DEFINE x == [g[r] EXCEPT !.pc = "release", !.finished = TRUE]
           w == Thrown(r)
           y == [w EXCEPT !.finished = TRUE]
           effect == FinishRequestLog(r) /\ log' = [log EXCEPT ![r] = g[r].verdict]
<1>0. {"release", "ended"} \subseteq Labels /\ At(r, "finish") /\ called' = called
  BY DEF Labels, Finish
<1>1. \/ g[r].finished /\ Set(r, To(r, "ended")) /\ UNCHANGED <<vars, log, faults>>
      \/ effect /\ NoFault /\ Set(r, x)
      \/ Fault /\ Set(r, y) /\ (effect \/ UNCHANGED <<vars, log>>)
  BY DEF Finish, Goto, To
<1>2. x \in GRow /\ x.pc = "release" /\ x.i = g[r].i /\ x.finished /\ x.risk = g[r].risk
      /\ x.read = g[r].read /\ x.handling = g[r].handling /\ x.verdict = g[r].verdict /\ x.stream = g[r].stream
  BY <1>0, Parts DEF GRow
<1>3. /\ y \in GRow /\ y.i = g[r].i /\ y.finished /\ y.handling /\ y.stream = g[r].stream
      /\ y.pc = IF g[r].handling THEN "ended" ELSE IF g[r].stream THEN "finalize" ELSE "closeRisk"
      /\ y.verdict = "failed" /\ (y.pc = "finalize" => y.then = "closeRisk")
  <2>1. /\ w \in GRow /\ Keeps(g[r], w) /\ w.handling
        /\ w.pc = IF g[r].handling THEN "ended" ELSE IF g[r].stream THEN "finalize" ELSE "closeRisk"
        /\ w.verdict = IF g[r].handling THEN g[r].verdict ELSE "failed"
        /\ (w.pc = "finalize" => w.then = "closeRisk")
    BY Parts, ThrownRow
  <2>2. g[r].handling => g[r].verdict = "failed"
    BY Parts DEF Control, GRow
  <2> HIDE DEF w
  <2> QED BY <2>1, <2>2 DEF GRow, Keeps
<1>4. effect => /\ Others(r) /\ Refines /\ UNCHANGED <<lease, execution, attempt>> /\ ended'[r]
                /\ log'[r] = g[r].verdict /\ \A q \in Requests \ {r} : log'[q] = log[q]
                /\ log' \in [Requests -> {"none", "started", "failed", "completed"}]
  BY FinishRows, Parts DEF GTypeOK, GRow
<1>5. UNCHANGED vars => Others(r) /\ Refines /\ UNCHANGED <<lease, execution, attempt, ended>>
  BY DEF Others, Refines, vars
<1> HIDE DEF x, y, w, effect
<1>6. /\ g'[r] \in GRow /\ g' = [g EXCEPT ![r] = g'[r]] /\ g'[r].i = g[r].i
      /\ faults' \in {faults, faults + 1} /\ faults' \in 0 .. MaxFaults
  <2>1. Fault \/ NoFault
    BY <1>1 DEF NoFault
  <2>2. faults' \in {faults, faults + 1} /\ faults' \in 0 .. MaxFaults
    BY <2>1, Parts, Faulting DEF GTypeOK, NoFault
  <2> QED BY <1>0, <1>1, <1>2, <1>3, <2>2, Parts, SetRow, JumpGoes DEF Goes, Keeps
<1>7. /\ Others(r) /\ Refines /\ UNCHANGED <<lease, execution, attempt>>
      /\ log' \in [Requests -> {"none", "started", "failed", "completed"}]
      /\ \A q \in Requests \ {r} : log'[q] = log[q]
      /\ log'[r] \in {log[r], g[r].verdict}
  BY <1>1, <1>4, <1>5, Parts DEF GTypeOK
<1>8. Program(r)
  BY <1>0, <1>6, <1>7 DEF Program
<1>9. \/ /\ g[r].finished /\ Goes(r, "ended") /\ faults' = faults
      \/ /\ g'[r] = x /\ faults' = faults /\ ended'[r]
      \/ /\ g'[r] = y /\ faults' # 0
  BY <1>0, <1>1, <1>2, <1>3, <1>4, Parts, SetRow, JumpGoes DEF NoFault, Fault
<1>10. Control(r)'
  BY <1>0, <1>2, <1>3, <1>9, Parts DEF Control, At, Handled, Completed, Goes, Keeps
<1>11. Dispatching(r)'
  BY <1>2, <1>3, <1>9 DEF Dispatching, At, InFlight, Goes
<1>12. Completing(r)'
  BY <1>2, <1>3, <1>7, <1>9, Parts DEF Completing, Goes
<1>13. Returning(r)'
  BY <1>0, <1>2, <1>7, <1>9, Parts DEF Returning, At, InFlight, Dropped, Control, Goes, Keeps
<1> QED BY <1>7, <1>8, <1>10, <1>11, <1>12, <1>13 DEF Steps, Invocation

LEMMA ReleaseSteps == ASSUME GInv, NEW r \in Requests, Release(r) PROVE Steps(r)
<1> DEFINE l == IF g[r].risk = "held" /\ ~g[r].handling /\ g[r].verdict = "failed" THEN "lateClose" ELSE "ended"
           mine == lease[r].owner = OwnerOf[r]
           effect == ReleaseLease(r, OwnerOf[r])
<1>0. l \in Labels /\ At(r, "release") /\ UNCHANGED <<log, called>> /\ Set(r, To(r, l))
      /\ OwnerOf[r] \in Owners /\ NoOwner \notin Owners
  BY Parts, CurrentAttempt, ConstantsAssumption DEF Labels, Release
<1>1. \/ effect /\ NoFault
      \/ ~mine /\ NoFault /\ UNCHANGED vars
      \/ Fault /\ UNCHANGED vars
  BY DEF Release
<1>2. g'[r] \in GRow /\ g' = [g EXCEPT ![r] = g'[r]] /\ Goes(r, l)
  BY <1>0, Parts, JumpGoes
<1>3. /\ Others(r) /\ Refines /\ UNCHANGED <<execution, attempt, ended>>
      /\ effect => lease'[r].owner = NoOwner
      /\ UNCHANGED vars => lease' = lease
  BY <1>0, <1>1, LeaseRows DEF Others, Refines, vars
<1>4. Program(r) /\ faults \in Nat
  BY <1>0, <1>1, <1>2, <1>3, CallProgram
<1>5. faults' = 0 => lease'[r].owner # OwnerOf[r] /\ faults = 0
  BY <1>0, <1>1, <1>3, <1>4 DEF Fault, NoFault
<1>6. Control(r)'
  BY <1>0, <1>2, Parts DEF Control, At, Handled, Completed, Goes, Keeps
<1>7. Returning(r)'
  BY <1>0, <1>2, <1>3, <1>5, Parts DEF Returning, At, InFlight, Dropped, Goes, Keeps
<1> QED BY <1>0, <1>2, <1>3, <1>4, <1>6, <1>7, Parts, RowsUntouched DEF Goes, Keeps, InFlight

-----------------------------------------------------------------------------
(* The calls that close an attempt, and what they answer.                  *)

Answered(r) ==
  /\ Others(r) /\ OthersOfRequest(r) /\ SucceededKept(r) /\ Refines /\ UNCHANGED <<lease, ended>>
  /\ attempt'[Current(r)].outcome # "pending" \/ UNCHANGED vars

(* A call works, throws by a fault, or is refused.                         *)
Closes(r, ok, thrown, succeeds) ==
  /\ Answered(r)
  /\ \/ /\ Set(r, ok) /\ NoFault /\ attempt'[Current(r)].outcome # "pending"
        /\ succeeds /\ execution[r].status = "running" /\ attempt[Current(r)].outcome = "pending"
             => execution'[r].status = "succeeded"
     \/ Set(r, thrown) /\ Fault
     \/ Set(r, thrown) /\ NoFault /\ ~(execution[r].status = "running" /\ attempt[Current(r)].outcome = "pending")

LEMMA AnsweredBy ==
  ASSUME NEW r, Refines, Arbitrates(r) \/ UNCHANGED vars
  PROVE  Answered(r)
BY DEF Answered, Arbitrates, Others, OthersOfRequest, SucceededKept, vars

LEMMA SettleCall ==
  ASSUME GInv, NEW r \in Requests, NEW ev \in Evidence, NEW u \in Usages, NEW t \in TerminalOf(ev),
         NEW ok, NEW thrown, Settle(r, ev, u, t, ok, thrown)
  PROVE  Closes(r, ok, thrown, t.status = "succeeded")
<1> DEFINE effect == SettleFinalUsage(Current(r), ev, u, t)
           recover == TransitionFailedCpaBasicSettlement(Current(r), ev) \/ UNCHANGED vars
<1>1. \/ effect /\ NoFault /\ Set(r, ok)
      \/ Fault /\ Set(r, thrown) /\ (effect \/ recover)
      \/ ~CanSettle(Current(r), ev, u, t) /\ recover /\ NoFault /\ Set(r, thrown)
  BY DEF Settle
<1>2. effect => /\ Arbitrates(r) /\ Refines
                /\ t.status = "succeeded" /\ execution[r].status = "running" /\ attempt[Current(r)].outcome = "pending"
                     => execution'[r].status = "succeeded"
  BY SettleRows
<1>3. recover => Refines /\ (Arbitrates(r) \/ UNCHANGED vars)
  BY ReconcileRows DEF Refines
<1>4. ~CanSettle(Current(r), ev, u, t) =>
        ~(execution[r].status = "running" /\ attempt[Current(r)].outcome = "pending")
  BY MayArbitrate
<1> HIDE DEF effect, recover
<1>5. Answered(r)
  BY <1>1, <1>2, <1>3, AnsweredBy
<1> QED BY <1>1, <1>2, <1>4, <1>5 DEF Closes, Arbitrates

LEMMA GiveBackCloses ==
  ASSUME GInv, NEW r \in Requests, NEW ev \in Evidence, NEW t \in TerminalOf(ev),
         NEW ok, NEW thrown, GiveBackCall(r, ev, t, ok, thrown)
  PROVE  Closes(r, ok, thrown, t.status = "succeeded")
<1> DEFINE effect == ReleaseNotStarted(Current(r), ev, t)
<1>1. \/ effect /\ NoFault /\ Set(r, ok)
      \/ Fault /\ Set(r, thrown) /\ (effect \/ UNCHANGED vars)
      \/ ~CanSettle(Current(r), ev, ZeroUsage, t) /\ NoFault /\ Set(r, thrown) /\ UNCHANGED vars
  BY DEF GiveBackCall
<1>2. effect => /\ Arbitrates(r) /\ Refines
                /\ t.status = "succeeded" /\ execution[r].status = "running" /\ attempt[Current(r)].outcome = "pending"
                     => execution'[r].status = "succeeded"
  BY SettleRows, ConstantsAssumption
<1>3. ~CanSettle(Current(r), ev, ZeroUsage, t) =>
        ~(execution[r].status = "running" /\ attempt[Current(r)].outcome = "pending")
  BY MayArbitrate, ConstantsAssumption
<1> HIDE DEF effect
<1>4. Answered(r)
  BY <1>1, <1>2, AnsweredBy DEF Refines
<1> QED BY <1>1, <1>2, <1>3, <1>4 DEF Closes, Arbitrates

LEMMA ReconcileCall ==
  ASSUME GInv, NEW r \in Requests, NEW ev \in Evidence, NEW exposure \in {"accruing", "stopped"},
         NEW ok, NEW thrown, Reconcile(r, ev, exposure, ok, thrown)
  PROVE  Closes(r, ok, thrown, ev.outcome = "succeeded")
<1> DEFINE effect == EnterReconciliation(Current(r), ev, exposure, "provider_final_usage_pending")
           same == SameReconciliation(Current(r), ev, exposure)
<1>1. \/ effect /\ NoFault /\ Set(r, ok)
      \/ same /\ NoFault /\ Set(r, ok) /\ UNCHANGED vars
      \/ Fault /\ Set(r, thrown) /\ (effect \/ UNCHANGED vars)
      \/ ~same /\ ~CanReconcile(Current(r), ev, exposure) /\ NoFault /\ Set(r, thrown) /\ UNCHANGED vars
  BY DEF Reconcile
<1>2. effect => /\ Arbitrates(r) /\ Refines
                /\ ev.outcome = "succeeded" /\ execution[r].status = "running" => execution'[r].status = "succeeded"
  BY ReconcileRows
<1>3. ~CanReconcile(Current(r), ev, exposure) =>
        ~(execution[r].status = "running" /\ attempt[Current(r)].outcome = "pending")
  BY MayArbitrate
<1>4. same => attempt[Current(r)].outcome # "pending"
  <2>1. RowCoherent(Current(r))
    BY Parts DEF IInv, AttemptRowsCoherent
  <2> QED BY <2>1 DEF SameReconciliation, RowCoherent
<1> HIDE DEF effect, same
<1>5. Answered(r)
  BY <1>1, <1>2, AnsweredBy DEF Refines
<1>6. UNCHANGED vars /\ same => attempt'[Current(r)].outcome # "pending"
  BY <1>4 DEF vars
<1> QED BY <1>1, <1>2, <1>3, <1>4, <1>5, <1>6 DEF Closes, Arbitrates

(* What is left of a request whose current attempt is closed or refused.   *)
LEMMA ClosedRows ==
  ASSUME GInv, NEW r \in Requests, Answered(r), faults = 0,
         g[r].pc \in {"finalize", "complete"},
         \/ attempt'[Current(r)].outcome # "pending"
         \/ ~(execution[r].status = "running" /\ attempt[Current(r)].outcome = "pending")
  PROVE  \A i \in 0 .. MaxAttempts - 1 : attempt'[<<r, i>>].outcome # "pending"
<1>1. attempt[Current(r)].outcome = "pending" => execution[r].status = "running"
  BY Parts DEF Returning, Dispatching, At, InFlight
<1>2. attempt'[Current(r)].outcome # "pending"
  BY <1>1 DEF Answered, vars
<1>3. \A i \in 0 .. MaxAttempts - 1 : i # g[r].i => attempt'[<<r, i>>] = attempt[<<r, i>>]
  BY DEF Answered, OthersOfRequest
<1>4. \A i \in 0 .. MaxAttempts - 1 : i # g[r].i => attempt[<<r, i>>].outcome # "pending"
  BY Parts DEF Returning, At, InFlight, Dropped
<1> QED BY <1>2, <1>3, <1>4, Parts

(* The registers after the attempt was closed.                             *)
Moved(r) == IF g[r].then = "admit" THEN NextCandidate(r) ELSE g[r]
Finalized(r) ==
  [Moved(r) EXCEPT !.pc = IF g[r].then = "closeRisk" \/ g[r].handling THEN "closeRisk" ELSE g[r].then,
                   !.stream = @ \/ g[r].then = "chosen",
                   !.handling = @ \/ g[r].then = "closeRisk"]

LEMMA FinalizedRow ==
  ASSUME GInv, NEW r \in Requests, At(r, "finalize"), NEW x, x = Finalized(r)
  PROVE  /\ x \in GRow /\ x.risk = g[r].risk /\ x.finished = g[r].finished /\ x.read = g[r].read
         /\ x.verdict = g[r].verdict /\ x.verdict # "completed"
         /\ x.stream <=> g[r].stream \/ g[r].then = "chosen"
         /\ x.handling <=> g[r].handling \/ g[r].then = "closeRisk"
         /\ x.pc = IF x.handling THEN "closeRisk" ELSE g[r].then
         /\ g[r].then \in {"closeRisk", "finish", "chosen"} \/ (g[r].then = "admit" /\ ~g[r].stream)
         /\ g[r].then # "admit" => x.i = g[r].i
<1> DEFINE moved == Moved(r)
<1>1. /\ g[r].then \in {"closeRisk", "finish", "chosen"} \/ (g[r].then = "admit" /\ ~g[r].stream)
      /\ g[r].then = "admit" => g[r].i < MaxAttempts - 1
      /\ g[r].verdict # "completed"
  BY Parts DEF Control, At, Completed
<1>2. g[r] \in GRow /\ {"closeRisk", "finish", "chosen", "admit"} \subseteq Labels
  BY Parts DEF Labels
<1>3. /\ moved \in GRow /\ moved.risk = g[r].risk /\ moved.finished = g[r].finished /\ moved.read = g[r].read
      /\ moved.verdict = g[r].verdict /\ moved.stream = g[r].stream /\ moved.handling = g[r].handling
      /\ g[r].then # "admit" => moved.i = g[r].i
  <2>1. CASE g[r].then = "admit"
    <3>1. moved = [g[r] EXCEPT !.i = g[r].i + 1] /\ g[r].i + 1 \in 0 .. MaxAttempts - 1
      BY <1>1, <1>2, <2>1, Parts, ConstantsAssumption DEF NextCandidate, GRow, Moved
    <3> QED BY <1>2, <2>1, <3>1 DEF GRow
  <2>2. CASE g[r].then # "admit"
    BY <1>2, <2>2 DEF Moved
  <2> QED BY <2>1, <2>2
<1> HIDE DEF moved
<1> DEFINE p == IF g[r].then = "closeRisk" \/ g[r].handling THEN "closeRisk" ELSE g[r].then
           s == g[r].stream \/ g[r].then = "chosen"
           h == g[r].handling \/ g[r].then = "closeRisk"
<1>4. x = [moved EXCEPT !.pc = p, !.stream = s, !.handling = h]
  <2>1. x = [moved EXCEPT !.pc = p, !.stream = @ \/ g[r].then = "chosen", !.handling = @ \/ g[r].then = "closeRisk"]
    BY DEF moved, Finalized
  <2> HIDE DEF p
  <2> QED BY <1>3, <2>1
<1>5. p \in Labels /\ s \in BOOLEAN /\ h \in BOOLEAN
  BY <1>1, <1>2 DEF GRow
<1>6. (s <=> g[r].stream \/ g[r].then = "chosen") /\ (h <=> g[r].handling \/ g[r].then = "closeRisk")
      /\ p = IF h THEN "closeRisk" ELSE g[r].then
  OBVIOUS
<1>7. PICK py \in Labels, sy \in BOOLEAN, hy \in BOOLEAN : py = p /\ (sy <=> s) /\ (hy <=> h)
                 /\ x = [moved EXCEPT !.pc = py, !.stream = sy, !.handling = hy]
  <2> HIDE DEF p, s, h
  <2> QED BY <1>4, <1>5
<1> HIDE DEF p, s, h
<1>8. /\ x \in GRow /\ x.risk = g[r].risk /\ x.finished = g[r].finished /\ x.read = g[r].read
      /\ x.verdict = g[r].verdict /\ x.pc = py /\ x.stream = sy /\ x.handling = hy /\ x.i = moved.i
  <2>1. ASSUME NEW y \in GRow
        PROVE  LET z == [y EXCEPT !.pc = py, !.stream = sy, !.handling = hy]
               IN /\ z \in GRow /\ z.risk = y.risk /\ z.finished = y.finished /\ z.read = y.read
                  /\ z.verdict = y.verdict /\ z.pc = py /\ z.stream = sy /\ z.handling = hy /\ z.i = y.i
    BY ONLY <1>7, <2>1, py \in Labels, sy \in BOOLEAN, hy \in BOOLEAN DEF GRow
  <2> QED BY ONLY <1>3, <1>7, <2>1
<1> QED BY <1>1, <1>3, <1>6, <1>7, <1>8

LEMMA ClosingProgram ==
  ASSUME GInv, NEW r \in Requests, Answered(r), Fault \/ NoFault, UNCHANGED <<log, called>>,
         NEW x \in GRow, Set(r, x)
  PROVE  Program(r) /\ Others(r) /\ g'[r] = x /\ faults \in Nat
<1>1. g'[r] = x /\ g'[r] \in GRow /\ g' = [g EXCEPT ![r] = g'[r]]
  BY Parts, SetRow
<1> QED BY <1>1, CallProgram DEF Answered


LEMMA FinalizeSteps == ASSUME GInv, NEW r \in Requests, Finalize(r) PROVE Steps(r)
<1> DEFINE ok == Finalized(r)
           thrown == IF g[r].handling THEN To(r, "closeRisk") ELSE Thrown(r)
<1>0. At(r, "finalize") /\ g[r].pc = "finalize" /\ UNCHANGED <<log, called>> /\ "closeRisk" \in Labels
  BY DEF Finalize, Labels, At
<1>1. PICK ev \in Verdicts(r, g[r].outcome, g[r].output) : \E t \in Terminals(r, ev) :
             \/ g[r].failure.kind = "not_started" /\ GiveBackCall(r, ev, t, ok, thrown)
             \/ g[r].failure.kind = "final" /\ Settle(r, ev, g[r].failure.usage, t, ok, thrown)
             \/ \E exposure \in {"accruing", "stopped"} : Reconcile(r, ev, exposure, ok, thrown)
  BY DEF Finalize, Finalized, Moved
<1>2. ev \in Evidence /\ g[r].failure.usage \in Usages /\ \A t \in Terminals(r, ev) : t \in TerminalOf(ev)
  BY Parts, KnownFailures DEF Verdicts, Terminals, GRow
<1>3. /\ ok \in GRow /\ ok.risk = g[r].risk /\ ok.finished = g[r].finished /\ ok.read = g[r].read
      /\ ok.verdict = g[r].verdict /\ ok.verdict # "completed"
      /\ ok.stream <=> g[r].stream \/ g[r].then = "chosen"
      /\ ok.handling <=> g[r].handling \/ g[r].then = "closeRisk"
      /\ ok.pc = IF ok.handling THEN "closeRisk" ELSE g[r].then
      /\ g[r].then \in {"closeRisk", "finish", "chosen"} \/ (g[r].then = "admit" /\ ~g[r].stream)
      /\ g[r].then # "admit" => ok.i = g[r].i
  BY <1>0, FinalizedRow
<1>4. /\ thrown \in GRow /\ Keeps(g[r], thrown) /\ thrown.verdict # "completed"
      /\ thrown.handling /\ thrown.pc \in {"finalize", "closeRisk"}
      /\ thrown.pc = "finalize" => thrown.then = "closeRisk"
  <2>1. g[r].verdict # "completed"
    BY <1>0, Parts DEF Control, Completed
  <2>2. CASE g[r].handling
    BY <1>0, <2>1, <2>2, Parts, Jump
  <2>3. CASE ~g[r].handling
    <3>1. thrown = Thrown(r)
      BY <2>3
    <3> HIDE DEF thrown
    <3> QED BY <2>1, <2>3, <3>1, Parts, ThrownRow
  <2> QED BY <2>2, <2>3
<1> HIDE DEF ok, thrown
<1>5. /\ Answered(r)
      /\ \/ Set(r, ok) /\ NoFault /\ attempt'[Current(r)].outcome # "pending"
         \/ Set(r, thrown) /\ Fault
         \/ Set(r, thrown) /\ NoFault /\ ~(execution[r].status = "running" /\ attempt[Current(r)].outcome = "pending")
  BY <1>1, <1>2, GiveBackCloses, SettleCall, ReconcileCall DEF Closes
<1>6. Program(r) /\ Others(r) /\ (g'[r] = ok \/ g'[r] = thrown) /\ faults \in Nat
  BY <1>0, <1>3, <1>4, <1>5, ClosingProgram
<1>7. faults' = 0 => faults = 0 /\ \A i \in 0 .. MaxAttempts - 1 : attempt'[<<r, i>>].outcome # "pending"
  <2>1. ASSUME faults' = 0 PROVE faults = 0 /\ NoFault
    BY <1>5, <1>6, <2>1 DEF Fault, NoFault
  <2> QED BY <1>0, <1>5, <2>1, ClosedRows DEF Fault, NoFault
<1>8. Control(r)'
  BY <1>0, <1>3, <1>4, <1>6, Parts DEF Control, At, Handled, Completed, Keeps
<1>9. Dispatching(r)'
  <2>1. CASE g'[r] = thrown
    BY <1>4, <2>1 DEF Dispatching, At, InFlight
  <2>2. CASE g'[r] = ok /\ g'[r].pc # "chosen"
    BY <1>3, <2>2 DEF Dispatching, At, InFlight
  <2>3. CASE g'[r] = ok /\ g'[r].pc = "chosen" /\ g'[r] # thrown
    <3>1. g[r].then = "chosen" /\ ok.stream
      BY <1>3, <2>3
    <3>2. attempt'[Current(r)].outcome # "pending"
      BY <1>0, <1>3, <1>4, <1>5, <2>3, Parts, SetRow
    <3>3. Current(r)' = Current(r)
      BY <1>3, <2>3, <3>1 DEF Current
    <3> QED BY <2>3, <3>1, <3>2, <3>3 DEF Dispatching, At
  <2> QED BY <1>6, <2>1, <2>2, <2>3
<1>10. Completing(r)'
  BY <1>0, <1>3, <1>4, <1>5, <1>6, Parts DEF Completing, Answered, SucceededKept
<1>11. Returning(r)'
  <2>1. UNCHANGED <<lease, ended>>
    BY <1>5 DEF Answered
  <2>2. faults' = 0 => attempt'[Current(r)'].outcome # "pending"
    BY <1>6, <1>7, SetRow DEF Current, Program, GRow
  <2>3. faults' = 0 => /\ ~ended[r] /\ ~g[r].finished
    BY <1>0, <1>7, Parts DEF Returning
  <2>4. g'[r].finished = g[r].finished /\ g'[r].pc \in {"closeRisk", "finish", "chosen", "admit", "finalize"}
    BY <1>3, <1>4, <1>6 DEF Keeps
  <2>5. g'[r].pc = "finish" => ~g'[r].handling /\ g'[r].verdict = "failed"
    BY <1>3, <1>4, <1>6 DEF GRow
  <2> QED BY <1>6, <1>7, <2>1, <2>2, <2>3, <2>4, <2>5, Parts DEF Returning, At, Dropped
<1> QED BY <1>6, <1>8, <1>9, <1>10, <1>11 DEF Steps, Invocation

LEMMA CompleteRequestSteps == ASSUME GInv, NEW r \in Requests, CompleteRequest(r) PROVE Steps(r)
<1>0. At(r, "complete") /\ g[r].pc = "complete" /\ UNCHANGED <<log, called>>
      /\ {"settleRisk", "closeRisk"} \subseteq Labels
  BY DEF CompleteRequest, Labels, At
<1>1. PICK l \in {"settleRisk", "closeRisk"} :
         Closes(r, [g[r] EXCEPT !.pc = l, !.verdict = "completed"], Thrown(r), TRUE)
  <2> DEFINE done(l) == [g[r] EXCEPT !.pc = l, !.verdict = "completed"]
             s == [status |-> "succeeded", code |-> Null]
  <2>1. PICK ev \in Verdicts(r, "succeeded", TRUE) :
          \/ \E u \in Usages : Settle(r, ev, u, s, done("settleRisk"), Thrown(r))
          \/ \E exposure \in {"stopped", "accruing"} : Reconcile(r, ev, exposure, done("closeRisk"), Thrown(r))
    BY DEF CompleteRequest
  <2>2. ev \in Evidence /\ ev.outcome = "succeeded" /\ s \in TerminalOf(ev)
    BY DEF Verdicts, TerminalOf
  <2>3. s.status = "succeeded"
    OBVIOUS
  <2> HIDE DEF done, s
  <2>4. \/ Closes(r, done("settleRisk"), Thrown(r), s.status = "succeeded")
        \/ Closes(r, done("closeRisk"), Thrown(r), ev.outcome = "succeeded")
    BY <2>1, <2>2, SettleCall, ReconcileCall
  <2>5. \/ Closes(r, done("settleRisk"), Thrown(r), TRUE)
        \/ Closes(r, done("closeRisk"), Thrown(r), TRUE)
    BY <2>2, <2>3, <2>4 DEF Closes
  <2> QED BY <2>5 DEF done
<1> DEFINE ok == [g[r] EXCEPT !.pc = l, !.verdict = "completed"]
           thrown == Thrown(r)
<1>2. ~g[r].handling /\ g[r].verdict # "completed"
  BY <1>0, Parts DEF Control, Handled, Completed
<1>3. /\ ok \in GRow /\ Keeps(g[r], ok) /\ ok.pc = l /\ ok.verdict = "completed" /\ ~ok.handling
  BY <1>0, <1>2, Parts DEF GRow, Keeps
<1>4. /\ thrown \in GRow /\ Keeps(g[r], thrown) /\ thrown.verdict = "failed"
      /\ thrown.handling /\ thrown.pc \in {"finalize", "closeRisk"}
      /\ thrown.pc = "finalize" => thrown.then = "closeRisk"
  BY <1>2, Parts, ThrownRow
<1>5. execution[r].status = "running" /\ attempt[Current(r)].outcome = "pending"
  BY <1>0, Parts DEF Dispatching, InFlight
<1> HIDE DEF ok, thrown
<1>6. /\ Answered(r)
      /\ \/ /\ Set(r, ok) /\ NoFault /\ attempt'[Current(r)].outcome # "pending"
            /\ execution'[r].status = "succeeded"
         \/ Set(r, thrown) /\ Fault
  BY <1>1, <1>5 DEF Closes, ok, thrown
<1>7. Program(r) /\ Others(r) /\ (g'[r] = ok \/ g'[r] = thrown) /\ faults \in Nat
  BY <1>0, <1>3, <1>4, <1>6, ClosingProgram
<1>8. \/ g'[r] = ok /\ faults' = faults /\ execution'[r].status = "succeeded"
         /\ attempt'[Current(r)].outcome # "pending"
      \/ g'[r] = thrown /\ faults' # 0
  BY <1>3, <1>4, <1>6, <1>7, Parts, SetRow DEF Fault, NoFault
<1>9. Control(r)'
  BY <1>0, <1>3, <1>4, <1>7, Parts DEF Control, At, Handled, Completed, Keeps
<1>10. Dispatching(r)'
  BY <1>3, <1>4, <1>7 DEF Dispatching, At, InFlight
<1>11. Completing(r)'
  BY <1>0, <1>3, <1>4, <1>6, <1>8, Parts DEF Completing, Answered, SucceededKept
<1>12. Returning(r)'
  <2>1. UNCHANGED <<lease, ended>>
    BY <1>6 DEF Answered
  <2>2. faults' = 0 => faults = 0 /\ \A i \in 0 .. MaxAttempts - 1 : attempt'[<<r, i>>].outcome # "pending"
    BY <1>0, <1>6, <1>8, ClosedRows
  <2> QED BY <1>0, <1>3, <1>8, <2>1, <2>2, Parts DEF Returning, At, Dropped, Keeps
<1> QED BY <1>7, <1>9, <1>10, <1>11, <1>12 DEF Steps, Invocation

-----------------------------------------------------------------------------
(* The clock and the operator.                                             *)

(* The operator gives no attempt and no execution another verdict.         *)
LEMMA OperatorRows ==
  ASSUME GInv, NEW a \in Attempts, NEW ev \in Evidence, NEW u \in Usages, ReconcileFinalUsage(a, ev, u)
  PROVE  /\ Next /\ UNCHANGED <<lease, execution, ended>>
         /\ \A b \in Attempts : attempt'[b].outcome = "pending" <=> attempt[b].outcome = "pending"
<1> DEFINE e == [ev EXCEPT !.failureReason = Null]
<1>1. e \in EvidenceRow /\ IInv
  BY CommandFacts DEF GInv
<1> HIDE DEF e
<1>2. settle(a, e, u, "settled", NoTerminal, TRUE)
  BY DEF ReconcileFinalUsage, e
<1>3. Next
  BY DEF Next, SettlementStep
<1>4. UNCHANGED <<lease, ended>>
  BY <1>2 DEF settle
<1>5. UNCHANGED execution
  BY <1>2 DEF settle, Complete
<1>6. UNCHANGED vars \/ SettleChanges(a, e, u, "settled")
  BY <1>1, <1>2, SettleEffect
<1>7. IInv'
  BY <1>1, <1>2, SettlePreserves
<1>8. CASE SettleChanges(a, e, u, "settled")
  <2>1. ~attempt[a].usageSettled /\ Touches(a)
    BY <1>8 DEF SettleChanges
  <2>2. attempt[a].outcome # "pending"
    BY <1>1, <1>2, <2>1 DEF settle, FinalizeLock, ReconciliationReady, IInv, AttemptRowsCoherent,
       RowCoherent
  <2>3. e.outcome # "pending"
    BY <1>1 DEF EvidenceRow, TerminalStatus
  <2>4. attempt'[a].outcome = e.outcome
    BY <1>1, <1>8 DEF SettleChanges, WithEvidence, Expected, IInv, TypeOK, AttemptRow
  <2>5. \A b \in Attempts \ {a} : attempt'[b] = attempt[b]
    BY <2>1 DEF Touches
  <2> QED BY <1>3, <1>4, <1>5, <2>2, <2>3, <2>4, <2>5
<1> QED BY <1>3, <1>4, <1>5, <1>6, <1>8 DEF vars

LEMMA EnvironmentKeeps == ASSUME GInv, Environment PROVE GInv' /\ Next
<1>1. /\ Next /\ UNCHANGED <<lease, execution, ended>>
      /\ \A b \in Attempts : attempt'[b].outcome = "pending" <=> attempt[b].outcome = "pending"
  <2>1. CASE Tick
    BY <2>1 DEF Tick, Next
  <2>2. CASE Operator
    BY <2>2, OperatorRows DEF Operator
  <2> QED BY <2>1, <2>2 DEF Environment
<1>2. g' = g /\ log' = log /\ called' = called /\ faults' = faults
  BY DEF Environment, gatewayVars
<1>3. IInv' /\ LegalStep
  BY <1>1, NextInvariant, StepIsLegal DEF GInv
<1>4. GTypeOK'
  BY <1>2 DEF GInv, GTypeOK
<1>5. \A a \in Attempts : attempt[a].costExposure # "not_started" => attempt'[a].costExposure # "not_started"
  BY <1>3 DEF LegalStep, ExposureKept
<1>6. ASSUME NEW r \in Requests PROVE Invocation(r)'
  <2>1. /\ Current(r)' = Current(r) /\ Current(r) \in Attempts
        /\ \A i \in 0 .. MaxAttempts - 1 : <<r, i>> \in Attempts
    BY <1>2, Parts, AttemptOf DEF Current
  <2>2. Control(r)'
    BY <1>2, Parts DEF Control, At
  <2>3. Dispatching(r)'
    BY <1>1, <1>2, <1>5, <2>1, Parts DEF Dispatching, At
  <2>4. Completing(r)'
    BY <1>1, <1>2, Parts DEF Completing
  <2>5. Returning(r)'
    BY <1>1, <1>2, <2>1, Parts DEF Returning, At, Dropped
  <2> QED BY <2>2, <2>3, <2>4, <2>5 DEF Invocation
<1>7. CalledIsRecorded'
  BY <1>2, <1>5 DEF GInv, GTypeOK, CalledIsRecorded
<1> QED BY <1>1, <1>3, <1>4, <1>6, <1>7 DEF GInv

-----------------------------------------------------------------------------
(* The invariant, and what follows from it.                                *)

LEMMA RunSteps == ASSUME GInv, NEW r \in Requests, Run(r) PROVE Steps(r)
BY AcquireSteps, SelectPlanSourceSteps, EnrichClaimlessSteps, AdmitAttemptSteps,
   EnrichProtectedSteps,
   AcquireRiskSteps, RefreshSteps, RenewSteps, AssertOwnershipSteps, CheckFreshSteps, ProviderFailsSteps,
   ProviderAnswersSteps, ChosenSteps, FinalizeSteps, StreamEventSteps, StreamEndsSteps, StreamRenewsSteps,
   CompleteRequestSteps, RiskSteps, FailExecutionSteps, FinishSteps, ReleaseSteps
   DEF Run

LEMMA GatewayInit == GInit => GInv
<1> SUFFICES ASSUME GInit PROVE GInv
  OBVIOUS
<1>1. IInv /\ Init
  BY InitInvariant DEF GInit
<1>2. GTypeOK
  BY FreshType, GatewayTypes, GatewayAssumption DEF GInit
<1>3. ASSUME NEW r \in Requests PROVE Invocation(r)
  <2>1. /\ g[r].pc = "idle" /\ g[r].i = 0 /\ g[r].verdict = "failed" /\ g[r].risk = "none" /\ ~g[r].finished
        /\ ~g[r].stream /\ ~g[r].read /\ ~g[r].handling /\ log[r] = "none"
    BY DEF GInit, Fresh
  <2>2. ~ended[r] /\ \A a \in Attempts : attempt[a].outcome = "absent"
    BY <1>1 DEF Init, NoAttempt
  <2>3. Current(r) \in Attempts /\ \A i \in 0 .. MaxAttempts - 1 : <<r, i>> \in Attempts
    BY <2>1, AttemptOf, ConstantsAssumption DEF Current
  <2>4. Control(r) /\ Dispatching(r) /\ Completing(r)
    BY <2>1, <2>2, <2>3 DEF Control, Dispatching, Completing, At
  <2>5. Returning(r)
    BY <2>1, <2>2, <2>3 DEF Returning, At
  <2> QED BY <2>4, <2>5 DEF Invocation
<1>4. CalledIsRecorded
  BY DEF GInit, CalledIsRecorded
<1> QED BY <1>1, <1>2, <1>3, <1>4 DEF GInv

LEMMA GatewayNext == GInv /\ [GNext]_gvars => GInv' /\ (UNCHANGED vars \/ Next)
<1> SUFFICES ASSUME GInv, [GNext]_gvars PROVE GInv' /\ (UNCHANGED vars \/ Next)
  OBVIOUS
<1>1. ASSUME NEW r \in Requests, CreateRequestLog(r) \/ Run(r) \/ ClientAborts(r) \/ Crash(r)
      PROVE  GInv' /\ (UNCHANGED vars \/ Next)
  <2>1. Steps(r)
    BY <1>1, CreateRequestLogSteps, RunSteps, EnvironmentOfOneSteps
  <2> QED BY <2>1, StepKeeps DEF Steps, Program, Refines
<1>2. CASE Environment
  BY <1>2, EnvironmentKeeps
<1>3. CASE UNCHANGED gvars
  <2>1. UNCHANGED vars /\ g' = g /\ log' = log /\ called' = called /\ faults' = faults
    BY <1>3 DEF gvars, gatewayVars
  <2>2. UNCHANGED <<lease, execution, attempt, ended>>
    BY <2>1 DEF vars
  <2>3. IInv' /\ GTypeOK'
    BY <2>1, UnchangedPreserves DEF GInv, GTypeOK
  <2>4. CalledIsRecorded'
    BY <2>1, <2>2 DEF GInv, CalledIsRecorded
  <2>5. ASSUME NEW r \in Requests PROVE Invocation(r)'
    <3>1. Control(r) /\ Dispatching(r) /\ Completing(r) /\ Returning(r)
      BY Parts
    <3>2. Control(r)'
      BY <2>1, <3>1 DEF Control, At
    <3>3. Dispatching(r)' /\ Completing(r)'
      BY <2>1, <2>2, <3>1 DEF Dispatching, Completing, At, Current
    <3>4. Returning(r)'
      BY <2>1, <2>2, <3>1 DEF Returning, At, Current, Dropped
    <3> QED BY <3>2, <3>3, <3>4 DEF Invocation
  <2> QED BY <2>1, <2>3, <2>4, <2>5 DEF GInv
<1> QED BY <1>1, <1>2, <1>3 DEF GNext

(* The invariant of the program and the service holds of every reachable   *)
(* state.                                                                  *)
THEOREM GatewayInvariance == GSpec => []GInv
BY GatewayInit, GatewayNext, PTL DEF GSpec

(* The registers, the log and the calls keep their types.                  *)
THEOREM GatewayTypeCorrect == GSpec => []GTypeOK
BY GatewayInvariance, PTL DEF GInv

(* Every call of invoke, also one that throws after it committed, is a     *)
(* command of the service or leaves its rows alone.                        *)
THEOREM InvocationImplemented == GSpec => ImplementsInvocation
<1>1. GInit => Init
  BY DEF GInit
<1>2. GInv /\ [GNext]_gvars => [UNCHANGED vars \/ Next]_vars
  BY GatewayNext
<1> QED BY <1>1, <1>2, GatewayInvariance, PTL DEF GSpec, ImplementsInvocation

(* So the composition is a behaviour of the command service, and what was  *)
(* proved of the service holds of it.                                      *)
THEOREM CompositionIsInvocation == GSpec => Spec
<1>1. [UNCHANGED vars \/ Next]_vars => [Next]_vars
  OBVIOUS
<1> QED BY <1>1, InvocationImplemented, PTL DEF ImplementsInvocation, Spec

(* Whatever the gateway does, an attempt is charged once, its occupation   *)
(* and its row agree, and a verdict is never rewritten.                    *)
THEOREM ServiceHolds ==
  GSpec => [](ChargedOnce /\ OneUnsettledAttempt /\ OccupationMatchesAttempt) /\ TerminalNeverRewritten
BY CompositionIsInvocation, SingleCharge, OneUnsettled, OccupationAgrees, TerminalIsFinal, PTL

(* A row that says not_started was never called, wherever a process dies.  *)
THEOREM CallsAreRecorded == GSpec => []CalledIsRecorded
BY GatewayInvariance, PTL DEF GInv

(* A request logged as completed has an execution that succeeded, whatever *)
(* call throws after it committed.                                         *)
THEOREM CompletedSucceeded == GSpec => []CompletedHasSucceeded
<1>1. GInv => CompletedHasSucceeded
  BY DEF GInv, Invocation, Completing, CompletedHasSucceeded
<1> QED BY <1>1, GatewayInvariance, PTL

(* On every path out of invoke without a fault the log is closed and the   *)
(* lease and the guard's reservation are given back.                       *)
THEOREM ResourcesAreReturned == GSpec => []ResourcesReturned
<1>1. GInv => ResourcesReturned
  BY DEF GInv, Invocation, Returning, ResourcesReturned, EndedCleanly
<1> QED BY <1>1, GatewayInvariance, PTL

(* And every attempt that was admitted is settled or in the operator's     *)
(* list: an attempt is only pending while its invocation is in flight.     *)
THEOREM NoneIsLeftPending == GSpec => []NothingLeftPending
<1>1. ASSUME GInv, NEW r \in Requests, EndedCleanly(r), NEW i \in 0 .. MaxAttempts - 1, Present(<<r, i>>)
      PROVE  attempt[<<r, i>>].usageSettled \/ <<r, i>> \in Unresolved
  <2>1. /\ ended[r]
        /\ attempt[<<r, i>>].outcome # "pending"
    BY <1>1, Parts DEF Returning, EndedCleanly, At, InFlight
  <2>2. <<r, i>> \in Attempts /\ <<r, i>>[1] = r
    BY AttemptOf
  <2>3. attempt[<<r, i>>].outcome \in TerminalStatus /\ Listed(<<r, i>>)
    BY <1>1, <2>1, <2>2, Parts DEF IInv, TypeOK, AttemptRow, Present, ReconcilingIsListed
  <2>4. CASE ~attempt[<<r, i>>].usageSettled
    <3>1. attempt[<<r, i>>].reconciliationReason # Null /\ isTerminalExecutionStatus(<<r, i>>[1])
      BY <2>3, <2>4 DEF Listed
    <3>2. ReconciliationReady(<<r, i>>)
      BY <2>1, <2>2, <3>1 DEF ReconciliationReady
    <3> QED BY <2>2, <2>4, <3>2 DEF Unresolved
  <2> QED BY <2>4
<1>2. GInv => NothingLeftPending
  BY <1>1 DEF NothingLeftPending
<1> QED BY <1>2, GatewayInvariance, PTL
=============================================================================
