----------------------- MODULE SellerSettlementProofs -----------------------
(***************************************************************************)
(* Proofs about the seller settlement: whatever the workers, windows,      *)
(* purchases and batches, a refunded purchase is never paid out, the       *)
(* backfill is never refused a booking, and the task implements            *)
(* SellerPayout.                                                           *)
(***************************************************************************)
EXTENDS SellerSettlement, FiniteSetTheorems, TLAPS

(* Sums over finite sets, for the payouts, which the model writes as      *)
(* MapThenSumSet. That operator is a recursive function over the subsets  *)
(* of a set that takes an element chosen from each; what it computes is   *)
(* shown by a set with a smallest member (Least) instead of an induction  *)
(* rule: a smallest set of which the claim is false would have a smaller  *)
(* one.                                                                   *)

(* The element the sum takes from a set.                                   *)
First(S) == CHOOSE e \in S : TRUE

(* g sums f over every subset of S: the equation that defines the fold.    *)
Adds(g, f, S) ==
  g = [T \in SUBSET S |-> IF T = {} THEN 0 ELSE f[First(T)] + g[T \ {First(T)}]]

(* A set of subsets of a finite set has a member none of whose elements    *)
(* can be taken away.                                                      *)
LEMMA Least ==
  ASSUME NEW S, IsFiniteSet(S), NEW Bad, Bad \subseteq SUBSET S, Bad # {}
  PROVE  \E T \in Bad : \A e \in T : T \ {e} \notin Bad
<1>1. IsWellFoundedOn(StrictSubsetOrdering(S), SUBSET S)
  BY FS_StrictSubsetOrderingWellFounded, FS_FiniteSubsetsOfFinite
<1>2. PICK T \in Bad : \A U \in Bad : <<U, T>> \notin StrictSubsetOrdering(S)
  BY <1>1, WFMin
<1>3. ASSUME NEW e \in T PROVE T \ {e} \notin Bad
  BY <1>2, <1>3 DEF StrictSubsetOrdering
<1> QED BY <1>3

LEMMA FirstIn ==
  ASSUME NEW T, T # {}
  PROVE  First(T) \in T
BY DEF First

LEMMA AddsAt ==
  ASSUME NEW S, NEW f, NEW g, Adds(g, f, S)
  PROVE  \A T \in SUBSET S :
           g[T] = IF T = {} THEN 0 ELSE f[First(T)] + g[T \ {First(T)}]
BY DEF Adds

(* Two sums of the same values are the same, whatever sets they are        *)
(* defined over.                                                           *)
LEMMA AddsAgree ==
  ASSUME NEW S, IsFiniteSet(S), NEW R, NEW f, NEW h, NEW g, NEW k,
         Adds(g, f, S), Adds(k, h, R),
         \A e \in S \cap R : f[e] = h[e],
         NEW U, U \subseteq S, U \subseteq R
  PROVE  g[U] = k[U]
<1> DEFINE Bad == {T \in SUBSET S : T \subseteq R /\ g[T] # k[T]}
<1>1. SUFFICES ASSUME Bad # {} PROVE FALSE
  OBVIOUS
<1>2. PICK T \in Bad : \A e \in T : T \ {e} \notin Bad
  <2>1. Bad \subseteq SUBSET S
    OBVIOUS
  <2> HIDE DEF Bad
  <2> QED BY <1>1, <2>1, Least
<1>3. /\ g[T] = IF T = {} THEN 0 ELSE f[First(T)] + g[T \ {First(T)}]
      /\ k[T] = IF T = {} THEN 0 ELSE h[First(T)] + k[T \ {First(T)}]
  <2>1. T \in SUBSET S /\ T \in SUBSET R
    OBVIOUS
  <2> HIDE DEF Bad
  <2>2. \A V \in SUBSET S : g[V] = IF V = {} THEN 0 ELSE f[First(V)] + g[V \ {First(V)}]
    BY DEF Adds
  <2>3. \A V \in SUBSET R : k[V] = IF V = {} THEN 0 ELSE h[First(V)] + k[V \ {First(V)}]
    BY DEF Adds
  <2> QED BY <2>1, <2>2, <2>3
<1>4. T # {}
  BY <1>3
<1>5. First(T) \in T
  BY <1>4, FirstIn
<1>6. g[T \ {First(T)}] = k[T \ {First(T)}]
  BY <1>2, <1>5
<1> QED BY <1>3, <1>4, <1>5, <1>6

(* A sum of integers is an integer.                                        *)
LEMMA AddsInt ==
  ASSUME NEW S, IsFiniteSet(S), NEW f, NEW g, Adds(g, f, S), \A e \in S : f[e] \in Int,
         NEW U, U \subseteq S
  PROVE  g[U] \in Int
<1> DEFINE Bad == {T \in SUBSET S : g[T] \notin Int}
<1>1. SUFFICES ASSUME Bad # {} PROVE FALSE
  OBVIOUS
<1>2. PICK T \in Bad : \A e \in T : T \ {e} \notin Bad
  <2>1. Bad \subseteq SUBSET S
    OBVIOUS
  <2> HIDE DEF Bad
  <2> QED BY <1>1, <2>1, Least
<1> HIDE DEF Bad
<1>a. T \subseteq S
  BY DEF Bad
<1>3. g[T] = IF T = {} THEN 0 ELSE f[First(T)] + g[T \ {First(T)}]
  <2>1. \A W \in SUBSET S :
           g[W] = IF W = {} THEN 0 ELSE f[First(W)] + g[W \ {First(W)}]
    BY DEF Adds
  <2>2. T \in SUBSET S
    BY <1>a
  <2> QED BY <2>1, <2>2
<1>4. T # {} /\ g[T] \notin Int
  BY <1>3 DEF Bad
<1>5. First(T) \in T
  BY <1>4, FirstIn
<1>6. g[T \ {First(T)}] \in Int
  BY <1>2, <1>5, <1>a DEF Bad
<1> QED BY <1>a, <1>3, <1>4, <1>5, <1>6

(* The fold is well defined: put together from the sums over smaller sets. *)
LEMMA AddsExists ==
  ASSUME NEW S, IsFiniteSet(S), NEW f
  PROVE  \E g : Adds(g, f, S)
<1> DEFINE Bad == {T \in SUBSET S : ~ \E g : Adds(g, f, T)}
<1>1. SUFFICES ASSUME Bad # {} PROVE FALSE
  OBVIOUS
<1>2. PICK T \in Bad : \A e \in T : T \ {e} \notin Bad
  <2>1. Bad \subseteq SUBSET S
    OBVIOUS
  <2> HIDE DEF Bad
  <2> QED BY <1>1, <2>1, Least
<1>3. \A e \in T : \E g : Adds(g, f, T \ {e})
  BY <1>2
<1> DEFINE G == [e \in T |-> CHOOSE g : Adds(g, f, T \ {e})]
<1>4. \A e \in T : Adds(G[e], f, T \ {e})
  BY <1>3
<1> HIDE DEF G
<1> DEFINE k == [U \in SUBSET T |-> IF U = {} THEN 0
                                    ELSE f[First(U)] + G[First(U)][U \ {First(U)}]]
<1>5. Adds(k, f, T)
  <2>1. ASSUME NEW U, U \subseteq T, U # {}
        PROVE  k[U \ {First(U)}] = G[First(U)][U \ {First(U)}]
    <3> DEFINE V == U \ {First(U)}
               d == First(U)
               c == First(V)
    <3>1. d \in T /\ V \subseteq T \ {d} /\ V \subseteq T
      BY <2>1, FirstIn
    <3>2. G[d][V] = IF V = {} THEN 0 ELSE f[c] + G[d][V \ {c}]
      <4>1. \A W \in SUBSET (T \ {d}) :
              G[d][W] = IF W = {} THEN 0 ELSE f[First(W)] + G[d][W \ {First(W)}]
        <5> HIDE DEF d, k
        <5>1. Adds(G[d], f, T \ {d})
          BY <3>1, <1>4
        <5> QED BY <5>1, AddsAt
      <4> QED BY <4>1, <3>1
    <3>3. k[V] = IF V = {} THEN 0 ELSE f[c] + G[c][V \ {c}]
      BY <3>1
    <3>4. CASE V = {}
      BY <3>2, <3>3, <3>4
    <3>5. CASE V # {}
      <4>1. c \in V
        BY <3>5, FirstIn
      <4>2. c \in T /\ V \ {c} \subseteq T \ {c} /\ V \ {c} \subseteq T \ {d}
        BY <3>1, <4>1
      <4>3. Adds(G[c], f, T \ {c}) /\ Adds(G[d], f, T \ {d}) /\ IsFiniteSet(T \ {c})
        BY <1>4, <3>1, <4>2, FS_Subset
      <4>4. G[c][V \ {c}] = G[d][V \ {c}]
        <5> HIDE DEF V, c, d
        <5> QED BY <4>2, <4>3, AddsAgree
      <4> QED BY <3>2, <3>3, <3>5, <4>4
    <3> QED BY <3>4, <3>5
  <2> QED BY <2>1 DEF Adds
<1> QED BY <1>2, <1>5

(* The sum of f over S.                                                    *)
Total(f, S) == (CHOOSE g : Adds(g, f, S))[S]

(* Whatever solves the equation of the fold is the sum.                    *)
LEMMA TotalIs ==
  ASSUME NEW S, IsFiniteSet(S), NEW f, NEW R, IsFiniteSet(R), S \subseteq R,
         NEW g, Adds(g, f, R)
  PROVE  Total(f, S) = g[S]
<1>1. PICK k : Adds(k, f, S) /\ Total(f, S) = k[S]
  BY AddsExists DEF Total
<1> QED BY <1>1, AddsAgree

LEMMA TotalInt ==
  ASSUME NEW S, IsFiniteSet(S), NEW f, \A e \in S : f[e] \in Int
  PROVE  Total(f, S) \in Int
<1>1. PICK g : Adds(g, f, S)
  BY AddsExists
<1>2. g[S] \in Int
  BY <1>1, AddsInt
<1> QED BY <1>1, <1>2, TotalIs

LEMMA TotalEmpty ==
  ASSUME NEW f
  PROVE  Total(f, {}) = 0
<1>1. PICK g : Adds(g, f, {})
  BY AddsExists, FS_EmptySet
<1>2. \A T \in SUBSET {} : g[T] = IF T = {} THEN 0 ELSE f[First(T)] + g[T \ {First(T)}]
  BY <1>1, AddsAt
<1> QED BY <1>1, <1>2, TotalIs, FS_EmptySet

LEMMA TotalStep ==
  ASSUME NEW S, IsFiniteSet(S), S # {}, NEW f
  PROVE  Total(f, S) = f[First(S)] + Total(f, S \ {First(S)})
<1> DEFINE d == First(S)
<1>1. PICK g : Adds(g, f, S)
  BY AddsExists
<1>2. \A T \in SUBSET S : g[T] = IF T = {} THEN 0 ELSE f[First(T)] + g[T \ {First(T)}]
  BY <1>1, AddsAt
<1>3. g[S] = f[d] + g[S \ {d}]
  BY <1>2
<1>4. Total(f, S) = g[S]
  BY <1>1, TotalIs
<1>5. Total(f, S \ {d}) = g[S \ {d}]
  <2>1. IsFiniteSet(S \ {d}) /\ S \ {d} \subseteq S
    BY FS_Subset
  <2> HIDE DEF d
  <2> QED BY <1>1, <2>1, TotalIs
<1> QED BY <1>3, <1>4, <1>5

(* Any element may be taken first.                                         *)
LEMMA TotalWithout ==
  ASSUME NEW S, IsFiniteSet(S), NEW f, \A e \in S : f[e] \in Int, NEW e \in S
  PROVE  Total(f, S) = f[e] + Total(f, S \ {e})
<1> DEFINE Bad == {T \in SUBSET S : \E c \in T : Total(f, T) # f[c] + Total(f, T \ {c})}
<1>1. SUFFICES ASSUME Bad # {} PROVE FALSE
  OBVIOUS
<1>2. PICK T \in Bad : \A c \in T : T \ {c} \notin Bad
  <2>1. Bad \subseteq SUBSET S
    OBVIOUS
  <2> HIDE DEF Bad
  <2> QED BY <1>1, <2>1, Least
<1>3. T \subseteq S
  BY <1>2
<1>4. PICK c \in T : Total(f, T) # f[c] + Total(f, T \ {c})
  BY <1>2
<1>5. PICK d \in T : Total(f, T) = f[d] + Total(f, T \ {d})
  BY <1>3, <1>4, FS_Subset, TotalStep, FirstIn
<1>6. d # c
  BY <1>4, <1>5
<1>7. Total(f, T \ {d}) = f[c] + Total(f, (T \ {d}) \ {c})
  BY <1>2, <1>3, <1>4, <1>5, <1>6
<1>8. Total(f, T \ {c}) = f[d] + Total(f, (T \ {c}) \ {d})
  BY <1>2, <1>3, <1>4, <1>5, <1>6
<1>9. /\ (T \ {d}) \ {c} = (T \ {c}) \ {d}
      /\ f[c] \in Int /\ f[d] \in Int
  BY <1>3
<1>10. Total(f, (T \ {c}) \ {d}) \in Int
  <2>1. (T \ {c}) \ {d} \subseteq S
    BY <1>3
  <2>2. IsFiniteSet((T \ {c}) \ {d})
    BY <2>1, FS_Subset
  <2> QED BY <2>1, <2>2, TotalInt
<1>11. Total(f, (T \ {d}) \ {c}) = Total(f, (T \ {c}) \ {d})
  BY <1>9, Zenon
<1> HIDE DEF Bad
<1> QED BY <1>4, <1>5, <1>7, <1>8, <1>9, <1>10, <1>11

(* One more element adds its value.                                        *)
LEMMA TotalWith ==
  ASSUME NEW S, IsFiniteSet(S), NEW f, NEW d, d \notin S,
         f[d] \in Int, \A e \in S : f[e] \in Int
  PROVE  Total(f, S \cup {d}) = Total(f, S) + f[d]
<1>1. IsFiniteSet(S \cup {d}) /\ (S \cup {d}) \ {d} = S
  BY FS_AddElement
<1>2. Total(f, S \cup {d}) = f[d] + Total(f, S)
  <2> DEFINE R == S \cup {d}
  <2>1. IsFiniteSet(R) /\ R \ {d} = S /\ d \in R /\ \A e \in R : f[e] \in Int
    BY <1>1
  <2> HIDE DEF R
  <2>2. Total(f, R) = f[d] + Total(f, R \ {d})
    BY <2>1, TotalWithout
  <2> QED BY <2>1, <2>2 DEF R
<1>3. Total(f, S) \in Int
  BY TotalInt
<1> QED BY <1>1, <1>2, <1>3

-----------------------------------------------------------------------------

(* The task's transactions write nothing until they commit, so the whole   *)
(* argument is about what an open transaction may rely on: the rows it has *)
(* locked.                                                                 *)
EventSet == [window : Windows, type : {"revenue", "upstream_cost", "reversal"},
             units : Nat, source : Attempts \cup Legacy \cup Purchases]

TxnSet == [todo : SUBSET (Windows \cup Legacy), selected : Nat, booked : SUBSET EventSet,
           pays : SUBSET (Windows \X Nat), voids : SUBSET Windows, defers : SUBSET Windows,
           locked : SUBSET Windows, sub : BOOLEAN]

WindowEvents(E, x) == {e \in E : e.window = x}
Payees(t) == {p[1] : p \in t.pays}

(* The types, in full: TypeOK leaves the rows of a transaction open.       *)
FullType ==
  /\ TypeOK
  /\ events \subseteq EventSet /\ IsFiniteSet(events)
  /\ txn \in [Workers -> TxnSet]
  /\ \A w \in Workers : IsFiniteSet(txn[w].booked)

(* A worker between two runs holds no token, so there is one to spare.     *)
IdleHoldNothing == \A w \in Workers : pc[w] = "idle" => held[w] = NoToken

(* A transaction is open only inside the loop it belongs to.               *)
Phased(w) ==
  /\ pc[w] \in {"backfilling", "releasing"} => batch[w] < MaxBatches
  /\ pc[w] = "releasing" => txn[w].booked = {} /\ txn[w].todo \subseteq Windows
  /\ pc[w] = "backfilling" => txn[w].pays = {} /\ txn[w].voids = {}
  /\ pc[w] \notin {"backfilling", "releasing"} => txn[w] = NoTxn

(* Nobody locks a row twice.                                               *)
Exclusive == \A w, u \in Workers : w # u => txn[w].locked \cap txn[u].locked = {}

(* What a transaction is about to do to the windows it has locked is still *)
(* right: they are open, and their events add up to what it read.          *)
PayIsDue(t, win, E) ==
  /\ \A p \in t.pays :
       /\ p[1] \in t.locked /\ p[1] \notin t.todo /\ p[1] \notin t.voids
       /\ win[p[1]] = "open" /\ p[2] = NetOf(E, p[1]) /\ p[2] > 0
  /\ \A x \in t.voids :
       x \in t.locked /\ x \notin t.todo /\ win[x] = "open" /\ NetOf(E, x) <= 0

BookingIsWelcome(t, win) ==
  \A e \in t.booked :
    e.window \in t.locked /\ e.window \in PlanWindows /\ win[e.window] \notin Closed /\ e.units > 0

PaidIsReleased == \A x \in Windows : paid[x] # 0 => window[x] = "released"

AttemptsInPlans == \A a \in Attempts : attempt[a].state # "none" => attempt[a].window \in PlanWindows

Sale(p) == Event(p, "revenue", Price, p)
Reversal(p) == Event(p, "reversal", Price, p)

(* A purchase's window holds its price and, once refunded, its reversal.   *)
PurchaseBooked(p) ==
  /\ purchase[p] = "none" => WindowEvents(events, p) = {} /\ window[p] = "absent"
  /\ purchase[p] = "bought" => WindowEvents(events, p) = {Sale(p)} /\ window[p] # "absent"
  /\ purchase[p] = "refunded" => WindowEvents(events, p) = {Sale(p), Reversal(p)} /\ paid[p] = 0

(* No window is closed before the backfill is complete, and a batch that   *)
(* completes it has everything that was left.                              *)
BackfillFirst ==
  /\ backfilled => \A l \in Unrecorded : TrancheWindows(l) = {}
  /\ ~backfilled => \A x \in Windows : window[x] \notin Closed

BackfillPhase(w) ==
  /\ pc[w] \in {"release", "releasing"} => backfilled
  /\ pc[w] = "backfilling" /\ LastBatch(w) =>
       \A l \in Unrecorded : l \in txn[w].todo \/ TrancheEvents(l) \subseteq txn[w].booked

TxnInv ==
  /\ \A w \in Workers : Phased(w) /\ BackfillPhase(w)
  /\ Exclusive
  /\ \A w \in Workers : PayIsDue(txn[w], window, events) /\ BookingIsWelcome(txn[w], window)

BookInv ==
  /\ PaidIsReleased
  /\ AttemptsInPlans
  /\ \A p \in Purchases : PurchaseBooked(p)
  /\ BackfillFirst

IInv == FullType /\ IdleHoldNothing /\ TxnInv /\ BookInv
-----------------------------------------------------------------------------
(* Sums.                                                                   *)
LEMMA SignedInt ==
  ASSUME NEW e \in EventSet
  PROVE  Signed(e) \in Int
BY DEF EventSet, Signed

(* The sum of the model is the total over its elements.                    *)
SignedBy(S) == MapThenSumSet(Signed, S)

LEMMA SignedIsTotal ==
  ASSUME NEW S, IsFiniteSet(S)
  PROVE  SignedBy(S) = Total([e \in S |-> Signed(e)], S)
<1> DEFINE f == [e \in S |-> Signed(e)]
           P(k) == k = [T \in SUBSET S |-> IF T = {} THEN 0
                          ELSE Signed(CHOOSE e \in T : TRUE) + k[T \ {CHOOSE e \in T : TRUE}]]
           c == CHOOSE k : P(k)
<1>1. PICK g : Adds(g, f, S)
  BY AddsExists
<1>2. ASSUME NEW k PROVE P(k) <=> Adds(k, f, S)
  <2>1. \A T \in SUBSET S : T # {} => f[First(T)] = Signed(CHOOSE e \in T : TRUE)
    BY DEF First
  <2> HIDE DEF f
  <2> QED BY <2>1 DEF Adds, First
<1>3. SignedBy(S) = c[S]
  BY DEF SignedBy, MapThenSumSet, MapThenFoldSet
<1> HIDE DEF P, f
<1>4. P(c)
  BY <1>1, <1>2, Zenon
<1> HIDE DEF c
<1> QED BY <1>2, <1>3, <1>4, TotalIs DEF f

SecondBy(S) == MapThenSumSet(LAMBDA p : p[2], S)

LEMMA SecondIsTotal ==
  ASSUME NEW S, IsFiniteSet(S)
  PROVE  SecondBy(S) = Total([p \in S |-> p[2]], S)
<1> DEFINE f == [p \in S |-> p[2]]
           P(k) == k = [T \in SUBSET S |-> IF T = {} THEN 0
                          ELSE (CHOOSE e \in T : TRUE)[2] + k[T \ {CHOOSE e \in T : TRUE}]]
           c == CHOOSE k : P(k)
<1>1. PICK g : Adds(g, f, S)
  BY AddsExists
<1>2. ASSUME NEW k PROVE P(k) <=> Adds(k, f, S)
  <2>1. \A T \in SUBSET S : T # {} => f[First(T)] = (CHOOSE e \in T : TRUE)[2]
    BY DEF First
  <2> HIDE DEF f
  <2> QED BY <2>1 DEF Adds, First
<1>3. SecondBy(S) = c[S]
  BY DEF SecondBy, MapThenSumSet, MapThenFoldSet
<1> HIDE DEF P, f
<1>4. P(c)
  BY <1>1, <1>2, Zenon
<1> HIDE DEF c
<1> QED BY <1>2, <1>3, <1>4, TotalIs DEF f

LEMMA NetIs ==
  ASSUME NEW E, NEW x
  PROVE  NetOf(E, x) = SignedBy(WindowEvents(E, x))
BY DEF NetOf, SignedBy, WindowEvents

(* What a window holds is a number, and depends on its own events only.    *)
LEMMA NetInt ==
  ASSUME NEW E, E \subseteq EventSet, IsFiniteSet(E), NEW x
  PROVE  NetOf(E, x) \in Int
<1> DEFINE S == WindowEvents(E, x)
           f == [e \in S |-> Signed(e)]
<1>1. IsFiniteSet(S)
  BY FS_Subset DEF WindowEvents
<1>2. \A e \in S : f[e] \in Int
  BY SignedInt DEF WindowEvents
<1>3. NetOf(E, x) = Total(f, S)
  BY <1>1, NetIs, SignedIsTotal
<1> HIDE DEF S, f
<1> QED BY <1>1, <1>2, <1>3, TotalInt

LEMMA NetSame ==
  ASSUME NEW E, NEW F, NEW x, WindowEvents(E, x) = WindowEvents(F, x)
  PROVE  NetOf(E, x) = NetOf(F, x)
BY NetIs

LEMMA NetOfNothing ==
  ASSUME NEW E, NEW x, WindowEvents(E, x) = {}
  PROVE  NetOf(E, x) = 0
BY NetIs, SignedIsTotal, TotalEmpty, FS_EmptySet

(* A refunded purchase has earned nothing.                                 *)
LEMMA RefundedNet ==
  ASSUME NEW p, NEW E, WindowEvents(E, p) = {Sale(p), Reversal(p)}
  PROVE  NetOf(E, p) = 0
<1> DEFINE s == Sale(p)
           r == Reversal(p)
           f == [e \in {s, r} |-> Signed(e)]
<1>1. s # r /\ f[s] = Price /\ f[r] = -Price /\ Price \in Int
  BY SettlementAssumption DEF Sale, Reversal, Event, Signed
<1>2. IsFiniteSet({s}) /\ IsFiniteSet({s, r}) /\ {s} \cup {r} = {s, r} /\ {} \cup {s} = {s}
  BY FS_Singleton, FS_AddElement
<1>3. NetOf(E, p) = Total(f, {s, r})
  BY <1>2, NetIs, SignedIsTotal
<1> HIDE DEF f, s, r
<1>4. Total(f, {s} \cup {r}) = Total(f, {s}) + f[r]
  <2>1. r \notin {s} /\ f[r] \in Int /\ \A e \in {s} : f[e] \in Int
    BY <1>1
  <2> QED BY <1>2, <2>1, TotalWith
<1>5. Total(f, {} \cup {s}) = Total(f, {}) + f[s]
  BY <1>1, FS_EmptySet, TotalWith
<1>6. Total(f, {}) = 0
  BY TotalEmpty
<1>7. Total(f, {s}) = Price
  BY <1>1, <1>2, <1>5, <1>6
<1>8. Total(f, {s, r}) = Price + -Price
  BY <1>1, <1>2, <1>4, <1>7
<1> QED BY <1>1, <1>3, <1>8

(* What a release credits: nothing, or the one payment there is.           *)
LEMMA SecondOfNone == SecondBy({}) = 0
BY SecondIsTotal, TotalEmpty, FS_EmptySet

LEMMA SecondOfOne ==
  ASSUME NEW q, q[2] \in Nat
  PROVE  SecondBy({q}) = q[2]
<1> DEFINE f == [p \in {q} |-> p[2]]
<1>1. f[q] = q[2] /\ {} \cup {q} = {q} /\ IsFiniteSet({q})
  BY FS_Singleton
<1>2. SecondBy({q}) = Total(f, {q})
  BY <1>1, SecondIsTotal
<1> HIDE DEF f
<1>3. Total(f, {} \cup {q}) = Total(f, {}) + f[q]
  BY <1>1, FS_EmptySet, TotalWith
<1> QED BY <1>1, <1>2, <1>3, TotalEmpty

-----------------------------------------------------------------------------
(* The lease.                                                              *)
LEMMA SmallestIn ==
  ASSUME NEW S, S \subseteq Nat, IsFiniteSet(S), S # {}
  PROVE  Min(S) \in S /\ \A y \in S : Min(S) <= y
<1> DEFINE IsMin(m, T) == m \in T /\ \A y \in T : m <= y
           Bad == {T \in SUBSET S : T # {} /\ \A m \in T : ~ IsMin(m, T)}
<1>1. ASSUME Bad # {} PROVE FALSE
  <2>1. Bad \subseteq SUBSET S
    OBVIOUS
  <2> HIDE DEF Bad
  <2>2. PICK T \in Bad : \A e \in T : T \ {e} \notin Bad
    BY <1>1, <2>1, Least
  <2> USE DEF Bad
  <2>3. PICK e \in T : TRUE
    OBVIOUS
  <2>4. T \ {e} # {} => \E m \in T \ {e} : IsMin(m, T \ {e})
    BY <2>2, <2>3
  <2>5. CASE T \ {e} = {}
    <3>1. T = {e}
      BY <2>3, <2>5
    <3> QED BY <2>3, <3>1
  <2>6. CASE T \ {e} # {}
    <3>1. PICK m \in T \ {e} : IsMin(m, T \ {e})
      BY <2>4, <2>6
    <3>2. m \in Nat /\ e \in Nat
      OBVIOUS
    <3>3. CASE m <= e
      <4>1. IsMin(m, T)
        BY <3>1, <3>3
      <4> QED BY <4>1
    <3>4. CASE e < m
      <4>1. IsMin(e, T)
        BY <2>3, <3>1, <3>2, <3>4
      <4> QED BY <4>1, <2>3
    <3> QED BY <3>2, <3>3, <3>4
  <2> QED BY <2>5, <2>6
<1>2. \E m \in S : IsMin(m, S)
  BY <1>1
<1> QED BY <1>2 DEF Min

(* Of as many tokens as there are workers and one more, an idle worker     *)
(* leaves one over.                                                        *)
LEMMA FreshTokenExists ==
  ASSUME LeaseTypeOK, NEW w \in Workers, held[w] = NoToken
  PROVE  FreshToken \in Tokens
<1> DEFINE Others == Workers \ {w}
           O == {held[v] : v \in Others}
           Used == {leaseToken} \cup {held[v] : v \in Workers}
           n == Cardinality(Workers)
<1>1. IsFiniteSet(Workers) /\ n \in Nat
  BY LeaseAssumption, FS_CardinalityType
<1>2. IsFiniteSet(Others) /\ Cardinality(Others) = n - 1
  BY <1>1, FS_RemoveElement
<1>3. IsFiniteSet(O) /\ Cardinality(O) \in Nat /\ Cardinality(O) <= n - 1
  <2>1. [v \in Others |-> held[v]] \in Surjection(Others, O)
    BY DEF Surjection
  <2> HIDE DEF O, Others
  <2> QED BY <1>2, <2>1, FS_Surjection, FS_CardinalityType
<1>4. IsFiniteSet(O \cup {leaseToken}) /\ Cardinality(O \cup {leaseToken}) <= n
  <2>1. CASE leaseToken \in O
    <3>1. O \cup {leaseToken} = O
      BY <2>1
    <3>2. IsFiniteSet(O \cup {leaseToken}) /\ Cardinality(O \cup {leaseToken}) = Cardinality(O)
      BY <1>3, <3>1
    <3> HIDE DEF O, n
    <3> QED BY <1>1, <1>3, <3>2
  <2>2. CASE leaseToken \notin O
    <3> HIDE DEF O, n
    <3>1. Cardinality(O \cup {leaseToken}) = Cardinality(O) + 1 /\ IsFiniteSet(O \cup {leaseToken})
      BY <1>3, <2>2, FS_AddElement
    <3> QED BY <1>1, <1>3, <3>1
  <2> QED BY <2>1, <2>2
<1>5. IsFiniteSet(Tokens) /\ Cardinality(Tokens) = n + 1 /\ Tokens \subseteq Nat
  <2>1. IsFiniteSet(1 .. n + 1) /\ Cardinality(1 .. n + 1) = n + 1
    BY <1>1, FS_Interval
  <2> QED BY <1>1, <2>1 DEF Tokens
<1>6. Tokens \ Used # {}
  <2>1. SUFFICES ASSUME Tokens \ Used = {} PROVE FALSE
    OBVIOUS
  <2>2. NoToken \notin Tokens
    BY DEF NoToken, Tokens
  <2>3. Tokens \subseteq O \cup {leaseToken}
    BY <2>1, <2>2
  <2> HIDE DEF O, n
  <2>4. Cardinality(Tokens) <= Cardinality(O \cup {leaseToken})
    BY <1>4, <2>3, FS_Subset
  <2> QED BY <1>1, <1>4, <1>5, <2>4, FS_CardinalityType
<1>7. IsFiniteSet(Tokens \ Used) /\ Tokens \ Used \subseteq Nat
  BY <1>5, FS_Subset
<1>8. FreshToken = Min(Tokens \ Used)
  BY DEF FreshToken
<1> HIDE DEF Used
<1> QED BY <1>6, <1>7, <1>8, SmallestIn

LEMMA LeaseStays ==
  ASSUME LeaseTypeOK, NEW w \in Workers,
         \/ acquire(w) /\ held[w] = NoToken
         \/ renewLost(w) \/ release(w) \/ forget(w) \/ expireAbandoned \/ expireUnderOwner
  PROVE  LeaseTypeOK'
<1>1. CASE acquire(w) /\ held[w] = NoToken
  <2>1. FreshToken \in Tokens
    BY <1>1, FreshTokenExists
  <2> QED BY <1>1, <2>1 DEF acquire, LeaseTypeOK
<1>2. CASE renewLost(w)
  BY <1>2 DEF renewLost, LeaseTypeOK
<1>3. CASE release(w)
  BY <1>3 DEF release, LeaseTypeOK
<1>4. CASE forget(w)
  BY <1>4, LeaseAssumption DEF forget, LeaseTypeOK
<1>5. CASE expireAbandoned
  BY <1>5 DEF expireAbandoned, LeaseTypeOK
<1>6. CASE expireUnderOwner
  <2>1. /\ faults < MaxFaults /\ faults' = faults + 1 /\ leaseLive' = FALSE
        /\ UNCHANGED <<leaseToken, leaseOwner, held, aborted>>
    BY <1>6 DEF expireUnderOwner
  <2>2. faults' \in 0 .. MaxFaults
    BY <2>1, LeaseAssumption DEF LeaseTypeOK
  <2> QED BY <2>1, <2>2 DEF LeaseTypeOK, Tokens
<1> QED BY <1>1, <1>2, <1>3, <1>4, <1>5, <1>6

-----------------------------------------------------------------------------
(* Frames.                                                                 *)
LEMMA NoTxnIs == NoTxn \in TxnSet /\ IsFiniteSet(NoTxn.booked)
BY FS_EmptySet DEF NoTxn, TxnSet

LEMMA NoTxnIsDue ==
  ASSUME NEW win, NEW E
  PROVE  PayIsDue(NoTxn, win, E) /\ BookingIsWelcome(NoTxn, win)
BY DEF NoTxn, PayIsDue, BookingIsWelcome

LEMMA BooksStay ==
  ASSUME IInv, UNCHANGED <<window, events, paid, attempt, purchase, backfilled>>
  PROVE  BookInv'
BY DEF IInv, BookInv, PaidIsReleased, AttemptsInPlans, PurchaseBooked, BackfillFirst, Unrecorded

(* A step that only touches the transaction of one worker.                 *)
LEMMA OneRun ==
  ASSUME IInv, LeaseTypeOK', UNCHANGED settlementVars,
         NEW w \in Workers, NEW t \in TxnSet, IsFiniteSet(t.booked),
         NEW label \in {"idle", "backfill", "backfilling", "release", "releasing", "ending"},
         NEW n \in 0 .. MaxBatches,
         txn' = [txn EXCEPT ![w] = t], pc' = [pc EXCEPT ![w] = label],
         batch' = [batch EXCEPT ![w] = n],
         Phased(w)', BackfillPhase(w)',
         \A u \in Workers : u # w => t.locked \cap txn[u].locked = {},
         PayIsDue(t, window, events), BookingIsWelcome(t, window)
  PROVE  FullType' /\ TxnInv' /\ BookInv'
<1>1. txn' \in [Workers -> TxnSet] /\ txn'[w] = t /\ \A u \in Workers : u # w => txn'[u] = txn[u]
  BY DEF IInv, FullType
<1>2. \A u \in Workers : u # w => pc'[u] = pc[u] /\ batch'[u] = batch[u]
  BY DEF IInv, FullType, TypeOK
<1>3. FullType'
  <2>1. pc' \in [Workers -> {"idle", "backfill", "backfilling", "release", "releasing", "ending"}]
    BY DEF IInv, FullType, TypeOK
  <2>2. batch' \in [Workers -> 0 .. MaxBatches]
    BY DEF IInv, FullType, TypeOK
  <2>3. \A u \in Workers : txn'[u].locked \subseteq Windows /\ txn'[u].sub \in BOOLEAN
    BY <1>1 DEF TxnSet
  <2>4. TypeOK'
    BY <2>1, <2>2, <2>3 DEF IInv, FullType, TypeOK, settlementVars
  <2>5. \A u \in Workers : IsFiniteSet(txn'[u].booked)
    BY <1>1 DEF IInv, FullType
  <2> QED BY <1>1, <2>4, <2>5 DEF IInv, FullType, settlementVars
<1>4. \A u \in Workers : Phased(u)'
  BY <1>1, <1>2 DEF IInv, TxnInv, Phased
<1>5. \A u \in Workers : BackfillPhase(u)'
  BY <1>1, <1>2 DEF IInv, TxnInv, BackfillPhase, LastBatch, Unrecorded, settlementVars
<1>6. Exclusive'
  BY <1>1 DEF IInv, TxnInv, Exclusive
<1>7. \A u \in Workers : PayIsDue(txn'[u], window', events') /\ BookingIsWelcome(txn'[u], window')
  BY <1>1 DEF IInv, TxnInv, settlementVars
<1>8. BookInv'
  BY BooksStay DEF settlementVars
<1> QED BY <1>3, <1>4, <1>5, <1>6, <1>7, <1>8 DEF TxnInv

LEMMA RolledBack ==
  ASSUME IInv, LeaseTypeOK', UNCHANGED settlementVars,
         NEW w \in Workers, NEW label \in {"idle", "backfill", "release", "ending"},
         label = "release" => backfilled,
         NEW n \in 0 .. MaxBatches,
         txn' = [txn EXCEPT ![w] = NoTxn], pc' = [pc EXCEPT ![w] = label],
         batch' = [batch EXCEPT ![w] = n]
  PROVE  FullType' /\ TxnInv' /\ BookInv'
<1>1. txn'[w] = NoTxn /\ pc'[w] = label
  BY DEF IInv, FullType, TypeOK
<1>2. Phased(w)'
  BY <1>1 DEF Phased
<1>3. BackfillPhase(w)'
  BY <1>1 DEF BackfillPhase, settlementVars
<1>4. \A u \in Workers : u # w => NoTxn.locked \cap txn[u].locked = {}
  BY DEF NoTxn
<1>5. PayIsDue(NoTxn, window, events) /\ BookingIsWelcome(NoTxn, window)
  BY NoTxnIsDue
<1>6. NoTxn \in TxnSet /\ IsFiniteSet(NoTxn.booked)
  BY NoTxnIs
<1> QED BY <1>2, <1>3, <1>4, <1>5, <1>6, OneRun

(* Events that a closed window would refuse and a locked one keeps         *)
(* waiting: all a booking may change.                                      *)
Books(N) ==
  LET S == {e.window : e \in N}
  IN /\ N \subseteq EventSet /\ IsFiniteSet(N) /\ \A e \in N : e.units > 0
     /\ Bookable(S)
     /\ events' = events \cup N
     /\ window' = Booked(S)

LEMMA BooksTypes ==
  ASSUME IInv, NEW N, Books(N)
  PROVE  /\ events' \subseteq EventSet /\ IsFiniteSet(events')
         /\ \A e \in events' : e.window \in Windows /\ e.units \in Nat \ {0}
         /\ window' \in [Windows -> {"absent", "open"} \cup Closed]
<1>1. events' = events \cup N /\ N \subseteq EventSet /\ IsFiniteSet(N) /\ \A e \in N : e.units > 0
  BY DEF Books
<1>2. events \subseteq EventSet /\ IsFiniteSet(events) /\ \A e \in events : e.units \in Nat \ {0}
  BY DEF IInv, FullType, TypeOK
<1>3. IsFiniteSet(events')
  BY <1>1, <1>2, FS_Union
<1>4. \A e \in events' : e.window \in Windows /\ e.units \in Nat \ {0}
  BY <1>1, <1>2 DEF EventSet
<1>5. window' \in [Windows -> {"absent", "open"} \cup Closed]
  BY DEF IInv, FullType, TypeOK, Books, Booked
<1> QED BY <1>1, <1>2, <1>3, <1>4, <1>5

LEMMA BooksWindows ==
  ASSUME IInv, NEW N, Books(N)
  PROVE  /\ \A x \in Windows : \/ window'[x] = window[x]
                               \/ /\ window[x] = "absent" /\ window'[x] = "open"
                                  /\ x \in {e.window : e \in N}
         /\ \A x \in Windows : window[x] \in Closed => x \notin {e.window : e \in N}
         /\ \A x \in Windows : x \notin {e.window : e \in N} =>
              window'[x] = window[x] /\ WindowEvents(events', x) = WindowEvents(events, x)
         /\ \A x \in Windows : x \notin {e.window : e \in N} => NetOf(events', x) = NetOf(events, x)
<1>1. \A x \in Windows : x \notin {e.window : e \in N} =>
         WindowEvents(events', x) = WindowEvents(events, x)
  BY DEF Books, WindowEvents
<1>2. \A x \in Windows : x \notin {e.window : e \in N} => NetOf(events', x) = NetOf(events, x)
  BY <1>1, NetSame
<1> QED BY <1>1, <1>2 DEF IInv, FullType, TypeOK, Books, Booked, Bookable

(* What the others are about to do is not disturbed by a booking that      *)
(* waited for their locks, or opens a purchase's window that was not there.*)
Apart(t, N) == \A x \in t.locked : x \in {e.window : e \in N} => window[x] = "absent" /\ x \notin PlanWindows

LEMMA BooksWait ==
  ASSUME IInv, NEW N, Books(N), NEW w \in Workers, Apart(txn[w], N)
  PROVE  PayIsDue(txn[w], window', events') /\ BookingIsWelcome(txn[w], window')
<1> DEFINE t == txn[w]
           S == {e.window : e \in N}
<1>1. PayIsDue(t, window, events) /\ BookingIsWelcome(t, window) /\ t \in TxnSet
  BY DEF IInv, TxnInv, FullType
<1>2. \A x \in t.locked : x \in Windows /\ (x \in S => window[x] = "absent" /\ x \notin PlanWindows)
  BY <1>1 DEF Apart, TxnSet
<1>3. \A x \in t.locked : window[x] = "open" \/ x \in PlanWindows =>
         window'[x] = window[x] /\ NetOf(events', x) = NetOf(events, x)
  BY <1>2, BooksWindows
<1> HIDE DEF t, S
<1>4. PayIsDue(t, window', events')
  BY <1>1, <1>3 DEF PayIsDue
<1>5. BookingIsWelcome(t, window')
  BY <1>1, <1>3 DEF BookingIsWelcome
<1> QED BY <1>4, <1>5 DEF t

(* The rest of the books: what is closed and paid stays so, and the        *)
(* backfill has no more left to do than before.                            *)
LEMMA BooksKeep ==
  ASSUME IInv, NEW N, Books(N), UNCHANGED paid
  PROVE  /\ PaidIsReleased'
         /\ Unrecorded' \subseteq Unrecorded
         /\ (\E x \in Windows : window'[x] \in Closed) => backfilled
         /\ backfilled => \A l \in Unrecorded' : TrancheWindows(l) = {}
<1>1. PaidIsReleased'
  BY BooksWindows DEF IInv, BookInv, PaidIsReleased
<1>2. Unrecorded' \subseteq Unrecorded
  BY DEF Books, Unrecorded
<1>3. \A x \in Windows : window'[x] \in Closed => window[x] \in Closed
  BY BooksWindows DEF Closed
<1>4. backfilled \in BOOLEAN
  BY DEF IInv, FullType, TypeOK
<1> QED BY <1>1, <1>2, <1>3, <1>4 DEF IInv, BookInv, BackfillFirst

(* A booking outside the task.                                             *)
LEMMA Outside ==
  ASSUME IInv, NEW N, Books(N),
         Waits({e.window : e \in N}) \/ \A w \in Workers : Apart(txn[w], N),
         UNCHANGED <<leaseVars, runVars, paid, backfilled>>
  PROVE  TxnInv' /\ PaidIsReleased' /\ BackfillFirst'
<1>1. \A w \in Workers : Apart(txn[w], N)
  BY LeaseAssumption DEF Waits, WindowLocked, Nobody, Apart
<1>2. \A w \in Workers : PayIsDue(txn[w], window', events') /\ BookingIsWelcome(txn[w], window')
  BY <1>1, BooksWait
<1>3. /\ PaidIsReleased' /\ Unrecorded' \subseteq Unrecorded
      /\ (\E x \in Windows : window'[x] \in Closed) => backfilled
      /\ backfilled => \A l \in Unrecorded' : TrancheWindows(l) = {}
  BY BooksKeep
<1>4. BackfillFirst'
  BY <1>3 DEF BackfillFirst
<1>5. \A w \in Workers : Phased(w)' /\ BackfillPhase(w)'
  BY <1>3 DEF IInv, TxnInv, Phased, BackfillPhase, LastBatch, runVars
<1>6. Exclusive'
  BY DEF IInv, TxnInv, Exclusive, runVars
<1> QED BY <1>2, <1>3, <1>4, <1>5, <1>6 DEF TxnInv, runVars

-----------------------------------------------------------------------------
(* The other transactions.                                                 *)
LEMMA IdleStays ==
  ASSUME IInv, UNCHANGED <<pc, held>>
  PROVE  IdleHoldNothing'
BY DEF IInv, IdleHoldNothing

LEMMA OtherPurchases ==
  ASSUME IInv, NEW N, Books(N), UNCHANGED paid, NEW p \in Purchases, purchase'[p] = purchase[p],
         p \notin {e.window : e \in N}
  PROVE  PurchaseBooked(p)'
<1>1. p \in Windows
  BY DEF Windows
<1>2. window'[p] = window[p] /\ WindowEvents(events', p) = WindowEvents(events, p)
  BY <1>1, BooksWindows
<1> QED BY <1>2 DEF IInv, BookInv, PurchaseBooked

LEMMA AttemptKeeps ==
  ASSUME IInv, NEW a \in Attempts,
         \/ \E x \in PlanWindows : Arrive(a, x)
         \/ Admit(a) \/ ReleaseNotStarted(a)
  PROVE  IInv'
<1>1. /\ UNCHANGED <<leaseVars, runVars, window, ended, deferred, events, paid, purchase, deadline,
                     backfilled>>
      /\ attempt' \in [Attempts -> [state : {"none", "arrived", "unresolved", "settled", "not_started"},
                                    window : PlanWindows \cup {Nobody}]]
      /\ AttemptsInPlans'
  <2>1. CASE \E x \in PlanWindows : Arrive(a, x)
    BY <2>1 DEF Arrive, IInv, BookInv, AttemptsInPlans, FullType, TypeOK
  <2>2. CASE Admit(a)
    BY <2>2 DEF Admit, IInv, BookInv, AttemptsInPlans, FullType, TypeOK
  <2>3. CASE ReleaseNotStarted(a)
    BY <2>3 DEF ReleaseNotStarted, IInv, BookInv, AttemptsInPlans, FullType, TypeOK
  <2> QED BY <2>1, <2>2, <2>3
<1>2. FullType'
  BY <1>1 DEF IInv, FullType, TypeOK, LeaseTypeOK, leaseVars, runVars
<1>3. TxnInv'
  BY <1>1 DEF IInv, TxnInv, Phased, BackfillPhase, LastBatch, Unrecorded, Exclusive, runVars
<1>4. BookInv'
  BY <1>1 DEF IInv, BookInv, PaidIsReleased, PurchaseBooked, BackfillFirst, Unrecorded
<1>5. IdleHoldNothing'
  BY <1>1, IdleStays DEF leaseVars, runVars
<1> QED BY <1>2, <1>3, <1>4, <1>5 DEF IInv

LEMMA ClockKeeps ==
  ASSUME IInv,
         \/ \E p \in Purchases : DeadlinePasses(p)
         \/ \E x \in Windows : WindowEnds(x) \/ DeferralEnds(x)
  PROVE  IInv'
<1>1. /\ UNCHANGED <<leaseVars, runVars, window, events, paid, attempt, purchase, backfilled>>
      /\ ended' \subseteq Windows /\ deferred' \subseteq Windows /\ deadline' \subseteq Purchases
  BY DEF DeadlinePasses, WindowEnds, DeferralEnds, IInv, FullType, TypeOK
<1>2. FullType'
  BY <1>1 DEF IInv, FullType, TypeOK, LeaseTypeOK, leaseVars, runVars
<1>3. TxnInv'
  BY <1>1 DEF IInv, TxnInv, Phased, BackfillPhase, LastBatch, Unrecorded, Exclusive, runVars
<1>4. BookInv'
  BY <1>1, BooksStay
<1>5. IdleHoldNothing'
  BY <1>1, IdleStays DEF leaseVars, runVars
<1> QED BY <1>2, <1>3, <1>4, <1>5 DEF IInv

LEMMA LeaseKeeps ==
  ASSUME IInv, Expiry \/ \E w \in Workers : Renewal(w)
  PROVE  IInv'
<1>1. UNCHANGED <<settlementVars, runVars, held>>
  BY DEF Expiry, Renewal, expireAbandoned, expireUnderOwner, renewLost
<1>2. LeaseTypeOK'
  <2>1. CASE \E w \in Workers : Renewal(w)
    BY <2>1, LeaseStays DEF Renewal, IInv, FullType, TypeOK
  <2>2. CASE Expiry /\ expireAbandoned
    BY <2>2 DEF expireAbandoned, IInv, FullType, TypeOK, LeaseTypeOK, Tokens
  <2>3. CASE Expiry /\ expireUnderOwner
    <3>1. PICK v \in Workers : TRUE
      BY <2>3 DEF expireUnderOwner
    <3> QED BY <2>3, <3>1, LeaseStays DEF IInv, FullType, TypeOK
  <2> QED BY <2>1, <2>2, <2>3 DEF Expiry
<1>3. FullType'
  BY <1>1, <1>2 DEF IInv, FullType, TypeOK, settlementVars, runVars
<1>4. TxnInv'
  BY <1>1 DEF IInv, TxnInv, Phased, BackfillPhase, LastBatch, Unrecorded, Exclusive, settlementVars,
              runVars
<1>5. BookInv'
  BY <1>1, BooksStay DEF settlementVars
<1>6. IdleHoldNothing'
  BY <1>1, IdleStays DEF runVars
<1> QED BY <1>3, <1>4, <1>5, <1>6 DEF IInv

LEMMA SettleUsageKeeps ==
  ASSUME IInv, NEW a \in Attempts, SettleUsage(a)
  PROVE  IInv' /\ Books(UsageEvents(a))
<1> DEFINE N == UsageEvents(a)
           r == Event(attempt[a].window, "revenue", Revenue[a], a)
           c == Event(attempt[a].window, "upstream_cost", UpstreamCost[a], a)
<1>1. attempt[a].state = "unresolved" /\ attempt[a].window \in PlanWindows
  BY DEF SettleUsage, IInv, BookInv, AttemptsInPlans
<1>2. N \subseteq EventSet /\ IsFiniteSet(N) /\ \A e \in N : e.units > 0 /\ e.window = attempt[a].window
  <2>1. r \in EventSet /\ c \in EventSet
    BY <1>1, SettlementAssumption DEF EventSet, Event, Windows
  <2>2. N \subseteq {r, c} /\ \A e \in N : e.units > 0
    BY DEF UsageEvents
  <2>3. IsFiniteSet({r} \cup {c}) /\ {r} \cup {c} = {r, c}
    <3> HIDE DEF r, c
    <3> QED BY FS_Singleton, FS_Union
  <2>4. \A e \in {r, c} : e.window = attempt[a].window
    BY DEF Event
  <2> HIDE DEF N, r, c
  <2> QED BY <2>1, <2>2, <2>3, <2>4, FS_Subset
<1>3. Books(N)
  BY <1>2 DEF SettleUsage, Books
<1>4. Waits({e.window : e \in N})
  BY DEF SettleUsage
<1>5. UNCHANGED <<leaseVars, runVars, ended, deferred, paid, purchase, deadline, backfilled>>
  BY DEF SettleUsage
<1>6. /\ attempt' \in [Attempts -> [state : {"none", "arrived", "unresolved", "settled", "not_started"},
                                    window : PlanWindows \cup {Nobody}]]
      /\ AttemptsInPlans'
  BY <1>1 DEF SettleUsage, IInv, BookInv, AttemptsInPlans, FullType, TypeOK
<1> HIDE DEF N
<1>7. TxnInv' /\ PaidIsReleased' /\ BackfillFirst'
  BY <1>3, <1>4, <1>5, Outside
<1>8. FullType'
  BY <1>3, <1>5, <1>6, BooksTypes DEF IInv, FullType, TypeOK, LeaseTypeOK, leaseVars, runVars
<1>9. \A p \in Purchases : PurchaseBooked(p)'
  BY <1>1, <1>2, <1>3, <1>5, SettlementAssumption, OtherPurchases
<1>10. IdleHoldNothing'
  BY <1>5, IdleStays DEF leaseVars, runVars
<1> QED BY <1>3, <1>6, <1>7, <1>8, <1>9, <1>10 DEF IInv, BookInv, N

LEMMA PurchaseKeeps ==
  ASSUME IInv, NEW p \in Purchases, purchaseAuthorityProduct(p)
  PROVE  IInv' /\ Books({Sale(p)})
<1> DEFINE N == {Sale(p)}
<1>1. /\ purchase[p] = "none" /\ purchase' = [purchase EXCEPT ![p] = "bought"]
      /\ WindowEvents(events, p) = {} /\ window[p] = "absent"
      /\ p \in Windows /\ p \notin PlanWindows
  BY SettlementAssumption DEF purchaseAuthorityProduct, IInv, BookInv, PurchaseBooked, Windows
<1>2. {e.window : e \in N} = {p} /\ Sale(p) \in EventSet /\ Sale(p).units > 0 /\ Sale(p).window = p
  BY <1>1, SettlementAssumption DEF EventSet, Event, Sale
<1>3. Books(N)
  BY <1>1, <1>2, FS_Singleton DEF purchaseAuthorityProduct, Books, Bookable, Closed, Sale
<1>4. \A w \in Workers : Apart(txn[w], N)
  BY <1>1, <1>2 DEF Apart
<1>5. UNCHANGED <<leaseVars, runVars, ended, deferred, paid, attempt, deadline, backfilled>>
  BY DEF purchaseAuthorityProduct
<1>6. WindowEvents(events', p) = {Sale(p)} /\ window'[p] # "absent"
  BY <1>1, <1>2, <1>3 DEF Books, WindowEvents, Booked
<1>7. purchase' \in [Purchases -> {"none", "bought", "refunded"}]
  BY <1>1 DEF IInv, FullType, TypeOK
<1> HIDE DEF N
<1>8. TxnInv' /\ PaidIsReleased' /\ BackfillFirst'
  BY <1>3, <1>4, <1>5, Outside
<1>9. FullType'
  BY <1>3, <1>5, <1>7, BooksTypes DEF IInv, FullType, TypeOK, LeaseTypeOK, leaseVars, runVars
<1>10. ASSUME NEW q \in Purchases PROVE PurchaseBooked(q)'
  <2>1. CASE q = p
    BY <1>1, <1>6, <2>1 DEF PurchaseBooked, IInv, FullType, TypeOK
  <2>2. CASE q # p
    BY <1>1, <1>2, <1>3, <1>5, <2>2, OtherPurchases DEF IInv, FullType, TypeOK
  <2> QED BY <2>1, <2>2
<1>11. AttemptsInPlans' /\ IdleHoldNothing'
  BY <1>5, IdleStays DEF IInv, BookInv, AttemptsInPlans, leaseVars, runVars
<1> QED BY <1>3, <1>8, <1>9, <1>10, <1>11 DEF IInv, BookInv, N

LEMMA RefundKeeps ==
  ASSUME IInv, NEW p \in Purchases, refundAuthorityPurchase(p)
  PROVE  IInv' /\ Books({Reversal(p)})
<1> DEFINE N == {Reversal(p)}
<1>1. /\ purchase[p] = "bought" /\ purchase' = [purchase EXCEPT ![p] = "refunded"]
      /\ WindowEvents(events, p) = {Sale(p)} /\ window[p] \notin Closed /\ window[p] # "absent"
      /\ p \in Windows /\ p \notin PlanWindows
  BY SettlementAssumption
     DEF refundAuthorityPurchase, Refundable, Bookable, IInv, BookInv, PurchaseBooked, Windows
<1>2. {e.window : e \in N} = {p} /\ Reversal(p) \in EventSet /\ Reversal(p).units > 0
      /\ Reversal(p).window = p
  BY <1>1, SettlementAssumption DEF EventSet, Event, Reversal
<1>3. Books(N)
  <2>1. window' = Booked({p})
    BY <1>1 DEF refundAuthorityPurchase, Booked, IInv, FullType, TypeOK
  <2>2. Bookable({p}) /\ events' = events \cup N
    BY DEF refundAuthorityPurchase, Reversal
  <2>3. IsFiniteSet(N) /\ N \subseteq EventSet /\ \A e \in N : e.units > 0
    BY <1>2, FS_Singleton
  <2> QED BY <1>2, <2>1, <2>2, <2>3 DEF Books
<1>4. Waits({e.window : e \in N})
  BY <1>2 DEF refundAuthorityPurchase
<1>5. UNCHANGED <<leaseVars, runVars, ended, deferred, paid, attempt, deadline, backfilled>>
  BY DEF refundAuthorityPurchase
<1>6. WindowEvents(events', p) = {Sale(p), Reversal(p)}
  BY <1>1, <1>2, <1>3 DEF Books, WindowEvents
<1>7. purchase' \in [Purchases -> {"none", "bought", "refunded"}]
  BY <1>1 DEF IInv, FullType, TypeOK
<1>8. paid'[p] = 0
  BY <1>1, <1>5 DEF IInv, BookInv, PaidIsReleased, Closed
<1> HIDE DEF N
<1>9. TxnInv' /\ PaidIsReleased' /\ BackfillFirst'
  BY <1>3, <1>4, <1>5, Outside
<1>10. FullType'
  BY <1>3, <1>5, <1>7, BooksTypes DEF IInv, FullType, TypeOK, LeaseTypeOK, leaseVars, runVars
<1>11. ASSUME NEW q \in Purchases PROVE PurchaseBooked(q)'
  <2>1. CASE q = p
    BY <1>1, <1>6, <1>8, <2>1 DEF PurchaseBooked, IInv, FullType, TypeOK
  <2>2. CASE q # p
    BY <1>1, <1>2, <1>3, <1>5, <2>2, OtherPurchases DEF IInv, FullType, TypeOK
  <2> QED BY <2>1, <2>2
<1>12. AttemptsInPlans' /\ IdleHoldNothing'
  BY <1>5, IdleStays DEF IInv, BookInv, AttemptsInPlans, leaseVars, runVars
<1> QED BY <1>3, <1>9, <1>10, <1>11, <1>12 DEF IInv, BookInv, N

-----------------------------------------------------------------------------
(* The runs of the task.                                                   *)
LEMMA SameBatch ==
  ASSUME IInv, NEW w \in Workers
  PROVE  /\ batch = [batch EXCEPT ![w] = batch[w]] /\ batch[w] \in 0 .. MaxBatches
         /\ 0 \in 0 .. MaxBatches
         /\ pc[w] \notin {"backfilling", "releasing"} => txn = [txn EXCEPT ![w] = NoTxn]
BY SettlementAssumption DEF IInv, FullType, TypeOK, TxnInv, Phased

LEMMA StillIdle ==
  ASSUME IInv, NEW w \in Workers, NEW label, Goto(w, label), label # "idle" \/ held'[w] = NoToken,
         \A v \in Workers : v # w => held'[v] = held[v]
  PROVE  IdleHoldNothing'
BY DEF IInv, FullType, TypeOK, Goto, IdleHoldNothing

LEMMA FailKeeps ==
  ASSUME IInv, NEW w \in Workers, Fail(w)
  PROVE  IInv'
<1>1. /\ UNCHANGED <<leaseVars, settlementVars>> /\ pc' = [pc EXCEPT ![w] = "ending"]
      /\ txn' = [txn EXCEPT ![w] = NoTxn] /\ batch' = [batch EXCEPT ![w] = batch[w]]
      /\ batch[w] \in 0 .. MaxBatches
  BY SameBatch DEF Fail, Goto
<1>2. LeaseTypeOK'
  BY <1>1 DEF IInv, FullType, TypeOK, LeaseTypeOK, leaseVars, Tokens
<1>3. FullType' /\ TxnInv' /\ BookInv'
  BY <1>1, <1>2, RolledBack
<1>4. IdleHoldNothing'
  BY <1>1, StillIdle DEF Goto, leaseVars
<1> QED BY <1>3, <1>4 DEF IInv

LEMMA StartKeeps ==
  ASSUME IInv, NEW w \in Workers, Start(w)
  PROVE  IInv'
<1>1. held[w] = NoToken /\ acquire(w) /\ pc[w] = "idle"
  BY DEF Start, IInv, IdleHoldNothing
<1>2. LeaseTypeOK'
  BY <1>1, LeaseStays DEF IInv, FullType, TypeOK
<1>3. /\ UNCHANGED settlementVars /\ pc' = [pc EXCEPT ![w] = "backfill"]
      /\ txn' = [txn EXCEPT ![w] = NoTxn] /\ batch' = [batch EXCEPT ![w] = 0]
      /\ 0 \in 0 .. MaxBatches
  BY <1>1, SameBatch DEF Start, Goto
<1>4. FullType' /\ TxnInv' /\ BookInv'
  BY <1>2, <1>3, RolledBack
<1>5. \A v \in Workers : v # w => held'[v] = held[v]
  BY <1>1 DEF acquire, IInv, FullType, TypeOK, LeaseTypeOK
<1>6. IdleHoldNothing'
  BY <1>3, <1>5, StillIdle DEF Goto
<1> QED BY <1>4, <1>6 DEF IInv

LEMMA EndKeeps ==
  ASSUME IInv, NEW w \in Workers, End(w) \/ Crash(w)
  PROVE  IInv'
<1>1. LeaseTypeOK' /\ held' = [held EXCEPT ![w] = NoToken]
  <2>1. LeaseTypeOK'
    BY LeaseStays DEF End, Crash, IInv, FullType, TypeOK
  <2> QED BY <2>1 DEF End, Crash, release, forget
<1>2. /\ UNCHANGED settlementVars /\ pc' = [pc EXCEPT ![w] = "idle"]
      /\ txn' = [txn EXCEPT ![w] = NoTxn] /\ batch' = [batch EXCEPT ![w] = batch[w]]
      /\ batch[w] \in 0 .. MaxBatches
  BY SameBatch DEF End, Crash, Goto
<1>3. FullType' /\ TxnInv' /\ BookInv'
  BY <1>1, <1>2, RolledBack
<1>4. IdleHoldNothing'
  BY <1>1, <1>2, StillIdle DEF Goto, IInv, FullType, TypeOK, LeaseTypeOK
<1> QED BY <1>3, <1>4 DEF IInv

LEMMA GiveUpKeeps ==
  ASSUME IInv, NEW w \in Workers, GiveUpWaiting(w)
  PROVE  IInv'
<1>1. CASE Fail(w)
  BY <1>1, FailKeeps
<1>2. CASE ~ Fail(w)
  <2> DEFINE label == IF pc[w] = "releasing" THEN "release" ELSE "backfill"
  <2>1. /\ UNCHANGED <<leaseVars, settlementVars>> /\ Goto(w, label)
        /\ txn' = [txn EXCEPT ![w] = NoTxn] /\ batch' = [batch EXCEPT ![w] = batch[w]]
        /\ batch[w] \in 0 .. MaxBatches
    BY <1>2, SameBatch DEF GiveUpWaiting
  <2>2. label \in {"idle", "backfill", "release", "ending"} /\ (label = "release" => backfilled)
        /\ label # "idle"
    BY DEF IInv, TxnInv, BackfillPhase
  <2>3. LeaseTypeOK'
    BY <2>1 DEF IInv, FullType, TypeOK, LeaseTypeOK, leaseVars, Tokens
  <2>4. pc' = [pc EXCEPT ![w] = label]
    BY <2>1 DEF Goto
  <2> HIDE DEF label
  <2>5. FullType' /\ TxnInv' /\ BookInv'
    BY <2>1, <2>2, <2>3, <2>4, RolledBack
  <2>6. IdleHoldNothing'
    BY <2>1, <2>2, StillIdle DEF leaseVars
  <2> QED BY <2>5, <2>6 DEF IInv
<1> QED BY <1>1, <1>2

LEMMA MinOfTwo ==
  ASSUME NEW m \in Nat, NEW n \in Nat
  PROVE  Min({m, n}) = IF m <= n THEN m ELSE n
<1>1. IsFiniteSet({m} \cup {n}) /\ {m} \cup {n} = {m, n}
  BY FS_Singleton, FS_Union
<1>2. Min({m, n}) \in {m, n} /\ \A y \in {m, n} : Min({m, n}) <= y
  BY <1>1, SmallestIn
<1> QED BY <1>2

LEMMA UnrecordedFinite == IsFiniteSet(Unrecorded) /\ Cardinality(Unrecorded) \in Nat
BY SettlementAssumption, FS_Subset, FS_CardinalityType DEF Unrecorded

(* A batch that is not full is all there is.                               *)
LEMMA ShortBatch ==
  ASSUME NEW C \in SUBSET Unrecorded,
         Cardinality(C) = Min({BackfillSize, Cardinality(Unrecorded)})
  PROVE  Cardinality(C) \in Nat /\ (Cardinality(C) < BackfillSize => C = Unrecorded)
<1>1. BackfillSize \in Nat
  BY SettlementAssumption
<1>2. Cardinality(C) \in Nat
  BY UnrecordedFinite, FS_Subset, FS_CardinalityType
<1>3. Cardinality(C) < BackfillSize => Cardinality(C) = Cardinality(Unrecorded)
  BY <1>1, UnrecordedFinite, MinOfTwo
<1>4. Cardinality(C) = Cardinality(Unrecorded) => C = Unrecorded
  BY UnrecordedFinite, FS_Subset
<1> QED BY <1>2, <1>3, <1>4

LEMMA BeginBackfillKeeps ==
  ASSUME IInv, NEW w \in Workers, BeginBackfill(w)
  PROVE  IInv'
<1>1. pc[w] = "backfill" /\ batch[w] < MaxBatches /\ UNCHANGED <<leaseVars, settlementVars>>
  BY DEF BeginBackfill, MayLoop
<1>2. LeaseTypeOK'
  BY <1>1 DEF IInv, FullType, TypeOK, LeaseTypeOK, leaseVars, Tokens
<1>3. CASE backfilled
  <2>1. /\ Goto(w, "release") /\ pc' = [pc EXCEPT ![w] = "release"]
        /\ txn' = [txn EXCEPT ![w] = NoTxn] /\ batch' = [batch EXCEPT ![w] = 0]
        /\ 0 \in 0 .. MaxBatches
    BY <1>1, <1>3, SameBatch DEF BeginBackfill, Goto
  <2>2. FullType' /\ TxnInv' /\ BookInv'
    BY <1>1, <1>2, <1>3, <2>1, RolledBack
  <2>3. IdleHoldNothing'
    BY <1>1, <2>1, StillIdle DEF leaseVars
  <2> QED BY <2>2, <2>3 DEF IInv
<1>4. CASE ~ backfilled
  <2>1. PICK C \in SUBSET Unrecorded :
          /\ Cardinality(C) = Min({BackfillSize, Cardinality(Unrecorded)})
          /\ txn' = [txn EXCEPT ![w] = [NoTxn EXCEPT !.todo = C, !.selected = Cardinality(C)]]
    BY <1>4 DEF BeginBackfill
  <2>2. Cardinality(C) \in Nat /\ (Cardinality(C) < BackfillSize => C = Unrecorded)
    BY <2>1, ShortBatch
  <2> DEFINE t == [NoTxn EXCEPT !.todo = C, !.selected = Cardinality(C)]
  <2>3. /\ t \in TxnSet /\ t.booked = {} /\ t.locked = {} /\ t.todo = C /\ t.pays = {} /\ t.voids = {}
        /\ t.selected = Cardinality(C)
    BY <2>2, NoTxnIs DEF NoTxn, TxnSet, Unrecorded
  <2>4. /\ Goto(w, "backfilling") /\ pc' = [pc EXCEPT ![w] = "backfilling"]
        /\ txn' = [txn EXCEPT ![w] = t] /\ batch' = [batch EXCEPT ![w] = batch[w]]
        /\ batch[w] \in 0 .. MaxBatches
    BY <1>4, <2>1, SameBatch DEF BeginBackfill, Goto
  <2>5. txn'[w] = t /\ pc'[w] = "backfilling" /\ batch'[w] = batch[w]
    BY <2>4 DEF IInv, FullType, TypeOK
  <2> HIDE DEF t
  <2>6. Phased(w)'
    BY <1>1, <2>3, <2>5 DEF Phased
  <2>7. BackfillPhase(w)'
    BY <1>1, <2>2, <2>3, <2>5 DEF BackfillPhase, LastBatch, Unrecorded, settlementVars
  <2>8. PayIsDue(t, window, events) /\ BookingIsWelcome(t, window) /\ IsFiniteSet(t.booked)
    BY <2>3, FS_EmptySet DEF PayIsDue, BookingIsWelcome
  <2>9. \A u \in Workers : u # w => t.locked \cap txn[u].locked = {}
    BY <2>3
  <2>10. FullType' /\ TxnInv' /\ BookInv'
    BY <1>1, <1>2, <2>3, <2>4, <2>6, <2>7, <2>8, <2>9, OneRun
  <2>11. IdleHoldNothing'
    BY <1>1, <2>4, StillIdle DEF leaseVars
  <2> QED BY <2>10, <2>11 DEF IInv
<1> QED BY <1>3, <1>4

LEMMA BeginReleaseKeeps ==
  ASSUME IInv, NEW w \in Workers, BeginRelease(w)
  PROVE  IInv'
<1>1. /\ pc[w] = "release" /\ batch[w] < MaxBatches /\ UNCHANGED <<leaseVars, settlementVars, batch>>
      /\ backfilled
  BY DEF BeginRelease, MayLoop, IInv, TxnInv, BackfillPhase
<1>2. LeaseTypeOK'
  BY <1>1 DEF IInv, FullType, TypeOK, LeaseTypeOK, leaseVars, Tokens
<1>3. PICK C \in SUBSET Due :
        /\ Cardinality(C) = Min({BatchSize, Cardinality(Due)})
        /\ txn' = [txn EXCEPT ![w] = [NoTxn EXCEPT !.todo = C, !.selected = Cardinality(C)]]
  BY DEF BeginRelease
<1>4. C \subseteq Windows /\ Cardinality(C) \in Nat
  <2>1. Due \subseteq Windows
    BY DEF Due, IInv, FullType, TypeOK
  <2>2. IsFiniteSet(Windows)
    BY SettlementAssumption, FS_Union DEF Windows
  <2> QED BY <2>1, <2>2, FS_Subset, FS_CardinalityType
<1> DEFINE t == [NoTxn EXCEPT !.todo = C, !.selected = Cardinality(C)]
<1>5. /\ t \in TxnSet /\ t.booked = {} /\ t.locked = {} /\ t.todo = C /\ t.pays = {} /\ t.voids = {}
  BY <1>4, NoTxnIs DEF NoTxn, TxnSet
<1>6. /\ Goto(w, "releasing") /\ pc' = [pc EXCEPT ![w] = "releasing"]
      /\ txn' = [txn EXCEPT ![w] = t] /\ batch' = [batch EXCEPT ![w] = batch[w]]
      /\ batch[w] \in 0 .. MaxBatches
  BY <1>1, <1>3, SameBatch DEF BeginRelease, Goto
<1>7. txn'[w] = t /\ pc'[w] = "releasing" /\ batch'[w] = batch[w]
  BY <1>6 DEF IInv, FullType, TypeOK
<1> HIDE DEF t
<1>8. Phased(w)'
  BY <1>1, <1>4, <1>5, <1>7 DEF Phased
<1>9. BackfillPhase(w)'
  BY <1>1, <1>7 DEF BackfillPhase, settlementVars
<1>10. PayIsDue(t, window, events) /\ BookingIsWelcome(t, window) /\ IsFiniteSet(t.booked)
  BY <1>5, FS_EmptySet DEF PayIsDue, BookingIsWelcome
<1>11. \A u \in Workers : u # w => t.locked \cap txn[u].locked = {}
  BY <1>5
<1>12. FullType' /\ TxnInv' /\ BookInv'
  BY <1>1, <1>2, <1>5, <1>6, <1>8, <1>9, <1>10, <1>11, OneRun
<1>13. IdleHoldNothing'
  BY <1>1, <1>6, StillIdle DEF leaseVars
<1> QED BY <1>12, <1>13 DEF IInv

LEMMA TrancheEventsAre ==
  ASSUME NEW l \in Legacy
  PROVE  /\ IsFiniteSet(TrancheEvents(l)) /\ TrancheEvents(l) \subseteq EventSet
         /\ TrancheWindows(l) \subseteq PlanWindows
         /\ \A e \in TrancheEvents(l) : e.window \in TrancheWindows(l) /\ e.units > 0 /\ e.source = l
         /\ TrancheWindows(l) # {} => TrancheEvents(l) # {}
<1> DEFINE S == TrancheWindows(l)
           T == TrancheEvents(l)
<1>1. S \subseteq PlanWindows /\ IsFiniteSet(S)
  BY SettlementAssumption, FS_Subset DEF TrancheWindows
<1>2. [x \in S |-> Event(x, "revenue", Tranche[l][x], l)] \in Surjection(S, T)
  BY DEF Surjection, TrancheEvents
<1>3. \A e \in T : e \in EventSet /\ e.window \in S /\ e.units > 0 /\ e.source = l
  BY SettlementAssumption DEF TrancheEvents, TrancheWindows, Event, EventSet, Windows
<1>4. S # {} => T # {}
  BY DEF TrancheEvents
<1> HIDE DEF S, T
<1>5. IsFiniteSet(T)
  BY <1>1, <1>2, FS_Surjection
<1> QED BY <1>1, <1>3, <1>4, <1>5 DEF S, T

LEMMA RecordKeeps ==
  ASSUME IInv, NEW w \in Workers, NEW l \in Legacy, recordPrepaidSellerRevenue(w, l)
  PROVE  IInv'
<1>1. CASE Fail(w)
  BY <1>1, FailKeeps
<1>2. CASE ~ Fail(w)
  <2> DEFINE o == txn[w]
             B == IF l \in Unrecorded THEN TrancheEvents(l) ELSE {}
             t == [o EXCEPT !.todo = @ \ {l}, !.locked = @ \cup TrancheWindows(l), !.booked = @ \cup B]
  <2>1. /\ pc[w] = "backfilling" /\ l \in o.todo /\ \A x \in TrancheWindows(l) : ~WindowLocked(x, w)
        /\ l \in Unrecorded => Bookable(TrancheWindows(l))
        /\ txn' = [txn EXCEPT ![w] = t]
        /\ UNCHANGED <<leaseVars, settlementVars, pc, batch>>
    <3>1. /\ pc[w] = "backfilling" /\ l \in o.todo /\ \A x \in TrancheWindows(l) : ~WindowLocked(x, w)
          /\ Held(w) /\ (l \in Unrecorded => Bookable(TrancheWindows(l)))
      BY <1>2 DEF recordPrepaidSellerRevenue
    <3>2. txn' = [txn EXCEPT ![w] = t] /\ UNCHANGED <<leaseVars, settlementVars, pc, batch>>
      BY <3>1 DEF recordPrepaidSellerRevenue
    <3> QED BY <3>1, <3>2
  <2>2. o \in TxnSet /\ IsFiniteSet(o.booked) /\ PayIsDue(o, window, events) /\ BookingIsWelcome(o, window)
        /\ o.pays = {} /\ o.voids = {} /\ batch[w] < MaxBatches
    BY <2>1 DEF IInv, FullType, TxnInv, Phased
  <2>3. /\ IsFiniteSet(B) /\ B \subseteq EventSet /\ TrancheWindows(l) \subseteq PlanWindows
        /\ \A e \in B : e.window \in TrancheWindows(l) /\ e.units > 0 /\ l \in Unrecorded
    BY TrancheEventsAre, FS_EmptySet
  <2>4. /\ t \in TxnSet /\ t.todo = o.todo \ {l} /\ t.locked = o.locked \cup TrancheWindows(l)
        /\ t.booked = o.booked \cup B /\ t.pays = {} /\ t.voids = {} /\ t.selected = o.selected
    BY <2>2, <2>3 DEF TxnSet, Windows
  <2>5. IsFiniteSet(t.booked)
    <3> HIDE DEF t, o, B
    <3>1. IsFiniteSet(o.booked) /\ IsFiniteSet(B)
      BY <2>2, <2>3
    <3>2. IsFiniteSet(o.booked \cup B)
      BY <3>1, FS_Union
    <3> QED BY <2>4, <3>2
  <2>6. PayIsDue(t, window, events)
    BY <2>4 DEF PayIsDue
  <2>7. BookingIsWelcome(t, window)
    BY <2>1, <2>2, <2>3, <2>4 DEF BookingIsWelcome, Bookable
  <2>8. txn'[w] = t /\ pc'[w] = "backfilling" /\ batch'[w] = batch[w]
    BY <2>1 DEF IInv, FullType, TypeOK
  <2>9. BackfillPhase(w)'
    <3>1. LastBatch(w)' <=> LastBatch(w)
      BY <2>4, <2>8 DEF LastBatch
    <3>2. LastBatch(w) => \A k \in Unrecorded : k \in o.todo \/ TrancheEvents(k) \subseteq o.booked
      BY <2>1 DEF IInv, TxnInv, BackfillPhase
    <3>3. Unrecorded' = Unrecorded
      BY <2>1 DEF Unrecorded, settlementVars
    <3>4. LastBatch(w) => \A k \in Unrecorded : k \in t.todo \/ TrancheEvents(k) \subseteq t.booked
      <4> HIDE DEF t, o
      <4> QED BY <2>4, <3>2
    <3> QED BY <2>8, <3>1, <3>3, <3>4 DEF BackfillPhase
  <2> HIDE DEF B, t
  <2>10. Phased(w)'
    BY <2>2, <2>4, <2>8 DEF Phased
  <2>11. \A u \in Workers : u # w => t.locked \cap txn[u].locked = {}
    BY <2>1, <2>4 DEF WindowLocked, IInv, TxnInv, Exclusive
  <2>12. LeaseTypeOK'
    BY <2>1 DEF IInv, FullType, TypeOK, LeaseTypeOK, leaseVars, Tokens
  <2>13. pc' = [pc EXCEPT ![w] = "backfilling"] /\ batch' = [batch EXCEPT ![w] = batch[w]]
         /\ batch[w] \in 0 .. MaxBatches
    BY <2>1, SameBatch DEF IInv, FullType, TypeOK
  <2>14. FullType' /\ TxnInv' /\ BookInv'
    BY <2>1, <2>4, <2>5, <2>6, <2>7, <2>9, <2>10, <2>11, <2>12, <2>13, OneRun
  <2>15. IdleHoldNothing'
    BY <2>1, IdleStays DEF leaseVars
  <2> QED BY <2>14, <2>15 DEF IInv
<1> QED BY <1>1, <1>2

(* One candidate is looked at: whatever comes of it, its window is locked  *)
(* and nothing else of the transaction changes.                            *)
LEMMA LookedAt ==
  ASSUME IInv, NEW w \in Workers, NEW x \in Windows,
         pc[w] = "releasing", x \in txn[w].todo, ~WindowLocked(x, w),
         NEW t \in TxnSet, txn' = [txn EXCEPT ![w] = t],
         t.todo = txn[w].todo \ {x}, t.locked = txn[w].locked \cup {x}, t.booked = txn[w].booked,
         UNCHANGED <<leaseVars, settlementVars, pc, batch>>,
         PayIsDue(t, window, events)
  PROVE  IInv'
<1>1. txn'[w] = t /\ pc'[w] = "releasing" /\ batch'[w] = batch[w] /\ batch[w] < MaxBatches
      /\ txn[w].booked = {} /\ txn[w].todo \subseteq Windows
  BY DEF IInv, FullType, TypeOK, TxnInv, Phased
<1>2. Phased(w)'
  BY <1>1 DEF Phased
<1>3. BackfillPhase(w)'
  BY <1>1 DEF IInv, TxnInv, BackfillPhase, settlementVars
<1>4. \A u \in Workers : u # w => t.locked \cap txn[u].locked = {}
  BY DEF WindowLocked, IInv, TxnInv, Exclusive
<1>5. LeaseTypeOK'
  BY DEF IInv, FullType, TypeOK, LeaseTypeOK, leaseVars, Tokens
<1>6. pc' = [pc EXCEPT ![w] = "releasing"] /\ batch' = [batch EXCEPT ![w] = batch[w]]
      /\ batch[w] \in 0 .. MaxBatches
  BY SameBatch DEF IInv, FullType, TypeOK
<1>7. BookingIsWelcome(t, window) /\ IsFiniteSet(t.booked)
  BY <1>1, FS_EmptySet DEF BookingIsWelcome
<1>8. FullType' /\ TxnInv' /\ BookInv'
  BY <1>2, <1>3, <1>4, <1>5, <1>6, <1>7, OneRun
<1>9. IdleHoldNothing'
  BY IdleStays DEF leaseVars
<1> QED BY <1>8, <1>9 DEF IInv

LEMMA ReleaseKeeps ==
  ASSUME IInv, NEW w \in Workers, NEW x \in Windows, ReleaseWindow(w, x)
  PROVE  IInv'
<1> DEFINE o == txn[w]
           isPlan == x \in PlanWindows
           locking == [o EXCEPT !.todo = @ \ {x}, !.locked = @ \cup {x}]
           writing == [locking EXCEPT !.sub = @ \/ isPlan]
           net == NetOf(events, x) - paid[x]
           deferring == [writing EXCEPT !.defers = @ \cup {x}]
           voiding == [writing EXCEPT !.voids = @ \cup {x}]
           paying == [writing EXCEPT !.pays = @ \cup {<<x, net>>}]
           Write(t) == txn' = [txn EXCEPT ![w] = t] /\ UNCHANGED <<leaseVars, settlementVars, pc, batch>>
<1>1. pc[w] = "releasing" /\ x \in o.todo /\ ~WindowLocked(x, w)
  BY DEF ReleaseWindow
<1>2. \/ Write(locking)
      \/ Fail(w)
      \/ StillOpen(x) /\ Write(deferring)
      \/ StillOpen(x) /\ net <= 0 /\ Write(voiding)
      \/ StillOpen(x) /\ net > 0 /\ Write(paying)
  BY DEF ReleaseWindow
<1>3. o \in TxnSet /\ PayIsDue(o, window, events)
  BY DEF IInv, FullType, TxnInv
<1>4. NetOf(events, x) \in Int /\ (StillOpen(x) => net = NetOf(events, x))
  <2>1. NetOf(events, x) \in Int
    BY NetInt DEF IInv, FullType
  <2>2. StillOpen(x) => paid[x] = 0
    BY DEF StillOpen, IInv, BookInv, PaidIsReleased
  <2> QED BY <2>1, <2>2
<1>5. ASSUME NEW t \in TxnSet, Write(t), t.todo = o.todo \ {x}, t.locked = o.locked \cup {x},
             t.booked = o.booked, PayIsDue(t, window, events)
      PROVE  IInv'
  BY <1>1, <1>5, LookedAt
<1>6. /\ locking \in TxnSet /\ locking.todo = o.todo \ {x} /\ locking.locked = o.locked \cup {x}
      /\ locking.booked = o.booked /\ locking.pays = o.pays /\ locking.voids = o.voids
  BY <1>3 DEF TxnSet
<1>7. /\ writing \in TxnSet /\ writing.todo = o.todo \ {x} /\ writing.locked = o.locked \cup {x}
      /\ writing.booked = o.booked /\ writing.pays = o.pays /\ writing.voids = o.voids
  <2> HIDE DEF locking
  <2> QED BY <1>6 DEF TxnSet
<1> HIDE DEF locking, writing
<1>8. CASE Write(locking)
  <2>1. PayIsDue(locking, window, events)
    BY <1>3, <1>6 DEF PayIsDue
  <2> QED BY <1>5, <1>6, <1>8, <2>1
<1>9. CASE Fail(w)
  BY <1>9, FailKeeps
<1>10. CASE Write(deferring)
  <2>1. /\ deferring \in TxnSet /\ deferring.todo = o.todo \ {x} /\ deferring.locked = o.locked \cup {x}
        /\ deferring.booked = o.booked /\ deferring.pays = o.pays /\ deferring.voids = o.voids
    BY <1>7 DEF TxnSet
  <2> HIDE DEF deferring
  <2>2. PayIsDue(deferring, window, events)
    BY <1>3, <2>1 DEF PayIsDue
  <2> QED BY <1>5, <1>10, <2>1, <2>2
<1>11. CASE StillOpen(x) /\ net <= 0 /\ Write(voiding)
  <2>1. /\ voiding \in TxnSet /\ voiding.todo = o.todo \ {x} /\ voiding.locked = o.locked \cup {x}
        /\ voiding.booked = o.booked /\ voiding.pays = o.pays /\ voiding.voids = o.voids \cup {x}
    BY <1>7 DEF TxnSet
  <2> HIDE DEF voiding
  <2>2. PayIsDue(voiding, window, events)
    BY <1>1, <1>3, <1>4, <1>11, <2>1 DEF PayIsDue, StillOpen
  <2> QED BY <1>5, <1>11, <2>1, <2>2
<1>12. CASE StillOpen(x) /\ net > 0 /\ Write(paying)
  <2>1. net \in Nat
    BY <1>4, <1>12
  <2>2. /\ paying \in TxnSet /\ paying.todo = o.todo \ {x} /\ paying.locked = o.locked \cup {x}
        /\ paying.booked = o.booked /\ paying.pays = o.pays \cup {<<x, net>>} /\ paying.voids = o.voids
    <3> HIDE DEF net
    <3> QED BY <1>7, <2>1 DEF TxnSet
  <2> HIDE DEF paying
  <2>3. PayIsDue(paying, window, events)
    BY <1>1, <1>3, <1>4, <1>12, <2>2 DEF PayIsDue, StillOpen
  <2> QED BY <1>5, <1>12, <2>2, <2>3
<1> QED BY <1>2, <1>8, <1>9, <1>10, <1>11, <1>12

(* A batch commits: what it booked was still welcome, and a short batch    *)
(* leaves nothing unrecorded.                                              *)
LEMMA CommitBackfillKeeps ==
  ASSUME IInv, NEW w \in Workers, CommitBackfill(w)
  PROVE  IInv' /\ (Fail(w) \/ Books(txn[w].booked))
<1>1. CASE Fail(w)
  BY <1>1, FailKeeps
<1>2. CASE ~ Fail(w)
  <2> DEFINE N == txn[w].booked
             last == LastBatch(w)
             label == IF last THEN "release" ELSE "backfill"
             n == IF last THEN 0 ELSE batch[w] + 1
  <2>1. /\ pc[w] = "backfilling" /\ txn[w].todo = {}
        /\ events' = events \cup N /\ window' = Booked({e.window : e \in N})
        /\ backfilled' = (backfilled \/ last)
        /\ txn' = [txn EXCEPT ![w] = NoTxn]
        /\ pc' = [pc EXCEPT ![w] = label]
        /\ batch' = [batch EXCEPT ![w] = n]
        /\ UNCHANGED <<leaseVars, ended, deferred, paid, attempt, purchase, deadline>>
    <3>1. ~ (last /\ ~Held(w))
      BY <1>2 DEF CommitBackfill
    <3> QED BY <3>1 DEF CommitBackfill, Goto
  <2>2. N \subseteq EventSet /\ IsFiniteSet(N) /\ BookingIsWelcome(txn[w], window) /\ batch[w] < MaxBatches
    BY <2>1 DEF IInv, FullType, TxnSet, TxnInv, Phased
  <2>3. /\ \A e \in N : e.window \in txn[w].locked /\ e.window \in PlanWindows
                        /\ window[e.window] \notin Closed /\ e.units > 0
    BY <2>2 DEF BookingIsWelcome
  <2>4. Books(N)
    BY <2>1, <2>2, <2>3 DEF Books, Bookable
  <2>5. \A u \in Workers : u # w => Apart(txn[u], N)
    BY <2>3 DEF Apart, IInv, TxnInv, Exclusive
  <2>6. /\ txn' \in [Workers -> TxnSet] /\ txn'[w] = NoTxn /\ pc'[w] = label
        /\ \A u \in Workers : u # w => txn'[u] = txn[u] /\ pc'[u] = pc[u] /\ batch'[u] = batch[u]
    BY <2>1, NoTxnIs DEF IInv, FullType, TypeOK
  <2>7. n \in 0 .. MaxBatches
    BY <2>2, SettlementAssumption DEF IInv, FullType, TypeOK
  <2>8. /\ PaidIsReleased' /\ Unrecorded' \subseteq Unrecorded
        /\ (\E x \in Windows : window'[x] \in Closed) => backfilled
        /\ backfilled => \A l \in Unrecorded' : TrancheWindows(l) = {}
    BY <2>1, <2>4, BooksKeep
  <2>9. last => \A l \in Unrecorded' : TrancheWindows(l) = {}
    <3>1. SUFFICES ASSUME last, NEW l \in Unrecorded', TrancheWindows(l) # {} PROVE FALSE
      OBVIOUS
    <3>2. l \in Unrecorded /\ l \in Legacy
      BY <2>8 DEF Unrecorded
    <3>3. TrancheEvents(l) \subseteq N
      BY <2>1, <3>1, <3>2 DEF IInv, TxnInv, BackfillPhase
    <3>4. PICK e \in TrancheEvents(l) : e.source = l
      BY <3>1, <3>2, TrancheEventsAre
    <3>5. e \in events'
      BY <2>1, <3>3
    <3> QED BY <3>4, <3>5 DEF Unrecorded
  <2>10. last \in BOOLEAN /\ backfilled \in BOOLEAN
    BY DEF LastBatch, IInv, FullType, TypeOK
  <2> HIDE DEF last
  <2>11. BackfillFirst'
    BY <2>1, <2>8, <2>9, <2>10 DEF BackfillFirst
  <2>12. ASSUME NEW u \in Workers PROVE Phased(u)' /\ BackfillPhase(u)'
    <3>1. CASE u = w
      BY <2>1, <2>6, <2>10, <3>1 DEF Phased, BackfillPhase
    <3>2. CASE u # w
      BY <2>1, <2>6, <2>8, <2>10, <3>2 DEF IInv, TxnInv, Phased, BackfillPhase, LastBatch
    <3> QED BY <3>1, <3>2
  <2> HIDE DEF label, n, N
  <2>13. ASSUME NEW u \in Workers
         PROVE  PayIsDue(txn'[u], window', events') /\ BookingIsWelcome(txn'[u], window')
    <3>1. CASE u = w
      BY <2>6, <3>1, NoTxnIsDue
    <3>2. CASE u # w
      BY <2>4, <2>5, <2>6, <3>2, BooksWait
    <3> QED BY <3>1, <3>2
  <2>14. Exclusive'
    BY <2>6 DEF IInv, TxnInv, Exclusive, NoTxn
  <2>15. FullType'
    <3>1. /\ \A u \in Workers : IsFiniteSet(txn'[u].booked)
          /\ \A u \in Workers : txn'[u].locked \subseteq Windows /\ txn'[u].sub \in BOOLEAN
      BY <2>6, NoTxnIs DEF IInv, FullType, TxnSet
    <3>2. /\ pc' \in [Workers -> {"idle", "backfill", "backfilling", "release", "releasing", "ending"}]
          /\ batch' \in [Workers -> 0 .. MaxBatches] /\ backfilled' \in BOOLEAN
      BY <2>1, <2>7, <2>10 DEF label, IInv, FullType, TypeOK
    <3>3. LeaseTypeOK'
      BY <2>1 DEF IInv, FullType, TypeOK, LeaseTypeOK, leaseVars, Tokens
    <3>4. TypeOK'
      BY <2>1, <2>4, <3>1, <3>2, <3>3, BooksTypes DEF IInv, FullType, TypeOK
    <3> QED BY <2>4, <2>6, <3>1, <3>4, BooksTypes DEF FullType
  <2>16. \A p \in Purchases : PurchaseBooked(p)'
    BY <2>1, <2>3, <2>4, SettlementAssumption, OtherPurchases
  <2>17. AttemptsInPlans'
    BY <2>1 DEF IInv, BookInv, AttemptsInPlans
  <2>18. IdleHoldNothing'
    BY <2>1, StillIdle DEF label, Goto, leaseVars
  <2> QED BY <2>4, <2>8, <2>11, <2>12, <2>13, <2>14, <2>15, <2>16, <2>17, <2>18
          DEF IInv, TxnInv, BookInv, N
<1> QED BY <1>1, <1>2

(* What a release credits to a window is what the window holds.            *)
LEMMA PaidAfterIs ==
  ASSUME IInv, NEW w \in Workers, NEW x \in Windows
  PROVE  PaidAfter(w)[x] = IF x \in Payees(txn[w]) THEN NetOf(events, x) ELSE paid[x]
<1> DEFINE S == {p \in txn[w].pays : p[1] = x}
<1>1. PaidAfter(w)[x] = paid[x] + SecondBy(S)
  BY DEF PaidAfter, SecondBy
<1>2. txn[w] \in TxnSet /\ PayIsDue(txn[w], window, events) /\ paid[x] \in Nat
  BY DEF IInv, FullType, TypeOK, TxnInv
<1>3. CASE x \notin Payees(txn[w])
  <2>1. S = {}
    BY <1>3 DEF Payees
  <2> HIDE DEF S
  <2> QED BY <1>1, <1>2, <1>3, <2>1, SecondOfNone
<1>4. CASE x \in Payees(txn[w])
  <2>1. PICK p \in txn[w].pays : p[1] = x
    BY <1>4 DEF Payees
  <2>2. p[2] = NetOf(events, x) /\ p[2] \in Nat /\ window[x] = "open"
    BY <1>2, <2>1 DEF PayIsDue, TxnSet
  <2>3. \A q \in S : q = p
    BY <1>2, <2>1, <2>2 DEF PayIsDue, TxnSet
  <2>4. S = {p}
    BY <2>1, <2>3
  <2>5. paid[x] = 0
    BY <2>2 DEF IInv, BookInv, PaidIsReleased
  <2> HIDE DEF S
  <2>6. SecondBy(S) = p[2]
    BY <2>2, <2>4, SecondOfOne
  <2> QED BY <1>1, <1>4, <2>2, <2>5, <2>6
<1> QED BY <1>3, <1>4

(* The windows a transaction closes, and the ones it leaves alone.         *)
LEMMA CommitReleaseIs ==
  ASSUME IInv, NEW w \in Workers, CommitRelease(w)
  PROVE  /\ \A x \in Payees(txn[w]) : /\ x \in Windows /\ x \in txn[w].locked /\ window[x] = "open"
                                      /\ NetOf(events, x) \in Nat /\ NetOf(events, x) > 0
                                      /\ window'[x] = "released" /\ paid'[x] = NetOf(events, x)
         /\ \A x \in txn[w].voids : /\ x \in Windows /\ x \in txn[w].locked /\ window[x] = "open"
                                    /\ NetOf(events, x) <= 0 /\ x \notin Payees(txn[w])
                                    /\ window'[x] = "non_positive" /\ paid'[x] = paid[x]
         /\ \A x \in Windows : x \notin Payees(txn[w]) /\ x \notin txn[w].voids =>
              window'[x] = window[x] /\ paid'[x] = paid[x]
         /\ window' \in [Windows -> {"absent", "open"} \cup Closed]
         /\ paid' \in [Windows -> Nat]
<1> DEFINE t == txn[w]
<1>1. t \in TxnSet /\ PayIsDue(t, window, events) /\ paid \in [Windows -> Nat]
      /\ window \in [Windows -> {"absent", "open"} \cup Closed]
  BY DEF IInv, FullType, TypeOK, TxnInv
<1>2. /\ window' = [x \in Windows |-> IF x \in Payees(t) THEN "released"
                                      ELSE IF x \in t.voids THEN "non_positive" ELSE window[x]]
      /\ paid' = PaidAfter(w)
  BY DEF CommitRelease, Payees
<1>3. \A x \in Windows : paid'[x] = IF x \in Payees(t) THEN NetOf(events, x) ELSE paid[x]
  BY <1>2, PaidAfterIs
<1> HIDE DEF t
<1>4. \A x \in Payees(t) : /\ x \in Windows /\ x \in t.locked /\ window[x] = "open" /\ x \notin t.voids
                           /\ NetOf(events, x) \in Nat /\ NetOf(events, x) > 0
  <2>1. SUFFICES ASSUME NEW p \in t.pays
                 PROVE  /\ p[1] \in Windows /\ p[1] \in t.locked /\ window[p[1]] = "open"
                        /\ p[1] \notin t.voids
                        /\ NetOf(events, p[1]) \in Nat /\ NetOf(events, p[1]) > 0
    BY DEF Payees
  <2>2. p[1] \in Windows /\ p[2] \in Nat
    BY <1>1 DEF TxnSet
  <2> QED BY <1>1, <2>2 DEF PayIsDue
<1>5. \A x \in t.voids : x \in Windows /\ x \in t.locked /\ window[x] = "open" /\ NetOf(events, x) <= 0
  BY <1>1 DEF PayIsDue, TxnSet
<1>6. window' \in [Windows -> {"absent", "open"} \cup Closed]
  BY <1>1, <1>2 DEF Closed
<1>7. paid' \in [Windows -> Nat]
  <2>1. paid' = [x \in Windows |-> paid'[x]]
    BY <1>2 DEF PaidAfter
  <2> QED BY <1>1, <1>3, <1>4, <2>1
<1> QED BY <1>2, <1>3, <1>4, <1>5, <1>6, <1>7 DEF t

LEMMA CommitReleaseKeeps ==
  ASSUME IInv, NEW w \in Workers, CommitRelease(w)
  PROVE  IInv'
<1> DEFINE t == txn[w]
           more == t.selected = BatchSize /\ (t.pays # {} \/ t.defers # {})
           label == IF more THEN "release" ELSE "ending"
           n == IF more THEN batch[w] + 1 ELSE batch[w]
<1>1. /\ pc[w] = "releasing" /\ deferred' = deferred \cup t.defers
      /\ txn' = [txn EXCEPT ![w] = NoTxn]
      /\ pc' = [pc EXCEPT ![w] = label] /\ batch' = [batch EXCEPT ![w] = n]
      /\ UNCHANGED <<leaseVars, ended, events, attempt, purchase, deadline, backfilled>>
  BY DEF CommitRelease, Goto
<1>2. backfilled /\ batch[w] < MaxBatches /\ t \in TxnSet
  BY <1>1 DEF IInv, FullType, TxnInv, Phased, BackfillPhase
<1>3. /\ txn' \in [Workers -> TxnSet] /\ txn'[w] = NoTxn /\ pc'[w] = label
      /\ \A u \in Workers : u # w => txn'[u] = txn[u] /\ pc'[u] = pc[u] /\ batch'[u] = batch[u]
  BY <1>1, NoTxnIs DEF IInv, FullType, TypeOK
<1>4. n \in 0 .. MaxBatches
  BY <1>2, SettlementAssumption DEF IInv, FullType, TypeOK
<1>5. ASSUME NEW u \in Workers PROVE Phased(u)' /\ BackfillPhase(u)'
  <2>1. CASE u = w
    BY <1>1, <1>2, <1>3, <2>1 DEF Phased, BackfillPhase
  <2>2. CASE u # w
    BY <1>1, <1>3, <2>2 DEF IInv, TxnInv, Phased, BackfillPhase, LastBatch, Unrecorded
  <2> QED BY <2>1, <2>2
<1>6. Exclusive'
  BY <1>3 DEF IInv, TxnInv, Exclusive, NoTxn
<1>7. ASSUME NEW u \in Workers
      PROVE  PayIsDue(txn'[u], window', events') /\ BookingIsWelcome(txn'[u], window')
  <2>1. CASE u = w
    BY <1>3, <2>1, NoTxnIsDue
  <2>2. CASE u # w
    <3> DEFINE o == txn[u]
    <3>1. o \in TxnSet /\ PayIsDue(o, window, events) /\ BookingIsWelcome(o, window)
          /\ o.locked \cap t.locked = {}
      BY <2>2 DEF IInv, FullType, TxnInv, Exclusive
    <3>2. o.locked \subseteq Windows
      BY <3>1 DEF TxnSet
    <3>3. \A x \in o.locked : window'[x] = window[x]
      BY <3>1, <3>2, CommitReleaseIs
    <3>4. events' = events /\ txn'[u] = o
      BY <1>1, <1>3, <2>2
    <3> HIDE DEF o
    <3>5. PayIsDue(o, window', events)
      BY <3>1, <3>3 DEF PayIsDue
    <3>6. BookingIsWelcome(o, window')
      BY <3>1, <3>3 DEF BookingIsWelcome
    <3> QED BY <3>4, <3>5, <3>6
  <2> QED BY <2>1, <2>2
<1>8. PaidIsReleased'
  <2>1. ASSUME NEW x \in Windows, paid'[x] # 0 PROVE window'[x] = "released"
    <3>1. CASE x \in Payees(txn[w])
      BY <3>1, CommitReleaseIs
    <3>2. CASE x \notin Payees(txn[w])
      <4>1. paid'[x] = paid[x]
        BY <3>2, CommitReleaseIs
      <4>2. window[x] = "released"
        BY <2>1, <4>1 DEF IInv, BookInv, PaidIsReleased
      <4>3. x \notin txn[w].voids
        BY <4>2, CommitReleaseIs
      <4> QED BY <3>2, <4>2, <4>3, CommitReleaseIs
    <3> QED BY <3>1, <3>2
  <2> QED BY <2>1 DEF PaidIsReleased
<1>9. ASSUME NEW p \in Purchases PROVE PurchaseBooked(p)'
  <2>1. p \in Windows /\ purchase[p] \in {"none", "bought", "refunded"} /\ PurchaseBooked(p)
    BY DEF Windows, IInv, FullType, TypeOK, BookInv
  <2>2. purchase'[p] = purchase[p] /\ WindowEvents(events', p) = WindowEvents(events, p)
    BY <1>1
  <2>3. CASE purchase[p] = "none"
    <3>1. window[p] = "absent"
      BY <2>1, <2>3 DEF PurchaseBooked
    <3>2. window'[p] = "absent"
      BY <2>1, <3>1, CommitReleaseIs
    <3> QED BY <2>1, <2>2, <2>3, <3>2 DEF PurchaseBooked
  <2>4. CASE purchase[p] = "bought"
    <3>1. window'[p] # "absent"
      BY <2>1, <2>4, CommitReleaseIs DEF PurchaseBooked
    <3> QED BY <2>1, <2>2, <2>4, <3>1 DEF PurchaseBooked
  <2>5. CASE purchase[p] = "refunded"
    <3>1. NetOf(events, p) = 0 /\ paid[p] = 0
      BY <2>1, <2>5, RefundedNet DEF PurchaseBooked
    <3>2. p \notin Payees(txn[w])
      BY <3>1, CommitReleaseIs
    <3>3. paid'[p] = 0
      BY <2>1, <3>1, <3>2, CommitReleaseIs
    <3> QED BY <2>1, <2>2, <2>5, <3>3 DEF PurchaseBooked
  <2> QED BY <2>1, <2>3, <2>4, <2>5
<1>10. AttemptsInPlans' /\ BackfillFirst'
  BY <1>1, <1>2 DEF IInv, BookInv, AttemptsInPlans, BackfillFirst, Unrecorded
<1>11. FullType'
  <2>1. /\ \A u \in Workers : IsFiniteSet(txn'[u].booked)
        /\ \A u \in Workers : txn'[u].locked \subseteq Windows /\ txn'[u].sub \in BOOLEAN
    BY <1>3, NoTxnIs DEF IInv, FullType, TxnSet
  <2>2. /\ pc' \in [Workers -> {"idle", "backfill", "backfilling", "release", "releasing", "ending"}]
        /\ batch' \in [Workers -> 0 .. MaxBatches]
    BY <1>1, <1>4 DEF IInv, FullType, TypeOK
  <2>3. deferred' \subseteq Windows
    BY <1>1, <1>2 DEF IInv, FullType, TypeOK, TxnSet
  <2> HIDE DEF label, n, t
  <2>4. LeaseTypeOK'
    BY <1>1 DEF IInv, FullType, TypeOK, LeaseTypeOK, leaseVars, Tokens
  <2>5. TypeOK'
    BY <1>1, <2>1, <2>2, <2>3, <2>4, CommitReleaseIs DEF IInv, FullType, TypeOK
  <2> QED BY <1>1, <1>3, <2>1, <2>5 DEF IInv, FullType
<1>12. IdleHoldNothing'
  BY <1>1, StillIdle DEF Goto, leaseVars
<1> QED BY <1>5, <1>6, <1>7, <1>8, <1>9, <1>10, <1>11, <1>12 DEF IInv, TxnInv, BookInv

-----------------------------------------------------------------------------
LEMMA InitHolds ==
  ASSUME Init
  PROVE  IInv
<1>1. LeaseTypeOK
  <2>1. 0 \in 0 .. MaxFaults
    BY LeaseAssumption
  <2> QED BY <2>1 DEF Init, LeaseInit, LeaseTypeOK
<1>2. FullType
  <2>1. batch \in [Workers -> 0 .. MaxBatches]
    BY SettlementAssumption DEF Init
  <2>2. \A w \in Workers : txn[w] = NoTxn /\ txn[w].locked \subseteq Windows /\ txn[w].sub \in BOOLEAN
    BY DEF Init, NoTxn
  <2>3. TypeOK
    BY <1>1, <2>1, <2>2 DEF Init, TypeOK
  <2>4. txn \in [Workers -> TxnSet]
    BY NoTxnIs DEF Init
  <2> QED BY <2>2, <2>3, <2>4, NoTxnIs, FS_EmptySet DEF Init, FullType
<1>3. IdleHoldNothing
  BY DEF Init, LeaseInit, IdleHoldNothing
<1>4. TxnInv
  <2>1. \A w \in Workers : txn[w] = NoTxn /\ pc[w] = "idle"
    BY DEF Init
  <2>2. Exclusive
    BY <2>1 DEF Exclusive, NoTxn
  <2> QED BY <2>1, <2>2, NoTxnIsDue DEF TxnInv, Phased, BackfillPhase
<1>5. BookInv
  BY DEF Init, BookInv, PaidIsReleased, AttemptsInPlans, PurchaseBooked, WindowEvents, BackfillFirst,
         Closed, Windows
<1> QED BY <1>2, <1>3, <1>4, <1>5 DEF IInv

LEMMA StutterKeeps ==
  ASSUME IInv, UNCHANGED vars
  PROVE  IInv'
<1>1. FullType'
  BY DEF IInv, FullType, TypeOK, LeaseTypeOK, vars, leaseVars, settlementVars, runVars
<1>2. TxnInv'
  BY DEF IInv, TxnInv, Phased, BackfillPhase, LastBatch, Unrecorded, Exclusive, vars, settlementVars,
         runVars
<1>3. BookInv'
  BY BooksStay DEF vars, settlementVars
<1>4. IdleHoldNothing'
  BY IdleStays DEF vars, leaseVars, runVars
<1> QED BY <1>1, <1>2, <1>3, <1>4 DEF IInv

LEMMA RunKeeps ==
  ASSUME IInv, NEW w \in Workers, Start(w) \/ Run(w) \/ Crash(w)
  PROVE  IInv'
<1>1. CASE Start(w)
  BY <1>1, StartKeeps
<1>2. CASE Crash(w) \/ End(w)
  BY <1>2, EndKeeps
<1>3. CASE LoopEnds(w)
  BY <1>3, FailKeeps DEF LoopEnds
<1>4. CASE BeginBackfill(w)
  BY <1>4, BeginBackfillKeeps
<1>5. CASE CommitBackfill(w)
  BY <1>5, CommitBackfillKeeps
<1>6. CASE BeginRelease(w)
  BY <1>6, BeginReleaseKeeps
<1>7. CASE CommitRelease(w)
  BY <1>7, CommitReleaseKeeps
<1>8. CASE GiveUpWaiting(w)
  BY <1>8, GiveUpKeeps
<1>9. CASE \E l \in Legacy : recordPrepaidSellerRevenue(w, l)
  BY <1>9, RecordKeeps
<1>10. CASE \E x \in Windows : ReleaseWindow(w, x)
  BY <1>10, ReleaseKeeps
<1> QED BY <1>1, <1>2, <1>3, <1>4, <1>5, <1>6, <1>7, <1>8, <1>9, <1>10 DEF Run

(* The inductive invariant of the settlement.                              *)
THEOREM Invariance == Spec => []IInv
<1>1. Init => IInv
  BY InitHolds
<1>2. IInv /\ [Next]_vars => IInv'
  <2>1. SUFFICES ASSUME IInv, [Next]_vars PROVE IInv'
    OBVIOUS
  <2>2. CASE \E a \in Attempts, x \in PlanWindows : Arrive(a, x)
    BY <2>1, <2>2, AttemptKeeps
  <2>3. CASE \E a \in Attempts : Admit(a) \/ ReleaseNotStarted(a)
    BY <2>1, <2>3, AttemptKeeps
  <2>4. CASE \E a \in Attempts : SettleUsage(a)
    BY <2>1, <2>4, SettleUsageKeeps
  <2>5. CASE \E p \in Purchases : purchaseAuthorityProduct(p)
    BY <2>1, <2>5, PurchaseKeeps
  <2>6. CASE \E p \in Purchases : refundAuthorityPurchase(p)
    BY <2>1, <2>6, RefundKeeps
  <2>7. CASE \/ \E p \in Purchases : DeadlinePasses(p)
             \/ \E x \in Windows : WindowEnds(x) \/ DeferralEnds(x)
    BY <2>1, <2>7, ClockKeeps
  <2>8. CASE \E w \in Workers : Start(w) \/ Run(w) \/ Crash(w)
    BY <2>1, <2>8, RunKeeps
  <2>9. CASE Expiry \/ \E w \in Workers : Renewal(w)
    BY <2>1, <2>9, LeaseKeeps
  <2>10. CASE UNCHANGED vars
    BY <2>1, <2>10, StutterKeeps
  <2> QED BY <2>1, <2>2, <2>3, <2>4, <2>5, <2>6, <2>7, <2>8, <2>9, <2>10 DEF Next
<1> QED BY <1>1, <1>2, PTL DEF Spec

(* The types of the settlement and of the lease the task holds; among them *)
(* that a token is always left for the next acquisition (acquire in        *)
(* postgres-task-lease.ts).                                                *)
THEOREM TypeCorrect == Spec => []TypeOK
<1>1. IInv => TypeOK
  BY DEF IInv, FullType
<1> QED BY <1>1, Invariance, PTL

(* A purchase refunded by refundAuthorityPurchase is never paid out by     *)
(* releaseDueSellerSettlements, whatever the two clocks say.               *)
THEOREM RefundsAreNotPaid == Spec => []RefundedNeverPaid
<1>1. IInv => RefundedNeverPaid
  BY DEF IInv, BookInv, PurchaseBooked, RefundedNeverPaid
<1> QED BY <1>1, Invariance, PTL

(* backfillPrepaidSellerSettlements finds every window it still has to     *)
(* book into open, or not there yet.                                       *)
THEOREM BackfillIsNotBlocked == Spec => []BackfillNeverBlocked
<1>1. ASSUME IInv PROVE BackfillNeverBlocked
  <2>1. SUFFICES ASSUME NEW l \in Unrecorded PROVE Bookable(TrancheWindows(l))
    BY DEF BackfillNeverBlocked
  <2>2. backfilled \in BOOLEAN /\ BackfillFirst
    BY <1>1 DEF IInv, FullType, TypeOK, BookInv
  <2>3. CASE backfilled
    BY <2>2, <2>3 DEF BackfillFirst, Bookable
  <2>4. CASE ~ backfilled
    BY <2>2, <2>4 DEF BackfillFirst, Bookable, TrancheWindows, Windows
  <2> QED BY <2>2, <2>3, <2>4
<1> QED BY <1>1, Invariance, PTL

-----------------------------------------------------------------------------
(* Refinement of SellerPayout.                                             *)
StatusOf(win) == [x \in Windows |-> CASE win[x] = "released" -> "paid"
                                      [] win[x] = "non_positive" -> "void"
                                      [] OTHER -> "open"]
NetsOf(E) == [x \in Windows |-> NetOf(E, x)]

LEMMA StatusIs ==
  ASSUME NEW win, NEW x \in Windows
  PROVE  /\ win[x] = "released" => StatusOf(win)[x] = "paid"
         /\ win[x] = "non_positive" => StatusOf(win)[x] = "void"
         /\ win[x] \notin Closed => StatusOf(win)[x] = "open"
         /\ win[x] \in Closed => StatusOf(win)[x] # "open"
BY DEF StatusOf, Closed

(* A booking earns, in windows that are open.                              *)
LEMMA BookingEarns ==
  ASSUME IInv, NEW N, Books(N), UNCHANGED paid
  PROVE  [Payout!Next]_(Payout!vars)
<1>1. StatusOf(window') = StatusOf(window)
  <2>1. \A x \in Windows : StatusOf(window')[x] = StatusOf(window)[x]
    <3>1. SUFFICES ASSUME NEW x \in Windows PROVE StatusOf(window')[x] = StatusOf(window)[x]
      OBVIOUS
    <3>2. CASE window'[x] = window[x]
      BY <3>2 DEF StatusOf
    <3>3. CASE window[x] = "absent" /\ window'[x] = "open"
      BY <3>3, StatusIs DEF Closed
    <3> QED BY <3>2, <3>3, BooksWindows
  <2> QED BY <2>1 DEF StatusOf
<1>2. \A x \in Windows : StatusOf(window)[x] # "open" => NetsOf(events')[x] = NetsOf(events)[x]
  <2>1. SUFFICES ASSUME NEW x \in Windows, window[x] \in Closed
                 PROVE  NetsOf(events')[x] = NetsOf(events)[x]
    BY StatusIs
  <2>2. NetOf(events', x) = NetOf(events, x)
    BY <2>1, BooksWindows
  <2> QED BY <2>2 DEF NetsOf
<1>3. CASE \E x \in Windows : NetsOf(events')[x] # NetsOf(events)[x]
  BY <1>1, <1>2, <1>3 DEF Payout!Next, Payout!Earn, StatusOf, NetsOf
<1>4. CASE \A x \in Windows : NetsOf(events')[x] = NetsOf(events)[x]
  <2>1. NetsOf(events') = NetsOf(events)
    BY <1>4 DEF NetsOf
  <2> QED BY <1>1, <2>1 DEF Payout!vars, StatusOf, NetsOf
<1> QED BY <1>3, <1>4

(* A release closes its windows at once and pays what they hold.           *)
LEMMA ReleaseCloses ==
  ASSUME IInv, NEW w \in Workers, CommitRelease(w)
  PROVE  Payout!Next
<1> DEFINE P == Payees(txn[w])
           V == txn[w].voids
           S == P \cup V
<1>1. /\ \A x \in P : /\ x \in Windows /\ window[x] = "open" /\ NetOf(events, x) > 0
                      /\ window'[x] = "released" /\ paid'[x] = NetOf(events, x)
      /\ \A x \in V : /\ x \in Windows /\ window[x] = "open" /\ NetOf(events, x) <= 0
                      /\ window'[x] = "non_positive" /\ paid'[x] = paid[x]
      /\ \A x \in Windows : x \notin P /\ x \notin V => window'[x] = window[x] /\ paid'[x] = paid[x]
      /\ paid' \in [Windows -> Nat]
  BY CommitReleaseIs
<1>2. events' = events /\ events \subseteq EventSet /\ IsFiniteSet(events)
  BY DEF CommitRelease, IInv, FullType
<1>3. \A x \in Windows : NetOf(events, x) \in Int
  BY <1>2, NetInt
<1> HIDE DEF P, V
<1>4. \A x \in S : StatusOf(window)[x] = "open"
  BY <1>1, StatusIs DEF Closed
<1>5. ASSUME NEW x \in Windows
      PROVE  /\ StatusOf(window')[x] = IF x \notin S THEN StatusOf(window)[x]
                                       ELSE IF NetsOf(events)[x] > 0 THEN "paid" ELSE "void"
             /\ paid'[x] = IF x \in S /\ NetsOf(events)[x] > 0 THEN NetsOf(events)[x] ELSE paid[x]
  <2>1. NetsOf(events)[x] = NetOf(events, x) /\ NetOf(events, x) \in Int
    BY <1>3 DEF NetsOf
  <2>2. CASE x \in P
    BY <1>1, <2>1, <2>2, StatusIs
  <2>3. CASE x \in V
    BY <1>1, <2>1, <2>3, StatusIs
  <2>4. CASE x \notin S
    <3>1. window'[x] = window[x] /\ paid'[x] = paid[x]
      BY <1>1, <2>4
    <3> QED BY <2>4, <3>1 DEF StatusOf
  <2> QED BY <2>2, <2>3, <2>4
<1>6. /\ StatusOf(window') = [x \in Windows |-> IF x \notin S THEN StatusOf(window)[x]
                                                ELSE IF NetsOf(events)[x] > 0 THEN "paid" ELSE "void"]
      /\ paid' = [x \in Windows |-> IF x \in S /\ NetsOf(events)[x] > 0
                                    THEN NetsOf(events)[x] ELSE paid[x]]
  <2> HIDE DEF S
  <2>1. StatusOf(window') = [x \in Windows |-> StatusOf(window')[x]]
    BY DEF StatusOf
  <2>2. paid' = [x \in Windows |-> paid'[x]]
    BY <1>1
  <2> QED BY <1>5, <2>1, <2>2
<1>7. S \in SUBSET Windows
  BY <1>1
<1> HIDE DEF S
<1>8. Payout!Close(S)
  BY <1>2, <1>4, <1>6 DEF Payout!Close, StatusOf, NetsOf
<1> QED BY <1>7, <1>8 DEF Payout!Next, Payout!Close

(* Everything else leaves windows, events and payments alone.              *)
LEMMA NothingPromised ==
  ASSUME UNCHANGED <<window, events, paid>>
  PROVE  UNCHANGED Payout!vars
BY DEF Payout!vars

LEMMA RunPays ==
  ASSUME IInv, NEW w \in Workers, Start(w) \/ Run(w) \/ Crash(w)
  PROVE  [Payout!Next]_(Payout!vars)
<1>1. CASE \/ Start(w) \/ Crash(w) \/ End(w) \/ LoopEnds(w) \/ BeginBackfill(w) \/ BeginRelease(w)
           \/ GiveUpWaiting(w) \/ Fail(w)
           \/ \E l \in Legacy : recordPrepaidSellerRevenue(w, l)
           \/ \E x \in Windows : ReleaseWindow(w, x)
  <2>1. UNCHANGED <<window, events, paid>>
    BY <1>1 DEF Start, Crash, End, LoopEnds, BeginBackfill, BeginRelease, GiveUpWaiting, Fail,
                recordPrepaidSellerRevenue, ReleaseWindow, settlementVars
  <2> QED BY <2>1, NothingPromised
<1>2. CASE CommitBackfill(w) /\ ~ Fail(w)
  <2>1. Books(txn[w].booked)
    BY <1>2, CommitBackfillKeeps
  <2>2. UNCHANGED paid
    BY <1>2 DEF CommitBackfill
  <2> QED BY <2>1, <2>2, BookingEarns
<1>3. CASE CommitRelease(w)
  BY <1>3, ReleaseCloses
<1> QED BY <1>1, <1>2, <1>3 DEF Run

(* Settlement pays as SellerPayout promises: every window once, what its   *)
(* events add up to at that moment, and nothing is booked in it later      *)
(* (releaseDueSellerSettlements and the projection trigger).               *)
THEOREM PayoutImplemented == Spec => ImplementsPayout
<1>1. Init => Payout!Init
  <2>1. SUFFICES ASSUME Init PROVE Payout!Init
    OBVIOUS
  <2>2. events = {} /\ paid = [x \in Windows |-> 0] /\ window = [x \in Windows |-> "absent"]
    BY <2>1 DEF Init
  <2>3. \A x \in Windows : NetOf(events, x) = 0
    BY <2>2, NetOfNothing DEF WindowEvents
  <2> QED BY <2>2, <2>3 DEF Payout!Init
<1>2. IInv /\ [Next]_vars => [Payout!Next]_(Payout!vars)
  <2>1. SUFFICES ASSUME IInv, [Next]_vars PROVE [Payout!Next]_(Payout!vars)
    OBVIOUS
  <2>2. CASE \/ \E a \in Attempts, x \in PlanWindows : Arrive(a, x)
             \/ \E a \in Attempts : Admit(a) \/ ReleaseNotStarted(a)
             \/ \E p \in Purchases : DeadlinePasses(p)
             \/ \E x \in Windows : WindowEnds(x) \/ DeferralEnds(x)
             \/ Expiry \/ \E w \in Workers : Renewal(w)
             \/ UNCHANGED vars
    <3>1. UNCHANGED <<window, events, paid>>
      BY <2>2 DEF Arrive, Admit, ReleaseNotStarted, DeadlinePasses, WindowEnds, DeferralEnds, Expiry,
                  Renewal, vars, settlementVars
    <3> QED BY <3>1, NothingPromised
  <2>3. CASE \E a \in Attempts : SettleUsage(a)
    <3>1. PICK a \in Attempts : SettleUsage(a)
      BY <2>3
    <3>2. Books(UsageEvents(a)) /\ UNCHANGED paid
      BY <2>1, <3>1, SettleUsageKeeps DEF SettleUsage
    <3> QED BY <2>1, <3>2, BookingEarns
  <2>4. CASE \E p \in Purchases : purchaseAuthorityProduct(p)
    <3>1. PICK p \in Purchases : purchaseAuthorityProduct(p)
      BY <2>4
    <3>2. Books({Sale(p)}) /\ UNCHANGED paid
      BY <2>1, <3>1, PurchaseKeeps DEF purchaseAuthorityProduct
    <3> QED BY <2>1, <3>2, BookingEarns
  <2>5. CASE \E p \in Purchases : refundAuthorityPurchase(p)
    <3>1. PICK p \in Purchases : refundAuthorityPurchase(p)
      BY <2>5
    <3>2. Books({Reversal(p)}) /\ UNCHANGED paid
      BY <2>1, <3>1, RefundKeeps DEF refundAuthorityPurchase
    <3> QED BY <2>1, <3>2, BookingEarns
  <2>6. CASE \E w \in Workers : Start(w) \/ Run(w) \/ Crash(w)
    BY <2>1, <2>6, RunPays
  <2> QED BY <2>1, <2>2, <2>3, <2>4, <2>5, <2>6 DEF Next
<1> QED BY <1>1, <1>2, Invariance, PTL DEF Spec, ImplementsPayout, Payout!Spec

=============================================================================
