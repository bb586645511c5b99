-------------------------- MODULE SellerSettlement --------------------------
(***************************************************************************)
(* Seller settlement: what Plans and Authority Products earn is booked as  *)
(* append-only events in settlement windows, and a periodic task pays each *)
(* window out once it has ended (releaseDueSellerSettlements and           *)
(* backfillPrepaidSellerSettlements in postgres-application-operations.ts, *)
(* run by seller-settlement-task.ts under a task lease).                   *)
(*                                                                         *)
(* The task's two transactions are READ COMMITTED and long, so they are    *)
(* modelled statement by statement: what they wrote is in txn until the    *)
(* commit, and the rows they locked are in txn[w].locked and txn[w].sub.   *)
(* Every other transaction is one step that waits for those rows.  An      *)
(* admission reads its instant (Arrive) before it waits for the            *)
(* subscription row (Admit).  Windows and deadlines end on unsynchronised  *)
(* clocks, so each is an independent event.                                *)
(***************************************************************************)
EXTENDS TaskLease, Integers

CONSTANTS
  PlanWindows,   \* settlement windows of one Plan Subscription
  Purchases,     \* Authority purchases; each has a window of its own
  Attempts,      \* Provider attempts billed to the Subscription
  Legacy,        \* prepaid purchases older than the settlement tables
  Revenue,       \* Revenue[a]: what settling attempt a earns
  UpstreamCost,  \* UpstreamCost[a]: what it costs the seller
  Tranche,       \* Tranche[l][x]: the part of legacy purchase l in Plan window x
  Price,         \* purchase_amount_units
  BatchSize,     \* batchSize of the task
  BackfillSize,  \* Math.min(batchSize, 10)
  MaxBatches,    \* maxBatches of the task
  MaxDeals       \* bound: attempts that arrive and products that are bought

Windows == PlanWindows \cup Purchases

ASSUME SettlementAssumption ==
  /\ IsFiniteSet(PlanWindows) /\ IsFiniteSet(Purchases)
  /\ IsFiniteSet(Attempts) /\ IsFiniteSet(Legacy)
  /\ PlanWindows \cap Purchases = {}
  /\ Attempts \cap Legacy = {} /\ Attempts \cap Purchases = {} /\ Legacy \cap Purchases = {}
  /\ Revenue \in [Attempts -> Nat] /\ UpstreamCost \in [Attempts -> Nat]
  /\ Tranche \in [Legacy -> [PlanWindows -> Nat]]
  /\ Price \in Nat \ {0}
  /\ {BatchSize, BackfillSize, MaxBatches} \subseteq Nat \ {0}
  /\ MaxDeals \in Nat

VARIABLES
  window,        \* seller_settlement_windows.status
  ended,         \* windows whose release_at the database clock has reached
  deferred,      \* windows whose next_attempt_at is still ahead
  events,        \* seller_settlement_events other than releases
  paid,          \* what the release of a window credited to the seller
  attempt,       \* request_provider_attempts: state and window of started_at
  purchase,      \* authority_purchases and authority_refunds
  deadline,      \* purchases whose refund deadline has passed
  backfilled,    \* seller_settlement_backfill_state: the completion marker
  pc,            \* where each worker's run of the task is
  batch,         \* batches the current loop of the run has done
  txn            \* the open transaction of each worker

settlementVars == <<window, ended, deferred, events, paid, attempt, purchase, deadline, backfilled>>
runVars == <<pc, batch, txn>>
vars == <<leaseVars, settlementVars, runVars>>

NoTxn == [todo |-> {}, selected |-> 0, booked |-> {}, pays |-> {}, voids |-> {}, defers |-> {},
          locked |-> {}, sub |-> FALSE]

Event(x, type, units, source) == [window |-> x, type |-> type, units |-> units, source |-> source]

(* mutant: a refund does not count against the window *)
Signed_noReversal(e) == IF e.type = "upstream_cost" THEN -e.units ELSE IF e.type = "reversal" THEN 0 ELSE e.units

(* The CASE of the sum a release pays out.                                 *)
Signed(e) == IF e.type = "revenue" THEN e.units ELSE -e.units

NetOf(E, x) == MapThenSumSet(Signed, {e \in E : e.window = x})

Closed == {"released", "non_positive"}

(* A transaction of somebody else holds the row.                           *)
WindowLocked(x, me) == \E w \in Workers \ {me} : x \in txn[w].locked
SubscriptionLocked(me) == \E w \in Workers \ {me} : txn[w].sub
Nobody == "nobody"

TypeOK ==
  /\ LeaseTypeOK
  /\ window \in [Windows -> {"absent", "open"} \cup Closed]
  /\ ended \subseteq Windows /\ deferred \subseteq Windows
  /\ \A e \in events : e.window \in Windows /\ e.units \in Nat \ {0}
  /\ paid \in [Windows -> Nat]
  /\ attempt \in [Attempts -> [state : {"none", "arrived", "unresolved", "settled", "not_started"},
                               window : PlanWindows \cup {Nobody}]]
  /\ purchase \in [Purchases -> {"none", "bought", "refunded"}]
  /\ deadline \subseteq Purchases
  /\ backfilled \in BOOLEAN
  /\ pc \in [Workers -> {"idle", "backfill", "backfilling", "release", "releasing", "ending"}]
  /\ batch \in [Workers -> 0 .. MaxBatches]
  /\ \A w \in Workers : txn[w].locked \subseteq Windows /\ txn[w].sub \in BOOLEAN

Init ==
  /\ LeaseInit
  /\ window = [x \in Windows |-> "absent"]
  /\ ended = {} /\ deferred = {} /\ events = {}
  /\ paid = [x \in Windows |-> 0]
  /\ attempt = [a \in Attempts |-> [state |-> "none", window |-> Nobody]]
  /\ purchase = [p \in Purchases |-> "none"]
  /\ deadline = {}
  /\ backfilled = FALSE
  /\ pc = [w \in Workers |-> "idle"]
  /\ batch = [w \in Workers |-> 0]
  /\ txn = [w \in Workers |-> NoTxn]
-----------------------------------------------------------------------------
(* The projection trigger: an event opens an absent window and is refused  *)
(* by a closed one.                                                        *)
Bookable(S) == \A x \in S : window[x] \notin Closed

Booked(S) == [x \in Windows |-> IF x \in S /\ window[x] = "absent" THEN "open" ELSE window[x]]

(* mutant: a settlement does not wait for the row the task has locked *)
Waits_never(S) == TRUE

Waits(S) == \A x \in S : ~WindowLocked(x, Nobody)

Deals == {a \in Attempts : attempt[a].state # "none"} \cup {p \in Purchases : purchase[p] # "none"}

(* Admission reads the database clock: the attempt will start in a window  *)
(* that has not ended.                                                     *)
Arrive(a, x) ==
  /\ attempt[a].state = "none" /\ Cardinality(Deals) < MaxDeals
  /\ x \notin ended
  /\ attempt' = [attempt EXCEPT ![a] = [state |-> "arrived", window |-> x]]
  /\ UNCHANGED <<leaseVars, runVars, window, ended, deferred, events, paid, purchase, deadline, backfilled>>

(* It then locks the Subscription and commits with that instant.           *)
Admit(a) ==
  /\ attempt[a].state = "arrived"
  /\ ~SubscriptionLocked(Nobody)
  /\ attempt' = [attempt EXCEPT ![a].state = "unresolved"]
  /\ UNCHANGED <<leaseVars, runVars, window, ended, deferred, events, paid, purchase, deadline, backfilled>>

(* The attempt is known not to have started: nothing is booked.            *)
ReleaseNotStarted(a) ==
  /\ attempt[a].state = "unresolved"
  /\ attempt' = [attempt EXCEPT ![a].state = "not_started"]
  /\ UNCHANGED <<leaseVars, runVars, window, ended, deferred, events, paid, purchase, deadline, backfilled>>

UsageEvents(a) ==
  {e \in {Event(attempt[a].window, "revenue", Revenue[a], a),
          Event(attempt[a].window, "upstream_cost", UpstreamCost[a], a)} : e.units > 0}

(* insertBillingFacts: the final usage is booked where the attempt began.  *)
SettleUsage(a) ==
  LET S == {e.window : e \in UsageEvents(a)}
  IN /\ attempt[a].state = "unresolved"
     /\ Bookable(S)
     /\ Waits(S)
     /\ events' = events \cup UsageEvents(a)
     /\ window' = Booked(S)
     /\ attempt' = [attempt EXCEPT ![a].state = "settled"]
     /\ UNCHANGED <<leaseVars, runVars, ended, deferred, paid, purchase, deadline, backfilled>>

purchaseAuthorityProduct(p) ==
  /\ purchase[p] = "none" /\ Cardinality(Deals) < MaxDeals
  /\ purchase' = [purchase EXCEPT ![p] = "bought"]
  /\ events' = events \cup {Event(p, "revenue", Price, p)}
  /\ window' = Booked({p})
  /\ UNCHANGED <<leaseVars, runVars, ended, deferred, paid, attempt, deadline, backfilled>>

Refundable(p) == purchase[p] = "bought" /\ p \notin deadline /\ window[p] # "released"

(* refundAuthorityPurchase locks the window before it looks for a release. *)
refundAuthorityPurchase(p) ==
  /\ Waits({p})
  /\ Refundable(p)
  /\ Bookable({p})
  /\ purchase' = [purchase EXCEPT ![p] = "refunded"]
  /\ events' = events \cup {Event(p, "reversal", Price, p)}
  /\ UNCHANGED <<leaseVars, runVars, window, ended, deferred, paid, attempt, deadline, backfilled>>

(* Clocks.                                                                 *)
WindowEnds(x) ==
  /\ x \notin ended
  /\ x \in Purchases => purchase[x] # "none"
  /\ ended' = ended \cup {x}
  /\ UNCHANGED <<leaseVars, runVars, window, deferred, events, paid, attempt, purchase, deadline, backfilled>>

DeferralEnds(x) ==
  /\ x \in deferred
  /\ deferred' = deferred \ {x}
  /\ UNCHANGED <<leaseVars, runVars, window, ended, events, paid, attempt, purchase, deadline, backfilled>>

DeadlinePasses(p) ==
  /\ purchase[p] # "none" /\ p \notin deadline
  /\ deadline' = deadline \cup {p}
  /\ UNCHANGED <<leaseVars, runVars, window, ended, deferred, events, paid, attempt, purchase, backfilled>>

-----------------------------------------------------------------------------
(* runSellerSettlementReleaseTask.                                         *)
Goto(w, label) == pc' = [pc EXCEPT ![w] = label]

Start(w) ==
  /\ pc[w] = "idle"
  /\ acquire(w)
  /\ Goto(w, "backfill")
  /\ batch' = [batch EXCEPT ![w] = 0]
  /\ UNCHANGED <<settlementVars, txn>>

(* The transaction is rolled back and the run ends with an error.          *)
Fail(w) ==
  /\ Goto(w, "ending")
  /\ txn' = [txn EXCEPT ![w] = NoTxn]
  /\ UNCHANGED <<leaseVars, settlementVars, batch>>

MayLoop(w) == batch[w] < MaxBatches /\ ~aborted[w]

LoopEnds(w) ==
  /\ pc[w] \in {"backfill", "release"}
  /\ ~MayLoop(w)
  /\ Fail(w)

Unrecorded == {l \in Legacy : \A e \in events : e.source # l}

(* The first statement of backfillPrepaidSellerSettlements.                *)
BeginBackfill(w) ==
  /\ pc[w] = "backfill" /\ MayLoop(w)
  /\ IF backfilled
     THEN /\ Goto(w, "release")
          /\ batch' = [batch EXCEPT ![w] = 0]
          /\ UNCHANGED txn
     ELSE /\ \E C \in SUBSET Unrecorded :
               /\ Cardinality(C) = Min({BackfillSize, Cardinality(Unrecorded)})
               /\ txn' = [txn EXCEPT ![w] = [NoTxn EXCEPT !.todo = C, !.selected = Cardinality(C)]]
          /\ Goto(w, "backfilling")
          /\ UNCHANGED batch
  /\ UNCHANGED <<leaseVars, settlementVars>>

TrancheWindows(l) == {x \in PlanWindows : Tranche[l][x] > 0}
TrancheEvents(l) == {Event(x, "revenue", Tranche[l][x], l) : x \in TrancheWindows(l)}

(* recordPrepaidSellerRevenue: fenced inserts, one per tranche; a tranche  *)
(* already booked is skipped.                                              *)
recordPrepaidSellerRevenue(w, l) ==
  /\ pc[w] = "backfilling"
  /\ l \in txn[w].todo
  /\ \A x \in TrancheWindows(l) : ~WindowLocked(x, w)
  /\ IF Held(w) /\ (l \in Unrecorded => Bookable(TrancheWindows(l)))
     THEN /\ txn' = [txn EXCEPT ![w] = [txn[w] EXCEPT
               !.todo = @ \ {l}, !.locked = @ \cup TrancheWindows(l),
               !.booked = @ \cup IF l \in Unrecorded THEN TrancheEvents(l) ELSE {}]]
          /\ UNCHANGED <<leaseVars, settlementVars, pc, batch>>
     ELSE Fail(w)

(* mutant: a full batch is taken for the last one *)
LastBatch_full(w) == txn[w].selected <= BackfillSize

LastBatch(w) == txn[w].selected < BackfillSize

(* A batch that is not full completes the backfill; the marker is fenced,  *)
(* and where it already exists the lease is checked.                       *)
CommitBackfill(w) ==
  LET last == LastBatch(w)
  IN /\ pc[w] = "backfilling"
     /\ txn[w].todo = {}
     /\ IF last /\ ~Held(w)
        THEN Fail(w)
        ELSE /\ events' = events \cup txn[w].booked
             /\ window' = Booked({e.window : e \in txn[w].booked})
             /\ backfilled' = (backfilled \/ last)
             /\ txn' = [txn EXCEPT ![w] = NoTxn]
             /\ Goto(w, IF last THEN "release" ELSE "backfill")
             /\ batch' = [batch EXCEPT ![w] = IF last THEN 0 ELSE @ + 1]
             /\ UNCHANGED <<leaseVars, ended, deferred, paid, attempt, purchase, deadline>>

Due == {x \in ended \ deferred : window[x] = "open"}

(* The first statement of releaseDueSellerSettlements.                     *)
BeginRelease(w) ==
  /\ pc[w] = "release" /\ MayLoop(w)
  /\ \E C \in SUBSET Due :
       /\ Cardinality(C) = Min({BatchSize, Cardinality(Due)})
       /\ txn' = [txn EXCEPT ![w] = [NoTxn EXCEPT !.todo = C, !.selected = Cardinality(C)]]
  /\ Goto(w, "releasing")
  /\ UNCHANGED <<leaseVars, settlementVars, batch>>

(* mutant: an attempt that never started holds the window up as well *)
Unresolved_notStarted(x) ==
  \E a \in Attempts : attempt[a].window = x /\ attempt[a].state \in {"unresolved", "not_started"}

Unresolved(x) == \E a \in Attempts : attempt[a].window = x /\ attempt[a].state = "unresolved"

StillOpen(x) == window[x] = "open"

(* One candidate: lock its window, look again at the status, lock the      *)
(* Subscription, then defer, close or pay.  Every write is fenced, and a   *)
(* write that finds the lease lost throws.  The code takes the candidates  *)
(* by timestamps the model does not keep: here in any order.               *)
ReleaseWindow(w, x) ==
  LET isPlan == x \in PlanWindows
      locking == [txn[w] EXCEPT !.todo = @ \ {x}, !.locked = @ \cup {x}]
      writing == [locking EXCEPT !.sub = @ \/ isPlan]
      net == NetOf(events, x) - paid[x]
      Write(t) == /\ txn' = [txn EXCEPT ![w] = t]
                  /\ UNCHANGED <<leaseVars, settlementVars, pc, batch>>
  IN /\ pc[w] = "releasing"
     /\ x \in txn[w].todo
     /\ ~WindowLocked(x, w)
     /\ \/ /\ ~StillOpen(x)
           /\ Write(locking)
        \/ /\ StillOpen(x)
           /\ isPlan => ~SubscriptionLocked(w)
           /\ \/ ~Held(w) /\ Fail(w)
              \/ Held(w) /\ Unresolved(x) /\ Write([writing EXCEPT !.defers = @ \cup {x}])
              \/ Held(w) /\ ~Unresolved(x) /\ net <= 0 /\ Write([writing EXCEPT !.voids = @ \cup {x}])
              \/ Held(w) /\ ~Unresolved(x) /\ net > 0 /\ Write([writing EXCEPT !.pays = @ \cup {<<x, net>>}])

PaidAfter(w) == [x \in Windows |-> paid[x] + MapThenSumSet(LAMBDA p : p[2], {p \in txn[w].pays : p[1] = x})]

(* COMMIT is not fenced: the lease may be lost since the last statement.   *)
CommitRelease(w) ==
  LET t == txn[w]
      payees == {p[1] : p \in t.pays}
      more == t.selected = BatchSize /\ (t.pays # {} \/ t.defers # {})
  IN /\ pc[w] = "releasing"
     /\ t.todo = {}
     /\ paid' = PaidAfter(w)
     /\ window' = [x \in Windows |-> IF x \in payees THEN "released"
                                     ELSE IF x \in t.voids THEN "non_positive" ELSE window[x]]
     /\ deferred' = deferred \cup t.defers
     /\ txn' = [txn EXCEPT ![w] = NoTxn]
     /\ Goto(w, IF more THEN "release" ELSE "ending")
     /\ batch' = [batch EXCEPT ![w] = IF more THEN @ + 1 ELSE @]
     /\ UNCHANGED <<leaseVars, ended, events, attempt, purchase, deadline, backfilled>>

(* A statement waits for a row another worker has locked, and loses: as a  *)
(* deadlock victim it is tried again, after lock_timeout the run fails.    *)
GiveUpWaiting(w) ==
  /\ \E x \in txn[w].todo :
       \/ pc[w] = "releasing" /\ (WindowLocked(x, w) \/ (x \in PlanWindows /\ SubscriptionLocked(w)))
       \/ pc[w] = "backfilling" /\ \E y \in TrancheWindows(x) : WindowLocked(y, w)
  /\ \/ Fail(w)
     \/ /\ Goto(w, IF pc[w] = "releasing" THEN "release" ELSE "backfill")
        /\ txn' = [txn EXCEPT ![w] = NoTxn]
        /\ UNCHANGED <<leaseVars, settlementVars, batch>>

(* The finally block of withRenewingLease.                                 *)
End(w) ==
  /\ pc[w] = "ending"
  /\ release(w)
  /\ Goto(w, "idle")
  /\ UNCHANGED <<settlementVars, batch, txn>>

(* The process dies; PostgreSQL rolls its transaction back.                *)
Crash(w) ==
  /\ pc[w] # "idle"
  /\ forget(w)
  /\ Goto(w, "idle")
  /\ txn' = [txn EXCEPT ![w] = NoTxn]
  /\ UNCHANGED <<settlementVars, batch>>

Renewal(w) == renewLost(w) /\ UNCHANGED <<settlementVars, runVars>>
Expiry == (expireAbandoned \/ expireUnderOwner) /\ UNCHANGED <<settlementVars, runVars>>

Run(w) ==
  \/ LoopEnds(w) \/ BeginBackfill(w) \/ CommitBackfill(w)
  \/ BeginRelease(w) \/ CommitRelease(w) \/ End(w) \/ GiveUpWaiting(w)
  \/ \E l \in Legacy : recordPrepaidSellerRevenue(w, l)
  \/ \E x \in Windows : ReleaseWindow(w, x)

Next ==
  \/ \E a \in Attempts, x \in PlanWindows : Arrive(a, x)
  \/ \E a \in Attempts : Admit(a) \/ ReleaseNotStarted(a) \/ SettleUsage(a)
  \/ \E p \in Purchases : purchaseAuthorityProduct(p) \/ refundAuthorityPurchase(p) \/ DeadlinePasses(p)
  \/ \E x \in Windows : WindowEnds(x) \/ DeferralEnds(x)
  \/ \E w \in Workers : Start(w) \/ Run(w) \/ Crash(w) \/ Renewal(w)
  \/ Expiry

Spec == Init /\ [][Next]_vars

(* A started run goes on, the task is started again and again, an          *)
(* abandoned lease runs out and deferrals end.  Nothing is promised about  *)
(* faults, refunds, settlements or new requests.                           *)
FairSpec ==
  /\ Spec
  /\ \A w \in Workers : WF_vars(Run(w)) /\ SF_vars(Start(w))
  /\ WF_vars(expireAbandoned /\ UNCHANGED <<settlementVars, runVars>>)
  /\ \A x \in Windows : WF_vars(DeferralEnds(x))
-----------------------------------------------------------------------------
(* The task pays as SellerPayout promises: every window once, exactly what *)
(* its events add up to, with workers that lose their lease in the middle  *)
(* of a transaction, overlapping batches and settlements in between.       *)
Payout == INSTANCE SellerPayout WITH
  status <- [x \in Windows |-> CASE window[x] = "released" -> "paid"
                                 [] window[x] = "non_positive" -> "void"
                                 [] OTHER -> "open"],
  net <- [x \in Windows |-> NetOf(events, x)],
  payout <- paid

ImplementsPayout == Payout!Spec

(* A purchase is refunded to its buyer or paid out to its seller, never    *)
(* both, although the refund's deadline and the release's due time are     *)
(* measured on different clocks (refundAuthorityPurchase against           *)
(* releaseDueSellerSettlements).                                           *)
RefundedNeverPaid == \A p \in Purchases : purchase[p] = "refunded" => paid[p] = 0

(* No window is closed before the backfill has booked what belongs there:  *)
(* the trigger would refuse the booking and every later run of the task    *)
(* would fail at the same purchase.                                        *)
BackfillNeverBlocked == \A l \in Unrecorded : Bookable(TrancheWindows(l))

(* A window that has ended is closed in the end, and its seller paid,      *)
(* unless an attempt that started in it stays unresolved for ever: however *)
(* many faults the task meets and however often it put the window off.     *)
EndedIsClosed ==
  \A x \in Windows :
    \/ <>[](\E a \in Attempts : attempt[a] = [state |-> "unresolved", window |-> x])
    \/ (window[x] = "open" /\ x \in ended) ~> (window[x] \in Closed)

(* The unit test's "defers a due Plan settlement window while an admitted  *)
(* ProviderAttempt is unresolved": a closed window has no attempt left     *)
(* whose usage is still to be booked in it.                                *)
ClosedHasNoUnresolved == \A x \in PlanWindows : window[x] \in Closed => ~Unresolved(x)
=============================================================================
