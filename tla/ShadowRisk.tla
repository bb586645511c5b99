----------------------------- MODULE ShadowRisk -----------------------------
(***************************************************************************)
(* The shadow-risk guard in front of Provider dispatch: gateways share one *)
(* PostgreSQL guard row and reserve Credit units before they call the      *)
(* Provider (packages/application/src/storage/postgres-risk-state.ts).     *)
(*                                                                         *)
(* Every operation locks the guard row first, so each is one atomic step;  *)
(* one that throws changes nothing.  The instant an operation works with   *)
(* is read by the gateway (Date.now()) before it waits for that lock, so   *)
(* it may be up to MaxDelay behind the clock when the operation commits.   *)
(***************************************************************************)
EXTENDS Integers, FiniteSets, FiniteSetsExt

CONSTANTS
  Ids,            \* reservation ids (random, never reused)
  Units,          \* Credit units an acquire may ask for
  ActualUnits,    \* Credit units an invocation may turn out to cost
  StartsLimit,    \* requestStartsLimit
  StartsWindow,   \* requestStartsWindowMs, in ticks
  InFlightLimit,  \* maxInFlight
  BudgetWindow,   \* riskBudgetWindowMs, in ticks
  LeaseTtl,       \* leaseTtlMs, in ticks
  UnitsLimit,     \* maxReservedCreditUnits
  MaxDelay,       \* bound: how old an instant may be at commit
  MaxTime         \* bound on the clock

ASSUME RiskAssumption ==
  /\ IsFiniteSet(Ids)
  /\ Units \subseteq Nat \ {0}
  /\ ActualUnits \subseteq Nat
  /\ {StartsLimit, StartsWindow, InFlightLimit, BudgetWindow, LeaseTtl, UnitsLimit} \subseteq Nat \ {0}
  /\ {MaxDelay, MaxTime} \subseteq Nat

VARIABLES
  now,          \* the gateways' clock
  window,       \* friday_relay_shadow_risk_state.window_started_at_ms
  starts,       \* request_starts_json: the reservations whose start is in the list
  reservation,  \* friday_relay_shadow_risk_reservations
  lease,        \* the gateway's lease object of a reservation
  admitted      \* the instant of the acquire of a reservation, in the list and for good

vars == <<now, window, starts, reservation, lease, admitted>>

NoRow == [status |-> "absent", reserved |-> 0, settled |-> 0, expiresAt |-> 0, terminalAt |-> 0]
DeletedRow == [NoRow EXCEPT !.status = "deleted"]
Never == -1

Init ==
  /\ now = 0
  /\ window = 0
  /\ starts = {}
  /\ reservation = [i \in Ids |-> NoRow]
  /\ lease = [i \in Ids |-> "none"]
  /\ admitted = [i \in Ids |-> Never]

(* What Date.now() may have answered to an operation that commits now.     *)
Instants == {t \in 0 .. now : now - t <= MaxDelay}

windowStart(t) == (t \div BudgetWindow) * BudgetWindow

Ended(row) == row.status \in {"settled", "conservative"}
Active == {i \in Ids : reservation[i].status = "active"}

(* mutant: an invocation of unknown cost is assumed to have cost nothing *)
Exposure_settledOnly(rows) ==
  MapThenSumSet(LAMBDA i : IF rows[i].status = "settled" THEN rows[i].settled
                           ELSE IF rows[i].status = "active" THEN rows[i].reserved ELSE 0, Ids)

(* currentExposure: a settled reservation counts what it cost, any other   *)
(* what it reserved.                                                       *)
Exposure(rows) ==
  MapThenSumSet(LAMBDA i : IF rows[i].status = "settled" THEN rows[i].settled ELSE rows[i].reserved, Ids)

(* mutant: every reservation that ended is forgotten *)
PurgedRows_all(t) == [i \in Ids |-> IF Ended(reservation[i]) THEN DeletedRow ELSE reservation[i]]

(* At a roll the reservations that ended before the new window go.         *)
PurgedRows(t) ==
  [i \in Ids |-> IF Ended(reservation[i]) /\ reservation[i].terminalAt < windowStart(t)
                 THEN DeletedRow ELSE reservation[i]]

rolledRows(t) == IF windowStart(t) = window THEN reservation ELSE PurgedRows(t)

RecentStarts(S, t) == {i \in S : admitted[i] > t - StartsWindow}

(* rollState empties the list at a roll.                                   *)
rolledStarts(t) == RecentStarts(IF windowStart(t) = window THEN starts ELSE {}, t)

(* mutant: one start too many *)
StartFree_offByOne(t) == Cardinality(rolledStarts(t)) <= StartsLimit

StartFree(t) == Cardinality(rolledStarts(t)) < StartsLimit

SlotFree == Cardinality(Active) < InFlightLimit

leaseExpiry(t) == t + LeaseTtl

acquire(i, units, t) ==
  /\ reservation[i].status = "absent"
  /\ window <= windowStart(t)
  /\ StartFree(t)
  /\ SlotFree
  /\ Exposure(rolledRows(t)) + units <= UnitsLimit
  /\ reservation' = [rolledRows(t) EXCEPT ![i] =
       [NoRow EXCEPT !.status = "active", !.reserved = units, !.expiresAt = leaseExpiry(t)]]
  /\ starts' = rolledStarts(t) \cup {i}
  /\ window' = windowStart(t)
  /\ lease' = [lease EXCEPT ![i] = "open"]
  /\ admitted' = [admitted EXCEPT ![i] = t]
  /\ UNCHANGED now

Finishable(i) == reservation[i].status = "active"

finishReservation(i, status, units, t) ==
  /\ lease[i] = "open"
  /\ Finishable(i)
  /\ reservation' = [reservation EXCEPT ![i] =
       [@ EXCEPT !.status = status, !.settled = units, !.terminalAt = t]]
  /\ lease' = [lease EXCEPT ![i] = "closed"]
  /\ UNCHANGED <<now, window, starts, admitted>>

(* assertCreditUnits refuses a settlement of zero units.                   *)
settle(i, units, t) == units > 0 /\ finishReservation(i, "settled", units, t)

closeUnknown(i, t) == finishReservation(i, "conservative", 0, t)

(* The gateway loses its lease object without ending the reservation: it   *)
(* crashed, or settle threw (zero units, state unavailable) and the error  *)
(* was only logged.                                                        *)
LeaseDropped(i) ==
  /\ lease[i] = "open"
  /\ lease' = [lease EXCEPT ![i] = "dropped"]
  /\ UNCHANGED <<now, window, starts, reservation, admitted>>

(* The operator, with evidence that the invocation ended.                  *)
recoverExpiredLease(i, t) ==
  /\ reservation[i].status = "active"
  /\ t >= reservation[i].expiresAt
  /\ reservation' = [reservation EXCEPT ![i] = [@ EXCEPT !.status = "conservative", !.terminalAt = t]]
  /\ UNCHANGED <<now, window, starts, lease, admitted>>

Tick ==
  /\ now < MaxTime
  /\ now' = now + 1
  /\ UNCHANGED <<window, starts, reservation, lease, admitted>>

Next ==
  \/ Tick
  \/ \E i \in Ids, t \in Instants :
       \/ \E u \in Units : acquire(i, u, t)
       \/ \E u \in ActualUnits : settle(i, u, t)
       \/ closeUnknown(i, t)
       \/ recoverExpiredLease(i, t)
  \/ \E i \in Ids : LeaseDropped(i)

Spec == Init /\ [][Next]_vars

-----------------------------------------------------------------------------
(* Properties.                                                             *)

Row == [status: {"absent", "active", "settled", "conservative", "deleted"},
        reserved: Nat, settled: Nat, expiresAt: Nat, terminalAt: Nat]

(* Every column holds a value of its type.                                 *)
TypeOK ==
  /\ now \in Nat /\ window \in Nat
  /\ starts \subseteq Ids
  /\ reservation \in [Ids -> Row]
  /\ lease \in [Ids -> {"none", "open", "closed", "dropped"}]
  /\ admitted \in [Ids -> Nat \cup {Never}]

(* Gateways together never hold more active reservations than maxInFlight, *)
(* across window rolls, crashes and recoveries.                            *)
InFlightLimited == Cardinality(Active) <= InFlightLimit

(* What counts against the guard, each reservation up to what it reserved. *)
CountedUnits(i) ==
  LET row == reservation[i] IN
  IF row.status = "settled" /\ row.settled < row.reserved THEN row.settled ELSE row.reserved

(* The reserved, unknown and settled units never exceed                    *)
(* maxReservedCreditUnits, up to settlements above what was reserved.      *)
ExposureLimited == MapThenSumSet(CountedUnits, Ids) <= UnitsLimit

(* A reservation that ended in the current window still counts in it:      *)
(* rolling over drops only earlier ones, whatever order the operations of  *)
(* slow gateways commit in.                                                *)
CurrentExposureKept ==
  [][\A i \in Ids : Ended(reservation[i]) /\ reservation[i].terminalAt >= window'
                      => reservation'[i] = reservation[i]]_vars

(* A reservation that ended, by its gateway or by the operator, keeps its  *)
(* status and units until it is dropped: a late settle of a recovered      *)
(* reservation does not lower the exposure.                                *)
EndedNeverRewritten ==
  [][\A i \in Ids : Ended(reservation[i]) => reservation'[i] \in {reservation[i], DeletedRow}]_vars

StartsWithin(from, to) ==
  {i \in Ids : admitted[i] # Never /\ admitted[i] > from /\ admitted[i] <= to}

(* Within one budget window, any period shorter than the starts window by  *)
(* the delay of the gateways sees at most requestStartsLimit starts.       *)
StartsLimitedInWindow ==
  \A x \in 0 .. MaxTime :
    Cardinality({i \in StartsWithin(x - (StartsWindow - MaxDelay), x) :
                   admitted[i] >= windowStart(x)}) <= StartsLimit

(* Any starts window sees at most requestStartsLimit starts, also one that *)
(* spans two budget windows (it does not: rollState empties the list).     *)
StartsLimited ==
  \A x \in 0 .. MaxTime : Cardinality(StartsWithin(x - StartsWindow, x)) <= StartsLimit
=============================================================================
