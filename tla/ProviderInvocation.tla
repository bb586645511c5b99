------------------------- MODULE ProviderInvocation -------------------------
(***************************************************************************)
(* The durable core of the gateway: one row per RequestExecution, one row  *)
(* per ProviderAttempt, the execution lease, and the Billing occupation of *)
(* an attempt (BudgetClaim, PayGo reservation, usage fact, ledger posting).*)
(*                                                                         *)
(* Every action is one committed PostgreSQL transaction of the command     *)
(* service (packages/application/src/storage/provider-invocation), which   *)
(* composes packages/request-execution and packages/billing.  The rows it  *)
(* reads are taken FOR UPDATE, and admission is Serializable, so a         *)
(* transaction is atomic; one that throws rolls back and is no step.       *)
(* Commands come from gateways (one owner id per execution), from their    *)
(* retries after a lost answer, and from the operator, in any order.       *)
(*                                                                         *)
(* One user, one credit account, one API key; several plan sources.        *)
(***************************************************************************)
EXTENDS Integers, FiniteSets, FiniteSetsExt

CONSTANTS
  Requests,          \* request log ids
  Owners,            \* execution owner ids
  MaxAttempts,       \* bound: candidates of a routing plan
  Sources,           \* plan subscriptions
  Source,            \* [Requests -> Sources]: the source a request selects
  PaygoSources,      \* the sources whose plan bills pay-as-you-go
  Contract,          \* [Requests -> Contracts]: the runtime's preparation stage
  Evidence,          \* terminal evidence a command may carry
  FailureReasons,    \* credential failures a Provider may report
  ErrorCodes,        \* terminal error codes a command may carry
  Usages,            \* final usage a Provider may report
  ZeroUsage,         \* the usage releaseNotStarted reports
  ChargeUnits,       \* [Usages -> Nat]: charge at the frozen price
  Maxima,            \* maximum charges an admission may compute
  InitialBalance,    \* credit units of the account
  ConcurrencyLimit,  \* userPaygoConcurrencyLimit
  PlanLimit,         \* [Sources -> Nat]: plan amount budget
  KeyLimit,          \* API key amount budget
  LeaseTtl,          \* lease duration, in ticks
  MaxTime            \* bound on the clock

Null == "null"
NoOwner == "no owner"
NoUsage == "no usage"
Contracts == {"protected@1", "cpa-basic@1"}
TerminalStatus == {"succeeded", "failed", "aborted"}
FailureClasses == {"retryable", "non_retryable"}
Reasons == {"execution_ownership_lost", "provider_final_usage_pending",
            "provider_usage_settlement_failed"}
Codes == ErrorCodes \cup Reasons \cup {Null}
Attempts == Requests \X (0 .. MaxAttempts - 1)

EvidenceRow == [outcome: TerminalStatus, failureClass: FailureClasses \cup {Null},
                failureReason: FailureReasons \cup {Null}, outputCommitted: BOOLEAN]

ASSUME ConstantsAssumption ==
  /\ MaxAttempts \in Nat \ {0}
  /\ NoOwner \notin Owners
  /\ Source \in [Requests -> Sources]
  /\ Contract \in [Requests -> Contracts]
  /\ Evidence \subseteq EvidenceRow
  /\ ZeroUsage \in Usages /\ NoUsage \notin Usages
  /\ ChargeUnits \in [Usages -> Nat] /\ ChargeUnits[ZeroUsage] = 0
  /\ PlanLimit \in [Sources -> Nat]
  /\ Maxima \subseteq Nat
  /\ InitialBalance \in Int
  /\ ConcurrencyLimit \in Nat \ {0}
  /\ LeaseTtl \in Nat \ {0} /\ MaxTime \in Nat

ASSUME FiniteAssumption == IsFiniteSet(Requests)

VARIABLES
  now,          \* database clock
  lease,        \* request_execution_leases
  execution,    \* request_executions
  attempt,      \* request_provider_attempts
  ended,        \* request_logs.ended_at is set
  dispatches,   \* Provider calls an owner was cleared to make
  claims,       \* budget_claims: attempts that have one
  reservation,  \* usage_reservations
  fact,         \* provider_invocation_usage_facts
  posting,      \* credit_ledger_events: units charged for an attempt
  balance       \* credit_accounts.balance_snap_units

vars == <<now, lease, execution, attempt, ended, dispatches, claims, reservation, fact, posting, balance>>
billingVars == <<claims, reservation, fact, posting, balance>>

NoLease == [owner |-> NoOwner, until |-> 0]
NoExecution == [status |-> "absent", owner |-> NoOwner, attemptCount |-> 0,
                outputCommitted |-> FALSE, terminalErrorCode |-> Null]
NoAttempt == [outcome |-> "absent", owner |-> NoOwner, startedAt |-> 0, maximum |-> 0,
              failureClass |-> Null, failureReason |-> Null, outputCommitted |-> FALSE,
              costExposure |-> "not_started", usageSettled |-> FALSE,
              reconciliationReason |-> Null]
NoReservation == [status |-> "absent", held |-> 0]

Init ==
  /\ now = 0
  /\ lease = [r \in Requests |-> NoLease]
  /\ execution = [r \in Requests |-> NoExecution]
  /\ attempt = [a \in Attempts |-> NoAttempt]
  /\ ended = [r \in Requests |-> FALSE]
  /\ dispatches = [a \in Attempts |-> 0]
  /\ claims = {}
  /\ reservation = [a \in Attempts |-> NoReservation]
  /\ fact = [a \in Attempts |-> NoUsage]
  /\ posting = [a \in Attempts |-> 0]
  /\ balance = InitialBalance

Present(a) == attempt[a].outcome # "absent"
Paygo(a) == Source[a[1]] \in PaygoSources
Protected(a) == Contract[a[1]] = "protected@1"
isTerminalExecutionStatus(r) == execution[r].status \in TerminalStatus

-----------------------------------------------------------------------------
(* Execution leases and the clock.                                         *)

requestExecutionLeaseUntil == now + LeaseTtl

AcquireLease(r, o) ==
  /\ lease[r].owner \in {NoOwner, o} \/ lease[r].until <= now
  /\ lease' = [lease EXCEPT ![r] = [owner |-> o, until |-> requestExecutionLeaseUntil]]
  /\ UNCHANGED <<now, execution, attempt, ended, dispatches, billingVars>>

RenewLease(r, o) ==
  /\ lease[r].owner = o
  /\ lease[r].until > now
  /\ lease' = [lease EXCEPT ![r].until = requestExecutionLeaseUntil]
  /\ UNCHANGED <<now, execution, attempt, ended, dispatches, billingVars>>

ReleaseLease(r, o) ==
  /\ lease[r].owner = o
  /\ lease' = [lease EXCEPT ![r] = NoLease]
  /\ UNCHANGED <<now, execution, attempt, ended, dispatches, billingVars>>

Tick ==
  /\ now < MaxTime
  /\ now' = now + 1
  /\ UNCHANGED <<lease, execution, attempt, ended, dispatches, billingVars>>

(* The gateway's finishRequestLog sets ended_at once.                      *)
FinishRequestLog(r) ==
  /\ ~ended[r]
  /\ ended' = [ended EXCEPT ![r] = TRUE]
  /\ UNCHANGED <<now, lease, execution, attempt, dispatches, billingVars>>

-----------------------------------------------------------------------------
(* RequestExecutionTerminalArbiter: a running execution is closed by its   *)
(* owner; a closed one only accepts the verdict it already holds.          *)

ArbiterAccepts(r, o, status, code, output) ==
  \/ execution[r].status = "running" /\ execution[r].owner = o
  \/ /\ isTerminalExecutionStatus(r)
     /\ execution[r].status = status
     /\ execution[r].terminalErrorCode = code
     /\ execution[r].outputCommitted = output

Arbitrated(r, status, code, output) ==
  IF execution[r].status = "running"
  THEN [execution EXCEPT ![r].status = status, ![r].terminalErrorCode = code,
                         ![r].outputCommitted = output \/ @]
  ELSE execution

-----------------------------------------------------------------------------
(* Admission.                                                              *)

ExecutionAdmits(r, i, o) ==
  IF i = 0 THEN execution[r].status = "absent"
  ELSE /\ execution[r].status = "running"
       /\ execution[r].owner = o
       /\ execution[r].attemptCount = i

PreviousSettled(r, i) == attempt[<<r, i - 1>>].usageSettled

(* The lease is continuously held, and either the request has no execution *)
(* yet or the next fallback follows an attempt with final usage.           *)
InspectNewAdmission(r, i, o) ==
  /\ lease[r].owner = o
  /\ lease[r].until > now
  /\ ExecutionAdmits(r, i, o)
  /\ i > 0 => PreviousSettled(r, i)

PersistProviderAttempt(r, i, o, max) ==
  /\ execution' = [execution EXCEPT ![r] =
       IF i = 0 THEN [NoExecution EXCEPT !.status = "running", !.owner = o, !.attemptCount = 1]
                ELSE [execution[r] EXCEPT !.attemptCount = @ + 1]]
  /\ attempt' = [attempt EXCEPT ![<<r, i>>] =
       [NoAttempt EXCEPT !.outcome = "pending", !.owner = o, !.startedAt = now, !.maximum = max]]

Open == {a \in Attempts : reservation[a].status \in {"active", "reconciling"}}
Held == MapThenSumSet(LAMBDA a : reservation[a].held, Open)

(* mutant: claims are not counted *)
BudgetUse_settledOnly(S) ==
  MapThenSumSet(LAMBDA a : IF fact[a] # NoUsage THEN ChargeUnits[fact[a]] ELSE 0, S)

(* settled + claimed units of the attempts in S                            *)
BudgetUse(S) ==
  MapThenSumSet(LAMBDA a : IF fact[a] # NoUsage THEN ChargeUnits[fact[a]]
                           ELSE IF a \in claims THEN attempt[a].maximum ELSE 0, S)

(* The plan window is the subscription's, open beyond now.                 *)
assertInvocationPlanBudgets(r, max) ==
  BudgetUse({a \in Attempts : Source[a[1]] = Source[r]}) + max <= PlanLimit[Source[r]]

(* The window of an API key policy ends, exclusively, at the instant of    *)
(* the admission (server.ts:513).                                          *)
assertInvocationDirectBudgets(max) ==
  BudgetUse({a \in Attempts : Present(a) /\ attempt[a].startedAt < now}) + max <= KeyLimit

(* mutant: other holds are not counted *)
assertInvocationBillingCapacity_noHolds(max) == balance >= max /\ Cardinality(Open) < ConcurrencyLimit

assertInvocationBillingCapacity(max) ==
  /\ balance - Held >= max
  /\ Cardinality(Open) < ConcurrencyLimit

createInvocationBillingOccupation(a, max) ==
  /\ claims' = claims \cup {a}
  /\ reservation' = IF Paygo(a)
                    THEN [reservation EXCEPT ![a] = [status |-> "active", held |-> max]]
                    ELSE reservation

(* A protected admission.  An admission of an attempt that exists is       *)
(* answered from its row (findReplay, equivalentAdmission): no change.     *)
Admit(r, i, o, max) ==
  LET a == <<r, i>> IN
  /\ Protected(a) /\ ~Present(a)
  /\ balance >= 0                          \* lockInvocationBillingAdmissionFunding
  /\ InspectNewAdmission(r, i, o)
  /\ assertInvocationPlanBudgets(r, max)
  /\ assertInvocationDirectBudgets(max)
  /\ Paygo(a) => assertInvocationBillingCapacity(max)
  /\ PersistProviderAttempt(r, i, o, max)
  /\ createInvocationBillingOccupation(a, max)
  /\ UNCHANGED <<now, lease, ended, dispatches, fact, posting, balance>>

(* A claimless admission: a positive balance, but no claim and no hold.    *)
AdmitCpaBasic(r, i, o) ==
  LET a == <<r, i>> IN
  /\ ~Protected(a) /\ ~Present(a)
  /\ ~ended[r]
  /\ Paygo(a) => balance > 0
  /\ InspectNewAdmission(r, i, o)
  /\ PersistProviderAttempt(r, i, o, 0)
  /\ UNCHANGED <<now, lease, ended, dispatches, billingVars>>

-----------------------------------------------------------------------------
(* Dispatch.                                                               *)

(* mutant: a stopped cost closes the reservation *)
markInvocationBillingReconciliation_closes(a, exposure) ==
  reservation' = IF a \in Open /\ exposure = "stopped"
                 THEN [reservation EXCEPT ![a] = [status |-> "released", held |-> 0]]
                 ELSE reservation

markInvocationBillingReconciliation(a, exposure) ==
  reservation' = IF a \in Open
                 THEN [reservation EXCEPT ![a].status = "reconciling",
                                          ![a].held = IF exposure = "stopped" THEN 0 ELSE @]
                 ELSE reservation

(* mutant: the owner may repeat the check *)
DispatchOwned_repeat(a, o) ==
  LET r == a[1] IN
  /\ attempt[a].owner = o /\ execution[r].owner = o /\ execution[r].status = "running"
  /\ lease[r].owner = o /\ lease[r].until > now

DispatchOwned(a, o) ==
  LET r == a[1] IN
  /\ attempt[a].owner = o /\ attempt[a].outcome = "pending"
  /\ execution[r].owner = o /\ execution[r].status = "running"
  /\ lease[r].owner = o /\ lease[r].until > now
  /\ attempt[a].costExposure = "not_started"

(* assertDispatchOwnership answers yes: the caller calls the Provider.     *)
DispatchGranted(a, o) ==
  /\ DispatchOwned(a, o)
  /\ attempt' = [attempt EXCEPT ![a] = [@ EXCEPT !.costExposure = "accruing"]]
  /\ dispatches' = [dispatches EXCEPT ![a] = @ + 1]
  /\ UNCHANGED <<now, lease, execution, ended, billingVars>>

(* It answers no and closes the execution: the pending attempt may have    *)
(* been dispatched by someone else.  Without a lease row, or on an attempt *)
(* with an outcome, it answers no and changes nothing.                     *)
OwnershipLost(a, o) ==
  LET r == a[1]
      output == attempt[a].outputCommitted
  IN /\ attempt[a].outcome = "pending" /\ lease[r].owner # NoOwner
     /\ ~DispatchOwned(a, o)
     /\ ArbiterAccepts(r, execution[r].owner, "failed", "execution_ownership_lost", output)
     /\ attempt' = [attempt EXCEPT ![a] =
          [@ EXCEPT !.outcome = "failed", !.failureClass = "non_retryable",
                    !.costExposure = "accruing",
                    !.reconciliationReason = "execution_ownership_lost"]]
     /\ execution' = Arbitrated(r, "failed", "execution_ownership_lost", output)
     /\ markInvocationBillingReconciliation(a, "accruing")
     /\ UNCHANGED <<now, lease, ended, dispatches, claims, fact, posting, balance>>

-----------------------------------------------------------------------------
(* Final usage.                                                            *)

providerAttemptFailureClass(outcome, class) ==
  IF outcome # "failed" THEN Null ELSE IF class = Null THEN "non_retryable" ELSE class

(* mutant: a reason left out is a missing reason *)
Expected_noReason(a, ev) ==
  [ev EXCEPT !.failureClass = providerAttemptFailureClass(ev.outcome, ev.failureClass)]

(* What the command's evidence becomes: a reason it leaves out is the one  *)
(* the row already has.                                                    *)
Expected(a, ev) ==
  [outcome |-> ev.outcome,
   failureClass |-> providerAttemptFailureClass(ev.outcome, ev.failureClass),
   failureReason |-> IF ev.failureReason # Null THEN ev.failureReason
                                                ELSE attempt[a].failureReason,
   outputCommitted |-> ev.outputCommitted]

Terminal(row) == [outcome |-> row.outcome, failureClass |-> row.failureClass,
                  failureReason |-> row.failureReason, outputCommitted |-> row.outputCommitted]

(* mutant: only the outcome is compared *)
EvidenceAgrees_outcomeOnly(a, ev) ==
  /\ attempt[a].outcome # "pending" => attempt[a].outcome = ev.outcome
  /\ ev.outcome # "failed" => Expected(a, ev).failureReason = Null

(* The evidence of an attempt with an outcome cannot be rewritten, and     *)
(* only a failed attempt has a failure reason.                             *)
EvidenceAgrees(a, ev) ==
  /\ attempt[a].outcome # "pending" => Terminal(attempt[a]) = Expected(a, ev)
  /\ ev.outcome # "failed" => Expected(a, ev).failureReason = Null

WithEvidence(row, x) ==
  [row EXCEPT !.outcome = x.outcome, !.failureClass = x.failureClass,
              !.failureReason = x.failureReason, !.outputCommitted = x.outputCommitted]

ReconciliationReady(a) ==
  /\ attempt[a].reconciliationReason # Null
  /\ IF Protected(a) THEN isTerminalExecutionStatus(a[1]) ELSE ended[a[1]]

FinalizeLock(a, ev, requireReconciliation) ==
  /\ Present(a)
  /\ requireReconciliation /\ ~attempt[a].usageSettled => ReconciliationReady(a)
  /\ EvidenceAgrees(a, ev)

(* ListUnresolvedProviderAttempts: what the operator is shown.             *)
Unresolved == {a \in Attempts : ~attempt[a].usageSettled /\ ReconciliationReady(a)}

(* A protected attempt is charged if it has a reservation, a claimless one *)
(* if its plan bills pay-as-you-go.                                        *)
ChargedUnits(a, usage) ==
  IF (IF Protected(a) THEN reservation[a].status # "absent" ELSE Paygo(a))
  THEN ChargeUnits[usage] ELSE 0

appendUsageCharge(a, units) ==
  /\ posting' = [posting EXCEPT ![a] = @ + units]
  /\ balance' = balance - units

(* mutant: a settlement is not recognised as a repetition *)
FirstSettlement_always(a) == TRUE

FirstSettlement(a) == fact[a] = NoUsage

(* mutant: gives back the maximum, not what is held *)
SettledReservation_maximum(a, outcome) ==
  [status |-> outcome, held |-> reservation[a].held - attempt[a].maximum]

SettledReservation(a, outcome) == [status |-> outcome, held |-> 0]

(* A second settlement must repeat the usage of the first and changes      *)
(* nothing; the first replaces the occupation by a fact, and charges       *)
(* pay-as-you-go usage.                                                    *)
settleInvocationBilling(a, usage, zeroOutcome) ==
  \/ fact[a] = usage /\ UNCHANGED billingVars
  \/ /\ FirstSettlement(a)
     /\ IF Protected(a) THEN a \in claims
        ELSE a \notin claims /\ reservation[a].status = "absent"
     /\ fact' = [fact EXCEPT ![a] = usage]
     /\ appendUsageCharge(a, ChargedUnits(a, usage))
     /\ claims' = claims \ {a}
     /\ reservation' = IF reservation[a].status = "absent" THEN reservation
                       ELSE [reservation EXCEPT ![a] = SettledReservation(a, zeroOutcome)]

NoTerminal == [status |-> Null, code |-> Null]
(* A command that ends the request carries the outcome as its status; a    *)
(* success carries no error code.                                          *)
TerminalOf(ev) ==
  {NoTerminal} \cup {[status |-> ev.outcome, code |-> c] :
                     c \in IF ev.outcome = "succeeded" THEN {Null} ELSE ErrorCodes}

Complete(a, ev, t) ==
  IF attempt[a].usageSettled THEN UNCHANGED <<attempt, execution>>
  ELSE /\ attempt' = [attempt EXCEPT ![a] =
            [WithEvidence(@, Expected(a, ev)) EXCEPT
               !.costExposure = "stopped", !.usageSettled = TRUE, !.reconciliationReason = Null]]
       /\ IF t = NoTerminal THEN UNCHANGED execution
          ELSE /\ ArbiterAccepts(a[1], attempt[a].owner, t.status, t.code, ev.outputCommitted)
               /\ execution' = Arbitrated(a[1], t.status, t.code, ev.outputCommitted)

settle(a, ev, usage, zeroOutcome, t, requireReconciliation) ==
  /\ FinalizeLock(a, ev, requireReconciliation)
  /\ settleInvocationBilling(a, usage, zeroOutcome)
  /\ Complete(a, ev, t)
  /\ UNCHANGED <<now, lease, ended, dispatches>>

(* settleFinalUsage of a protected attempt, settleCpaBasicLive of a        *)
(* claimless one.                                                          *)
SettleFinalUsage(a, ev, usage, t) == settle(a, ev, usage, "settled", t, FALSE)

(* The Provider was not called: zero usage.  The row's cost exposure is    *)
(* not consulted.                                                          *)
ReleaseNotStarted(a, ev, t) == settle(a, ev, ZeroUsage, "released", t, FALSE)

(* The operator settles an attempt from evidence found later, which has no *)
(* failure reason of its own.                                              *)
ReconcileFinalUsage(a, ev, usage) ==
  settle(a, [ev EXCEPT !.failureReason = Null], usage, "settled", NoTerminal, TRUE)

-----------------------------------------------------------------------------
(* Reconciliation: the outcome is known, the usage is not.                 *)

(* Repeating a reconciliation changes nothing; reopening a stopped cost is *)
(* refused.                                                                *)
ExposureMayBecome(a, exposure) ==
  /\ attempt[a].outcome # "pending" /\ attempt[a].reconciliationReason # Null
       => attempt[a].costExposure # exposure
  /\ ~(attempt[a].costExposure = "stopped" /\ exposure = "accruing")

EnterReconciliation(a, ev, exposure, reason) ==
  LET r == a[1]
      code == IF ev.outcome = "succeeded" THEN Null ELSE reason
      running == execution[r].status = "running"
  IN /\ Present(a) /\ execution[r].status # "absent"
     /\ EvidenceAgrees(a, ev)
     /\ ~attempt[a].usageSettled
     /\ ExposureMayBecome(a, exposure)
     /\ running => ArbiterAccepts(r, attempt[a].owner, ev.outcome, code, ev.outputCommitted)
     /\ attempt' = [attempt EXCEPT ![a] =
          [WithEvidence(@, Expected(a, ev)) EXCEPT
             !.costExposure = exposure, !.reconciliationReason = reason]]
     /\ execution' = IF running THEN Arbitrated(r, ev.outcome, code, ev.outputCommitted)
                     ELSE execution
     /\ markInvocationBillingReconciliation(a, exposure)
     /\ UNCHANGED <<now, lease, ended, dispatches, claims, fact, posting, balance>>

(* A live settlement of a claimless attempt threw and rolled back: a       *)
(* second transaction records that its usage is missing, without the       *)
(* command's failure reason.                                               *)
TransitionFailedCpaBasicSettlement(a, ev) ==
  /\ ~Protected(a)
  /\ EnterReconciliation(a, [ev EXCEPT !.failureReason = Null], "stopped",
                         "provider_usage_settlement_failed")

(* mutant: a failure is recorded as an abort *)
FailRequestExecution_aborts(r, o, code) ==
  /\ execution[r].status = "running" /\ execution[r].owner = o
  /\ execution' = Arbitrated(r, "aborted", code, FALSE)
  /\ UNCHANGED <<now, lease, attempt, ended, dispatches, billingVars>>

FailRequestExecution(r, o, code) ==
  /\ execution[r].status = "running"
  /\ ArbiterAccepts(r, o, "failed", code, FALSE)
  /\ execution' = Arbitrated(r, "failed", code, FALSE)
  /\ UNCHANGED <<now, lease, attempt, ended, dispatches, billingVars>>

-----------------------------------------------------------------------------
LeaseStep == \E r \in Requests, o \in Owners :
               AcquireLease(r, o) \/ RenewLease(r, o) \/ ReleaseLease(r, o)

AdmissionStep == \E r \in Requests, i \in 0 .. MaxAttempts - 1, o \in Owners :
                   AdmitCpaBasic(r, i, o) \/ \E max \in Maxima : Admit(r, i, o, max)

SettlementStep ==
  \E a \in Attempts, ev \in Evidence :
     \/ \E t \in TerminalOf(ev) : \/ ReleaseNotStarted(a, ev, t)
                                  \/ \E u \in Usages : SettleFinalUsage(a, ev, u, t)
     \/ \E u \in Usages : ReconcileFinalUsage(a, ev, u)

ReconciliationStep ==
  \E a \in Attempts, ev \in Evidence :
     \/ \E exposure \in {"accruing", "stopped"} :
          EnterReconciliation(a, ev, exposure, "provider_final_usage_pending")
     \/ TransitionFailedCpaBasicSettlement(a, ev)

Next ==
  \/ Tick
  \/ LeaseStep
  \/ AdmissionStep
  \/ \E a \in Attempts, o \in Owners : DispatchGranted(a, o) \/ OwnershipLost(a, o)
  \/ SettlementStep
  \/ ReconciliationStep
  \/ \E r \in Requests : FinishRequestLog(r)
  \/ \E r \in Requests, o \in Owners, code \in ErrorCodes : FailRequestExecution(r, o, code)

Spec == Init /\ [][Next]_vars

-----------------------------------------------------------------------------
(* Properties.                                                             *)

LeaseRow == [owner: Owners \cup {NoOwner}, until: Nat]
ExecutionRow == [status: TerminalStatus \cup {"absent", "running"}, owner: Owners \cup {NoOwner},
                 attemptCount: Nat, outputCommitted: BOOLEAN, terminalErrorCode: Codes]
AttemptRow == [outcome: TerminalStatus \cup {"absent", "pending"}, owner: Owners \cup {NoOwner},
               startedAt: Nat, maximum: Nat, failureClass: FailureClasses \cup {Null},
               failureReason: FailureReasons \cup {Null}, outputCommitted: BOOLEAN,
               costExposure: {"not_started", "accruing", "stopped"}, usageSettled: BOOLEAN,
               reconciliationReason: Reasons \cup {Null}]
ReservationRow == [status: {"absent", "active", "reconciling", "settled", "released"}, held: Nat]

(* Every table holds rows of its columns' types.                           *)
TypeOK ==
  /\ now \in Nat
  /\ lease \in [Requests -> LeaseRow]
  /\ execution \in [Requests -> ExecutionRow]
  /\ attempt \in [Attempts -> AttemptRow]
  /\ ended \in [Requests -> BOOLEAN]
  /\ dispatches \in [Attempts -> Nat]
  /\ claims \subseteq Attempts
  /\ reservation \in [Attempts -> ReservationRow]
  /\ fact \in [Attempts -> Usages \cup {NoUsage}]
  /\ posting \in [Attempts -> Nat]
  /\ balance \in Int

(* The rows of one attempt agree with each other.                          *)
RowCoherent(a) ==
  LET row == attempt[a] IN
  /\ row.outcome \in {"absent", "pending"} =>
       /\ row.failureClass = Null /\ row.failureReason = Null /\ ~row.outputCommitted
       /\ row.costExposure # "stopped" /\ ~row.usageSettled /\ row.reconciliationReason = Null
  /\ row.outcome = "absent" => row.costExposure = "not_started"
  /\ row.usageSettled => row.costExposure = "stopped" /\ row.reconciliationReason = Null
  /\ row.failureClass # Null <=> row.outcome = "failed"
  /\ row.failureReason # Null => row.outcome = "failed"

OccupationMatches(a) ==
  LET unsettled == Present(a) /\ ~attempt[a].usageSettled IN
  /\ a \in claims <=> unsettled /\ Protected(a)
  /\ a \in Open <=> unsettled /\ Protected(a) /\ Paygo(a)
  /\ reservation[a].status # "absent" <=> Present(a) /\ Protected(a) /\ Paygo(a)
  /\ fact[a] # NoUsage <=> attempt[a].usageSettled
  /\ a \notin Open => reservation[a].held = 0

Charged(a) == posting[a] = IF fact[a] # NoUsage /\ Paygo(a) THEN ChargeUnits[fact[a]] ELSE 0

Listed(a) ==
  /\ attempt[a].outcome \in TerminalStatus =>
       (attempt[a].usageSettled <=> attempt[a].reconciliationReason = Null)
  /\ attempt[a].reconciliationReason # Null =>
       /\ attempt[a].outcome \in TerminalStatus
       /\ isTerminalExecutionStatus(a[1])
       /\ Protected(a) => a \in Unresolved

DispatchedOnce(a) ==
  dispatches[a] > 0 => dispatches[a] = 1 /\ attempt[a].costExposure # "not_started"

(* An attempt row without an outcome carries no evidence, no reason and no *)
(* final usage, and its cost has not been declared stopped; a settled row  *)
(* is stopped (request_provider_attempts_invocation_state_check) and has   *)
(* nothing left to reconcile; only a failed row has a failure class or     *)
(* reason; an execution row exists exactly when an attempt does.           *)
AttemptRowsCoherent ==
  /\ \A a \in Attempts : RowCoherent(a)
  /\ \A r \in Requests : execution[r].status = "absent" <=> execution[r].attemptCount = 0

(* The attempts of a request are numbered without a gap, all belong to the *)
(* owner that opened the execution (a later lease holder never adds one),  *)
(* and every attempt but the last has final usage: a request never has two *)
(* Provider calls whose cost is unknown.                                   *)
OneUnsettledAttempt ==
  \A a \in Attempts :
    LET e == execution[a[1]] IN
    /\ Present(a) <=> a[2] < e.attemptCount
    /\ Present(a) => attempt[a].owner = e.owner
    /\ a[2] + 1 < e.attemptCount => attempt[a].usageSettled

(* An attempt's Billing state and its usage_settled flag, written by two   *)
(* packages in one transaction, never disagree: a protected attempt keeps  *)
(* its claim (and, if pay-as-you-go, its open reservation) exactly until   *)
(* it is settled, a claimless one never has either, and the usage fact     *)
(* exists exactly when it is settled.                                      *)
OccupationMatchesAttempt == \A a \in Attempts : OccupationMatches(a)

(* Whatever is retried or raced, an attempt is charged its fact's units,   *)
(* once, and only if its source bills pay-as-you-go.                       *)
ChargedOnce == \A a \in Attempts : Charged(a)

(* An attempt with a known outcome is settled or carries a reason; one     *)
(* with a reason is unsettled and its execution is closed, so that a       *)
(* protected one is in the operator's list.                                *)
ReconcilingIsListed == \A a \in Attempts : Listed(a)

(* The operator can settle every attempt of the list: whatever wrote its   *)
(* evidence, repeating that evidence is accepted, and the occupation that  *)
(* a settlement consumes is still there.                                   *)
UnresolvedIsSettleable ==
  \A a \in Unresolved :
    /\ FinalizeLock(a, [Terminal(attempt[a]) EXCEPT !.failureReason = Null], TRUE)
    /\ fact[a] = NoUsage
    /\ a \in claims <=> Protected(a)

(* An attempt is cleared for dispatch at most once, whatever owners repeat *)
(* the check, and from then on is recorded as possibly costing something.  *)
AtMostOnceDispatch == \A a \in Attempts : DispatchedOnce(a)

(* An execution that succeeded or was aborted did so by the verdict of its *)
(* last attempt, and it reports committed output only if that attempt did. *)
VerdictIsLastAttempts ==
  \A r \in Requests :
    LET last == attempt[<<r, execution[r].attemptCount - 1>>] IN
    /\ execution[r].status \in {"succeeded", "aborted"} => last.outcome = execution[r].status
    /\ execution[r].outputCommitted => last.outputCommitted

(* Pay-as-you-go invocations in flight or in reconciliation never exceed   *)
(* the user's concurrency limit.                                           *)
WithinConcurrencyLimit == Cardinality(Open) <= ConcurrencyLimit

(* What an attempt may cost its budgets: its claim, or its charge up to    *)
(* the maximum that was admitted.                                          *)
Admitted(a) ==
  LET settled == ChargeUnits[fact[a]] IN
  IF fact[a] = NoUsage \/ settled > attempt[a].maximum THEN attempt[a].maximum ELSE settled

(* Protected admissions keep a plan within its amount budget, up to        *)
(* charges above the admitted maximum and claimless usage.                 *)
PlanBudgetRespected ==
  \A s \in Sources :
    MapThenSumSet(Admitted, {a \in Attempts : Source[a[1]] = s /\ Protected(a)}) <= PlanLimit[s]

(* The API key budget covers all protected attempts (it does not: see      *)
(* assertInvocationDirectBudgets).                                         *)
KeyBudgetRespected ==
  MapThenSumSet(Admitted, {a \in Attempts : Protected(a)}) <= KeyLimit

(* A closed execution is never reopened, rewritten or extended.            *)
TerminalNeverRewritten ==
  [][\A r \in Requests : isTerminalExecutionStatus(r) => execution'[r] = execution[r]]_vars

EvidenceKept(a) ==
  /\ attempt[a].outcome \in TerminalStatus => Terminal(attempt'[a]) = Terminal(attempt[a])
  /\ attempt[a].usageSettled =>
       /\ attempt'[a] = attempt[a] /\ fact'[a] = fact[a]
       /\ posting'[a] = posting[a] /\ reservation'[a] = reservation[a]

(* A known outcome and its evidence are never rewritten, and a settled     *)
(* attempt never changes, in any table.                                    *)
EvidenceNeverRewritten == [][\A a \in Attempts : EvidenceKept(a)]_vars

(* friday_relay_validate_provider_attempt_terminal, the row's trigger.     *)
TriggerAdmits(old, new) ==
  \/ /\ new.outcome = "pending" /\ old.outcome = "pending"
     /\ old.costExposure = "not_started" /\ new.costExposure = "accruing"
     /\ new.failureClass = Null /\ ~new.usageSettled
  \/ /\ new.outcome \in TerminalStatus /\ ~old.usageSettled
     /\ new.outcome = "failed" <=> new.failureClass # Null
     /\ new.usageSettled => new.costExposure = "stopped"

(* No command relies on the database to stop it: every change of an attempt *)
(* row is one the row trigger admits.                                      *)
DatabaseChecksHold ==
  [][\A a \in Attempts : Present(a) /\ attempt'[a] # attempt[a]
                            => TriggerAdmits(attempt[a], attempt'[a])]_vars

ExposureKept(a) ==
  /\ attempt[a].costExposure # "not_started" => attempt'[a].costExposure # "not_started"
  /\ attempt[a].costExposure = "stopped" => attempt'[a].costExposure = "stopped"

(* Cost exposure never goes back: a call that may have cost something is   *)
(* never recorded as not started, nor a stopped cost as accruing.          *)
ExposureNeverGoesBack == [][\A a \in Attempts : ExposureKept(a)]_vars

(* Holds never exceed the balance until a settlement charges an attempt    *)
(* more than it held: above its maximum, after a stopped reconciliation    *)
(* gave its hold back, or without one.                                     *)
DeficitOnlyFromUncoveredCharge ==
  [][balance >= Held /\ balance' < Held' =>
       \E a \in Attempts : posting'[a] - posting[a] > reservation[a].held]_vars
=============================================================================
