# Frely: a TLA+ verification of what moves money, access and captures

Frely is a relay in front of model Providers. A gateway authenticates an API key,
resolves a model to candidate Providers, admits each Provider call against budgets
and balances, dispatches it, streams the answer, and settles what it cost. Around
that core, users buy plans and credit, sellers are paid from settlement windows,
request captures are archived, a small control service owns Provider credentials,
and a tunnel pairs clients with the nodes of devices. Durable decisions are PostgreSQL
transactions or files; processes are several, may crash, and repeat what they lost the
answer of.

This directory models those parts, model-checks them with TLC, and proves the safety
of the invocation core and the risk guard with TLAPS. Paths are relative to `src/`;
`PROJECT.json` maps every definition to its source lines.

## 1. Inventory

| Component | State | Operations | Hard behaviour | Correct when |
| --- | --- | --- | --- | --- |
| Request execution, `packages/request-execution` | lease, execution and attempt rows | acquire/renew/release lease, admit first/fallback, dispatch check, finalise, reconcile, fail | two owners, expiry, repeated commands, verdicts in any order | one unsettled call per request; a verdict is final; nothing is lost from the operator's list |
| Provider invocation commands, `packages/application/src/storage/provider-invocation` | none of its own: composes request execution and billing in one transaction | `admit`, `admitCpaBasic`, `assertDispatchOwnership`, `settleFinalUsage`, `settleCpaBasicLive`, `releaseNotStarted`, `enterReconciliation`, `reconcileFinalUsage`, `failRequestExecution` | two packages' tables change together; retried transactions; a failed settlement followed by a second transaction | the two packages never disagree about an attempt |
| Invocation billing, `packages/billing` | claims, reservations, usage facts, ledger, balance | budget and capacity checks, occupation, settlement, reconciliation mark | competing admissions; charges above the admitted maximum; holds given back early | one charge per attempt; budgets, limit and holds respected |
| Shadow-risk guard, `packages/application/src/storage/postgres-risk-state.ts` | guard row (window, starts), reservations | acquire, settle, closeUnknown, recoverExpiredLease | instants read before the lock; crashes with a slot held; window roll | slots, exposure and starts limited |
| Gateway orchestration, `packages/gateway/src/index.ts` | per request, in memory | the order in which the commands above are issued; fallback loop; stream and abort handling | crash between two commands, a call that throws after its commit, lease lost mid-stream | every admitted attempt is settled or listed, every log closed |
| Task leases and seller settlement, `packages/application/src/storage/postgres-task-lease.ts`, `seller-settlement-task.ts`, `postgres-application-operations.ts` | lease row with fencing token; windows, events, seller accounts | acquire, renew, assertHeld, release; backfill and release transactions; refund; booking | work outliving its lease, overlapping workers, deadlines on two clocks, deferrals | every window is paid once, exactly its net, in the end |
| Capture and archives, `packages/capture`, `packages/db-ops/src/request-log-reconciliation.ts` | hot files, staging files, packs, catalogs, manifest | publish, read, reconcile logs, archive, purge, purge-verified | processes without a common lock, a crash at any step, a mount without hard links | nothing is removed before it is archived; the month is archived in the end |
| Commerce: plans and cards, `postgres-application-operations.ts`, `packages/entitlement`, `apps/web` Stripe routes | orders, cards, subscriptions, event inbox, credit | order, checkout, webhook, use, send, replace, reverse | duplicated, late and concurrent events; reads that decide later writes | one card per payment, one use per purchase |
| Commerce: top-ups and credit | top-ups, credit cards, ledger, balances | create, review, pay, redeem, transfer, reverse | the same, and credit that moved on before a reversal | a top-up is worth its amount once |
| Pi tunnel, `apps/pi-tunnel`, `packages/pi-tunnel` | sockets, phases, pairing, queues, timers | handshake, authorization, forwarding, revocation poll | late answers, reconnects, back-pressure, closing sockets | frames reach only their own client; a revoked device is cut off |
| Credential control, `apps/cliproxy-control` | store (memory, file), CPA's collection and clients, OAuth sessions | put, import, delete, reconcile, start/callback/status | every await is a step; a failed CPA call; a crash between store and CPA | the store keeps what was acknowledged; a saved key is served |
| Pipeline kernel, `packages/gateway/src/pipeline` | per-request context | compile, run nodes | abort, node order | phases in order, no write after the end |
| HTTP front end, `apps/gateway` | body budget, streams | read body, write stream | back-pressure, client disconnect | capacity returned exactly once |
| Model access, `packages/model-access` | routing graph with revisions | selection kernel, management commands | concurrent revision changes | deterministic, eligible candidates only |
| Identity, tenancy, authority | rows | checks and CRUD, abuse windows, team deletion | window edges | lockout honoured |
| Pricing; audit, observability; UI; tooling; upstream overlay | none or append-only | - | - | no decision depends on them, except pricing |

The gateway calls the command service for each attempt; the command service takes the
transaction and passes it to a request-execution participant and a billing participant.
The operator, through the admin API, lists unresolved attempts and settles them. The
shadow-risk guard is asked between admission and dispatch and told afterwards. Settled
usage of a plan is booked in the settlement windows the seller task pays out. Captures
are published by the gateway and archived by tasks that look at the request logs.
`PROJECT.json` "hazards" lists, per line, what can go wrong in these interactions.

## 2. Modules

| Module | What it is |
| --- | --- |
| `ProviderInvocation` | The durable core: request execution, the command service and invocation billing, composed as in the code |
| `MCProviderInvocation` | Instances for `own`, `money`, `key_budget` |
| `ShadowRisk`, `MCShadowRisk`, `ShadowRiskProofs` | The guard in front of dispatch; runs `risk`, `risk_starts`; its theorems |
| `Gateway`, `MCGateway` | The program of one request; EXTENDS `ProviderInvocation`, whose actions are the durable half of its steps |
| `GatewayProofs` | The theorems about both: first the command service for any caller, then the program on top of it |
| `TaskLease` | The fenced lease of a periodic task, used by `SellerSettlement` |
| `SellerSettlement`, `MCSellerSettlement` | Settlement windows and the two transactions of the task, statement by statement |
| `SellerPayout`, `SellerSettlementProofs` | The abstract specification `SellerSettlement` implements; that it does, and its theorems |
| `CaptureArchive`, `MCCaptureArchive`, `CaptureArchiveProofs` | Captures of one month, from the gateway's writer to the purge |
| `StripeCheckout` | Checkout Sessions and webhook deliveries (external), used by the next two |
| `PlanPurchase`, `MCPlanPurchase`, `PlanPurchaseProofs` | Plan orders, plan cards, subscriptions from use, reversals |
| `CreditTopup`, `MCCreditTopup`, `CreditTopupProofs` | Top-ups, credit cards, the credit ledger |
| `PiTunnel`, `MCPiTunnel`, `PiTunnelProofs` | The relay between nodes and clients |
| `CredentialControl`, `MCCredentialControl`, `CredentialControlProofs` | The credential store, CPA and OAuth logins; its theorems |

Two conventions run through the newer modules. *Setups*: a module with behaviours of
different kinds has a variable `setup`, chosen initially from the constant `Setups` and
never changed; it says which operations, faults and participants a behaviour has. One
run then covers several small instances, and no property depends on it except where it
says so. *Named bounds*: `MaxFaults`, `MaxCrashes`, `MaxOpen`, `MaxDeals`,
`MaxRedeliveries`, `MaxBatches`, `MaxSpend`, `MaxCards` (or the fields of a setup) cap
what could happen for ever, and appear in the guards by name.

### ProviderInvocation

One variable per table: `lease` (request_execution_leases), `execution`
(request_executions), `attempt` (request_provider_attempts), `ended`
(request_logs.ended_at), `claims` (budget_claims), `reservation` (usage_reservations),
`fact` (provider_invocation_usage_facts), `posting` (credit_ledger_events) and `balance`
(credit_accounts.balance_snap_units). `now` is the clock and `dispatches` counts how
often a caller was cleared to call the Provider, which no table records.

*One action is one committed transaction.* Commands lock the rows they use `FOR UPDATE`,
and admission is Serializable, so a transaction is atomic; one that throws rolls back and
is no step. A helper of the code is an operator of the same name where TLA+ allows it:
`settle` is `FinalizeLock`, then `settleInvocationBilling`, then `Complete` with the
arbiter, as `settleFinalUsage` in `commands.ts` orders them. `settleCpaBasicLive` is two
transactions in the code and two actions here (`SettleFinalUsage`, and
`TransitionFailedCpaBasicSettlement` when the first threw).

*The environment is any caller.* Every owner may issue every command at any time, with
any evidence of the set `Evidence`. That over-approximates the gateway's program order
and covers repeated, late and reordered commands; what depends on the program order is
in `Gateway`.

*Two contracts.* `protected@1` attempts have a claim and, pay-as-you-go, a reservation;
`cpa-basic@1` attempts have neither. `Contract` fixes which a request uses.

*Abstractions.* One user, account and API key. A usage is a value and `ChargeUnits` its
price, so the arithmetic of `invocation-domain.ts` is not in this module. Only amount
budgets: token budgets are the same comparison on another column. Routing, price and
entitlement checks of an admission can only refuse it; the choice whether an admission
happens stands for them. Two checks of the database are properties instead of guards:
the row trigger (`DatabaseChecksHold`) and the attempt state check
(`AttemptRowsCoherent`). The admission and the later commands read one clock here; in the
code the first is the database's and the others the application's.

### ShadowRisk

`window` and `starts` are the guard row, `reservation` its table and `lease` the lease
object a gateway holds in memory. The list of start instants is the set of reservations
that started, with `admitted` their instants: ids are unique, so equal instants stay
distinct, and the order of the list decides only the text of an error. Each operation carries
an instant up to `MaxDelay` old, because `Date.now()` is read before the row lock.
`LeaseDropped` is a gateway that crashed or whose `settle` threw: the gateway only logs
that error (`packages/gateway/src/index.ts`, `completeRequest`). The clock is common to
all gateways.

### Gateway

`g[r]` is the program of request `r`: the await it stands at, the attempt, the verdict,
the stream, the risk lease. `log` is the request log and `called` the attempts whose
Provider was called. A step is one call of `invoke`, `finalizeProviderInvocationFailure`
or `wrapStreamForBilling`; its durable half is an action of `ProviderInvocation`, so the
two modules cannot disagree about what a command does. `Call` adds the two ways a call
fails: it throws without effect, or it throws after its commit; the handlers of the code
then go on not knowing which. The lease may run out at any moment, the client may abort,
and the process may die (`Crash`). The guard is a grant or a refusal here, with `Enforced`
saying whether a refusal stops the request; its limits are the business of `ShadowRisk`.

### TaskLease, SellerSettlement, SellerPayout

A lease that has run out is one bit, and a fencing token is the least one nobody
remembers: the code only compares tokens for equality. The task's two transactions are
READ COMMITTED and long, so they are modelled statement by statement, with what they
wrote in `txn` until the commit and the rows they locked in `txn[w].locked`; every other
transaction is one step that waits for those rows. Ends of windows, refund deadlines and
due times are independent events, because they are measured on unsynchronised clocks.
`SellerPayout` is the promise: windows collect, a set of them closes, and closing pays
what a window holds. The refinement mapping reads status, net and payout off the tables;
leases, locks, batches and rollbacks are stutters.

### CaptureArchive

`file` and `staging` are a request's hot files, `packs`, `catalogs` and `manifest` the
cold store, `writer[r]` the gateway's capture writer and `task[t]` a db-ops process. Packs
and catalogs are named by the hash of their content, so a pack is the set of requests in
it. With hard links a file appears whole; without them (`setup.links`) a manifest can be
met half written. The operator's tasks are catch-up, purge and purge-verified, one or two
at a time; a crash may end a task or the gateway anywhere. Time is two facts: a staging
file is old enough to be removed, a request is older than `hotDays`.

### StripeCheckout, PlanPurchase, CreditTopup

`StripeCheckout` has one session per payment and the set of its events not yet answered
with a 2xx; an event may be delivered several times, at once and in any order. An
operation that locks the row it decides on is one action; one that reads first and writes
later is two actions of a process whose `tx` is what it read, and what the second writes
still goes through the unique indexes and triggers. Cards are numbered in the order of
their creation and remember the card they replaced, so the chain of an order is a set
(`Lineage`).

### PiTunnel

The relay is one event loop: a handler up to its first await is one action. A socket the
relay closes is *closing*: nothing more is sent to it, what it sent is still handled,
until its close event. `in`, `out` and `queue` are the wires and the relay's queue, `got`
what an end received in a session. Messages that arrive in one tick are handled
one after the other, with other events possible between them.

### CredentialControl

`mem`, `disk` and `tmp` are the store, `cfg` and `live` CPA's key collection and the
clients its watcher builds from it. A job is a method of the service, and its `pc` the
await it is suspended at; a rejected await is a step of its own into the catch clause of
the method. Mutations queue on `#tail`; OAuth operations of different Providers run next
to them. A fault is spent where a call fails: a call of the file system (`ReplaceWrite`,
`ReplaceRename`), a call CPA never answers, or one it has applied and whose answer is lost
(`ReconcileUnload`, `ReconcilePut`, `Bind`, `DropFile`, `ImportFile`); the health read an
operation ends with may also answer unready (`SetReady`). `VertexFile` is the auth file an
imported service account becomes, which the repair of a rotated login refuses
(`RepairList`).

Abstractions: one API-key kind stands for `API_KEY_KINDS`, so that a fault between two kinds'
collections is not told apart from one before or after both; all logins have one OAuth kind;
file-backed clients reload at once; a temporary file written in part is left out, since
nothing renames it. The poll for an unloaded Provider's absence
(`ReconcileAbsent`) runs into its deadline while an auth file or a key keeps it served; the
key can only come back by the collection a login's own `cpa.reconcile` writes next to the
line.

## 3. Runs

| Run | Instance | Shows |
| --- | --- | --- |
| `own` | 1 protected request or 1 claimless one, 2 owners, 2 attempts, time to 2, lease of 1 | Lease take-over before, between and after every command; a fallback; repeated settlement with another usage; all four kinds of evidence; the claimless attempt whose live settlement failed and was then recorded for reconciliation, also as a fallback. Rows of the two packages agree, nothing known is rewritten, everything listed is settleable. |
| `money` | 3 protected pay-as-you-go requests beside a claimless one, maxima 1 and 3, charges 0 and 3, balance 3, plan limit 4, 2 slots | Competition for balance and plan, a charge above its maximum, a hold given back before the charge. One charge per attempt; a deficit only from a charge nobody had admitted. |
| `risk` | 3 reservations, 2 budget windows of 3 ticks, 2 slots, instants up to 1 tick old | Exposure and starts within a window; current exposure survives a roll. |
| `settlement` | 2 workers, 1 plan window, 2 purchases to backfill, 1 new deal, 1 fault | `SellerPayout` is implemented with overlapping workers, a lease lost in mid-transaction and a late settlement; a refunded purchase is never paid; an ended window is closed in the end. |
| `gateway` | 1 protected or claimless request, 2 candidates, 1 thrown call, lease expiry, abort, crash | All paths of `invoke` out of the fallback loop. `ProviderInvocation` is implemented; without a thrown call nothing is left pending and every resource is given back; every log is closed. |
| `archive` | 2 requests, 1 or 2 tasks, 4 setups | Two tasks in each other's way, a stream or a record still being written, a mount with and without links, one crash. |
| `purchase` | 1 Stripe and 1 balance order, 2 web processes; either duplicates and a crash, or everything that can happen to cards | One card per payment and one debit per balance card; an acknowledged payment is fulfilled; one use per purchase with the seller's revenue. |
| `topup` | 3 top-ups, one of each kind, 2 users | A top-up is worth its amount once wherever its card or its credit went, and nothing before it was paid; a paid one leaves the pending state. |
| `tunnel` | 4 setups: two clients, a reconnect, a session of 4 frames over a buffer of 1 and a queue of 2, a revocation | Frames reach only the client they belong to, in order and without a gap; queues drain; a revoked device is disconnected for good. |
| `control` | 2 Providers; 7 setups: mutations, logins, an expiring login, replacements, failures (two faults), a rotated login, a lost import | Acknowledged changes survive failed calls of CPA and of the file system, lost answers and a crash; a login binds its own file; a key answered as saved is served; the service becomes ready again. |
| `key_budget` | 2 protected requests of a subscription, key limit 3 | **Violation**, see section 4. |
| `risk_starts` | prompt gateways, one roll | **Violation**, see section 4. |

Why the bounds are enough. An attempt's rows depend on its own request only, apart from
the sums, the open set and the clock; so one request with two owners and two attempts
shows every race on rows, and three requests every race on sums and the limit of two.
For the proved properties the theorems remove the bounds altogether. In the other
modules races are between two: two workers, two tasks, two web processes, two clients on
one node, two mutations, two logins; a third meets the same locks. One fault or crash per
behaviour is placed at every step; the code has no memory of earlier faults except in the
rows the model keeps (`control` has two where keys are replaced and in `Failures`, since a
rollback can itself fail). Two windows of three ticks, a queue of two, a buffer of one and a session of
four frames are the least in which a roll, a full queue and an overflow happen.

Reductions. `OwnerSymmetry`, `RequestSymmetry`, `IdSymmetry` and `ProcSymmetry` permute
model values no definition distinguishes; only safety and action properties are checked
under them. `own` has the constraint `OneRequest`: one request at a time is under way, the
protected one, or until the first take-over the claimless one; two requests side by side are
the business of `money`. That one has the constraint `BoundedRun`: no lease is given back, no log of a
protected request ends, and at most three requests are under way; the sums do not depend
on any of these. Deadlock is checked in the runs of `ProviderInvocation` and in
`control`; elsewhere a finite supply of requests, ids or events may be used up.

Type invariants. `TypeOK` of `ProviderInvocation`, `ShadowRisk`, `PlanPurchase`,
`CreditTopup`, `PiTunnel`, `CaptureArchive` and `SellerSettlement` (with `LeaseTypeOK`) and
`GTypeOK` and `ControlTypeOK` are proved, and so are `ManifestIsLast` and
`PairedOnlyIfAllowed`, and `ReadyMeansMaterialised`, `OneOpenSession` and `CallbackOnce` of
the control service; `TypeOK` of the service is in `own` as well.

Mutants. Each property has a mutant: a plausible slip in the mapped code (a dropped
guard, an off-by-one, a missing reset) written as an operator beside the original
(`X_slip`), which makes TLC report that property. They are used by nothing else.

### Fairness

| Specification | Assumed | Because |
| --- | --- | --- |
| `GFairSpec` | a request's program takes its next step | every call has a timeout and every stream a lifetime; a crash ends the program instead |
| `SellerSettlement!FairSpec` | a started run goes on, the task is started again and again, an abandoned lease runs out, deferrals end | the worker's timer; the lease time; a deferral is one minute |
| `CaptureArchive!FairSpec` | the gateway is restarted, time passes, a running task goes on, catch-up is run again and again | the process supervisor; nothing in the repository schedules catch-up, so that is the operator's part |
| `CreditTopup!FairSpec` | Stripe delivers a paid event until it is answered with a 2xx | Stripe's retries, which end after some days |
| `PiTunnel!FairSpec` | handlers, timers and the revocation poll run, peers read, closing sockets close | one event loop; `ws` ends a closing handshake by a timer of its own |
| `CredentialControl!FairSpec` | a suspended method goes on, the scheduled reconciliation is armed again, CPA's watcher catches up | the timer is re-armed in `finally`; calls have timeouts |

No liveness is claimed of `ProviderInvocation` and `ShadowRisk` alone: their commands have
no scheduler. After a crash of a gateway only the operator acts, and
`recoverExpiredLease` has no caller in the repository at all.

Conditions written into properties, each a limit of the code and not of the model:
`MonthIsArchived` needs hard links (half a manifest on a mount without them blocks the
month for good); `WrittenIsReadable` is about automatic purging (`purge-verified` removes
files of any age, and the reader then looks in the hot store only); `ReconcileRecovers` is
about replaced keys (the key of a first save that was taken back may stay in CPA, where
every reconciliation refuses it as unmanaged); `AcknowledgedKept` is about behaviours
without logins (see `control_race` below), and so is what is proved of `/ready`
(`ReadyIsMaterialised`), which says that CPA has every stored key and not that it has no
other: when a deletion's reconciliation fails and then the restore in its catch clause too,
`service.ts:243` throws before `#ready` is cleared, and the deleted key may linger in CPA; the end states of `Gateway` are those of
invocations in which no call was thrown and the stream was read (see `gateway_drop`).

## 4. Findings

Checked on every run:

* **`key_budget`**. The window of an API key budget ends, exclusively, at the admission's
  own instant (`packages/billing/src/server.ts:513`), which is read before any row is
  locked (`commands.ts:1033`). Two claims of one instant do not see each other and
  together exceed the budget. The plan budget has no such end, and holds.
* **`risk_starts`**. When the budget window rolls, `rollState`
  (`postgres-risk-state.ts:302`) empties the list of request starts, so a starts window
  across midnight UTC admits up to twice the limit; the file-backed guard keeps the
  recent starts. Within one budget window the limit holds (`StartsLimitedInWindow`).

Further disagreements met while modelling. Each has a configuration of its own, which TLC
refutes with a short trace; OPS is `packages/application/src/storage/postgres-application-operations.ts`.

| Configuration, property | What happens |
| --- | --- |
| `settlement_late`, `ClosedHasNoUnresolved` | An admission reads its instant (`commands.ts:1033`) before it waits for the Subscription row, and commits just after its window was released (OPS:7316); its usage can then never be booked. The unit test says the task "defers a due Plan settlement window while an admitted ProviderAttempt is unresolved" (`postgres-client.test.ts:521`). |
| `gateway_drop`, `CancelledIsFinalized` | A client that leaves before the first event is pulled: an async generator that never started has no `finally` to run (`packages/gateway/src/index.ts:1219`), so attempt, claim, hold, execution and log stay open. |
| `archive_torn`, `CanonicalIsWhole` | "One immutable ... file per terminal request exchange" (`request-capture-v3.ts:127`), but a plain record is created under its name and filled afterwards (`:170`). A crash in between blocks the archive of the month. |
| `archive_staging`, `LeftoverStagingRemoved` | "Startup cleanup removes a leftover private staging link" (`request-capture-v3.ts:509`), but only one older than two hours, and only at a start: the restart after a crash keeps it. |
| `purchase_reverse`, `ReversedHasNoEntitlement` | The reversal reads the card without a lock and ignores the row count of its invalidation (OPS:10481): a use in between leaves an active subscription on a reversed order. |
| `purchase_overlap`, `NoOverlappingSubscriptions` | Two cards of one plan used at once both find no overlapping subscription (OPS:10040, READ COMMITTED). |
| `purchase_disabled`, `DisabledPlanIsUnused` | Disabling a plan looks at cards and subscriptions, not at orders that wait for their payment (`packages/entitlement/src/server.ts:588`): the paid card cannot be used. |
| `purchase_inbox`, `InboxIsFinal` | `recordStripeWebhookFailure` reads the event without a lock and updates it by id (OPS:9678): a delivery that succeeded meanwhile has its event marked failed. |
| `topup_reference`, `ReferenceIsUnique`; `topup_limit`, `AtMostTwoOpen` | Both checks are unlocked reads without a unique index (OPS:9227, OPS:9180). |
| `tunnel_late`, `LateAnswerIsIgnored` | A node's late answer is ignored while the node is ready or authorizing (`server.test.ts:372`), but closes a node that is already paired (`server.ts:244`), and the new client with it. |
| `control_race`, `LoginKept` | Two Providers' logins that finish together overwrite each other's change of the store: `upsert` computes the payload before `#replace` awaits the file (`store.ts:127`), outside `#mutate` (`service.ts:392`). |
| `control_rebind`, `OneOwnerPerFile` | The repair of a rotated login takes any single newer file of the kind (`service.ts:118`), also one another Provider's login has just written. |

Other observations, listed as hazards: an attempt whose protected settlement throws, or
whose gateway crashes, stays pending with its claim and hold and is in no list; `settle`
of the guard refuses zero units and the slot then waits for a recovery; a late paid event
of a cancelled top-up is acknowledged without credit (OPS:9757).

Two hazards are met outside the listed runs. The suspension in `#replace` loses an update
only beside a login, and there it does: that is `control_race`, so no property of `control`
stands for it. The bounds of the tunnel's queue are in its type invariant, which is a
theorem for every bound and in no run.

## 5. Refinements and proofs

Two refinements are model-checked and proved. `ImplementsPayout` is `Payout!Spec`, with
`SellerPayout` instantiated over the tables: workers, leases and row locks are invisible,
and each release commit is one `Close`. `ImplementsInvocation` says that every step of
`Gateway` is a step of `ProviderInvocation` or leaves its rows alone, so what is proved of
the service, for any caller, holds of the gateway's own program (`ServiceHolds`).

The theorems hold for every value of the constants, and in the modules with setups for
every setup, under the named assumptions only, which TLC evaluates in the runs:
`ConstantsAssumption` (types of the constants, `ChargeUnits[ZeroUsage] = 0`, positive
limits and lease time), `FiniteAssumption` (finitely many requests), `GatewayAssumption`,
`EvidenceAssumption` (a failure reason comes with a failed outcome only, as `invoke`
builds its evidence), `RiskAssumption`, `ArchiveAssumption`, `CreditTopupAssumption`,
`PlanPurchaseAssumption`, `PiTunnelAssumption`, `LeaseAssumption`, `SettlementAssumption`
and `ControlAssumption`. Beside types and finiteness they say that the name standing for
"nobody" or "nothing" is not that of a user, a worker, a connection, a credential or an
auth file, that kinds of rows do not overlap,
and that the tunnel's absolute limit is above its high-water mark.

### The command service (`GatewayProofs`, first part)

`TypeCorrect` is proved action by action. The rest follows from

    IInv == TypeOK /\ OneUnsettledAttempt /\ AttemptRowsCoherent
            /\ OccupationMatchesAttempt /\ ReconcilingIsListed
            /\ AtMostOnceDispatch /\ ChargedOnce

None of these is inductive alone. That a second settlement changes nothing needs the fact
row to exist exactly when the attempt is flagged settled (`OccupationMatchesAttempt`);
that a fallback follows only settled attempts needs the attempts to be gapless
(`OneUnsettledAttempt`); that a dispatch is not repeated needs a pending row whose cost
accrues never to return to `not_started`, which is row coherence; that every attempt with
a reason is listed needs its execution closed, and a closed execution to stay so.

The argument has three layers, one lemma per command in each. *Effect* lemmas
(`SettleEffect`, `EnterReconciliationEffect`, ...) restate a transaction as the change of
one attempt and of its execution, or as no change. *Preserves* lemmas show `IInv'` from
that change; `TouchPreserves` handles all other attempts once. *IsLegal* lemmas show from
the same change that the step is a `LegalStep`, from which the four action properties
follow. Two properties need more: `ConcurrencyIsLimited` is inductive together with
`IInv` and needs the cardinality of the finite set `Open` (only an admission adds one
element, and only below the limit), and `VerdictFollowsLastAttempt` uses `VInv`, which
says of closed executions what their last attempt looks like.

`BudgetIsKept` and `DeficitIsUncovered` are about sums over the attempts of a plan and of
a user. An admission checks the sum and adds one term, a settlement replaces a term by the
charge, and both need that an attempt nobody admitted contributes nothing
(`UnadmittedIsFree`).

The lemmas about such sums open `GatewayProofs`, `ShadowRiskProofs` and
`SellerSettlementProofs`; each states the ones it needs, so that a proof module depends on
its own component only. `MapThenSumSet` is a recursive function over
the subsets of a set, and what it computes needs an induction. The library's induction
rules take an operator and cannot be used; `Least` replaces them: a non-empty set of
subsets of a finite set has a smallest member, so a smallest set for which a claim failed
would have a smaller one (`WFMin`). `TotalWithout` (any element may be taken out of a sum
first), from which the other `Total...` lemmas follow, is proved that way.

### The gateway's program (`GatewayProofs`, second part)

`GInv` adds to `IInv` what the registers of a program know of the rows (`Invocation(r)`),
and `CalledIsRecorded`: at each await, which attempt is the last one, whether it is
pending, settled or listed, and whether the lease is the program's. The registers are
stale as soon as the lease may be lost, so most of what they know is about rows that only
their own program changes. Two facts were found by failing proofs: a chosen attempt
without a stream is still pending, and a program that reads a stream has one. The same
case analysis (`GatewayNext`) shows of each step that it is a command of the service or
changes none of its rows, which is the refinement.
`CompletedSucceeded`, `ResourcesAreReturned` and `NoneIsLeftPending` are about the program
points after the last await.

### The shadow-risk guard

For any number of reservations, any delay and any profile: `TypeOK`; `InFlightLimited`
(the active set gains one element, only by `acquire`, only below the limit);
`EndedNeverRewritten` and `CurrentExposureKept` (both from `EndedKept`);
`StartsLimitedInWindow`; and `ExposureLimited`. The starts limit is inductive with
`ListComplete`: the list still holds every start of the current budget window that is
within the starts window of the clock, and no start belongs to a later budget window. It
rests on three facts about `windowStart` (below its argument, monotone, idempotent). The
exposure limit is a sum over the reservations, of which those never acquired count
nothing (`BlankCountsNothing`).

### The seller settlement

The transactions are modelled statement by statement, so between two statements of one
worker anything may happen, another worker with a newer lease included. `IInv` therefore
says what an *open* transaction may rely on: the windows it has locked are locked by
nobody else (`Exclusive`); what it pays and voids are open windows it has locked, and the
amount it read is still their net (`PayIsDue`); it books only into windows it has locked
that are not closed (`BookingIsWelcome`). About the tables it says that a payout belongs to a
released window (`PaidIsReleased`), that a window exists once its purchase is settled, and
that no window closes before the backfill is complete, a batch shorter than its size
leaving nothing unrecorded (`BackfillFirst`). The lease is not used for safety: overlapping
workers are stopped by the row locks alone. `PayoutImplemented`, `RefundsAreNotPaid` and
`BackfillIsNotBlocked` follow; the type theorem also shows that a starting worker always
finds an unused fencing token.

### Archives, purchases, top-ups, tunnel, credentials

`CaptureArchiveProofs`: what a task has collected was over when it collected it
(`ArchivesEnded`), what it is about to remove is in the committed archive
(`RemovesArchived`), and a file that has its name is there until it may be removed
(`PublishedIsKept`); a torn file belongs to a writer that has not finished
(`TornIsUnfinished`). From these `NoCaptureLost`, `WrittenIsReadable` and `ManifestIsLast`.

`PlanPurchaseProofs`: the cards of an order form chains, each with one card nobody
replaced (`Rooted`, `OneLeaf`, `HasLeaf`), of which only that one may be used; that a
replacement of a closed plan's cards keeps it so needs the old cards to be counted off by their
replacements without gap or repetition (`RankIsOnto`). An operation that reads first and writes later may only rely on
what stays true of what it read (`Snapshots`): a delivery remembers a paid session, and a
status that was final is final. From these the four invariants of the run and
`DoneIsFinal`.

`CreditTopupProofs`: the status of a top-up, its card and its ledger entries agree
(`StagesAgree`), so the amount exists once; a Stripe top-up is fulfilled only after its
session was paid (`PaidForStripe`).

`PiTunnelProofs`: a node that was asked about a client has answered that very question
(`AnswersAreGiven`), whatever late answers are still in the wires; a registered socket is
an open, authenticated one; sessions are mutual. A first attempt failed where a closing
client was still named by its node: the invariant needed that the peer of a client is past
its handshake. The queue bound of `TypeOK` is `maxQueuedFrames` and the absolute bound
for the queue alone; wire and queue together may exceed the absolute bound, because
control messages are written past the queue, which the invariant first denied.

`FramesReachTheirClient` is about histories, and its invariant (`Wires`) about what is on
its way: of the frames an end has sent, those that wait for the relay, those it queued,
those on the wire and those received follow each other by number (`Stream`). That this
survives one client following another needs what a node will come to believe as it reads
(`Beliefs`: it reads every frame believing in its client), that a node asked about a client
has by then been told that it has none (`PendingHears`), and that nobody speaks of a client
that has not authenticated (`Unasked`). Each step is first shown to be of one of a few kinds
(`WireSteps`: sessions begin, end, are asked for, forward or drain, an end reads or sends,
a socket connects, or nothing of a session moves), and each kind keeps `Wires`.

### The control service (`CredentialControlProofs`)

The types and the two facts about sessions hold in every setup; the others name the setups
they are about, and these include all setups of the run.

*What was told is kept* (`AcknowledgedIsKept`), in setups without logins (`NoLogins`), where
every mutation waits in `#tail`. Of the workers only the head of the line is then between two
awaits (`Turns`), and the invariant says what that one may rely on (`Local`): the payload it
is saving changes no other Provider, its own Provider has the credential its stage implies
(`Knows`), the admin is told nothing of a Provider that is being decided, the temporary file
is its own, and the store file equals `#payload` except between the rename and the
assignment. Each step is of a kind (it awaits, starts a save, assigns `#payload`, ends, or
assigns and ends: `QuietAdvances`, `SaveAdvances`, `AssignAdvances`, `EndAdvances`,
`AssignEnds`), and each kind keeps the invariant; a crash loads the file, which by then holds
all that was acknowledged.

*What is said of CPA's keys is true* (`ReadyIsMaterialised`, without logins, and
`SavedKeyServed`, without logins or without saves). `KeyInv` adds what the head of the line
knows of CPA (`AtHead`): it writes the keys of the store; once written, the collection is the
stored keys; an operation that may leave `#ready` standing (`Lasting`: `semanticReadiness`, a
deletion, an import before its first save, a put whose save fails) has left every stored key
in the collection, a deletion because it only takes a key out of the store; and a save whose PUT is
under way has seen the old key gone from the collection and from the clients, so the only
client the readiness probe can meet afterwards is one built from the new key.

*OAuth sessions* (`CallbackGoesOnce`, `OneSessionOpen`), in every setup, logins next to the
line included. The operations of a Provider take turns in `#oauthProviderTails`
(`OAuthTurns`), so the session a running one is about is the Provider's active one and still
in the phase it was found in (`Attends`); an open session that has not expired is the active
one, and a callback has been forwarded only for a session that is past
`awaiting_callback` or is being submitted (`SessionOK`). A submission whose answer was lost
fails the session, which is why its code is never sent again.

*A login's own file* (`OwnFileIsBound`). The difficulty is that `#discoverCredential` and
`#repairRotatedOAuthBinding` do not look for the account's file but for the only new one. It
is the right one under `LeftAlone`: the logins stored at the start are their Providers' own,
and either nothing removes an auth file (no deletion, import or rotation), or there are no
logins and all rotations end in the same file. In the first case the invariant says that a
login that succeeded has written its account's file after its session's snapshot (`LoginOK`),
so the account's file is among the new ones and, if there is one, is that one; and that the
file of a stored login never goes, so that the repair never begins. In the second, that a
login's file that came after the start is one of its prefix's Provider or the one they are
rotated into (`FileOK`), and an imported service account's file (`Vertex`) is refused, so what the repair finds is the Provider's own. That only one file is found
is about a finite set, hence the assumption that CPA's directory is finite. `control_rebind`
is what happens outside `LeftAlone`: a deletion next to another Provider's login. Everything
that carries a credential between awaits (`FineJob`) and the three copies of the store are
part of the invariant, since a restart loads the file and a crash may leave the temporary one.

### What is only model-checked

Liveness, since neither fairness nor ENABLED is within the provers' reach: `EndedIsClosed`,
`LogIsClosed`, `MonthIsArchived`, `HotIsPurged`, `PaidTopupIsSettled`, `QueueDrains`,
`RevokedIsDisconnected` and `ReconcileRecovers`. All other properties of the passing runs are
theorems; `OwnFileBound` and `SavedKeyIsServed` under the conditions named above, outside
which they are neither checked nor claimed.

Some of the theorems state properties no run checks because they are proved for
every instance (`OneUnsettledAttempt`, `AttemptRowsCoherent`, `ReconcilingIsListed`,
`TerminalNeverRewritten`, `DatabaseChecksHold`, `ExposureNeverGoesBack`,
`WithinConcurrencyLimit`, `InFlightLimited`, `EndedNeverRewritten`, `CallbackOnce`,
`OneOpenSession`, `ReadyMeansMaterialised`, and the types).

## 6. Not modelled, and the plan

Left out on purpose, beside what the sections above name: SSE and JSON parsing,
cryptography, UI, CRUD without interleaving, the upstream proxy's patches (byte-level, or
without state worth exploring); `packages/auth`'s refresh tokens, OIDC and passkeys, which
nothing calls any more; the file-backed risk guard, which the gateway's command line does
not wire. Within modelled parts: card activation codes, trial cards, service orders,
catalogue editing and the expiry of credit cards; the status trigger of credit_topups, a
second line of defence; the attempt counter and expiry of an activation slot of the
tunnel, and its connection cap; encryption, input validation and catalogue data of the
control service; capture codec and pack framing; legacy archives.

1. `Routing`: the selection kernel as a function against a reference, and revision
   commands. `InvocationPricing`: charge arithmetic on bounded inputs.
2. `TeamDeletion` (the lifecycle in OPS), `AbuseGuard` (windows and lockouts) and
   `BodyCapacity` of the HTTP front end: counters and windows at their edges.
3. The pipeline kernel: node order and abort.
