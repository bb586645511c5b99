------------------------------ MODULE Gateway ------------------------------
(***************************************************************************)
(* AsyncGatewayExecutor.invoke as the program of one request, composed     *)
(* with the command service it calls: every step is one call, and its      *)
(* durable half is an action of ProviderInvocation.  A call may throw      *)
(* without effect or after it committed (its answer is lost); the program  *)
(* is in g[r] and dies with its process.                                   *)
(***************************************************************************)
EXTENDS ProviderInvocation

CONSTANTS
  OwnerOf,    \* [Requests -> Owners]: the owner id the gateway makes up
  Enforced,   \* the shadow-risk guard is enforced
  MaxFaults,  \* bound: calls that throw although the service would obey
  MaxOpen     \* bound: requests that come in

ASSUME GatewayAssumption ==
  /\ OwnerOf \in [Requests -> Owners]
  /\ Enforced \in BOOLEAN
  /\ MaxFaults \in Nat
  /\ MaxOpen \in Nat

(* The gateway sends a failure reason only with the outcome failed         *)
(* (finalizeProviderInvocationFailure; completeRequest sends none).        *)
ASSUME EvidenceAssumption == \A ev \in Evidence : ev.outcome # "failed" => ev.failureReason = Null

VARIABLES
  g,        \* the state of each invocation, in the memory of its process
  log,      \* request_logs.status
  called,   \* attempts whose Provider was called
  faults    \* calls that threw

gatewayVars == <<g, log, called, faults>>
gvars == <<vars, gatewayVars>>

Labels == {"idle", "acquire", "select", "enrich", "admit", "resolve", "risk", "refresh", "renew", "own",
           "fresh", "invoke", "finalize", "chosen", "stream", "complete", "settleRisk", "closeRisk",
           "failExecution", "finish", "release", "lateClose", "ended", "crashed"}

(* What the evidence of a call leads to (arbitrateProviderAttemptFailure). *)
Kinds == {"not_started", "final", "stopped", "accruing"}
Failures == {f \in [kind: Kinds, usage: Usages, class: FailureClasses] : f.kind # "final" => f.usage = ZeroUsage}
Unknown(class) == [kind |-> "accruing", usage |-> ZeroUsage, class |-> class]
NotStarted(class) == [kind |-> "not_started", usage |-> ZeroUsage, class |-> class]

Fresh == [pc |-> "idle", i |-> 0, verdict |-> "failed", risk |-> "none", finished |-> FALSE,
          stream |-> FALSE, read |-> FALSE, output |-> FALSE, handling |-> FALSE, aborted |-> FALSE,
          failure |-> Unknown("non_retryable"), outcome |-> "failed", terminal |-> TRUE, then |-> "closeRisk"]

GTypeOK ==
  /\ g \in [Requests -> [pc: Labels, i: 0 .. MaxAttempts - 1, verdict: {"failed", "completed"},
                         risk: {"none", "held", "closed"}, finished: BOOLEAN, stream: BOOLEAN,
                         read: BOOLEAN, output: BOOLEAN, handling: BOOLEAN, aborted: BOOLEAN,
                         failure: Failures, outcome: {"failed", "aborted"}, terminal: BOOLEAN,
                         then: Labels]]
  /\ log \in [Requests -> {"none", "started", "failed", "completed"}]
  /\ called \subseteq Attempts
  /\ faults \in 0 .. MaxFaults

GInit ==
  /\ Init
  /\ g = [r \in Requests |-> Fresh]
  /\ log = [r \in Requests |-> "none"]
  /\ called = {}
  /\ faults = 0
-----------------------------------------------------------------------------
At(r, label) == g[r].pc = label
Current(r) == <<r, g[r].i>>
Set(r, state) == g' = [g EXCEPT ![r] = state]
Goto(r, label) == Set(r, [g[r] EXCEPT !.pc = label])

(* Where an exception goes: to the caller once a handler is at work, to    *)
(* the stream's handler while a stream is forwarded, else to the outer     *)
(* catch of invoke.  Both handlers close the risk reservation first; the   *)
(* stream's one finalizes the attempt before.                              *)
Thrown(r) ==
  IF g[r].handling THEN [g[r] EXCEPT !.pc = "ended"]
  ELSE IF g[r].stream THEN [g[r] EXCEPT !.pc = "finalize", !.handling = TRUE, !.then = "closeRisk",
                                        !.failure = Unknown("non_retryable"), !.terminal = TRUE,
                                        !.outcome = "failed", !.verdict = "failed"]
  ELSE [g[r] EXCEPT !.pc = "closeRisk", !.handling = TRUE, !.verdict = "failed"]

Fault == faults < MaxFaults /\ faults' = faults + 1
NoFault == UNCHANGED faults

(* One call: it works, or it throws with or without its effect.            *)
Call(r, Effect, ok, thrown) ==
  /\ \/ Effect /\ NoFault /\ Set(r, ok)
     \/ Fault /\ Set(r, thrown) /\ (Effect \/ UNCHANGED vars)
  /\ UNCHANGED called

(* A call without durable effect in this model.                            *)
Ask(r, ok, thrown) ==
  /\ \/ NoFault /\ Set(r, ok)
     \/ Fault /\ Set(r, thrown)
  /\ UNCHANGED <<vars, log, called>>

To(r, label) == [g[r] EXCEPT !.pc = label]

(* The ingress pipeline has run; a failure is only logged after the start. *)
CreateRequestLog(r) ==
  /\ At(r, "idle")
  /\ Cardinality({q \in Requests : ~At(q, "idle")}) < MaxOpen
  /\ \E failed \in BOOLEAN :
       LET next == [g[r] EXCEPT !.pc = "acquire", !.then = IF failed THEN "finish" ELSE "select",
                                !.handling = failed]
       IN \/ NoFault /\ Set(r, next) /\ log' = [log EXCEPT ![r] = "started"]
          \/ Fault /\ Goto(r, "ended") /\ (UNCHANGED log \/ log' = [log EXCEPT ![r] = "started"])
  /\ UNCHANGED <<vars, called>>

Acquire(r) ==
  /\ At(r, "acquire")
  /\ Call(r, AcquireLease(r, OwnerOf[r]), To(r, g[r].then), To(r, "ended"))
  /\ UNCHANGED log

(* mutant: a denial is thrown as it is *)
SelectPlanSource_unlogged(r) ==
  /\ At(r, "select")
  /\ \/ Ask(r, To(r, IF Protected(Current(r)) THEN "admit" ELSE "enrich"), To(r, "ended"))
     \/ Goto(r, "ended") /\ UNCHANGED <<vars, log, called, faults>>

(* selectPlanSource: a denial is logged as a failed request.  Claimless    *)
(* invocations enrich the request log here, outside both try blocks.       *)
SelectPlanSource(r) ==
  /\ At(r, "select")
  /\ \/ Ask(r, To(r, IF Protected(Current(r)) THEN "admit" ELSE "enrich"),
               [g[r] EXCEPT !.pc = "finish", !.handling = TRUE])
     \/ /\ Set(r, [g[r] EXCEPT !.pc = "finish", !.handling = TRUE])
        /\ UNCHANGED <<vars, log, called, faults>>

EnrichClaimless(r) ==
  /\ At(r, "enrich")
  /\ Ask(r, To(r, "admit"), To(r, "ended"))

(* Preparation, governance and admission.  A refusal that moves on to the  *)
(* next plan source leaves nothing behind and is no step.                  *)
AdmitAttempt(r) ==
  LET admission == \/ AdmitCpaBasic(r, g[r].i, OwnerOf[r])
                   \/ \E max \in Maxima : Admit(r, g[r].i, OwnerOf[r], max)
      next == To(r, IF Protected(Current(r)) THEN IF g[r].i = 0 THEN "resolve" ELSE "risk" ELSE "refresh")
  IN /\ At(r, "admit")
     /\ \/ Call(r, admission, next, Thrown(r))
        \/ Set(r, Thrown(r)) /\ UNCHANGED <<vars, called, faults>>
     /\ UNCHANGED log

(* What the code does with an attempt that failed: finalize it, then go on *)
(* with the next candidate, the handler, the error response or the stream. *)
Finalizing(r, failure, outcome, terminal, then) ==
  [g[r] EXCEPT !.pc = "finalize", !.failure = failure, !.outcome = outcome,
               !.terminal = terminal, !.then = then]

GiveBack(r) == Finalizing(r, NotStarted("non_retryable"), "failed", TRUE, "closeRisk")

EnrichProtected(r) ==
  /\ At(r, "resolve")
  /\ Ask(r, To(r, "risk"), GiveBack(r))

NeedsRisk(r) == Enforced /\ g[r].risk = "none"

(* mutant: the refusal is only rethrown *)
AcquireRisk_keeps(r) ==
  /\ At(r, "risk")
  /\ \/ Set(r, IF NeedsRisk(r) THEN [g[r] EXCEPT !.pc = "refresh", !.risk = "held"] ELSE To(r, "refresh"))
     \/ NeedsRisk(r) /\ Set(r, Thrown(r))
  /\ UNCHANGED <<vars, log, called, faults>>

(* The guard's reservation is taken once and kept across candidates; its   *)
(* refusal gives the admitted attempt back.                                *)
AcquireRisk(r) ==
  /\ At(r, "risk")
  /\ \/ Set(r, IF NeedsRisk(r) THEN [g[r] EXCEPT !.pc = "refresh", !.risk = "held"] ELSE To(r, "refresh"))
     \/ NeedsRisk(r) /\ Set(r, GiveBack(r))
  /\ UNCHANGED <<vars, log, called, faults>>
-----------------------------------------------------------------------------
(* Failures before any output: the arbiter allows the next candidate when  *)
(* the cost is known and the client is still there.                        *)
FallbackPermitted(failure, cancelled) == failure.kind \in {"not_started", "final"} /\ ~cancelled

NextCandidate(r) ==
  [g[r] EXCEPT !.i = @ + 1]

Outcome(r) == IF g[r].aborted THEN "aborted" ELSE "failed"

(* Finalize the attempt and try the next candidate, or finalize it as the  *)
(* request's end and go on with then.                                      *)
AttemptFailed(r, failure, outcome, cancelled, then) ==
  \/ /\ FallbackPermitted(failure, cancelled) /\ g[r].i < MaxAttempts - 1
     /\ Set(r, Finalizing(r, failure, outcome, FALSE, "admit"))
  \/ Set(r, Finalizing(r, failure, outcome, TRUE, then))

Throws(r, failure) == AttemptFailed(r, failure, Outcome(r), g[r].aborted, "closeRisk")

Refresh(r) ==
  /\ At(r, "refresh")
  /\ \/ Goto(r, "renew")
     \/ \E f \in {NotStarted("non_retryable"), Unknown("non_retryable")} : Throws(r, f)
  /\ UNCHANGED <<vars, log, called, faults>>

(* mutant: the Provider is called on the strength of the lease alone *)
Renew_enough(r) ==
  /\ At(r, "renew")
  /\ RenewLease(r, OwnerOf[r]) /\ NoFault /\ Goto(r, "fresh")
  /\ UNCHANGED <<log, called>>

Renew(r) ==
  LET lost == Throws(r, Unknown("non_retryable"))
      effect == RenewLease(r, OwnerOf[r])
  IN /\ At(r, "renew")
     /\ \/ effect /\ NoFault /\ Goto(r, "own")
        \/ Fault /\ lost /\ (effect \/ UNCHANGED vars)
        \/ /\ ~(lease[r].owner = OwnerOf[r] /\ lease[r].until > now)
           /\ lost /\ UNCHANGED <<vars, faults>>
     /\ UNCHANGED <<log, called>>

(* assertDispatchOwnership; every refusal is an exception.                 *)
AssertOwnership(r) ==
  LET a == Current(r)
      o == OwnerOf[r]
      lost == Throws(r, Unknown("non_retryable"))
  IN /\ At(r, "own")
     /\ \/ DispatchGranted(a, o) /\ NoFault /\ Goto(r, "fresh")
        \/ Fault /\ lost /\ (DispatchGranted(a, o) \/ OwnershipLost(a, o) \/ UNCHANGED vars)
        \/ OwnershipLost(a, o) /\ NoFault /\ lost
        \/ ~DispatchOwned(a, o) /\ lease[r].owner = NoOwner /\ lost /\ UNCHANGED <<vars, faults>>
     /\ UNCHANGED <<log, called>>

(* The renewed lease against the application's clock, which may be ahead   *)
(* of the database's or behind it; then the Provider is called.            *)
CheckFresh(r) ==
  /\ At(r, "fresh")
  /\ \/ Goto(r, "invoke") /\ called' = called \cup {Current(r)}
     \/ Throws(r, Unknown("non_retryable")) /\ UNCHANGED called
  /\ UNCHANGED <<vars, log, faults>>

ProviderThrows(r) ==
  /\ At(r, "invoke")
  /\ \E f \in Failures : Throws(r, f)
  /\ UNCHANGED <<vars, log, called, faults>>

(* A response of 400 or more ends in the failed response or in             *)
(* model_unavailable, which is thrown.                                     *)
ProviderRefuses(r) ==
  /\ At(r, "invoke")
  /\ \E f \in Failures, then \in {"finish", "closeRisk"} : AttemptFailed(r, f, "failed", FALSE, then)
  /\ UNCHANGED <<vars, log, called, faults>>

(* preflightProviderStream reports an error before any output: without a   *)
(* next candidate the stream is forwarded with its error.                  *)
PreflightFails(r) ==
  /\ At(r, "invoke")
  /\ \E f \in Failures, then \in {"chosen", "closeRisk"} :
       \/ AttemptFailed(r, f, "failed", g[r].aborted, then)
       \/ g[r].aborted /\ Set(r, Finalizing(r, f, "aborted", TRUE, "closeRisk"))
  /\ UNCHANGED <<vars, log, called, faults>>

ProviderAnswers(r) ==
  /\ At(r, "invoke")
  /\ \E stream \in BOOLEAN : Set(r, [g[r] EXCEPT !.pc = "chosen", !.stream = stream, !.then = "chosen"])
  /\ UNCHANGED <<vars, log, called, faults>>

(* The request log learns which candidate answered; then the response is   *)
(* handed out as a stream, or the request completed.                       *)
Chosen(r) ==
  LET direct == [g[r] EXCEPT !.stream = FALSE]
  IN /\ At(r, "chosen")
     /\ Ask(r, To(r, IF g[r].stream THEN "stream" ELSE "complete"),
               [direct EXCEPT !.pc = "closeRisk", !.handling = TRUE, !.verdict = "failed"])
-----------------------------------------------------------------------------
(* finalizeProviderInvocationFailure.                                      *)
Verdicts(r, outcome, output) == {ev \in Evidence : ev.outcome = outcome /\ ev.outputCommitted = output}

Terminals(r, ev) == {t \in TerminalOf(ev) : (t = NoTerminal) = ~g[r].terminal}

CanSettle(a, ev, usage, t) ==
  /\ FinalizeLock(a, ev, FALSE)
  /\ fact[a] \in {usage, NoUsage}
  /\ attempt[a].usageSettled \/ t = NoTerminal \/ ArbiterAccepts(a[1], attempt[a].owner, t.status, t.code, ev.outputCommitted)

(* Nothing to do: the attempt is settled or reconciling already.           *)
SameReconciliation(a, ev, exposure) ==
  /\ EvidenceAgrees(a, ev)
  /\ \/ attempt[a].usageSettled
     \/ /\ attempt[a].outcome # "pending" /\ attempt[a].reconciliationReason # Null
        /\ attempt[a].costExposure = exposure

CanReconcile(a, ev, exposure) ==
  /\ EvidenceAgrees(a, ev) /\ ~attempt[a].usageSettled
  /\ ExposureMayBecome(a, exposure)
  /\ execution[a[1]].status = "running" =>
       ArbiterAccepts(a[1], attempt[a].owner, ev.outcome, Null, ev.outputCommitted)

(* settleFinalUsage, or settleCpaBasicLive with its second transaction     *)
(* when the first one throws.                                              *)
Settle(r, ev, usage, t, ok, thrown) ==
  LET a == Current(r)
      recover == \/ ~Protected(a) /\ TransitionFailedCpaBasicSettlement(a, ev)
                 \/ (Protected(a) \/ ~CanReconcile(a, [ev EXCEPT !.failureReason = Null], "stopped")) /\ UNCHANGED vars
  IN \/ SettleFinalUsage(a, ev, usage, t) /\ NoFault /\ Set(r, ok)
     \/ Fault /\ Set(r, thrown) /\ (SettleFinalUsage(a, ev, usage, t) \/ recover \/ UNCHANGED vars)
     \/ ~CanSettle(a, ev, usage, t) /\ recover /\ NoFault /\ Set(r, thrown)

GiveBackCall(r, ev, t, ok, thrown) ==
  LET a == Current(r)
  IN \/ ReleaseNotStarted(a, ev, t) /\ NoFault /\ Set(r, ok)
     \/ Fault /\ Set(r, thrown) /\ (ReleaseNotStarted(a, ev, t) \/ UNCHANGED vars)
     \/ ~CanSettle(a, ev, ZeroUsage, t) /\ NoFault /\ Set(r, thrown) /\ UNCHANGED vars

Reconcile(r, ev, exposure, ok, thrown) ==
  LET a == Current(r)
      enter == EnterReconciliation(a, ev, exposure, "provider_final_usage_pending")
  IN \/ enter /\ NoFault /\ Set(r, ok)
     \/ SameReconciliation(a, ev, exposure) /\ NoFault /\ Set(r, ok) /\ UNCHANGED vars
     \/ Fault /\ Set(r, thrown) /\ (enter \/ UNCHANGED vars)
     \/ /\ ~SameReconciliation(a, ev, exposure) /\ ~CanReconcile(a, ev, exposure)
        /\ NoFault /\ Set(r, thrown) /\ UNCHANGED vars

Finalize(r) ==
  LET f == g[r].failure
      exposure == IF f.kind = "stopped" THEN "stopped" ELSE "accruing"
      moved == IF g[r].then = "admit" THEN NextCandidate(r) ELSE g[r]
      ok == [moved EXCEPT !.pc = IF g[r].then = "closeRisk" \/ g[r].handling THEN "closeRisk" ELSE g[r].then,
                          !.stream = @ \/ g[r].then = "chosen",
                          !.handling = @ \/ g[r].then = "closeRisk"]
      thrown == IF g[r].handling THEN To(r, "closeRisk") ELSE Thrown(r)
  IN /\ At(r, "finalize")
     /\ \E ev \in Verdicts(r, g[r].outcome, g[r].output) :
          /\ g[r].outcome = "failed" => ev.failureClass = f.class
          /\ \E t \in Terminals(r, ev) :
               \/ f.kind = "not_started" /\ GiveBackCall(r, ev, t, ok, thrown)
               \/ f.kind = "final" /\ Settle(r, ev, f.usage, t, ok, thrown)
               \/ f.kind \in {"stopped", "accruing"} /\ Reconcile(r, ev, exposure, ok, thrown)
     /\ UNCHANGED <<log, called>>
-----------------------------------------------------------------------------
(* The stream, as its consumer pulls it.                                   *)
StreamFails(r, failure, outcome) ==
  Set(r, [Finalizing(r, failure, outcome, TRUE, "closeRisk") EXCEPT !.handling = TRUE, !.read = TRUE])

(* A stream whose preflight failed only has its error to replay.           *)
Replay(r) == attempt[Current(r)].outcome # "pending"

(* A chunk is output for the client, any other event is not.               *)
StreamEvent(r) ==
  /\ At(r, "stream")
  /\ \E output \in {g[r].output, ~Replay(r)} : Set(r, [g[r] EXCEPT !.read = TRUE, !.output = output])
  /\ UNCHANGED <<vars, log, called, faults>>

StreamSucceeds(r) ==
  /\ At(r, "stream") /\ ~Replay(r)
  /\ \E output \in {g[r].output, TRUE} :
       Set(r, [g[r] EXCEPT !.pc = "complete", !.read = TRUE, !.output = output])
  /\ UNCHANGED <<vars, log, called, faults>>

StreamErrs(r) ==
  /\ At(r, "stream")
  /\ IF Replay(r) THEN StreamFails(r, g[r].failure, "failed")
     ELSE \E f \in Failures, outcome \in {"failed", "aborted"} : StreamFails(r, f, outcome)
  /\ UNCHANGED <<vars, log, called, faults>>

(* Every half lease the stream is held up for a renewal; its failure, like *)
(* the client's going away, makes the generator return.                    *)
StreamRenews(r) ==
  /\ At(r, "stream") /\ g[r].read
  /\ RenewLease(r, OwnerOf[r])
  /\ UNCHANGED gatewayVars

Returns(r) == StreamFails(r, Unknown("non_retryable"), "aborted")

StreamReturns(r) ==
  /\ At(r, "stream") /\ g[r].read
  /\ Returns(r)
  /\ UNCHANGED <<vars, log, called, faults>>

(* A generator that was never asked for a value has no finally block to    *)
(* run: the client went away before the first event was pulled.            *)
StreamDropped(r) ==
  /\ At(r, "stream") /\ ~g[r].read
  /\ Goto(r, "ended")
  /\ UNCHANGED <<vars, log, called, faults>>
-----------------------------------------------------------------------------
(* mutant: the answer counts, not the settlement *)
CompleteRequest_anyway(r) ==
  LET done == [g[r] EXCEPT !.pc = "closeRisk", !.verdict = "completed"]
  IN /\ At(r, "complete")
     /\ \E ev \in Verdicts(r, "succeeded", TRUE), exposure \in {"stopped", "accruing"} :
          Reconcile(r, ev, exposure, done, done)
     /\ UNCHANGED <<log, called>>

(* completeRequest.                                                        *)
CompleteRequest(r) ==
  LET done(label) == [g[r] EXCEPT !.pc = label, !.verdict = "completed"]
  IN /\ At(r, "complete")
     /\ \E ev \in Verdicts(r, "succeeded", TRUE) :
          \/ \E u \in Usages : Settle(r, ev, u, [status |-> "succeeded", code |-> Null],
                                      done("settleRisk"), Thrown(r))
          \/ \E exposure \in {"stopped", "accruing"} : Reconcile(r, ev, exposure, done("closeRisk"), Thrown(r))
     /\ UNCHANGED <<log, called>>

(* The guard's errors are only logged.                                     *)
EndRisk(r, label, next) ==
  /\ At(r, label)
  /\ \/ NoFault /\ Set(r, [next EXCEPT !.risk = IF @ = "held" THEN "closed" ELSE @])
     \/ Fault /\ g[r].risk = "held" /\ Set(r, next)
  /\ UNCHANGED <<vars, log, called>>

SettleRisk(r) == EndRisk(r, "settleRisk", To(r, "finish"))

CloseRisk(r) ==
  EndRisk(r, "closeRisk",
          To(r, IF g[r].handling /\ ~g[r].stream /\ Protected(Current(r)) THEN "failExecution" ELSE "finish"))

LateClose(r) == EndRisk(r, "lateClose", To(r, "ended"))

(* mutant: the verdict of the execution is overwritten *)
FailExecution_overwrites(r) ==
  /\ At(r, "failExecution")
  /\ Goto(r, "finish")
  /\ execution' = [execution EXCEPT ![r].status = "failed"]
  /\ UNCHANGED <<now, lease, attempt, ended, dispatches, billingVars, log, called, faults>>

(* failRequestExecution of the outer catch: protected only, its refusals   *)
(* and failures are logged.                                                *)
FailExecution(r) ==
  LET fail == \E code \in ErrorCodes : FailRequestExecution(r, OwnerOf[r], code)
      runs == execution[r].status = "running" /\ execution[r].owner = OwnerOf[r]
  IN /\ At(r, "failExecution")
     /\ Goto(r, "finish")
     /\ \/ fail /\ NoFault
        \/ ~runs /\ NoFault /\ UNCHANGED vars
        \/ Fault /\ (fail \/ UNCHANGED vars)
     /\ UNCHANGED <<log, called>>

(* finishRequestLog: once, then the lease is given back.                   *)
Finish(r) ==
  LET next == [g[r] EXCEPT !.pc = "release", !.finished = TRUE]
      thrown == [Thrown(r) EXCEPT !.finished = TRUE]
      effect == FinishRequestLog(r) /\ log' = [log EXCEPT ![r] = g[r].verdict]
  IN /\ At(r, "finish")
     /\ IF g[r].finished
        THEN Goto(r, "ended") /\ UNCHANGED <<vars, log, faults>>
        ELSE \/ effect /\ NoFault /\ Set(r, next)
             \/ Fault /\ Set(r, thrown) /\ (effect \/ UNCHANGED <<vars, log>>)
     /\ UNCHANGED called

(* mutant: the error response keeps its reservation *)
Release_keepsRisk(r) ==
  /\ At(r, "release")
  /\ Goto(r, "ended")
  /\ IF lease[r].owner = OwnerOf[r] THEN ReleaseLease(r, OwnerOf[r]) ELSE UNCHANGED vars
  /\ UNCHANGED <<log, called, faults>>

(* The error response closes its risk reservation last.                    *)
Release(r) ==
  LET mine == lease[r].owner = OwnerOf[r]
      next == To(r, IF g[r].risk = "held" /\ ~g[r].handling /\ g[r].verdict = "failed" THEN "lateClose" ELSE "ended")
  IN /\ At(r, "release")
     /\ Set(r, next)
     /\ \/ mine /\ ReleaseLease(r, OwnerOf[r]) /\ NoFault
        \/ ~mine /\ NoFault /\ UNCHANGED vars
        \/ mine /\ Fault /\ UNCHANGED vars
     /\ UNCHANGED <<log, called>>
-----------------------------------------------------------------------------
ClientAborts(r) ==
  /\ g[r].pc \notin {"idle", "ended", "crashed"} /\ ~g[r].aborted
  /\ Set(r, [g[r] EXCEPT !.aborted = TRUE])
  /\ UNCHANGED <<vars, log, called, faults>>

(* The process dies: nothing of g[r] is left to act.                       *)
Crash(r) ==
  /\ g[r].pc \notin {"idle", "ended", "crashed"}
  /\ Goto(r, "crashed")
  /\ UNCHANGED <<vars, log, called, faults>>

Operator == \E a \in Attempts, ev \in Evidence, u \in Usages : ReconcileFinalUsage(a, ev, u)

Environment ==
  /\ Tick \/ Operator
  /\ UNCHANGED gatewayVars

Run(r) ==
  \/ Acquire(r) \/ SelectPlanSource(r) \/ EnrichClaimless(r) \/ AdmitAttempt(r)
  \/ EnrichProtected(r) \/ AcquireRisk(r) \/ Refresh(r) \/ Renew(r) \/ AssertOwnership(r) \/ CheckFresh(r)
  \/ ProviderThrows(r) \/ ProviderRefuses(r) \/ PreflightFails(r) \/ ProviderAnswers(r) \/ Chosen(r)
  \/ Finalize(r) \/ StreamEvent(r) \/ StreamSucceeds(r) \/ StreamErrs(r) \/ StreamRenews(r) \/ StreamReturns(r)
  \/ StreamDropped(r) \/ CompleteRequest(r) \/ SettleRisk(r) \/ CloseRisk(r) \/ LateClose(r)
  \/ FailExecution(r) \/ Finish(r) \/ Release(r)

GNext ==
  \/ \E r \in Requests : CreateRequestLog(r) \/ Run(r) \/ ClientAborts(r) \/ Crash(r)
  \/ Environment

GSpec == GInit /\ [][GNext]_gvars

(* A process that lives goes on: timeouts and lifetimes bound every call   *)
(* and every stream.                                                       *)
GFairSpec == GSpec /\ \A r \in Requests : WF_gvars(Run(r))
-----------------------------------------------------------------------------
Dropped(r) == At(r, "ended") /\ g[r].stream /\ ~g[r].read

(* An invocation that ended with no call thrown and its stream read.       *)
EndedCleanly(r) == At(r, "ended") /\ faults = 0 /\ ~Dropped(r)

(* The gateway uses the command service only as ProviderInvocation allows: *)
(* what is proved of that module holds of this one.  It is Spec, with the  *)
(* steps that leave the rows alone named first: most steps do.             *)
ImplementsInvocation == Init /\ [][UNCHANGED vars \/ Next]_vars

(* When invoke is over, with every candidate, abort, expired lease and     *)
(* refused guard on the way, each attempt it admitted is settled or waits  *)
(* for its usage in the operator's list: no claim or hold is left behind.  *)
NothingLeftPending ==
  \A r \in Requests : EndedCleanly(r) =>
    \A i \in 0 .. MaxAttempts - 1 :
      Present(<<r, i>>) => attempt[<<r, i>>].usageSettled \/ <<r, i>> \in Unresolved

(* Nor is anything else: the request log is closed, the lease given back   *)
(* and the guard's reservation closed, on every path out of invoke.        *)
ResourcesReturned ==
  \A r \in Requests : EndedCleanly(r) =>
    ended[r] /\ lease[r].owner # OwnerOf[r] /\ g[r].risk # "held"

(* A request is logged as completed only if its execution succeeded, also  *)
(* when calls throw after they committed and the lease runs out.           *)
CompletedHasSucceeded ==
  \A r \in Requests : log[r] = "completed" => execution[r].status = "succeeded"

(* A Provider is called only for an attempt whose row says that it may     *)
(* cost something: wherever the process dies, a row that says not_started  *)
(* was never called.                                                       *)
CalledIsRecorded == \A a \in called : attempt[a].costExposure # "not_started"

(* Every request log that was opened is closed, unless the process dies, a *)
(* call throws, or the client leaves before the first event is read.       *)
LogIsClosed ==
  \A r \in Requests :
    log[r] = "started" ~> (ended[r] \/ At(r, "crashed") \/ faults > 0 \/ Dropped(r))

(* The test "persists public output for claimless incomplete and cancelled *)
(* streams" and the finally block of wrapStreamForBilling: a stream that   *)
(* the client cancels finalizes its attempt.                               *)
CancelledIsFinalized ==
  \A r \in Requests : At(r, "ended") /\ faults = 0 /\ Present(Current(r)) => attempt[Current(r)].outcome # "pending"
=============================================================================
