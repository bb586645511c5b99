--------------------------- MODULE CaptureArchive ---------------------------
(***************************************************************************)
(* Request captures of one completed month: the gateway publishes one file *)
(* per request in the hot store (request-capture-v3.ts), db-ops tasks close *)
(* abandoned Request Logs (request-log-reconciliation.ts), archive the     *)
(* month as pack, catalog and manifest on the cold mount, and remove the   *)
(* hot files (request-capture-monthly-archive.ts, archive-remote.ts).      *)
(*                                                                         *)
(* Gateway and tasks are processes of their own that share the two file    *)
(* systems and the database, take no common lock and may crash at any      *)
(* step.  A pack or catalog is named by the hash of its content, so it is  *)
(* the set of requests in it.  A pure read that several awaits spread out  *)
(* is one step when nothing it read can change in between.                 *)
(***************************************************************************)
EXTENDS Naturals, FiniteSets

CONSTANTS
  Requests,      \* the requests whose started_at lies in the month
  Tasks,         \* db-ops processes
  Setups         \* the deployments and months to look at

EvidenceType == [execution : {"none", "terminal", "other"},
                 attempts : {"none", "predispatch", "terminal", "other"},
                 claim : BOOLEAN, facts : BOOLEAN, mcp : BOOLEAN]

NoEvidence == [execution |-> "none", attempts |-> "none", claim |-> FALSE, facts |-> FALSE, mcp |-> FALSE]

(* A setup fixes for one behaviour:                                        *)
(*   running     the requests that are not over when the month ends,       *)
(*   streams     those that are answered by a stream,                      *)
(*   tasks       the processes the operator runs at once,                  *)
(*   evidence    what the database may hold about an invoked request,      *)
(*   autoPurge   requestCapture.archive.autoPurge,                         *)
(*   links       whether the cold file system has hard links,              *)
(*   maxCrashes  the bound on crashes of gateway and tasks together.       *)
ASSUME ArchiveAssumption ==
  /\ IsFiniteSet(Requests)
  /\ \A s \in Setups :
       /\ s.running \subseteq Requests /\ s.streams \subseteq Requests /\ s.tasks \subseteq Tasks
       /\ s.evidence \subseteq EvidenceType
       /\ s.autoPurge \in BOOLEAN /\ s.links \in BOOLEAN /\ s.maxCrashes \in Nat

VARIABLES
  log,           \* request_logs.status; "ended" is completed or failed
  evidence,      \* executions, attempts, claims and facts of the request
  leased,        \* requests with an execution lease that has not run out
  file,          \* the canonical hot file
  staging,       \* the stream's staging file; "old" after two hours unmodified
  writer,        \* the capture writer of the request's gateway process
  up,            \* the gateway runs
  aged,          \* requests whose started_at is more than hotDays ago
  packs,         \* pack objects on the cold mount
  catalogs,      \* catalog objects on the cold mount
  manifest,      \* the month's manifest: the commit marker
  task,          \* program counter and local set of each task
  crashes,
  setup          \* the member of Setups this behaviour is about; never changes

gatewayVars == <<file, staging, writer, up>>
databaseVars == <<log, evidence, leased>>
coldVars == <<packs, catalogs, manifest>>
vars == <<gatewayVars, databaseVars, coldVars, aged, task, crashes, setup>>

InProgress == {"open", "finalizing", "linked", "writing"}
Gone == {"done", "unavailable", "dead"}
Hot == {r \in Requests : file[r] # "none"}
AllTerminal == \A r \in Requests : log[r] # "started"

NoManifest == [state |-> "none", set |-> {}]
At(label, S) == [pc |-> label, set |-> S]

-----------------------------------------------------------------------------
(* The gateway.                                                            *)

(* The invocation leaves its marks in the database.                        *)
Invoke(r) ==
  /\ up /\ writer[r] = "idle" /\ log[r] = "started" /\ evidence[r] = NoEvidence
  /\ \E e \in setup.evidence : evidence' = [evidence EXCEPT ![r] = e]
  /\ UNCHANGED <<gatewayVars, log, leased, coldVars, aged, task, crashes, setup>>

(* completeRequest, failRequest: the Request Log ends before the capture   *)
(* is written.                                                             *)
EndLog(r) ==
  /\ up /\ writer[r] \notin Gone /\ log[r] = "started"
  /\ log' = [log EXCEPT ![r] = "ended"]
  /\ leased' = leased \ {r}
  /\ UNCHANGED <<gatewayVars, evidence, coldVars, aged, task, crashes, setup>>

(* The response of a Provider is a stream.                                 *)
beginStreamExchange(r) ==
  /\ up /\ r \in setup.streams /\ writer[r] = "idle" /\ log[r] = "started"
  /\ evidence[r].attempts \in {"terminal", "other"}
  /\ \/ writer' = [writer EXCEPT ![r] = "open"] /\ staging' = [staging EXCEPT ![r] = "fresh"]
     \/ writer' = [writer EXCEPT ![r] = "unavailable"] /\ UNCHANGED staging
  /\ UNCHANGED <<file, up, databaseVars, coldVars, aged, task, crashes, setup>>

(* A failed append, or a check of finalize that fails.                     *)
abort(r) ==
  /\ up /\ writer[r] \in {"open", "finalizing"}
  /\ writer' = [writer EXCEPT ![r] = "unavailable"]
  /\ staging' = [staging EXCEPT ![r] = "none"]
  /\ UNCHANGED <<file, up, databaseVars, coldVars, aged, task, crashes, setup>>

(* finalize: the suffix is written, flushed and compared; a staging file   *)
(* that was cleaned up meanwhile aborts the capture.  The log may still be *)
(* open: settleFailure goes on when failRequest throws.                    *)
finalize(r) ==
  /\ up /\ writer[r] = "open"
  /\ writer' = [writer EXCEPT ![r] = IF staging[r] = "none" THEN "unavailable" ELSE "finalizing"]
  /\ UNCHANGED <<file, staging, up, databaseVars, coldVars, aged, task, crashes, setup>>

(* publish: a hard link makes the whole file canonical in one step.        *)
publish(r) ==
  /\ up /\ writer[r] = "finalizing"
  /\ IF staging[r] = "none"
       THEN writer' = [writer EXCEPT ![r] = "unavailable"] /\ UNCHANGED file
       ELSE writer' = [writer EXCEPT ![r] = "linked"] /\ file' = [file EXCEPT ![r] = "whole"]
  /\ UNCHANGED <<staging, up, databaseVars, coldVars, aged, task, crashes, setup>>

(* The directory is flushed and the staging link removed, which may fail   *)
(* silently; when the flush fails the file is taken back.                  *)
fsyncDirectory(r) ==
  /\ up /\ writer[r] = "linked"
  /\ \/ /\ writer' = [writer EXCEPT ![r] = "done"] /\ UNCHANGED file
        /\ staging' \in {[staging EXCEPT ![r] = "none"], staging}
     \/ /\ writer' = [writer EXCEPT ![r] = "unavailable"]
        /\ file' = [file EXCEPT ![r] = "none"]
        /\ staging' = [staging EXCEPT ![r] = "none"]
  /\ UNCHANGED <<up, databaseVars, coldVars, aged, task, crashes, setup>>

(* writeRecord of a response without a stream: the canonical file is       *)
(* created first and filled afterwards.                                    *)
writeRecord(r) ==
  /\ up /\ r \notin setup.streams /\ writer[r] = "idle" /\ log[r] # "started"
  /\ file[r] = "none"
  /\ writer' = [writer EXCEPT ![r] = "writing"]
  /\ file' = [file EXCEPT ![r] = "partial"]
  /\ UNCHANGED <<staging, up, databaseVars, coldVars, aged, task, crashes, setup>>

(* It is written, flushed and read back; on any error it is removed.       *)
verifyRecord(r) ==
  /\ up /\ writer[r] = "writing"
  /\ \/ writer' = [writer EXCEPT ![r] = "done"] /\ file' = [file EXCEPT ![r] = "whole"]
     \/ writer' = [writer EXCEPT ![r] = "unavailable"] /\ file' = [file EXCEPT ![r] = "none"]
  /\ UNCHANGED <<staging, up, databaseVars, coldVars, aged, task, crashes, setup>>

GatewayCrash ==
  /\ up /\ crashes < setup.maxCrashes
  /\ up' = FALSE /\ crashes' = crashes + 1
  /\ writer' = [r \in Requests |-> IF writer[r] \in Gone THEN writer[r] ELSE "dead"]
  /\ UNCHANGED <<file, staging, databaseVars, coldVars, aged, task, setup>>

(* A gateway starts: cleanupAbandonedStreamCaptures removes what has not   *)
(* been modified for two hours, whoever wrote it.                          *)
cleanupAbandonedStreamCaptures ==
  /\ staging' = [r \in Requests |-> IF staging[r] = "old" THEN "none" ELSE staging[r]]
  /\ up' = TRUE
  /\ UNCHANGED <<file, writer, databaseVars, coldVars, aged, task, crashes, setup>>

Restart == ~up /\ cleanupAbandonedStreamCaptures
AnotherStarts == up /\ cleanupAbandonedStreamCaptures

Gateway(r) ==
  \/ Invoke(r) \/ EndLog(r)
  \/ beginStreamExchange(r) \/ abort(r) \/ finalize(r) \/ publish(r) \/ fsyncDirectory(r)
  \/ writeRecord(r) \/ verifyRecord(r)

-----------------------------------------------------------------------------
(* Time.                                                                   *)

StagingAges(r) ==
  /\ staging[r] = "fresh" /\ staging' = [staging EXCEPT ![r] = "old"]
  /\ UNCHANGED <<file, writer, up, databaseVars, coldVars, aged, task, crashes, setup>>

LeaseExpires(r) ==
  /\ r \in leased /\ leased' = leased \ {r}
  /\ UNCHANGED <<gatewayVars, log, evidence, coldVars, aged, task, crashes, setup>>

RequestAges(r) ==
  /\ r \notin aged /\ aged' = aged \cup {r}
  /\ UNCHANGED <<gatewayVars, databaseVars, coldVars, task, crashes, setup>>

-----------------------------------------------------------------------------
(* A task: reconcile, archive, then remove what is older than hotDays.     *)

Step(t, from, next) == task[t].pc = from /\ task' = [task EXCEPT ![t] = next]

Fail == At("idle", {})

(* catch-up (or run): the started logs of the month are the candidates.    *)
StartCatchUp(t) ==
  /\ Step(t, "idle", At("reconcile", {r \in Requests : log[r] = "started"}))
  /\ UNCHANGED <<gatewayVars, databaseVars, coldVars, aged, crashes, setup>>

(* What the database and the hot store must not hold about a log that is   *)
(* closed as abandoned.                                                    *)
NoBlocker(r) ==
  LET e == evidence[r]
      abandonedBeforeDispatch ==
        e.execution = "none" /\ e.attempts = "predispatch" /\ ~e.claim /\ ~e.facts
      terminalProjectionLost ==
        e.execution = "terminal" /\ e.attempts = "terminal" /\ ~e.facts
  IN /\ ~e.mcp /\ staging[r] = "none" /\ file[r] = "none"
     /\ e.execution = "none" \/ terminalProjectionLost
     /\ e.attempts = "none" \/ abandonedBeforeDispatch \/ terminalProjectionLost
     /\ ~(e.claim \/ e.facts) \/ terminalProjectionLost

(* mutant: an attempt that was never dispatched blocks the log *)
reconcileCandidate_anyAttempt(t, r) ==
  /\ r \in task[t].set
  /\ Step(t, "reconcile", At("reconcile", task[t].set \ {r}))
  /\ log' = IF log[r] = "started" /\ r \notin leased /\ NoBlocker(r) /\ evidence[r] = NoEvidence
            THEN [log EXCEPT ![r] = "abandoned"] ELSE log
  /\ UNCHANGED <<gatewayVars, evidence, leased, coldVars, aged, crashes, setup>>

reconcileCandidate(t, r) ==
  /\ r \in task[t].set
  /\ Step(t, "reconcile", At("reconcile", task[t].set \ {r}))
  /\ log' = IF log[r] = "started" /\ r \notin leased /\ NoBlocker(r)
            THEN [log EXCEPT ![r] = "abandoned"] ELSE log
  /\ UNCHANGED <<gatewayVars, evidence, leased, coldVars, aged, crashes, setup>>

(* verifyRequestCaptureMonthlyArchive: catalog and pack of the manifest    *)
(* are read back completely.                                               *)
Verified(S) == S \in packs /\ S \in catalogs

(* assertCurrentHotFilesCovered: nothing in the hot store is missing in    *)
(* the archive, every hot file is intact, and only what is older than      *)
(* hotDays may be missing in the hot store.                                *)
assertCurrentHotFilesCovered(S, old) ==
  /\ AllTerminal
  /\ Hot \subseteq S
  /\ \A r \in S : file[r] # "partial" /\ (file[r] = "none" => r \in old)

(* The month has a manifest: verify it instead of archiving again.         *)
RunExisting(t) ==
  /\ task[t].set = {} /\ manifest.state # "none"
  /\ LET ok == /\ manifest.state = "whole" /\ Verified(manifest.set)
               /\ assertCurrentHotFilesCovered(manifest.set, aged)
     IN Step(t, "reconcile", IF ok /\ setup.autoPurge THEN At("finalize", {}) ELSE Fail)
  /\ UNCHANGED <<gatewayVars, databaseVars, coldVars, aged, crashes, setup>>

(* collectHotSources and inspectStagingBundleUpperBound.                   *)
collectHotSources(t) ==
  /\ task[t].set = {} /\ manifest.state = "none"
  /\ LET ok == AllTerminal /\ \A r \in Hot : file[r] = "whole"
     IN Step(t, "reconcile", IF ok THEN At("stage", Hot) ELSE Fail)
  /\ UNCHANGED <<gatewayVars, databaseVars, coldVars, aged, crashes, setup>>

(* stageRequestCaptureMonth and the comparison with the sources.           *)
stageRequestCaptureMonth(t) ==
  /\ Step(t, "stage", IF \A r \in task[t].set : file[r] = "whole" THEN At("pack", task[t].set) ELSE Fail)
  /\ UNCHANGED <<gatewayVars, databaseVars, coldVars, aged, crashes, setup>>

(* promoteStagedFile of the pack, then of the catalog: a rename, or        *)
(* nothing when the object is already there.                               *)
PromotePack(t) ==
  /\ Step(t, "pack", At("catalog", task[t].set))
  /\ packs' = packs \cup {task[t].set}
  /\ UNCHANGED <<gatewayVars, databaseVars, catalogs, manifest, aged, crashes, setup>>

PromoteCatalog(t) ==
  /\ Step(t, "catalog", At("commit", task[t].set))
  /\ catalogs' = catalogs \cup {task[t].set}
  /\ UNCHANGED <<gatewayVars, databaseVars, packs, manifest, aged, crashes, setup>>

(* The bundle is verified on the cold mount, then remote.put writes the    *)
(* manifest: an atomic link, or a copy that takes a moment.  A manifest    *)
(* that another task committed is a conflict (createdAt differs).          *)
CommitManifest(t) ==
  LET S == task[t].set
  IN /\ Step(t, "commit",
             IF ~Verified(S) \/ manifest.state # "none" THEN Fail
             ELSE At(IF setup.links THEN "readback" ELSE "copying", S))
     /\ manifest' = IF ~Verified(S) \/ manifest.state # "none" THEN manifest
                    ELSE [state |-> IF setup.links THEN "whole" ELSE "partial", set |-> S]
     /\ UNCHANGED <<gatewayVars, databaseVars, packs, catalogs, aged, crashes, setup>>

CopyManifest(t) ==
  /\ Step(t, "copying", At("readback", task[t].set))
  /\ manifest' = [manifest EXCEPT !.state = "whole"]
  /\ UNCHANGED <<gatewayVars, databaseVars, packs, catalogs, aged, crashes, setup>>

(* The manifest is read back and the sources compared once more.           *)
Readback(t) ==
  /\ LET ok == /\ manifest.state = "whole" /\ manifest.set = task[t].set
               /\ \A r \in task[t].set : file[r] = "whole"
     IN Step(t, "readback", IF ok /\ setup.autoPurge THEN At("finalize", {}) ELSE Fail)
  /\ UNCHANGED <<gatewayVars, databaseVars, coldVars, aged, crashes, setup>>

(* The operator runs finalize, or purge-verified when autoPurge is off.    *)
StartPurge(t) ==
  /\ Step(t, "idle", At(IF setup.autoPurge THEN "finalize" ELSE "purge", {}))
  /\ UNCHANGED <<gatewayVars, databaseVars, coldVars, aged, crashes, setup>>

(* mutant: the coverage of the hot store is not checked, and every file of *)
(* the month that is old enough is removed *)
finalizeRequestCaptureMonthlyArchive_uncovered(t) ==
  /\ LET ok == manifest.state = "whole" /\ Verified(manifest.set)
     IN Step(t, "finalize", IF ok THEN At("select", Hot \cap aged) ELSE Fail)
  /\ UNCHANGED <<gatewayVars, databaseVars, coldVars, aged, crashes, setup>>

(* mutant: hotDays is not looked at *)
finalizeRequestCaptureMonthlyArchive_anyAge(t) ==
  /\ LET ok == /\ manifest.state = "whole" /\ Verified(manifest.set)
               /\ assertCurrentHotFilesCovered(manifest.set, aged)
     IN Step(t, "finalize", IF ok THEN At("select", manifest.set) ELSE Fail)
  /\ UNCHANGED <<gatewayVars, databaseVars, coldVars, aged, crashes, setup>>

(* mutant: a hot file that is already gone stops the purge *)
finalizeRequestCaptureMonthlyArchive_strict(t) ==
  /\ LET ok == /\ manifest.state = "whole" /\ Verified(manifest.set)
               /\ assertCurrentHotFilesCovered(manifest.set, {})
     IN Step(t, "finalize", IF ok THEN At("select", manifest.set \cap aged) ELSE Fail)
  /\ UNCHANGED <<gatewayVars, databaseVars, coldVars, aged, crashes, setup>>

(* finalizeRequestCaptureMonthlyArchive: verify, check the coverage, and   *)
(* take the catalog rows older than hotDays, as of now.                    *)
finalizeRequestCaptureMonthlyArchive(t) ==
  /\ LET ok == /\ manifest.state = "whole" /\ Verified(manifest.set)
               /\ assertCurrentHotFilesCovered(manifest.set, aged)
     IN Step(t, "finalize", IF ok THEN At("select", manifest.set \cap aged) ELSE Fail)
  /\ UNCHANGED <<gatewayVars, databaseVars, coldVars, aged, crashes, setup>>

(* Every row's hot file is compared with its cold record.                  *)
CompareRows(t) ==
  /\ LET S == task[t].set
         ok == AllTerminal /\ \A r \in S : file[r] # "partial"
     IN Step(t, "select", IF ok THEN At("unlink", S \cap Hot) ELSE Fail)
  /\ UNCHANGED <<gatewayVars, databaseVars, coldVars, aged, crashes, setup>>

(* purgeVerifiedRequestCaptureMonth --execute: the whole month, whatever   *)
(* its age.                                                                *)
purgeVerifiedRequestCaptureMonth(t) ==
  /\ LET ok == /\ manifest.state = "whole" /\ Verified(manifest.set)
               /\ AllTerminal /\ Hot \subseteq manifest.set
               /\ \A r \in Hot : file[r] = "whole"
     IN Step(t, "purge", IF ok THEN At("unlink", Hot) ELSE Fail)
  /\ UNCHANGED <<gatewayVars, databaseVars, coldVars, aged, crashes, setup>>

(* One fs.unlink.  A file another task removed is skipped by finalize and  *)
(* stops purge-verified (assertHotSourceUnchanged).                        *)
Unlink(t, r) ==
  /\ r \in task[t].set
  /\ Step(t, "unlink", IF file[r] = "none" /\ ~setup.autoPurge THEN Fail ELSE At("unlink", task[t].set \ {r}))
  /\ file' = [file EXCEPT ![r] = "none"]
  /\ UNCHANGED <<staging, writer, up, databaseVars, coldVars, aged, crashes, setup>>

EndPurge(t) ==
  /\ task[t].set = {} /\ Step(t, "unlink", Fail)
  /\ UNCHANGED <<gatewayVars, databaseVars, coldVars, aged, crashes, setup>>

(* A task dies: what it left in the cold staging directory stays there.    *)
TaskCrash(t) ==
  /\ task[t].pc # "idle" /\ crashes < setup.maxCrashes
  /\ task' = [task EXCEPT ![t] = Fail] /\ crashes' = crashes + 1
  /\ UNCHANGED <<gatewayVars, databaseVars, coldVars, aged, setup>>

RunTask(t) ==
  \/ \E r \in Requests : reconcileCandidate(t, r)
  \/ RunExisting(t) \/ collectHotSources(t) \/ stageRequestCaptureMonth(t)
  \/ PromotePack(t) \/ PromoteCatalog(t) \/ CommitManifest(t) \/ CopyManifest(t) \/ Readback(t)
  \/ finalizeRequestCaptureMonthlyArchive(t) \/ CompareRows(t)
  \/ purgeVerifiedRequestCaptureMonth(t)
  \/ \E r \in Requests : Unlink(t, r)
  \/ EndPurge(t)

-----------------------------------------------------------------------------
(* The month has just ended: some of its requests are still running, the   *)
(* others were captured.                                                   *)
Init ==
  /\ setup \in Setups
  /\ log = [r \in Requests |-> IF r \in setup.running THEN "started" ELSE "ended"]
  /\ evidence = [r \in Requests |-> NoEvidence]
  /\ leased = setup.running
  /\ file = [r \in Requests |-> IF r \in setup.running THEN "none" ELSE "whole"]
  /\ staging = [r \in Requests |-> "none"]
  /\ writer = [r \in Requests |-> IF r \in setup.running THEN "idle" ELSE "done"]
  /\ up = TRUE /\ aged = {}
  /\ packs = {} /\ catalogs = {} /\ manifest = NoManifest
  /\ task = [t \in Tasks |-> Fail]
  /\ crashes = 0

Next ==
  \/ \E r \in Requests : Gateway(r) \/ StagingAges(r) \/ LeaseExpires(r) \/ RequestAges(r)
  \/ GatewayCrash \/ Restart \/ AnotherStarts
  \/ \E t \in setup.tasks : StartCatchUp(t) \/ StartPurge(t) \/ RunTask(t) \/ TaskCrash(t)

Spec == Init /\ [][Next]_vars

(* A gateway that went down is restarted and time passes.  A task that     *)
(* runs takes its steps, and catch-up is run again and again; nothing in   *)
(* the repository schedules it, so that is the operator's part.            *)
FairSpec ==
  /\ Spec
  /\ WF_vars(Restart)
  /\ \A r \in Requests : WF_vars(StagingAges(r)) /\ WF_vars(LeaseExpires(r))
  /\ \A t \in Tasks : WF_vars(t \in setup.tasks /\ RunTask(t)) /\ SF_vars(t \in setup.tasks /\ StartCatchUp(t))

-----------------------------------------------------------------------------
(* Type invariant of the stores, the writers and the tasks' program        *)
(* counters.                                                               *)
TypeOK ==
  /\ log \in [Requests -> {"started", "ended", "abandoned"}]
  /\ evidence \in [Requests -> EvidenceType]
  /\ leased \subseteq Requests /\ aged \subseteq Requests
  /\ file \in [Requests -> {"none", "partial", "whole"}]
  /\ staging \in [Requests -> {"none", "fresh", "old"}]
  /\ writer \in [Requests -> {"idle"} \cup InProgress \cup Gone]
  /\ up \in BOOLEAN
  /\ packs \subseteq SUBSET Requests /\ catalogs \subseteq SUBSET Requests
  /\ manifest \in [state : {"none", "partial", "whole"}, set : SUBSET Requests]
  /\ task \in [Tasks -> [pc : {"idle", "reconcile", "stage", "pack", "catalog", "commit", "copying",
                               "readback", "finalize", "select", "purge", "unlink"},
                         set : SUBSET Requests]]
  /\ crashes \in 0 .. setup.maxCrashes

(* A capture the gateway reported as written is never lost: at every       *)
(* moment, whoever crashed and whichever tasks run at once, the hot store  *)
(* has it or the committed archive does (the purges remove only what the   *)
(* cold mount was read back to hold).                                      *)
NoCaptureLost ==
  \A r \in Requests : writer[r] = "done" =>
    \/ file[r] = "whole"
    \/ manifest.state = "whole" /\ r \in manifest.set /\ Verified(manifest.set)

(* The manifest is the commit marker: as soon as it can be read, pack and  *)
(* catalog are complete on the cold mount, and no request in it is still   *)
(* running.                                                                *)
ManifestIsLast ==
  manifest.state # "none" =>
    Verified(manifest.set) /\ \A r \in manifest.set : log[r] # "started"

(* readExchangeAsync: the hot file, and the cold archive when there is no  *)
(* hot file and the request is older than hotDays.                         *)
readExchangeAsync(r) ==
  CASE file[r] = "whole" -> "exchange"
    [] file[r] = "partial" -> "integrity"
    [] file[r] = "none" /\ r \notin aged -> "null"
    [] OTHER -> IF manifest.state = "partial" THEN "integrity"
                ELSE IF manifest.state = "whole" /\ r \in manifest.set /\ Verified(manifest.set)
                     THEN "exchange" ELSE "null"

(* A capture that was reported as written can be read at any later time,   *)
(* through the purge of the hot store (RequestCaptureV3Storage chooses the *)
(* store by the age of the request).  purge-verified, the operator's purge *)
(* when autoPurge is off, removes files of any age and does not keep this. *)
WrittenIsReadable ==
  setup.autoPurge => \A r \in Requests : writer[r] = "done" => readExchangeAsync(r) = "exchange"

(* "one immutable ... file per terminal request exchange": a canonical     *)
(* file whose writer is gone holds a whole record.                         *)
CanonicalIsWhole ==
  \A r \in Requests : file[r] = "partial" => writer[r] = "writing"

(* The requests are over, and nothing but a lease keeps the reconciliation *)
(* from closing their logs.                                                *)
Settled ==
  \A r \in Requests :
    /\ writer[r] \in Gone /\ file[r] # "partial"
    /\ log[r] # "started" \/ NoBlocker(r)

(* Whatever crashed before, a settled month ends up with a committed       *)
(* archive: leftovers of dead tasks and abandoned logs do not block the    *)
(* next catch-up.  Without hard links a crash can leave half a manifest.   *)
MonthIsArchived == (Settled /\ setup.links) ~> manifest.state = "whole"

(* Once the archive covers the hot store and everything is older than      *)
(* hotDays, the hot files are removed, across crashes in mid-purge.        *)
HotIsPurged ==
  (Settled /\ setup.autoPurge /\ manifest.state = "whole" /\ Hot \subseteq manifest.set /\ aged = Requests)
    ~> Hot = {}

(* "Startup cleanup removes a leftover private staging link": the staging  *)
(* file of a writer that died with its gateway disappears once the gateway *)
(* is started again.                                                       *)
LeftoverStagingRemoved ==
  \A r \in Requests : (writer[r] = "dead" /\ staging[r] # "none") ~> staging[r] = "none"
=============================================================================
