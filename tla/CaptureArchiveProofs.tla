------------------------ MODULE CaptureArchiveProofs ------------------------
(* The capture archive for any number of requests and tasks and any        *)
(* setups: no written capture is lost, and the manifest comes last.        *)
EXTENDS CaptureArchive, TLAPS

Archived(r) == manifest.state = "whole" /\ r \in manifest.set /\ Verified(manifest.set)

Removable(r) == Archived(r) /\ (setup.autoPurge => r \in aged)

Archiving == {"stage", "pack", "catalog", "commit", "copying", "readback"}
Removing == {"select", "unlink"}

(* What a task is about to archive was over when the task collected it.    *)
ArchivesEnded ==
  \A t \in Tasks : task[t].pc \in Archiving => \A r \in task[t].set : log[r] # "started"

(* Only a manifest that was created is filled.                             *)
CopiesCreated == \A t \in Tasks : task[t].pc = "copying" => manifest.state # "none"

(* What a task is about to remove is archived, and old enough if the       *)
(* reader looks for it by its age.                                         *)
RemovesArchived ==
  \A t \in Tasks : task[t].pc \in Removing => \A r \in task[t].set : Removable(r)

PurgesByHand == \A t \in Tasks : task[t].pc = "purge" => ~setup.autoPurge

(* A file that has its name is there until it may be removed; a torn one   *)
(* belongs to a writer that has not finished, or never will.               *)
PublishedIsKept ==
  \A r \in Requests : writer[r] \in {"linked", "done"} =>
    file[r] = "whole" \/ (file[r] = "none" /\ Removable(r))

TornIsUnfinished == \A r \in Requests : file[r] = "partial" => writer[r] \in {"writing", "dead"}

IInv ==
  /\ TypeOK
  /\ setup \in Setups
  /\ ManifestIsLast
  /\ ArchivesEnded
  /\ CopiesCreated
  /\ RemovesArchived
  /\ PurgesByHand
  /\ PublishedIsKept
  /\ TornIsUnfinished

-----------------------------------------------------------------------------
(* The steps of the gateways and of time, and those of one task.           *)

HotStep ==
  \/ \E r \in Requests : Gateway(r) \/ StagingAges(r) \/ LeaseExpires(r) \/ RequestAges(r)
  \/ GatewayCrash \/ Restart \/ AnotherStarts

TaskStep(t) == StartCatchUp(t) \/ StartPurge(t) \/ RunTask(t) \/ TaskCrash(t)

LEMMA StepCases ==
  ASSUME TypeOK, setup \in Setups, [Next]_vars
  PROVE  HotStep \/ (\E t \in Tasks : TaskStep(t)) \/ UNCHANGED vars
BY ArchiveAssumption DEF Next, HotStep, TaskStep

(* The type invariant.                                                     *)

LEMMA InitType == Init => TypeOK /\ setup \in Setups
<1> SUFFICES ASSUME Init PROVE TypeOK /\ setup \in Setups
  OBVIOUS
<1>1. /\ setup.running \subseteq Requests /\ setup.maxCrashes \in Nat
  BY ArchiveAssumption DEF Init
<1>2. NoEvidence \in EvidenceType
  BY DEF NoEvidence, EvidenceType
<1>3. task \in [Tasks -> [pc : {"idle"}, set : SUBSET Requests]]
  BY DEF Init, Fail, At
<1> QED BY <1>1, <1>2, <1>3 DEF Init, TypeOK, NoManifest, InProgress, Gone

LEMMA HotType == ASSUME TypeOK, setup \in Setups, HotStep PROVE TypeOK'
<1>1. setup.maxCrashes \in Nat /\ setup.evidence \subseteq EvidenceType
  BY ArchiveAssumption
<1>2. ASSUME NEW r \in Requests, Gateway(r) PROVE TypeOK'
  <2>1. CASE Invoke(r)
    BY <1>1, <2>1 DEF Invoke, TypeOK, vars, gatewayVars, databaseVars, coldVars, InProgress, Gone
  <2>2. CASE EndLog(r)
    BY <1>1, <2>2 DEF EndLog, TypeOK, vars, gatewayVars, databaseVars, coldVars, InProgress, Gone
  <2>3. CASE beginStreamExchange(r)
    BY <1>1, <2>3 DEF beginStreamExchange, TypeOK, vars, gatewayVars, databaseVars, coldVars,
       InProgress, Gone
  <2>4. CASE abort(r)
    BY <1>1, <2>4 DEF abort, TypeOK, vars, gatewayVars, databaseVars, coldVars, InProgress, Gone
  <2>5. CASE finalize(r)
    BY <1>1, <2>5 DEF finalize, TypeOK, vars, gatewayVars, databaseVars, coldVars, InProgress, Gone
  <2>6. CASE publish(r)
    BY <1>1, <2>6 DEF publish, TypeOK, vars, gatewayVars, databaseVars, coldVars, InProgress, Gone
  <2>7. CASE fsyncDirectory(r)
    BY <1>1, <2>7 DEF fsyncDirectory, TypeOK, vars, gatewayVars, databaseVars, coldVars,
       InProgress, Gone
  <2>8. CASE writeRecord(r)
    BY <1>1, <2>8 DEF writeRecord, TypeOK, vars, gatewayVars, databaseVars, coldVars, InProgress,
       Gone
  <2>9. CASE verifyRecord(r)
    BY <1>1, <2>9 DEF verifyRecord, TypeOK, vars, gatewayVars, databaseVars, coldVars, InProgress,
       Gone
  <2> QED BY <1>2, <2>1, <2>2, <2>3, <2>4, <2>5, <2>6, <2>7, <2>8, <2>9 DEF Gateway
<1>3. ASSUME NEW r \in Requests, StagingAges(r) \/ LeaseExpires(r) \/ RequestAges(r) PROVE TypeOK'
  BY <1>3 DEF StagingAges, LeaseExpires, RequestAges, TypeOK, gatewayVars, databaseVars, coldVars
<1>4. CASE GatewayCrash
  <2>1. writer' \in [Requests -> {"idle"} \cup InProgress \cup Gone]
    BY <1>4 DEF GatewayCrash, TypeOK, Gone
  <2>2. crashes' \in 0 .. setup'.maxCrashes
    BY <1>1, <1>4 DEF GatewayCrash, TypeOK
  <2> QED BY <1>4, <2>1, <2>2 DEF GatewayCrash, TypeOK, databaseVars, coldVars
<1>5. CASE Restart \/ AnotherStarts
  BY <1>5 DEF Restart, AnotherStarts, cleanupAbandonedStreamCaptures, TypeOK, databaseVars, coldVars
<1> QED BY <1>2, <1>3, <1>4, <1>5 DEF HotStep

Labels == {"idle", "reconcile", "stage", "pack", "catalog", "commit", "copying",
           "readback", "finalize", "select", "purge", "unlink"}

(* A step of a task rewrites its own program counter and its set, keeps    *)
(* away from the capture writers and only ever adds to the cold mount.     *)
LEMMA TaskFrame ==
  ASSUME TypeOK, setup \in Setups, NEW t \in Tasks, TaskStep(t)
  PROVE  /\ \E label \in Labels, S \in SUBSET Requests : task' = [task EXCEPT ![t] = At(label, S)]
         /\ UNCHANGED <<evidence, leased, staging, writer, up, aged, setup>>
         /\ packs \subseteq packs' /\ catalogs \subseteq catalogs'
         /\ \A r \in Requests : log[r] # "started" => log'[r] = log[r]
         /\ \A r \in Requests : file'[r] \in {file[r], "none"}
<1> USE DEF TypeOK, Step, Fail, Labels, gatewayVars, databaseVars, coldVars
<1> DEFINE Frame ==
      /\ \E label \in Labels, S \in SUBSET Requests : task' = [task EXCEPT ![t] = At(label, S)]
      /\ UNCHANGED <<evidence, leased, staging, writer, up, aged, setup>>
      /\ packs \subseteq packs' /\ catalogs \subseteq catalogs'
      /\ \A r \in Requests : log[r] # "started" => log'[r] = log[r]
      /\ \A r \in Requests : file'[r] \in {file[r], "none"}
<1>0. task[t].set \in SUBSET Requests /\ manifest.set \in SUBSET Requests /\ Hot \in SUBSET Requests
  BY DEF Hot
<1>1. CASE StartCatchUp(t)
  BY <1>0, <1>1 DEF StartCatchUp
<1>2. CASE StartPurge(t)
  BY <1>0, <1>2 DEF StartPurge
<1>3. CASE RunExisting(t)
  BY <1>0, <1>3 DEF RunExisting
<1>4. CASE collectHotSources(t)
  BY <1>0, <1>4 DEF collectHotSources
<1>5. CASE stageRequestCaptureMonth(t)
  BY <1>0, <1>5 DEF stageRequestCaptureMonth
<1>6. CASE PromotePack(t)
  BY <1>0, <1>6 DEF PromotePack
<1>7. CASE PromoteCatalog(t)
  BY <1>0, <1>7 DEF PromoteCatalog
<1>8. CASE CommitManifest(t)
  BY <1>0, <1>8 DEF CommitManifest
<1>9. CASE CopyManifest(t)
  BY <1>0, <1>9 DEF CopyManifest
<1>10. CASE Readback(t)
  BY <1>0, <1>10 DEF Readback
<1>11. CASE finalizeRequestCaptureMonthlyArchive(t)
  BY <1>0, <1>11 DEF finalizeRequestCaptureMonthlyArchive
<1>12. CASE CompareRows(t)
  BY <1>0, <1>12 DEF CompareRows
<1>13. CASE purgeVerifiedRequestCaptureMonth(t)
  BY <1>0, <1>13 DEF purgeVerifiedRequestCaptureMonth
<1>14. CASE EndPurge(t)
  BY <1>0, <1>14 DEF EndPurge
<1>15. CASE TaskCrash(t)
  BY <1>0, <1>15 DEF TaskCrash
<1>16. ASSUME NEW r \in Requests, reconcileCandidate(t, r) PROVE Frame
  BY <1>0, <1>16 DEF reconcileCandidate
<1>17. ASSUME NEW r \in Requests, Unlink(t, r) PROVE Frame
  BY <1>0, <1>17 DEF Unlink
<1> QED BY <1>1, <1>2, <1>3, <1>4, <1>5, <1>6, <1>7, <1>8, <1>9, <1>10, <1>11, <1>12, <1>13, <1>14,
   <1>15, <1>16, <1>17 DEF TaskStep, RunTask

LEMMA TaskType == ASSUME TypeOK, setup \in Setups, NEW t \in Tasks, TaskStep(t) PROVE TypeOK'
<1> USE DEF TypeOK, Step, gatewayVars, databaseVars, coldVars
<1> DEFINE Stores ==
      /\ log' \in [Requests -> {"started", "ended", "abandoned"}]
      /\ file' \in [Requests -> {"none", "partial", "whole"}]
      /\ packs' \subseteq SUBSET Requests /\ catalogs' \subseteq SUBSET Requests
      /\ manifest' \in [state : {"none", "partial", "whole"}, set : SUBSET Requests]
      /\ crashes' \in 0 .. setup.maxCrashes
<1>0. setup.maxCrashes \in Nat /\ task[t].set \in SUBSET Requests
  BY ArchiveAssumption
<1>1. ASSUME StartCatchUp(t) PROVE Stores
  BY <1>0, <1>1 DEF StartCatchUp
<1>2. ASSUME StartPurge(t) PROVE Stores
  BY <1>0, <1>2 DEF StartPurge
<1>3. ASSUME RunExisting(t) PROVE Stores
  BY <1>0, <1>3 DEF RunExisting
<1>4. ASSUME collectHotSources(t) PROVE Stores
  BY <1>0, <1>4 DEF collectHotSources
<1>5. ASSUME stageRequestCaptureMonth(t) PROVE Stores
  BY <1>0, <1>5 DEF stageRequestCaptureMonth
<1>6. ASSUME PromotePack(t) PROVE Stores
  BY <1>0, <1>6 DEF PromotePack
<1>7. ASSUME PromoteCatalog(t) PROVE Stores
  BY <1>0, <1>7 DEF PromoteCatalog
<1>8. ASSUME CommitManifest(t) PROVE Stores
  BY <1>0, <1>8 DEF CommitManifest
<1>9. ASSUME CopyManifest(t) PROVE Stores
  BY <1>0, <1>9 DEF CopyManifest
<1>10. ASSUME Readback(t) PROVE Stores
  BY <1>0, <1>10 DEF Readback
<1>11. ASSUME finalizeRequestCaptureMonthlyArchive(t) PROVE Stores
  BY <1>0, <1>11 DEF finalizeRequestCaptureMonthlyArchive
<1>12. ASSUME CompareRows(t) PROVE Stores
  BY <1>0, <1>12 DEF CompareRows
<1>13. ASSUME purgeVerifiedRequestCaptureMonth(t) PROVE Stores
  BY <1>0, <1>13 DEF purgeVerifiedRequestCaptureMonth
<1>14. ASSUME EndPurge(t) PROVE Stores
  BY <1>0, <1>14 DEF EndPurge
<1>15. ASSUME TaskCrash(t) PROVE Stores
  BY <1>0, <1>15 DEF TaskCrash
<1>16. ASSUME NEW r \in Requests, reconcileCandidate(t, r) PROVE Stores
  BY <1>0, <1>16 DEF reconcileCandidate
<1>17. ASSUME NEW r \in Requests, Unlink(t, r) PROVE Stores
  BY <1>0, <1>17 DEF Unlink
<1>18. Stores
  BY <1>1, <1>2, <1>3, <1>4, <1>5, <1>6, <1>7, <1>8, <1>9, <1>10, <1>11, <1>12, <1>13, <1>14,
     <1>15, <1>16, <1>17 DEF TaskStep, RunTask
<1>19. task' \in [Tasks -> [pc : Labels, set : SUBSET Requests]]
  BY TaskFrame DEF At, Labels
<1>20. setup' = setup /\ evidence' = evidence /\ leased' = leased /\ aged' = aged /\ staging' = staging
        /\ writer' = writer /\ up' = up
  BY TaskFrame
<1> QED BY <1>18, <1>19, <1>20 DEF Labels

LEMMA NextType == ASSUME TypeOK, setup \in Setups, [Next]_vars PROVE TypeOK' /\ setup' = setup
<1>1. CASE HotStep
  BY <1>1, HotType DEF HotStep, Gateway, Invoke, EndLog, beginStreamExchange, abort, finalize,
     publish,
     fsyncDirectory, writeRecord, verifyRecord, GatewayCrash, Restart, AnotherStarts,
     cleanupAbandonedStreamCaptures, StagingAges, LeaseExpires, RequestAges
<1>2. ASSUME NEW t \in Tasks, TaskStep(t) PROVE TypeOK' /\ setup' = setup
  BY <1>2, TaskType, TaskFrame
<1>3. CASE UNCHANGED vars
  BY <1>3 DEF TypeOK, vars, gatewayVars, databaseVars, coldVars
<1> QED BY <1>1, <1>2, <1>3, StepCases

(* The stores, the writers, the manifest and the tasks keep their types.   *)
THEOREM TypeCorrect == Spec => [](TypeOK /\ setup \in Setups)
<1>1. TypeOK /\ setup \in Setups /\ [Next]_vars => (TypeOK /\ setup \in Setups)'
  BY NextType
<1> QED BY <1>1, InitType, PTL DEF Spec

-----------------------------------------------------------------------------
(* The inductive invariant.                                                *)

LEMMA HotFrame ==
  ASSUME TypeOK, HotStep
  PROVE  /\ UNCHANGED <<packs, catalogs, manifest, task, setup>>
         /\ aged \subseteq aged'
         /\ \A r \in Requests : log[r] # "started" => log'[r] = log[r]
BY DEF TypeOK, HotStep, Gateway, Invoke, EndLog, beginStreamExchange, abort, finalize, publish,
   fsyncDirectory, writeRecord, verifyRecord,
   GatewayCrash, Restart, AnotherStarts, cleanupAbandonedStreamCaptures, StagingAges, LeaseExpires,
   RequestAges, gatewayVars, databaseVars, coldVars

(* The manifest is created by a commit that read its objects back, and     *)
(* filled by the task that copies it; nothing else touches it.             *)
LEMMA ManifestFrame ==
  ASSUME TypeOK, NEW t \in Tasks, TaskStep(t)
  PROVE  \/ UNCHANGED manifest
         \/ /\ task[t].pc = "copying" /\ manifest' = [manifest EXCEPT !.state = "whole"]
         \/ /\ task[t].pc = "commit" /\ manifest.state = "none" /\ Verified(task[t].set)
            /\ manifest'.state # "none" /\ manifest'.set = task[t].set
<1> USE DEF Step, gatewayVars, databaseVars, coldVars
<1>1. CASE CommitManifest(t)
  BY <1>1 DEF CommitManifest, TypeOK
<1>2. CASE CopyManifest(t)
  BY <1>2 DEF CopyManifest
<1>3. ASSUME ~CommitManifest(t), ~CopyManifest(t) PROVE UNCHANGED manifest
  BY <1>3 DEF TaskStep, RunTask, reconcileCandidate, Unlink, StartCatchUp, StartPurge, RunExisting,
     collectHotSources, stageRequestCaptureMonth, PromotePack, PromoteCatalog, Readback,
     finalizeRequestCaptureMonthlyArchive, CompareRows, purgeVerifiedRequestCaptureMonth, EndPurge,
     TaskCrash
<1> QED BY <1>1, <1>2, <1>3

(* What only grows: the cold mount, the requests that are over and those   *)
(* that are old; a manifest keeps its set, and a whole one stays whole.    *)
Grows ==
  /\ packs \subseteq packs' /\ catalogs \subseteq catalogs' /\ aged \subseteq aged'
  /\ setup' = setup
  /\ \A r \in Requests : log[r] # "started" => log'[r] = log[r]
  /\ manifest.state # "none" => manifest'.state # "none" /\ manifest'.set = manifest.set
  /\ manifest.state = "whole" => manifest' = manifest

LEMMA NextGrows == ASSUME IInv, [Next]_vars PROVE Grows
<1>1. TypeOK /\ setup \in Setups
  BY DEF IInv
<1>2. CASE HotStep
  BY <1>1, <1>2, HotFrame DEF Grows
<1>3. ASSUME NEW t \in Tasks, TaskStep(t) PROVE Grows
  <2>1. manifest.state # "none" => manifest'.state # "none" /\ manifest'.set = manifest.set
    BY <1>1, <1>3, ManifestFrame DEF TypeOK
  <2>2. manifest.state = "whole" => manifest' = manifest
    BY <1>1, <1>3, ManifestFrame DEF TypeOK
  <2> QED BY <1>1, <1>3, <2>1, <2>2, TaskFrame DEF Grows
<1>4. CASE UNCHANGED vars
  BY <1>4 DEF Grows, vars, databaseVars, coldVars
<1> QED BY <1>1, <1>2, <1>3, <1>4, StepCases

LEMMA StaysRemovable ==
  ASSUME Grows, NEW r \in Requests
  PROVE  /\ Archived(r) => Archived(r)'
         /\ Removable(r) => Removable(r)'
BY DEF Grows, Archived, Removable, Verified

(* The program counters: a task is where it was, or t moved.               *)
LEMMA OtherTasks ==
  ASSUME IInv, NEW t \in Tasks, TaskStep(t), NEW u \in Tasks, u # t
  PROVE  task'[u] = task[u]
BY TaskFrame DEF IInv, TypeOK

LEMMA LastNext == ASSUME IInv, [Next]_vars PROVE ManifestIsLast'
<1>1. TypeOK /\ setup \in Setups /\ Grows /\ TypeOK'
  BY NextGrows, NextType DEF IInv
<1>2. CASE manifest.state # "none"
  BY <1>1, <1>2 DEF IInv, ManifestIsLast, Grows, Verified, TypeOK
<1>3. CASE manifest.state = "none" /\ manifest' # manifest
  <2>1. PICK t \in Tasks : TaskStep(t)
    BY <1>1, <1>3, StepCases, HotFrame DEF vars, coldVars
  <2>2. /\ task[t].pc = "commit" /\ Verified(task[t].set) /\ manifest'.set = task[t].set
    BY <1>1, <1>3, <2>1, ManifestFrame DEF IInv, CopiesCreated
  <2>3. \A r \in task[t].set : log[r] # "started"
    BY <2>2 DEF IInv, ArchivesEnded, Archiving
  <2> QED BY <1>1, <2>2, <2>3 DEF ManifestIsLast, Grows, Verified, TypeOK
<1>4. CASE manifest.state = "none" /\ manifest' = manifest
  BY <1>4 DEF ManifestIsLast
<1> QED BY <1>2, <1>3, <1>4

(* Where the step of a task leads: what the set of t is when it archives   *)
(* or removes afterwards.                                                  *)
LEMMA ArchivesNext == ASSUME IInv, [Next]_vars PROVE ArchivesEnded'
<1>1. TypeOK /\ setup \in Setups /\ Grows
  BY NextGrows DEF IInv
<1>2. ASSUME NEW t \in Tasks, TaskStep(t), NEW r \in Requests, task'[t].pc \in Archiving, r \in task'[t].set
      PROVE  log'[r] # "started"
  <2> USE <1>1, <1>2 DEF IInv, TypeOK, ArchivesEnded, Archiving, Step, At, Fail, Grows,
     AllTerminal, Hot, databaseVars, coldVars, gatewayVars
  <2>1. CASE StartCatchUp(t)
    BY <2>1 DEF StartCatchUp
  <2>2. CASE StartPurge(t)
    BY <2>2 DEF StartPurge
  <2>3. CASE RunExisting(t)
    BY <2>3 DEF RunExisting
  <2>4. CASE collectHotSources(t)
    BY <2>4 DEF collectHotSources
  <2>5. CASE stageRequestCaptureMonth(t)
    BY <2>5 DEF stageRequestCaptureMonth
  <2>6. CASE PromotePack(t)
    BY <2>6 DEF PromotePack
  <2>7. CASE PromoteCatalog(t)
    BY <2>7 DEF PromoteCatalog
  <2>8. CASE CommitManifest(t)
    BY <2>8 DEF CommitManifest
  <2>9. CASE CopyManifest(t)
    BY <2>9 DEF CopyManifest
  <2>10. CASE Readback(t)
    BY <2>10 DEF Readback
  <2>11. CASE finalizeRequestCaptureMonthlyArchive(t)
    BY <2>11 DEF finalizeRequestCaptureMonthlyArchive
  <2>12. CASE CompareRows(t)
    BY <2>12 DEF CompareRows
  <2>13. CASE purgeVerifiedRequestCaptureMonth(t)
    BY <2>13 DEF purgeVerifiedRequestCaptureMonth
  <2>14. CASE EndPurge(t)
    BY <2>14 DEF EndPurge
  <2>15. CASE TaskCrash(t)
    BY <2>15 DEF TaskCrash
  <2>16. ASSUME NEW q \in Requests, reconcileCandidate(t, q) PROVE log'[r] # "started"
    BY <2>16 DEF reconcileCandidate
  <2>17. ASSUME NEW q \in Requests, Unlink(t, q) PROVE log'[r] # "started"
    BY <2>17 DEF Unlink
  <2> QED BY <1>2, <2>1, <2>2, <2>3, <2>4, <2>5, <2>6, <2>7, <2>8, <2>9, <2>10, <2>11, <2>12,
     <2>13, <2>14, <2>15, <2>16, <2>17 DEF TaskStep, RunTask
<1>3. ASSUME task' = task PROVE ArchivesEnded'
  BY <1>1, <1>3 DEF IInv, TypeOK, ArchivesEnded, Grows
<1>4. ASSUME NEW t \in Tasks, TaskStep(t) PROVE ArchivesEnded'
  <2>1. ASSUME NEW u \in Tasks, u # t, task'[u].pc \in Archiving, NEW r \in task'[u].set
        PROVE  log'[r] # "started"
    BY <1>1, <1>4, <2>1, OtherTasks DEF IInv, TypeOK, ArchivesEnded, Grows
  <2>2. task'[t].set \subseteq Requests
    BY <1>1, <1>4, TaskType DEF TypeOK
  <2> QED BY <1>2, <1>4, <2>1, <2>2 DEF ArchivesEnded
<1> QED BY <1>1, <1>3, <1>4, StepCases, HotFrame DEF vars

LEMMA CopiesNext == ASSUME IInv, [Next]_vars PROVE CopiesCreated'
<1>1. TypeOK /\ setup \in Setups /\ Grows
  BY NextGrows DEF IInv
<1>2. ASSUME NEW t \in Tasks, TaskStep(t), task'[t].pc = "copying" PROVE manifest'.state # "none"
  <2> USE <1>1, <1>2 DEF IInv, TypeOK, CopiesCreated, Step, At, Fail, Grows, databaseVars,
     coldVars, gatewayVars
  <2>1. CASE CommitManifest(t)
    BY <2>1 DEF CommitManifest
  <2>2. ASSUME ~CommitManifest(t) PROVE FALSE
    BY <1>2, <2>2 DEF TaskStep, RunTask, reconcileCandidate, Unlink,
       StartCatchUp, StartPurge,
       RunExisting, collectHotSources, stageRequestCaptureMonth, PromotePack, PromoteCatalog,
       CopyManifest, Readback, finalizeRequestCaptureMonthlyArchive, CompareRows,
       purgeVerifiedRequestCaptureMonth, EndPurge, TaskCrash
  <2> QED BY <2>1, <2>2
<1>3. ASSUME task' = task PROVE CopiesCreated'
  BY <1>1, <1>3 DEF IInv, TypeOK, CopiesCreated, Grows
<1>4. ASSUME NEW t \in Tasks, TaskStep(t) PROVE CopiesCreated'
  <2>1. ASSUME NEW u \in Tasks, u # t, task'[u].pc = "copying" PROVE manifest'.state # "none"
    BY <1>1, <1>4, <2>1, OtherTasks DEF IInv, TypeOK, CopiesCreated, Grows
  <2> QED BY <1>2, <1>4, <2>1 DEF CopiesCreated
<1> QED BY <1>1, <1>3, <1>4, StepCases, HotFrame DEF vars

LEMMA ByHandNext == ASSUME IInv, [Next]_vars PROVE PurgesByHand'
<1>1. TypeOK /\ setup \in Setups /\ Grows
  BY NextGrows DEF IInv
<1>2. ASSUME NEW t \in Tasks, TaskStep(t), task'[t].pc = "purge" PROVE ~setup'.autoPurge
  <2> USE <1>1, <1>2 DEF IInv, TypeOK, PurgesByHand, Step, At, Fail, Grows, databaseVars, coldVars,
     gatewayVars
  <2>1. CASE StartPurge(t)
    BY <2>1 DEF StartPurge
  <2>2. ASSUME ~StartPurge(t) PROVE FALSE
    BY <1>2, <2>2 DEF TaskStep, RunTask, reconcileCandidate, Unlink,
       StartCatchUp, RunExisting,
       collectHotSources, stageRequestCaptureMonth, PromotePack, PromoteCatalog,
       CommitManifest, CopyManifest, Readback, finalizeRequestCaptureMonthlyArchive,
       CompareRows, purgeVerifiedRequestCaptureMonth, EndPurge, TaskCrash
  <2> QED BY <2>1, <2>2
<1>3. ASSUME task' = task PROVE PurgesByHand'
  BY <1>1, <1>3 DEF IInv, TypeOK, PurgesByHand, Grows
<1>4. ASSUME NEW t \in Tasks, TaskStep(t) PROVE PurgesByHand'
  <2>1. ASSUME NEW u \in Tasks, u # t, task'[u].pc = "purge" PROVE ~setup'.autoPurge
    BY <1>1, <1>4, <2>1, OtherTasks DEF IInv, TypeOK, PurgesByHand, Grows
  <2> QED BY <1>2, <1>4, <2>1 DEF PurgesByHand
<1> QED BY <1>1, <1>3, <1>4, StepCases, HotFrame DEF vars

(* A task that selects what to remove has just verified the archive; that  *)
(* stays true until it removes the files.                                  *)
LEMMA RemovesNext == ASSUME IInv, [Next]_vars PROVE RemovesArchived'
<1>1. TypeOK /\ setup \in Setups /\ Grows
  BY NextGrows DEF IInv
<1>2. ASSUME NEW t \in Tasks, TaskStep(t), NEW r \in Requests, task'[t].pc \in Removing, r \in task'[t].set
      PROVE  Removable(r)
  <2> USE <1>1, <1>2 DEF IInv, TypeOK, RemovesArchived, Removing, Step, At, Fail, Hot,
     databaseVars, coldVars, gatewayVars
  <2>1. CASE StartCatchUp(t)
    BY <2>1 DEF StartCatchUp
  <2>2. CASE StartPurge(t)
    BY <2>2 DEF StartPurge
  <2>3. CASE RunExisting(t)
    BY <2>3 DEF RunExisting
  <2>4. CASE collectHotSources(t)
    BY <2>4 DEF collectHotSources
  <2>5. CASE stageRequestCaptureMonth(t)
    BY <2>5 DEF stageRequestCaptureMonth
  <2>6. CASE PromotePack(t)
    BY <2>6 DEF PromotePack
  <2>7. CASE PromoteCatalog(t)
    BY <2>7 DEF PromoteCatalog
  <2>8. CASE CommitManifest(t)
    BY <2>8 DEF CommitManifest
  <2>9. CASE CopyManifest(t)
    BY <2>9 DEF CopyManifest
  <2>10. CASE Readback(t)
    BY <2>10 DEF Readback
  <2>11. CASE finalizeRequestCaptureMonthlyArchive(t)
    BY <2>11 DEF Removable, Archived, finalizeRequestCaptureMonthlyArchive
  <2>12. CASE CompareRows(t)
    BY <2>12 DEF CompareRows
  <2>13. CASE purgeVerifiedRequestCaptureMonth(t)
    BY <2>13 DEF Removable, Archived, PurgesByHand, purgeVerifiedRequestCaptureMonth
  <2>14. CASE EndPurge(t)
    BY <2>14 DEF EndPurge
  <2>15. CASE TaskCrash(t)
    BY <2>15 DEF TaskCrash
  <2>16. ASSUME NEW q \in Requests, reconcileCandidate(t, q) PROVE Removable(r)
    BY <2>16 DEF reconcileCandidate
  <2>17. ASSUME NEW q \in Requests, Unlink(t, q) PROVE Removable(r)
    BY <2>17 DEF Unlink
  <2> QED BY <1>2, <2>1, <2>2, <2>3, <2>4, <2>5, <2>6, <2>7, <2>8, <2>9, <2>10, <2>11, <2>12,
     <2>13, <2>14, <2>15, <2>16, <2>17 DEF TaskStep, RunTask
<1>3. ASSUME task' = task PROVE RemovesArchived'
  BY <1>1, <1>3, StaysRemovable DEF IInv, TypeOK, RemovesArchived
<1>4. ASSUME NEW t \in Tasks, TaskStep(t) PROVE RemovesArchived'
  <2>1. ASSUME NEW u \in Tasks, u # t, task'[u].pc \in Removing, NEW r \in task'[u].set
        PROVE  Removable(r)'
    BY <1>1, <1>4, <2>1, OtherTasks, StaysRemovable DEF IInv, TypeOK, RemovesArchived
  <2>2. task'[t].set \subseteq Requests
    BY <1>1, <1>4, TaskType DEF TypeOK
  <2> QED BY <1>1, <1>2, <1>4, <2>1, <2>2, StaysRemovable DEF RemovesArchived
<1> QED BY <1>1, <1>3, <1>4, StepCases, HotFrame DEF vars

(* The writers publish, take back and lose; only a removal that is due     *)
(* takes a finished file away.                                             *)
LEMMA WritersNext == ASSUME IInv, [Next]_vars PROVE PublishedIsKept' /\ TornIsUnfinished'
<1> DEFINE Kept(r) == /\ writer[r] \in {"linked", "done"} => file[r] = "whole" \/ (file[r] = "none" /\ Removable(r))
                      /\ file[r] = "partial" => writer[r] \in {"writing", "dead"}
<1>1. TypeOK /\ setup \in Setups /\ Grows
  BY NextGrows DEF IInv
<1>2. SUFFICES ASSUME NEW r \in Requests PROVE Kept(r)'
  BY DEF PublishedIsKept, TornIsUnfinished
<1>3. Kept(r) /\ (Removable(r) => Removable(r)')
  BY <1>1, StaysRemovable DEF IInv, PublishedIsKept, TornIsUnfinished
<1>4. ASSUME file'[r] = file[r], writer'[r] = writer[r] PROVE Kept(r)'
  BY <1>3, <1>4
<1>5. ASSUME NEW q \in Requests, Gateway(q) PROVE Kept(r)'
  <2>1. CASE q # r
    BY <1>1, <1>4, <1>5, <2>1 DEF Gateway, Invoke, EndLog, beginStreamExchange, abort, finalize,
       publish, fsyncDirectory, writeRecord, verifyRecord, TypeOK, gatewayVars
  <2>2. ASSUME q = r PROVE Kept(r)'
    <3> USE <1>3, <1>1, <2>2 DEF TypeOK, gatewayVars, InProgress, Gone
    <3>1. CASE Invoke(r)
      BY <3>1 DEF Invoke
    <3>2. CASE EndLog(r)
      BY <3>2 DEF EndLog
    <3>3. CASE beginStreamExchange(r)
      BY <3>3 DEF beginStreamExchange
    <3>4. CASE abort(r)
      BY <3>4 DEF abort
    <3>5. CASE finalize(r)
      BY <3>5 DEF finalize
    <3>6. CASE publish(r)
      BY <3>6 DEF publish
    <3>7. CASE fsyncDirectory(r)
      BY <3>7 DEF fsyncDirectory
    <3>8. CASE writeRecord(r)
      BY <3>8 DEF writeRecord
    <3>9. CASE verifyRecord(r)
      BY <3>9 DEF verifyRecord
    <3> QED BY <1>5, <3>1, <3>2, <3>3, <3>4, <3>5, <3>6, <3>7, <3>8, <3>9 DEF Gateway
  <2> QED BY <2>1, <2>2
<1>6. CASE GatewayCrash
  BY <1>1, <1>3, <1>6 DEF GatewayCrash, TypeOK, Gone
<1>7. ASSUME NEW q \in Requests, StagingAges(q) \/ LeaseExpires(q) \/ RequestAges(q) PROVE Kept(r)'
  BY <1>4, <1>7 DEF StagingAges, LeaseExpires, RequestAges, gatewayVars
<1>8. CASE Restart \/ AnotherStarts
  BY <1>4, <1>8 DEF Restart, AnotherStarts, cleanupAbandonedStreamCaptures
<1>9. ASSUME NEW t \in Tasks, TaskStep(t) PROVE Kept(r)'
  <2>1. writer' = writer
    BY <1>1, <1>9, TaskFrame
  <2>2. ASSUME file'[r] # file[r] PROVE Removable(r) /\ file'[r] = "none"
    <3>1. PICK q \in Requests : Unlink(t, q)
      BY <1>9, <2>2 DEF TaskStep, RunTask, StartCatchUp, StartPurge, reconcileCandidate,
         RunExisting,
         collectHotSources, stageRequestCaptureMonth, PromotePack, PromoteCatalog, CommitManifest,
         CopyManifest, Readback, finalizeRequestCaptureMonthlyArchive, CompareRows,
         purgeVerifiedRequestCaptureMonth, EndPurge, TaskCrash, gatewayVars
    <3>2. q = r /\ r \in task[t].set /\ task[t].pc = "unlink" /\ file'[r] = "none"
      BY <1>1, <2>2, <3>1 DEF Unlink, Step, TypeOK
    <3> QED BY <3>2 DEF IInv, RemovesArchived, Removing
  <2> QED BY <1>3, <1>4, <2>1, <2>2
<1>10. CASE UNCHANGED vars
  BY <1>4, <1>10 DEF vars, gatewayVars
<1> QED BY <1>1, <1>5, <1>6, <1>7, <1>8, <1>9, <1>10, StepCases DEF HotStep

LEMMA InitInv == Init => IInv
<1> SUFFICES ASSUME Init PROVE IInv
  OBVIOUS
<1>1. TypeOK /\ setup \in Setups
  BY InitType
<1>2. \A t \in Tasks : task[t].pc = "idle"
  BY DEF Init, Fail, At
<1> QED BY <1>1, <1>2 DEF Init, IInv, ManifestIsLast, NoManifest, ArchivesEnded, Archiving,
   CopiesCreated,
        RemovesArchived, Removing, PurgesByHand, PublishedIsKept, TornIsUnfinished

(* The invariant holds however many requests the month has, whichever      *)
(* tasks run at once, and wherever gateway and tasks crash.                *)
THEOREM Invariance == Spec => []IInv
<1>1. IInv /\ [Next]_vars => IInv'
  BY NextType, LastNext, ArchivesNext, CopiesNext, RemovesNext, ByHandNext, WritersNext DEF IInv
<1> QED BY <1>1, InitInv, PTL DEF Spec

-----------------------------------------------------------------------------
(* A capture the gateway reported as written is in the hot store or in the *)
(* committed archive (finalizeRequestCaptureMonthlyArchive and             *)
(* purgeVerifiedRequestCaptureMonth remove what they verified).            *)
THEOREM CapturesAreKept == Spec => []NoCaptureLost
<1>1. IInv => NoCaptureLost
  BY DEF IInv, PublishedIsKept, NoCaptureLost, Removable, Archived
<1> QED BY <1>1, Invariance, PTL

(* ... and where finalize purges, readExchangeAsync finds it in the store  *)
(* that it chooses by the age of the request.                              *)
THEOREM CapturesAreReadable == Spec => []WrittenIsReadable
<1>1. IInv => WrittenIsReadable
  BY DEF IInv, PublishedIsKept, WrittenIsReadable, readExchangeAsync, Removable, Archived
<1> QED BY <1>1, Invariance, PTL

(* A manifest is created after the pack and the catalog it names, for      *)
(* requests that are over.                                                 *)
THEOREM ManifestComesLast == Spec => []ManifestIsLast
<1>1. IInv => ManifestIsLast
  BY DEF IInv
<1> QED BY <1>1, Invariance, PTL
=============================================================================
