----------------------- MODULE CredentialControlProofs -----------------------
(* The control service for any Providers, keys, workers and setups: the      *)
(* types of its state; that without logins what an admin was told is what    *)
(* the store keeps and what /ready and putCredential say of CPA's keys holds *)
(* of CPA; that a session's callback goes once and one session of a Provider *)
(* is open; and that a login binds its own account's file.                   *)
EXTENDS CredentialControl, FiniteSetTheorems, SequenceTheorems, TLAPS

Stages == {"save", "sync", "probe", "undoSave", "undoSync", "undoProbe", "dropFile", "import",
           "undoFile", "undoFileOnly", "repair", "bind", "start", "submitOAuthCallback", "oauthStatus",
           "discover", None}

JobType ==
  [pc : Step, op : AllOps \cup {"reconcile", None}, stage : Stages, prov : Provider \cup {None},
   cred : CredType \cup {None}, prev : CredType \cup {None}, list : Payload,
   force : SUBSET Provider, remove : SUBSET Provider, sid : Session \cup {None}]

OAuthCred == [method : {"oauth"}, ref : File, at : Nat]

(* A request is about a Provider, and what is being bound is a login.        *)
JobOK(j) ==
  /\ (j.pc # "idle" /\ j.op # "reconcile") => j.prov \in Provider
  /\ (j.pc \notin {"idle", "queued"} /\ j.stage \in {"repair", "bind", "save"}) => j.prov \in Provider
  /\ (j.pc = "call" /\ j.stage \in {"repair", "bind"}) => j.cred \in OAuthCred
  /\ j.pc = "bound" => j.prov \in Provider /\ j.cred \in OAuthCred

StoreTypes == mem \in Payload /\ disk \in Payload /\ tmp \in Payload \cup {None}

CpaTypes ==
  /\ cfg \in [Provider -> Key \cup {None}] /\ live \in [Provider -> Key \cup {None}]
  /\ files \in [File -> [at : Nat, prefix : Provider \cup {None}] \cup {None}]
  /\ login \in [Session -> {"wait", "ok", "error"}]
  /\ clock \in Nat

JobTypes == job \in [Worker -> JobType] /\ \A w \in Worker : JobOK(job[w])

OtherTypes ==
  /\ ready \in BOOLEAN
  /\ active \in [Provider -> Session \cup {None}]
  /\ acked \in [Provider -> CredType \cup {None, Unknown}]
  /\ setup \in Setups

SessionType ==
  [phase : {"none", "starting", "awaiting_callback", "callback_accepted", "ready", "failed", "gone"},
   prov : Provider \cup {None}, before : SUBSET (File \X Nat), expired : BOOLEAN]

(* A session that was opened has a Provider, and so has the one a request is *)
(* about.                                                                    *)
HasSession(j) ==
  \/ j.op = "startOAuth" /\ j.pc \notin {"idle", "queued"}
  \/ j.op \in {"submitOAuthCallback", "oauthStatus"} /\ j.pc # "idle"

SessionTypes ==
  /\ sess \in [Session -> SessionType]
  /\ \A s \in Session : sess[s].phase \notin {"none", "gone"} => sess[s].prov \in Provider
  /\ \A w \in Worker : HasSession(job[w]) =>
       job[w].sid \in Session /\ sess[job[w].sid].prov \in Provider

Types == StoreTypes /\ CpaTypes /\ JobTypes /\ SessionTypes /\ OtherTypes

-----------------------------------------------------------------------------
(* Credentials and stores.                                                   *)

LEMMA NoneOfNone == ASSUME NEW S, Cardinality(S) = 1 PROVE S # {}
BY FS_EmptySet

LEMMA Creds ==
  /\ \A k \in Key : Cred("api-key", k, 0) \in CredType
  /\ \A f \in File, i \in Nat : /\ Cred("oauth", f, i) \in OAuthCred /\ Cred("oauth", f, i).ref = f
                                /\ Cred("credential-import", f, i) \in CredType
  /\ OAuthCred \subseteq CredType
  /\ \A c \in CredType : c.method = "api-key" => c.ref \in Key
  /\ \A c \in CredType : c.method = "oauth" => c \in OAuthCred
  /\ \A c \in OAuthCred : c.ref \in File /\ \A f \in File : [c EXCEPT !.ref = f] \in OAuthCred
BY DEF Cred, CredType, OAuthCred

LEMMA Payloads ==
  /\ NoPayload \in Payload
  /\ \A l \in Payload : /\ ApiKeys(l) \in [Provider -> Key \cup {None}]
                        /\ \A p \in Provider : l[p] \in CredType \cup {None}
  /\ \A l \in Payload, p \in Provider, c \in CredType \cup {None} :
       /\ [l EXCEPT ![p] = c] \in Payload /\ [l EXCEPT ![p] = c][p] = c
       /\ \A q \in Provider : q # p => [l EXCEPT ![p] = c][q] = l[q]
<1>1. NoPayload \in Payload
  BY DEF NoPayload, Payload
<1>2. \A l \in Payload : /\ ApiKeys(l) \in [Provider -> Key \cup {None}]
                         /\ \A p \in Provider : l[p] \in CredType \cup {None}
  BY Creds DEF ApiKeys, Payload
<1>3. \A l \in Payload, p \in Provider, c \in CredType \cup {None} :
       /\ [l EXCEPT ![p] = c] \in Payload /\ [l EXCEPT ![p] = c][p] = c
       /\ \A q \in Provider : q # p => [l EXCEPT ![p] = c][q] = l[q]
  BY DEF Payload
<1> QED BY <1>1, <1>2, <1>3

-----------------------------------------------------------------------------
(* What the machinery does to the job of a worker.                           *)

(* A job between two awaits of its method.                                   *)
Goes(i, j, pc, stage) ==
  /\ j.pc = pc /\ j.stage = stage
  /\ j.op = i.op /\ j.prov = i.prov /\ j.sid = i.sid

Others(w) == \A v \in Worker : v # w => job'[v] = job[v]

LEMMA AwaitJob ==
  ASSUME JobTypes, NEW w \in Worker, NEW pc \in Step, NEW stage \in Stages, Await(w, pc, stage)
  PROVE  /\ Others(w) /\ Goes(job[w], job'[w], pc, stage) /\ UNCHANGED <<tail, oauthTails>>
         /\ job'[w].cred = job[w].cred /\ job'[w].prev = job[w].prev /\ job'[w].list = job[w].list
         /\ job' \in [Worker -> JobType]
<1> DEFINE j == [job[w] EXCEPT !.pc = pc, !.stage = stage]
<1>1. job' = [job EXCEPT ![w] = j]
  BY DEF Await, JobTypes
<1>2. job[w] \in JobType
  BY DEF JobTypes
<1>3. /\ j \in JobType /\ Goes(job[w], j, pc, stage)
      /\ j.cred = job[w].cred /\ j.prev = job[w].prev /\ j.list = job[w].list
  BY <1>2 DEF JobType, Goes
<1> HIDE DEF j
<1> QED BY <1>1, <1>3 DEF JobTypes, Others, Await, Still

LEMMA SyncJob ==
  ASSUME JobTypes, NEW w \in Worker, NEW stage \in Stages, NEW l \in Payload,
         NEW f \in SUBSET Provider, NEW r \in SUBSET Provider, Sync(w, stage, l, f, r)
  PROVE  /\ Others(w) /\ Goes(job[w], job'[w], "read", stage) /\ UNCHANGED <<tail, oauthTails>>
         /\ job'[w].cred = job[w].cred /\ job'[w].prev = job[w].prev /\ job'[w].list = l
         /\ job' \in [Worker -> JobType]
<1> DEFINE j == [job[w] EXCEPT !.pc = "read", !.stage = stage, !.list = l, !.force = f, !.remove = r]
<1>1. job' = [job EXCEPT ![w] = j]
  BY DEF Sync, JobTypes
<1>2. job[w] \in JobType
  BY DEF JobTypes
<1>3. /\ j \in JobType /\ Goes(job[w], j, "read", stage)
      /\ j.cred = job[w].cred /\ j.prev = job[w].prev /\ j.list = l
  BY <1>2 DEF JobType, Goes, Step
<1> HIDE DEF j
<1>9. UNCHANGED <<tail, oauthTails>>
  BY DEF Sync, Still
<1>10. job \in [Worker -> JobType]
  BY DEF JobTypes
<1> QED BY <1>1, <1>3, <1>9, <1>10 DEF Others

LEMMA SaveJob ==
  ASSUME JobTypes, StoreTypes, NEW w \in Worker, NEW stage \in {"save", "undoSave"}, NEW p \in Provider,
         NEW c \in CredType \cup {None}, Save(w, stage, p, c)
  PROVE  /\ Others(w) /\ Goes(job[w], job'[w], "write", stage) /\ UNCHANGED <<tail, oauthTails>>
         /\ job'[w].list[p] = c /\ \A q \in Provider : q # p => job'[w].list[q] = mem[q]
         /\ stage = "save" /\ c # None => job'[w].cred = c
         /\ stage = "undoSave" \/ c = None => job'[w].cred = job[w].cred
         /\ stage = "undoSave" => job'[w].prev = job[w].prev
         /\ job' \in [Worker -> JobType]
<1> DEFINE l == [mem EXCEPT ![p] = c]
           x == IF stage = "save" THEN mem[p] ELSE job[w].prev
           y == IF stage = "save" /\ c # None THEN c ELSE job[w].cred
           j == [job[w] EXCEPT !.pc = "write", !.stage = stage, !.list = l, !.prev = x, !.cred = y]
<1>1. job' = [job EXCEPT ![w] = j]
  BY DEF Save, JobTypes
<1>2. job[w] \in JobType /\ stage \in Stages
  BY DEF JobTypes, Stages
<1>3. /\ l \in Payload /\ l[p] = c /\ \A q \in Provider : q # p => l[q] = mem[q]
      /\ mem[p] \in CredType \cup {None}
  BY Payloads DEF StoreTypes
<1>4. x \in CredType \cup {None} /\ y \in CredType \cup {None}
  BY <1>2, <1>3 DEF JobType
<1> HIDE DEF l
<1>5. /\ j.prev = x /\ j.cred = y /\ j.list = l /\ Goes(job[w], j, "write", stage)
  BY <1>2 DEF JobType, Goes
<1>6. stage = "undoSave" => x = job[w].prev
  OBVIOUS
<1>7. /\ stage = "save" /\ c # None => y = c
      /\ stage = "undoSave" \/ c = None => y = job[w].cred
  OBVIOUS
<1> HIDE DEF x, y
<1>8. j \in JobType
  BY <1>2, <1>3, <1>4 DEF JobType, Step
<1> HIDE DEF j
<1>9. UNCHANGED <<tail, oauthTails>>
  BY DEF Save, Still
<1>10. job \in [Worker -> JobType]
  BY DEF JobTypes
<1> QED BY <1>1, <1>3, <1>5, <1>6, <1>7, <1>8, <1>9, <1>10 DEF Others

LEMMA IdleJob == Idle \in JobType /\ Idle.pc = "idle" /\ JobOK(Idle)
BY Payloads DEF Idle, JobType, JobOK, Step, Stages

LEMMA ReleaseJob ==
  ASSUME JobTypes, NEW w \in Worker, Release(w)
  PROVE  /\ Others(w) /\ job'[w] = Idle /\ job' \in [Worker -> JobType]
         /\ job[w].op \notin OAuthOps => tail' = Tail(tail)
BY IdleJob DEF Release, JobTypes, Others

LEMMA CallJob ==
  ASSUME JobTypes, NEW w \in Worker, NEW op \in AllOps \cup {"reconcile"}, NEW p \in Provider \cup {None},
         NEW c \in CredType \cup {None}, NEW s \in Session \cup {None}, Call(w, op, p, c, s)
  PROVE  /\ Others(w) /\ job'[w].pc = "queued" /\ job'[w].op = op /\ job'[w].prov = p
         /\ job'[w].stage = None
         /\ job' \in [Worker -> JobType]
         /\ op \notin OAuthOps => tail' = Append(tail, w)
<1> DEFINE j == [Idle EXCEPT !.pc = "queued", !.op = op, !.prov = p, !.cred = c, !.sid = s]
<1>1. job' = [job EXCEPT ![w] = j]
  BY DEF Call, JobTypes
<1>2. j \in JobType /\ j.pc = "queued" /\ j.op = op /\ j.prov = p /\ j.stage = None
  BY Payloads DEF JobType, Idle, Step, Stages
<1> HIDE DEF j
<1> QED BY <1>1, <1>2 DEF JobTypes, Others, Call

-----------------------------------------------------------------------------
(* The types.                                                                *)

Assigns(w) ==
  \/ PutSaved(w) \/ PutUndoSaved(w) \/ DeleteSaved(w) \/ DeleteUndone(w) \/ ImportSaved(w)
  \/ ImportUndoSaved(w) \/ ReconcileSaved(w) \/ StatusSaved(w)

(* Only #replace, what resumes after it, and a restart touch the store.      *)
LEMMA StoreSteps ==
  ASSUME [Next]_vars
  PROVE  UNCHANGED store \/ Crash \/ \E w \in Worker : Replace(w) \/ Assigns(w)
<1>1. ASSUME NEW w \in Worker, Request(w) PROVE UNCHANGED store
  BY <1>1 DEF Request
<1>2. ASSUME NEW w \in Worker, CpaReconcile(w) \/ Probe(w) \/ Bind(w) \/ Bound(w) PROVE UNCHANGED store
  BY <1>2 DEF CpaReconcile, ReconcileRead, ReconcileUnload, ReconcileAbsent, ReconcilePut, Probe, Bind, Bound, store
<1>3. ASSUME NEW w \in Worker, PutCredential(w) PROVE UNCHANGED store \/ Assigns(w)
  BY <1>3 DEF PutCredential, PutBegin, PutSynced, PutReady, PutThrown, PutUndone, Assigns
<1>4. ASSUME NEW w \in Worker, DeleteCredential(w) PROVE UNCHANGED store \/ Assigns(w)
  BY <1>4 DEF DeleteCredential, DeleteBegin, DropFile, DeleteDropped, DeleteSynced, DeleteThrown, Assigns
<1>5. ASSUME NEW w \in Worker, ImportCredential(w) PROVE UNCHANGED store \/ Assigns(w)
  BY <1>5 DEF ImportCredential, ImportBegin, ImportFile, ImportImported, ImportSynced, ImportReady,
              ImportThrown, ImportUndone, Assigns
<1>6. ASSUME NEW w \in Worker, Reconcile(w) \/ CheckProviders(w) PROVE UNCHANGED store \/ Assigns(w)
  BY <1>6 DEF Reconcile, ReconcileBegin, RepairList, ReconcileHealth, ReconcileThrown,
              CheckProviders, CheckBegin, CheckHealth, CheckThrown, Assigns
<1>7. ASSUME NEW w \in Worker, OAuthOperation(w) PROVE UNCHANGED store \/ Assigns(w)
  BY <1>7 DEF OAuthOperation, StartOAuthBegin, StartOAuthReply, SessionBegin, PostCallback, CallbackAccepted,
              StatusReply, Discover, StatusSynced, StatusReady, SessionThrown, Assigns
<1>8. ScheduledReconcile => UNCHANGED store
  BY DEF ScheduledReconcile
<1>9. (\E s \in Session : Login(s) \/ Expire(s)) => UNCHANGED store
  BY DEF Login, Expire
<1>10. (\E p \in Provider : Rotate(p)) \/ Refresh => UNCHANGED store
  BY DEF Rotate, Refresh
<1> QED BY <1>1, <1>2, <1>3, <1>4, <1>5, <1>6, <1>7, <1>8, <1>9, <1>10 DEF Next, Work, vars, store

LEMMA StoreTypesNext == ASSUME StoreTypes, JobTypes, [Next]_vars PROVE StoreTypes'
<1>1. ASSUME NEW w \in Worker PROVE job[w].list \in Payload
  BY DEF JobTypes, JobType
<1>2. ASSUME NEW w \in Worker, Replace(w) PROVE StoreTypes'
  BY <1>1, <1>2 DEF Replace, ReplaceWrite, ReplaceRename, StoreTypes
<1>3. ASSUME NEW w \in Worker, Assigns(w) PROVE StoreTypes'
  <2>1. Assign(w)
    BY <1>3 DEF Assigns, PutSaved, PutUndoSaved, DeleteSaved, DeleteUndone, ImportSaved,
                ImportUndoSaved, ReconcileSaved, StatusSaved
  <2> QED BY <1>1, <2>1 DEF Assign, StoreTypes
<1>4. Crash => StoreTypes'
  BY DEF Crash, StoreTypes
<1>5. UNCHANGED store => StoreTypes'
  BY DEF StoreTypes, store
<1> QED BY <1>2, <1>3, <1>4, <1>5, StoreSteps

(* The configuration, the auth files and the logins of CPA.                  *)
LEMMA CpaTypesNext == ASSUME StoreTypes, CpaTypes, JobTypes, [Next]_vars PROVE CpaTypes'
<1>0. ASSUME NEW w \in Worker
      PROVE  /\ ApiKeys(job[w].list) \in [Provider -> Key \cup {None}]
             /\ job[w].prov \in Provider \cup {None}
             /\ (job[w].pc # "idle" /\ job[w].op # "reconcile") => job[w].prov \in Provider
             /\ (job[w].pc = "call" /\ job[w].stage = "bind") => job[w].prov \in Provider
  BY Payloads DEF JobTypes, JobType, JobOK
<1>1. UNCHANGED cpa => CpaTypes'
  BY DEF CpaTypes, cpa
<1>2. ASSUME NEW w \in Worker, CpaReconcile(w) PROVE CpaTypes'
  BY <1>0, <1>2 DEF CpaReconcile, ReconcileRead, ReconcileUnload, ReconcileAbsent, ReconcilePut, CpaTypes, cpa
<1>3. ASSUME NEW w \in Worker, Bind(w) PROVE CpaTypes'
  <2> DEFINE f == job[w].cred.ref
  <2>1. /\ UNCHANGED <<cfg, live, login, clock>>
        /\ files' = files \/ (files[f] # None /\ files' = [files EXCEPT ![f].prefix = job[w].prov])
    BY <1>3 DEF Bind
  <2>2. job[w].prov \in Provider
    BY <1>0, <1>3 DEF Bind
  <2>3. CASE files' = files
    BY <2>1, <2>3 DEF CpaTypes
  <2>4. CASE files[f] # None /\ files' = [files EXCEPT ![f].prefix = job[w].prov]
    <3> DEFINE g == [files[f] EXCEPT !.prefix = job[w].prov]
    <3>1. CASE f \in File
      <4>1. g \in [at : Nat, prefix : Provider \cup {None}]
        BY <2>2, <2>4, <3>1 DEF CpaTypes
      <4>2. files' = [files EXCEPT ![f] = g]
        BY <2>4
      <4> HIDE DEF g, f
      <4> QED BY <2>1, <4>1, <4>2 DEF CpaTypes
    <3>2. CASE f \notin File
      <4>1. files' = files
        BY <2>4, <3>2 DEF CpaTypes
      <4> QED BY <2>1, <4>1 DEF CpaTypes
    <3> QED BY <3>1, <3>2
  <2> QED BY <2>1, <2>3, <2>4
<1>4. ASSUME NEW w \in Worker, PutCredential(w) PROVE UNCHANGED cpa
  BY <1>4 DEF PutCredential, PutBegin, PutSaved, PutSynced, PutReady, PutThrown, PutUndoSaved, PutUndone
<1>5. ASSUME NEW w \in Worker, DeleteCredential(w) PROVE CpaTypes'
  <2>1. DropFile(w) => CpaTypes'
    BY DEF DropFile, CpaTypes
  <2>2. ASSUME ~DropFile(w) PROVE UNCHANGED cpa
    BY <1>5, <2>2 DEF DeleteCredential, DeleteBegin, DeleteDropped, DeleteSaved, DeleteSynced,
                 DeleteThrown, DeleteUndone
  <2> QED BY <1>1, <2>1, <2>2
<1>6. ASSUME NEW w \in Worker, ImportCredential(w) PROVE CpaTypes'
  <2>1. ASSUME ImportFile(w) PROVE CpaTypes'
    <3>1. job[w].prov \in Provider
      BY <1>0, <2>1 DEF ImportFile, Running
    <3>2. \A x \in {None, job[w].prov} :
            [at |-> clock + 1, prefix |-> x] \in [at : Nat, prefix : Provider \cup {None}]
      BY <3>1 DEF CpaTypes
    <3>3. \/ UNCHANGED cpa
          \/ /\ UNCHANGED <<cfg, live, login>> /\ clock' = clock + 1
             /\ \E x \in {None, job[w].prov} :
                  files' = [files EXCEPT ![VertexFile[job[w].prov]] = [at |-> clock + 1, prefix |-> x]]
      BY <2>1 DEF ImportFile, cpa
    <3> QED BY <1>1, <3>2, <3>3 DEF CpaTypes
  <2>2. ImportUndone(w) => CpaTypes'
    BY DEF ImportUndone, CpaTypes
  <2>3. ASSUME ~ImportFile(w), ~ImportUndone(w) PROVE UNCHANGED cpa
    BY <1>6, <2>3 DEF ImportCredential, ImportBegin, ImportImported, ImportSaved, ImportSynced, ImportReady,
                 ImportThrown, ImportUndoSaved
  <2> QED BY <1>1, <2>1, <2>2, <2>3
<1>7. ASSUME NEW w \in Worker, Reconcile(w) \/ CheckProviders(w) PROVE UNCHANGED cpa
  BY <1>7 DEF Reconcile, ReconcileBegin, RepairList, ReconcileSaved, ReconcileHealth, ReconcileThrown,
              CheckProviders, CheckBegin, CheckHealth, CheckThrown
<1>8. ASSUME NEW w \in Worker, OAuthOperation(w) PROVE UNCHANGED cpa
  BY <1>8 DEF OAuthOperation, StartOAuthBegin, StartOAuthReply, SessionBegin, PostCallback, CallbackAccepted,
              StatusReply, Discover, StatusSaved, StatusSynced, StatusReady, SessionThrown
<1>9. ASSUME NEW w \in Worker, Request(w) \/ Replace(w) \/ Probe(w) \/ Bound(w) PROVE UNCHANGED cpa
  BY <1>9 DEF Request, Replace, ReplaceWrite, ReplaceRename, Probe, Bound
<1>10. ScheduledReconcile \/ Crash => UNCHANGED cpa
  BY DEF ScheduledReconcile, Crash
<1>11. ASSUME NEW s \in Session, Login(s) \/ Expire(s) PROVE CpaTypes'
  <2>1. ASSUME Login(s) PROVE CpaTypes'
    <3>1. [at |-> clock + 1, prefix |-> None] \in [at : Nat, prefix : Provider \cup {None}]
      BY DEF CpaTypes
    <3> QED BY <2>1, <3>1 DEF Login, CpaTypes
  <2>2. Expire(s) => UNCHANGED cpa
    BY DEF Expire
  <2> QED BY <1>1, <1>11, <2>1, <2>2
<1>12. ASSUME NEW p \in Provider, Rotate(p) PROVE CpaTypes'
  <2>1. AccountOf[p] \in File /\ RotatesTo[p] \in File
    BY ControlAssumption
  <2>2. files[AccountOf[p]].prefix \in Provider \cup {None}
    BY <1>12, <2>1 DEF Rotate, CpaTypes
  <2>3. PICK x \in {None, files[AccountOf[p]].prefix} :
          files' = [files EXCEPT ![AccountOf[p]] = None, ![RotatesTo[p]] = [at |-> clock + 1, prefix |-> x]]
    BY <1>12 DEF Rotate
  <2>4. [at |-> clock + 1, prefix |-> x] \in [at : Nat, prefix : Provider \cup {None}]
    BY <2>2 DEF CpaTypes
  <2>5. UNCHANGED <<cfg, live, login>> /\ clock' = clock + 1
    BY <1>12 DEF Rotate
  <2> QED BY <2>3, <2>4, <2>5 DEF CpaTypes
<1>13. Refresh => CpaTypes'
  BY DEF Refresh, CpaTypes
<1> QED BY <1>1, <1>2, <1>3, <1>4, <1>5, <1>6, <1>7, <1>8, <1>9, <1>10, <1>11, <1>12, <1>13
        DEF Next, Work, vars, cpa

(* What each piece of the machinery needs to keep the type of its job.       *)
LEMMA JobAfter ==
  ASSUME JobTypes, NEW w \in Worker, Others(w), job' \in [Worker -> JobType], JobOK(job'[w])
  PROVE  JobTypes'
BY DEF JobTypes, Others

LEMMA AwaitTypes ==
  ASSUME JobTypes, NEW w \in Worker, NEW pc \in Step \ {"idle", "queued"}, NEW stage \in Stages,
         Await(w, pc, stage), job[w].pc # "idle",
         stage \in {"repair", "bind", "save"} => stage = job[w].stage /\ job[w].pc # "queued",
         pc = "call" /\ stage \in {"repair", "bind"} => job[w].cred \in OAuthCred,
         pc = "bound" => job[w].prov \in Provider /\ job[w].cred \in OAuthCred
  PROVE  JobTypes'
<1>1. /\ Others(w) /\ Goes(job[w], job'[w], pc, stage) /\ job'[w].cred = job[w].cred
      /\ job' \in [Worker -> JobType]
  BY AwaitJob
<1>2. JobOK(job'[w])
  BY <1>1 DEF JobTypes, JobOK, Goes
<1> QED BY <1>1, <1>2, JobAfter

LEMMA SyncTypes ==
  ASSUME JobTypes, NEW w \in Worker, NEW stage \in {"sync", "undoSync"}, NEW l \in Payload,
         NEW f \in SUBSET Provider, NEW r \in SUBSET Provider, Sync(w, stage, l, f, r), job[w].pc # "idle"
  PROVE  JobTypes'
<1>1. stage \in Stages
  BY DEF Stages
<1>2. /\ Others(w) /\ Goes(job[w], job'[w], "read", stage) /\ job' \in [Worker -> JobType]
  BY <1>1, SyncJob
<1>3. JobOK(job'[w])
  BY <1>2 DEF JobTypes, JobOK, Goes
<1> QED BY <1>2, <1>3, JobAfter

LEMMA SaveTypes ==
  ASSUME JobTypes, StoreTypes, NEW w \in Worker, NEW stage \in {"save", "undoSave"}, NEW p \in Provider,
         p = job[w].prov, NEW c \in CredType \cup {None}, Save(w, stage, p, c)
  PROVE  JobTypes'
<1>1. /\ Others(w) /\ Goes(job[w], job'[w], "write", stage) /\ job' \in [Worker -> JobType]
  BY SaveJob
<1>2. JobOK(job'[w])
  BY <1>1 DEF JobOK, Goes
<1> QED BY <1>1, <1>2, JobAfter

LEMMA ReleaseTypes == ASSUME JobTypes, NEW w \in Worker, Release(w) PROVE JobTypes'
BY ReleaseJob, IdleJob, JobAfter

LEMMA CallTypes ==
  ASSUME JobTypes, NEW w \in Worker, NEW op \in AllOps \cup {"reconcile"}, NEW p \in Provider \cup {None},
         NEW c \in CredType \cup {None}, NEW s \in Session \cup {None}, Call(w, op, p, c, s),
         op # "reconcile" => p \in Provider
  PROVE  JobTypes'
<1>1. /\ Others(w) /\ job'[w].pc = "queued" /\ job'[w].op = op /\ job'[w].prov = p
      /\ job' \in [Worker -> JobType]
  BY CallJob
<1>2. JobOK(job'[w])
  BY <1>1 DEF JobOK
<1> QED BY <1>1, <1>2, JobAfter

(* The step leaves every job alone, or changes one as the machinery does.    *)
LEMMA JobOf ==
  ASSUME JobTypes, NEW w \in Worker
  PROVE  /\ job[w] \in JobType /\ JobOK(job[w])
         /\ job[w].stage \in Stages /\ job[w].prov \in Provider \cup {None}
         /\ job[w].cred \in CredType \cup {None} /\ job[w].prev \in CredType \cup {None}
         /\ job[w].list \in Payload /\ job[w].sid \in Session \cup {None}
BY DEF JobTypes, JobType

LEMMA MachineryTypes ==
  ASSUME Types, NEW w \in Worker, Replace(w) \/ CpaReconcile(w) \/ Probe(w) \/ Bind(w) \/ Bound(w)
  PROVE  JobTypes'
<1> USE JobOf DEF Types
<1>1. /\ {"rename", "saved", "thrown", "put", "unload", "absent", "synced", "probed"} \subseteq Step \ {"idle", "queued"}
      /\ "bound" \in Step
  BY DEF Step
<1>2. ASSUME Replace(w) PROVE JobTypes'
  <2>1. \E pc \in {"rename", "saved", "thrown"} : Await(w, pc, job[w].stage)
    BY <1>2 DEF Replace, ReplaceWrite, ReplaceRename
  <2>2. job[w].pc \in {"write", "rename"}
    BY <1>2 DEF Replace, ReplaceWrite, ReplaceRename
  <2> QED BY <1>1, <2>1, <2>2, AwaitTypes
<1>3. ASSUME CpaReconcile(w) PROVE JobTypes'
  <2>1. \E pc \in {"thrown", "put", "unload", "absent", "synced"} : Await(w, pc, job[w].stage)
    BY <1>3 DEF CpaReconcile, ReconcileRead, ReconcileUnload, ReconcileAbsent, ReconcilePut
  <2>2. job[w].pc \in {"read", "unload", "absent", "put"}
    BY <1>3 DEF CpaReconcile, ReconcileRead, ReconcileUnload, ReconcileAbsent, ReconcilePut
  <2> QED BY <1>1, <2>1, <2>2, AwaitTypes
<1>4. ASSUME Probe(w) PROVE JobTypes'
  <2>1. (\E pc \in {"probed", "thrown"} : Await(w, pc, job[w].stage)) /\ job[w].pc = "probe"
    BY <1>4 DEF Probe
  <2> QED BY <1>1, <2>1, AwaitTypes
<1>5. ASSUME Bind(w) PROVE JobTypes'
  <2>1. (\E pc \in {"bound", "thrown"} : Await(w, pc, "bind")) /\ job[w].pc = "call" /\ job[w].stage = "bind"
    BY <1>5 DEF Bind
  <2>2. job[w].prov \in Provider /\ job[w].cred \in OAuthCred
    BY <2>1 DEF JobOK
  <2> QED BY <1>1, <2>1, <2>2, AwaitTypes DEF Stages
<1>6. ASSUME Bound(w) PROVE JobTypes'
  <2>1. /\ job[w].pc = "bound" /\ Save(w, "save", job[w].prov, Cred("oauth", job[w].cred.ref, clock))
    BY <1>6 DEF Bound
  <2>2. job[w].prov \in Provider /\ job[w].cred \in OAuthCred /\ clock \in Nat
    BY <2>1 DEF JobOK, CpaTypes
  <2>3. Cred("oauth", job[w].cred.ref, clock) \in CredType
    BY <2>2, Creds
  <2> QED BY <2>1, <2>2, <2>3, SaveTypes
<1> QED BY <1>2, <1>3, <1>4, <1>5, <1>6

LEMMA PutTypes == ASSUME Types, NEW w \in Worker, PutCredential(w) PROVE JobTypes'
<1> USE JobOf DEF Types
<1>1. {"probe"} \subseteq Step \ {"idle", "queued"} /\ {"probe", "undoProbe"} \subseteq Stages
  BY DEF Step, Stages
<1>2. job[w].op = "put" /\ job[w].pc # "idle"
  BY <1>1 DEF PutCredential, PutBegin, PutSaved, PutSynced, PutReady, PutThrown, PutUndoSaved, PutUndone,
              MyTurn, Running
<1>3. job[w].prov \in Provider
  BY <1>2 DEF JobOK
<1>4. PutBegin(w) => JobTypes'
  BY <1>3, SaveTypes DEF PutBegin
<1>5. PutSaved(w) => JobTypes'
  BY <1>2, <1>3, SyncTypes DEF PutSaved
<1>6. PutSynced(w) => JobTypes'
  BY <1>1, <1>2, AwaitTypes DEF PutSynced
<1>7. PutReady(w) => JobTypes'
  BY ReleaseTypes DEF PutReady
<1>8. ASSUME PutThrown(w) PROVE JobTypes'
  <2>1. \/ Release(w) \/ Sync(w, "undoSync", mem, {}, {})
        \/ Save(w, "undoSave", job[w].prov, job[w].prev)
    BY <1>8 DEF PutThrown
  <2> QED BY <1>2, <1>3, <2>1, ReleaseTypes, SyncTypes, SaveTypes DEF StoreTypes
<1>9. ASSUME PutUndoSaved(w) PROVE JobTypes'
  <2>1. \E f \in SUBSET Provider : Sync(w, "undoSync", job[w].list, f, {})
    BY <1>3, <1>9 DEF PutUndoSaved
  <2> QED BY <1>2, <2>1, SyncTypes
<1>10. ASSUME PutUndone(w) PROVE JobTypes'
  <2>1. Release(w) \/ Await(w, "probe", "undoProbe")
    BY <1>10 DEF PutUndone
  <2> QED BY <1>1, <1>2, <2>1, ReleaseTypes, AwaitTypes
<1> QED BY <1>4, <1>5, <1>6, <1>7, <1>8, <1>9, <1>10 DEF PutCredential

LEMMA DeleteTypes == ASSUME Types, NEW w \in Worker, DeleteCredential(w) PROVE JobTypes'
<1> USE JobOf DEF Types
<1>1. {"dropped", "thrown"} \subseteq Step \ {"idle", "queued"} /\ "dropFile" \in Stages
  BY DEF Step, Stages
<1>2. job[w].op = "delete" /\ job[w].pc # "idle"
  BY DEF DeleteCredential, DeleteBegin, DropFile, DeleteDropped, DeleteSaved, DeleteSynced, DeleteThrown,
         DeleteUndone, MyTurn, Running
<1>3. job[w].prov \in Provider
  BY <1>2 DEF JobOK
<1>4. ASSUME DeleteStored(w) PROVE JobTypes'
  <2>1. Release(w) \/ Save(w, "save", job[w].prov, None)
    BY <1>4 DEF DeleteStored
  <2> QED BY <1>3, <2>1, ReleaseTypes, SaveTypes
<1>5. ASSUME DeleteBegin(w) PROVE JobTypes'
  <2>1. CASE DeleteStored(w)
    BY <1>4, <2>1
  <2>2. CASE job' = [job EXCEPT ![w].pc = "call", ![w].stage = "dropFile", ![w].prev = mem[job[w].prov]]
    <3> DEFINE j == [job[w] EXCEPT !.pc = "call", !.stage = "dropFile", !.prev = mem[job[w].prov]]
    <3>1. job' = [job EXCEPT ![w] = j]
      BY <2>2 DEF JobTypes
    <3>2. mem[job[w].prov] \in CredType \cup {None}
      BY <1>3, Payloads DEF StoreTypes
    <3>0. job[w] \in JobType
      OBVIOUS
    <3>3. j \in JobType /\ j.pc = "call" /\ j.stage = "dropFile" /\ j.prov = job[w].prov
      BY <3>0, <3>2 DEF JobType, Step, Stages
    <3> HIDE DEF j
    <3>4. JobOK(j)
      BY <1>3, <3>3 DEF JobOK
    <3> QED BY <3>1, <3>3, <3>4 DEF JobTypes
  <2> QED BY <1>5, <2>1, <2>2 DEF DeleteBegin
<1>6. ASSUME DropFile(w) PROVE JobTypes'
  <2>1. \E pc \in {"dropped", "thrown"} : Await(w, pc, "dropFile")
    BY <1>6 DEF DropFile
  <2> QED BY <1>1, <1>2, <2>1, AwaitTypes
<1>7. DeleteDropped(w) => JobTypes'
  BY <1>4 DEF DeleteDropped
<1>8. DeleteSaved(w) => JobTypes'
  BY <1>2, <1>3, SyncTypes DEF DeleteSaved
<1>9. DeleteSynced(w) \/ DeleteUndone(w) => JobTypes'
  BY ReleaseTypes DEF DeleteSynced, DeleteUndone
<1>10. ASSUME DeleteThrown(w) PROVE JobTypes'
  <2>1. Release(w) \/ Save(w, "undoSave", job[w].prov, job[w].prev)
    BY <1>10 DEF DeleteThrown
  <2> QED BY <1>3, <2>1, ReleaseTypes, SaveTypes
<1> QED BY <1>5, <1>6, <1>7, <1>8, <1>9, <1>10 DEF DeleteCredential

LEMMA ImportTypes == ASSUME Types, NEW w \in Worker, ImportCredential(w) PROVE JobTypes'
<1> USE JobOf DEF Types
<1>1. /\ {"call", "imported", "thrown", "probe"} \subseteq Step \ {"idle", "queued"}
      /\ {"import", "probe", "undoFile", "undoFileOnly"} \subseteq Stages
  BY DEF Step, Stages
<1>2. job[w].op = "import" /\ job[w].pc # "idle"
  BY DEF ImportCredential, ImportBegin, ImportFile, ImportImported, ImportSaved, ImportSynced, ImportReady,
         ImportThrown, ImportUndoSaved, ImportUndone, MyTurn, Running
<1>3. job[w].prov \in Provider
  BY <1>2 DEF JobOK
<1>4. ASSUME ImportBegin(w) PROVE JobTypes'
  <2>1. Release(w) \/ Await(w, "call", "import")
    BY <1>4 DEF ImportBegin
  <2> QED BY <1>1, <1>2, <2>1, ReleaseTypes, AwaitTypes
<1>5. ASSUME ImportFile(w) PROVE JobTypes'
  <2>1. \E pc \in {"imported", "thrown"} : Await(w, pc, "import")
    BY <1>5 DEF ImportFile
  <2> QED BY <1>1, <1>2, <2>1, AwaitTypes
<1>6. ASSUME ImportImported(w) PROVE JobTypes'
  <2>1. VertexFile[job[w].prov] \in File /\ clock \in Nat
    BY <1>3, ControlAssumption DEF CpaTypes
  <2>2. Cred("credential-import", VertexFile[job[w].prov], clock) \in CredType
    BY <2>1, Creds
  <2> QED BY <1>3, <1>6, <2>2, SaveTypes DEF ImportImported
<1>7. ImportSaved(w) => JobTypes'
  BY <1>2, SyncTypes DEF ImportSaved
<1>8. ImportSynced(w) => JobTypes'
  BY <1>1, <1>2, AwaitTypes DEF ImportSynced
<1>9. ImportReady(w) \/ ImportUndone(w) => JobTypes'
  BY ReleaseTypes DEF ImportReady, ImportUndone
<1>10. ASSUME ImportThrown(w) PROVE JobTypes'
  <2>1. \/ Release(w) \/ Save(w, "undoSave", job[w].prov, None)
        \/ Await(w, "call", "undoFile") \/ Await(w, "call", "undoFileOnly")
    BY <1>10 DEF ImportThrown
  <2> QED BY <1>1, <1>2, <1>3, <2>1, ReleaseTypes, SaveTypes, AwaitTypes
<1>11. ImportUndoSaved(w) => JobTypes'
  BY <1>1, <1>2, AwaitTypes DEF ImportUndoSaved
<1> QED BY <1>4, <1>5, <1>6, <1>7, <1>8, <1>9, <1>10, <1>11 DEF ImportCredential

LEMMA ReconcileTypes == ASSUME Types, NEW w \in Worker, Reconcile(w) \/ CheckProviders(w) PROVE JobTypes'
<1> USE JobOf DEF Types
<1>1. "thrown" \in Step \ {"idle", "queued"} /\ {"sync", "repair", "bind"} \subseteq Stages
  BY DEF Step, Stages
<1>2. job[w].pc # "idle"
  BY DEF Reconcile, ReconcileBegin, RepairList, ReconcileSaved, ReconcileHealth, ReconcileThrown,
         CheckProviders, CheckBegin, CheckHealth, CheckThrown, MyTurn, Running
<1>3. Sync(w, "sync", mem, {}, {}) \/ Release(w) => JobTypes'
  BY <1>2, SyncTypes, ReleaseTypes DEF StoreTypes
<1>4. ASSUME ReconcileBegin(w) PROVE JobTypes'
  <2> DEFINE p == CHOOSE q \in OAuthStored : TRUE
  <2>1. CASE Cardinality(OAuthStored) = 1
    <3>2. OAuthStored # {}
      BY <2>1, FS_EmptySet
    <3>3. p \in Provider /\ mem[p] # None /\ mem[p].method = "oauth"
      BY <3>2 DEF OAuthStored
    <3>4. mem[p] \in OAuthCred /\ mem[p] \in CredType
      BY <3>3, Creds, Payloads DEF StoreTypes
    <3>5. job' = [job EXCEPT ![w].pc = "call", ![w].stage = "repair", ![w].prov = p, ![w].cred = mem[p]]
      BY <1>4, <2>1 DEF ReconcileBegin
    <3> HIDE DEF p
    <3> DEFINE j == [job[w] EXCEPT !.pc = "call", !.stage = "repair", !.prov = p, !.cred = mem[p]]
    <3>6. job' = [job EXCEPT ![w] = j]
      BY <3>5 DEF JobTypes
    <3>7. job[w] \in JobType
      OBVIOUS
    <3>8. j \in JobType /\ j.pc = "call" /\ j.prov = p /\ j.cred = mem[p]
      BY <1>1, <3>3, <3>4, <3>7 DEF JobType, Step
    <3> HIDE DEF j
    <3>9. JobOK(j)
      BY <3>3, <3>4, <3>8 DEF JobOK
    <3> QED BY <3>6, <3>8, <3>9 DEF JobTypes
  <2>2. CASE Cardinality(OAuthStored) # 1
    BY <1>3, <1>4, <2>2 DEF ReconcileBegin
  <2> QED BY <2>1, <2>2
<1>5. ASSUME RepairList(w) PROVE JobTypes'
  <2> DEFINE found == RotatedInto(job[w].prov, job[w].cred)
             f == CHOOSE g \in found : TRUE
  <2>0. job[w].pc = "call" /\ job[w].stage = "repair" /\ job[w].prov \in Provider /\ job[w].cred \in OAuthCred
    BY <1>5 DEF RepairList, Running, JobOK
  <2>1. \/ Await(w, "thrown", "repair") \/ Sync(w, "sync", mem, {}, {})
        \/ Cardinality(found) = 1 /\ job' = [job EXCEPT ![w].stage = "bind", ![w].cred.ref = f]
    BY <1>5 DEF RepairList
  <2>2. ASSUME Cardinality(found) = 1, job' = [job EXCEPT ![w].stage = "bind", ![w].cred.ref = f] PROVE JobTypes'
    <3>0. Cardinality(found) = 1
      BY <2>2
    <3>1. found # {}
      BY ONLY <3>0, NoneOfNone
    <3>2. f \in File
      BY <3>1 DEF RotatedInto
    <3> HIDE DEF f
    <3> DEFINE c == [job[w].cred EXCEPT !.ref = f]
               j == [job[w] EXCEPT !.stage = "bind", !.cred = c]
    <3>3. c \in OAuthCred /\ c \in CredType
      BY <2>0, <3>2, Creds
    <3>4. job' = [job EXCEPT ![w] = j]
      BY <2>2 DEF JobTypes
    <3>5. job[w] \in JobType
      OBVIOUS
    <3> HIDE DEF c
    <3>6. j \in JobType /\ j.pc = "call" /\ j.prov = job[w].prov /\ j.cred = c
      BY <1>1, <2>0, <3>3, <3>5 DEF JobType
    <3> HIDE DEF j
    <3>7. JobOK(j)
      BY <2>0, <3>3, <3>6 DEF JobOK
    <3> QED BY <3>4, <3>6, <3>7 DEF JobTypes
  <2>3. Await(w, "thrown", "repair") => JobTypes'
    BY <1>1, <1>2, <2>0, AwaitTypes
  <2> QED BY <1>3, <2>1, <2>2, <2>3
<1>6. ReconcileSaved(w) => JobTypes'
  BY <1>2, SyncTypes DEF ReconcileSaved
<1>7. ReconcileHealth(w) \/ ReconcileThrown(w) \/ CheckHealth(w) \/ CheckThrown(w) => JobTypes'
  BY <1>3 DEF ReconcileHealth, ReconcileThrown, CheckHealth, CheckThrown
<1>8. CheckBegin(w) => JobTypes'
  BY <1>3 DEF CheckBegin
<1> QED BY <1>4, <1>5, <1>6, <1>7, <1>8 DEF Reconcile, CheckProviders

LEMMA OAuthTypes == ASSUME Types, NEW w \in Worker, OAuthOperation(w) PROVE JobTypes'
<1> USE JobOf DEF Types
<1>1. /\ {"call", "posted", "thrown", "probe"} \subseteq Step \ {"idle", "queued"}
      /\ {"submitOAuthCallback", "oauthStatus", "discover", "start", "bind", "probe"} \subseteq Stages
  BY DEF Step, Stages
<1>2. job[w].op \in OAuthOps /\ job[w].pc # "idle"
  BY DEF OAuthOperation, StartOAuthBegin, StartOAuthReply, SessionBegin, PostCallback, CallbackAccepted,
         StatusReply, Discover, StatusSaved, StatusSynced, StatusReady, SessionThrown, MyTurn, Running, OAuthOps
<1>3. job[w].prov \in Provider /\ job[w] \in JobType
  BY <1>2 DEF JobOK, OAuthOps
<1>4. ASSUME StartOAuthBegin(w) PROVE JobTypes'
  <2>1. Release(w) \/ \E s \in Session : job' = [job EXCEPT ![w].pc = "call", ![w].stage = "start", ![w].sid = s]
    BY <1>4 DEF StartOAuthBegin
  <2>2. ASSUME NEW s \in Session, job' = [job EXCEPT ![w].pc = "call", ![w].stage = "start", ![w].sid = s]
        PROVE  JobTypes'
    <3> DEFINE j == [job[w] EXCEPT !.pc = "call", !.stage = "start", !.sid = s]
    <3>1. job' = [job EXCEPT ![w] = j]
      BY <2>2 DEF JobTypes
    <3>2. j \in JobType /\ j.pc = "call" /\ j.stage = "start" /\ j.prov = job[w].prov
      BY <1>1, <1>3 DEF JobType
    <3> HIDE DEF j
    <3>3. JobOK(j)
      BY <1>3, <3>2 DEF JobOK
    <3> QED BY <3>1, <3>2, <3>3 DEF JobTypes
  <2> QED BY <2>1, <2>2, ReleaseTypes
<1>5. ASSUME SessionBegin(w) PROVE JobTypes'
  <2>1. Release(w) \/ \E st \in {"submitOAuthCallback", "oauthStatus"} : Await(w, "call", st)
    BY <1>5 DEF SessionBegin
  <2> QED BY <1>1, <1>2, <2>1, ReleaseTypes, AwaitTypes
<1>6. ASSUME PostCallback(w) PROVE JobTypes'
  <2>1. \E pc \in {"posted", "thrown"} : Await(w, pc, "submitOAuthCallback")
    BY <1>6 DEF PostCallback
  <2> QED BY <1>1, <1>2, <2>1, AwaitTypes
<1>7. ASSUME StatusReply(w) PROVE JobTypes'
  <2>1. Release(w) \/ Await(w, "call", "discover") \/ Await(w, "thrown", "oauthStatus")
    BY <1>7 DEF StatusReply
  <2> QED BY <1>1, <1>2, <2>1, ReleaseTypes, AwaitTypes
<1>8. ASSUME Discover(w) PROVE JobTypes'
  <2> DEFINE found == Candidates(job[w].sid)
             c == Cred("oauth", CHOOSE f \in found : TRUE, clock)
  <2>1. \/ Await(w, "thrown", "discover")
        \/ Cardinality(found) = 1 /\ job' = [job EXCEPT ![w].stage = "bind", ![w].cred = c]
    BY <1>8 DEF Discover
  <2>2. ASSUME Cardinality(found) = 1, job' = [job EXCEPT ![w].stage = "bind", ![w].cred = c] PROVE JobTypes'
    <3>1. found # {}
      <4> HIDE DEF found
      <4> QED BY <2>2, FS_EmptySet
    <3>2. (CHOOSE f \in found : TRUE) \in File /\ clock \in Nat
      BY <3>1 DEF Candidates, CpaTypes
    <3>3. c \in OAuthCred /\ c \in CredType
      BY <3>2, Creds
    <3> HIDE DEF c
    <3> DEFINE j == [job[w] EXCEPT !.stage = "bind", !.cred = c]
    <3>4. job' = [job EXCEPT ![w] = j]
      BY <2>2 DEF JobTypes
    <3>5. j \in JobType /\ j.pc = job[w].pc /\ j.prov = job[w].prov /\ j.cred = c
      BY <1>1, <1>3, <3>3 DEF JobType
    <3> HIDE DEF j
    <3>6. JobOK(j)
      BY <1>3, <3>3, <3>5 DEF JobOK
    <3> QED BY <3>4, <3>5, <3>6 DEF JobTypes
  <2> QED BY <1>1, <1>2, <2>1, <2>2, AwaitTypes
<1>9. StatusSaved(w) => JobTypes'
  BY <1>2, SyncTypes DEF StatusSaved
<1>10. StatusSynced(w) => JobTypes'
  BY <1>1, <1>2, AwaitTypes DEF StatusSynced
<1>11. StartOAuthReply(w) \/ CallbackAccepted(w) \/ StatusReady(w) \/ SessionThrown(w) => JobTypes'
  BY ReleaseTypes DEF StartOAuthReply, CallbackAccepted, StatusReady, SessionThrown
<1> QED BY <1>4, <1>5, <1>6, <1>7, <1>8, <1>9, <1>10, <1>11 DEF OAuthOperation

(* A request is about a Provider.                                            *)
RequestOf(w, op, p, c, s) ==
  /\ Call(w, op, p, c, s) /\ op \in setup.ops
  /\ op \in {"submitOAuthCallback", "oauthStatus"} => s \in Session /\ sess[s].prov \in Provider

LEMMA Requests ==
  ASSUME Types, NEW w \in Worker, Request(w)
  PROVE  \E op \in AllOps, p \in Provider, c \in CredType \cup {None}, s \in Session \cup {None} :
           RequestOf(w, op, p, c, s)
<1>1. setup.ops \subseteq AllOps
  BY ControlAssumption DEF Types, OtherTypes
<1>2. ASSUME NEW op \in setup.ops \cap {"delete", "import", "semanticReadiness", "startOAuth"}, NEW p \in Provider,
             Call(w, op, p, None, None)
      PROVE  RequestOf(w, op, p, None, None)
  BY <1>2 DEF RequestOf
<1>3. ASSUME "put" \in setup.ops, NEW p \in Provider, NEW k \in Key, Call(w, "put", p, Cred("api-key", k, 0), None)
      PROVE  RequestOf(w, "put", p, Cred("api-key", k, 0), None) /\ Cred("api-key", k, 0) \in CredType
  BY <1>3, Creds DEF RequestOf
<1>4. ASSUME "reconcileProvider" \in setup.ops, NEW p \in Provider, Call(w, "reconcileProvider", p, mem[p], None)
      PROVE  RequestOf(w, "reconcileProvider", p, mem[p], None) /\ mem[p] \in CredType \cup {None}
  BY <1>4, Payloads DEF RequestOf, Types, StoreTypes
<1>5. ASSUME NEW op \in setup.ops \cap {"submitOAuthCallback", "oauthStatus"}, NEW s \in Session,
             sess[s].phase \notin {"none", "gone"}, Call(w, op, sess[s].prov, None, s)
      PROVE  RequestOf(w, op, sess[s].prov, None, s) /\ sess[s].prov \in Provider
  BY <1>5 DEF RequestOf, Types, SessionTypes
<1>6. \/ \E op \in setup.ops \cap {"delete", "import", "semanticReadiness", "startOAuth"}, p \in Provider :
            Call(w, op, p, None, None)
      \/ "put" \in setup.ops /\ \E p \in Provider, k \in Key : Call(w, "put", p, Cred("api-key", k, 0), None)
      \/ "reconcileProvider" \in setup.ops /\ \E p \in Provider : Call(w, "reconcileProvider", p, mem[p], None)
      \/ \E op \in setup.ops \cap {"submitOAuthCallback", "oauthStatus"}, s \in Session :
            sess[s].phase \notin {"none", "gone"} /\ Call(w, op, sess[s].prov, None, s)
  BY DEF Request
<1>7. CASE \E op \in setup.ops \cap {"delete", "import", "semanticReadiness", "startOAuth"}, p \in Provider :
            Call(w, op, p, None, None)
  BY <1>1, <1>2, <1>7
<1>8. CASE "put" \in setup.ops /\ \E p \in Provider, k \in Key : Call(w, "put", p, Cred("api-key", k, 0), None)
  BY <1>1, <1>3, <1>8
<1>9. CASE "reconcileProvider" \in setup.ops /\ \E p \in Provider : Call(w, "reconcileProvider", p, mem[p], None)
  BY <1>1, <1>4, <1>9
<1>10. CASE \E op \in setup.ops \cap {"submitOAuthCallback", "oauthStatus"}, s \in Session :
            sess[s].phase \notin {"none", "gone"} /\ Call(w, op, sess[s].prov, None, s)
  BY <1>1, <1>5, <1>10
<1> QED BY <1>6, <1>7, <1>8, <1>9, <1>10

LEMMA JobTypesNext == ASSUME Types, [Next]_vars PROVE JobTypes'
<1>1. ASSUME NEW w \in Worker, Request(w) PROVE JobTypes'
  <2>1. PICK op \in AllOps, p \in Provider, c \in CredType \cup {None}, s \in Session \cup {None} :
          RequestOf(w, op, p, c, s)
    BY <1>1, Requests
  <2> QED BY <2>1, CallTypes DEF RequestOf, Types
<1>2. ASSUME NEW w \in Worker, Work(w) PROVE JobTypes'
  BY <1>2, MachineryTypes, PutTypes, DeleteTypes, ImportTypes, ReconcileTypes, OAuthTypes DEF Work
<1>3. ScheduledReconcile => JobTypes'
  BY CallTypes, ControlAssumption DEF ScheduledReconcile, Types
<1>4. ASSUME Crash PROVE JobTypes'
  <2> DEFINE j == [Idle EXCEPT !.pc = "queued", !.op = "reconcile"]
  <2>1. j \in JobType /\ j.pc = "queued" /\ j.op = "reconcile"
    BY Payloads DEF JobType, Idle, Step, Stages
  <2>2. job' = [w \in Worker |-> IF w = Timer THEN j ELSE Idle]
    BY <1>4 DEF Crash
  <2> HIDE DEF j
  <2>3. JobOK(j)
    BY <2>1 DEF JobOK
  <2> QED BY <2>1, <2>2, <2>3, IdleJob DEF JobTypes
<1>5. ((\E s \in Session : Login(s) \/ Expire(s)) \/ (\E p \in Provider : Rotate(p)) \/ Refresh) => UNCHANGED job
  BY DEF Login, Expire, Rotate, Refresh
<1>6. UNCHANGED job => JobTypes'
  BY DEF Types, JobTypes
<1> QED BY <1>1, <1>2, <1>3, <1>4, <1>5, <1>6 DEF Next, vars

(* The step leaves the call of a worker what it was.                         *)
SameCall(w) == Others(w) /\ job'[w].op = job[w].op /\ job'[w].sid = job[w].sid

Ends(w) == Others(w) /\ job'[w] = Idle

(* Whatever the machinery puts into a job, it is the same call's.            *)
LEMMA Machine ==
  ASSUME JobTypes, NEW w \in Worker
  PROVE  /\ \A pc, stage : Await(w, pc, stage) => SameCall(w)
         /\ \A stage, l, f, r : Sync(w, stage, l, f, r) => SameCall(w)
         /\ \A stage, p, c : Save(w, stage, p, c) => SameCall(w)
         /\ Release(w) => Ends(w)
<1>0. job \in [Worker -> JobType] /\ job[w] \in JobType
  BY DEF JobTypes
<1>1. ASSUME NEW j, job' = [job EXCEPT ![w] = j], j.op = job[w].op, j.sid = job[w].sid PROVE SameCall(w)
  BY <1>0, <1>1 DEF SameCall, Others
<1>2. ASSUME NEW pc, NEW stage, Await(w, pc, stage) PROVE SameCall(w)
  <2> DEFINE j == [job[w] EXCEPT !.pc = pc, !.stage = stage]
  <2>1. job' = [job EXCEPT ![w] = j]
    BY <1>0, <1>2 DEF Await
  <2>2. j.op = job[w].op /\ j.sid = job[w].sid
    BY <1>0 DEF JobType
  <2> HIDE DEF j
  <2> QED BY <1>1, <2>1, <2>2
<1>3. ASSUME NEW stage, NEW l, NEW f, NEW r, Sync(w, stage, l, f, r) PROVE SameCall(w)
  <2> DEFINE j == [job[w] EXCEPT !.pc = "read", !.stage = stage, !.list = l, !.force = f, !.remove = r]
  <2>1. job' = [job EXCEPT ![w] = j]
    BY <1>0, <1>3 DEF Sync
  <2>2. j.op = job[w].op /\ j.sid = job[w].sid
    BY <1>0 DEF JobType
  <2> HIDE DEF j
  <2> QED BY <1>1, <2>1, <2>2
<1>4. ASSUME NEW stage, NEW p, NEW c, Save(w, stage, p, c) PROVE SameCall(w)
  <2> DEFINE l == [mem EXCEPT ![p] = c]
             x == IF stage = "save" THEN mem[p] ELSE job[w].prev
             y == IF stage = "save" /\ c # None THEN c ELSE job[w].cred
             j == [job[w] EXCEPT !.pc = "write", !.stage = stage, !.list = l, !.prev = x, !.cred = y]
  <2>1. job' = [job EXCEPT ![w] = j]
    BY <1>0, <1>4 DEF Save
  <2> HIDE DEF l, x, y
  <2>2. j.op = job[w].op /\ j.sid = job[w].sid
    BY <1>0 DEF JobType
  <2> HIDE DEF j
  <2> QED BY <1>1, <2>1, <2>2
<1>5. Release(w) => Ends(w)
  BY ReleaseJob DEF Ends
<1> QED BY <1>2, <1>3, <1>4, <1>5

(* The steps that set a job's fields without the machinery.                  *)
SetsPrev(w, a, b, c) == job' = [job EXCEPT ![w].pc = a, ![w].stage = b, ![w].prev = c]
SetsTarget(w, a, b, c, d) == job' = [job EXCEPT ![w].pc = a, ![w].stage = b, ![w].prov = c, ![w].cred = d]
SetsRef(w, a, b) == job' = [job EXCEPT ![w].stage = a, ![w].cred.ref = b]
SetsCred(w, a, b) == job' = [job EXCEPT ![w].stage = a, ![w].cred = b]

LEMMA Direct ==
  ASSUME JobTypes, NEW w \in Worker
  PROVE  /\ \A a, b, c : SetsPrev(w, a, b, c) => SameCall(w)
         /\ \A a, b, c, d : SetsTarget(w, a, b, c, d) => SameCall(w)
         /\ \A a, b : SetsRef(w, a, b) \/ SetsCred(w, a, b) => SameCall(w)
<1>0. job \in [Worker -> JobType] /\ job[w] \in JobType
  BY DEF JobTypes
<1>1. ASSUME NEW j, job' = [job EXCEPT ![w] = j], j.op = job[w].op, j.sid = job[w].sid PROVE SameCall(w)
  BY <1>0, <1>1 DEF SameCall, Others
<1>2. ASSUME NEW a, NEW b, NEW c, SetsPrev(w, a, b, c) PROVE SameCall(w)
  <2> DEFINE j == [job[w] EXCEPT !.pc = a, !.stage = b, !.prev = c]
  <2>1. job' = [job EXCEPT ![w] = j]
    BY <1>0, <1>2 DEF SetsPrev
  <2>2. j.op = job[w].op /\ j.sid = job[w].sid
    BY <1>0 DEF JobType
  <2> HIDE DEF j
  <2> QED BY <1>1, <2>1, <2>2
<1>3. ASSUME NEW a, NEW b, NEW c, NEW d, SetsTarget(w, a, b, c, d) PROVE SameCall(w)
  <2> DEFINE j == [job[w] EXCEPT !.pc = a, !.stage = b, !.prov = c, !.cred = d]
  <2>1. job' = [job EXCEPT ![w] = j]
    BY <1>0, <1>3 DEF SetsTarget
  <2>2. j.op = job[w].op /\ j.sid = job[w].sid
    BY <1>0 DEF JobType
  <2> HIDE DEF j
  <2> QED BY <1>1, <2>1, <2>2
<1>4. ASSUME NEW a, NEW b, SetsRef(w, a, b) PROVE SameCall(w)
  <2> DEFINE c == [job[w].cred EXCEPT !.ref = b]
             j == [job[w] EXCEPT !.stage = a, !.cred = c]
  <2>1. job' = [job EXCEPT ![w] = j]
    BY <1>4, JobOf DEF JobTypes, SetsRef
  <2> HIDE DEF c
  <2>2. j.op = job[w].op /\ j.sid = job[w].sid
    BY <1>0 DEF JobType
  <2> HIDE DEF j
  <2> QED BY <1>1, <2>1, <2>2
<1>5. ASSUME NEW a, NEW b, SetsCred(w, a, b) PROVE SameCall(w)
  <2> DEFINE j == [job[w] EXCEPT !.stage = a, !.cred = b]
  <2>1. job' = [job EXCEPT ![w] = j]
    BY <1>0, <1>5 DEF SetsCred
  <2>2. j.op = job[w].op /\ j.sid = job[w].sid
    BY <1>0 DEF JobType
  <2> HIDE DEF j
  <2> QED BY <1>1, <2>1, <2>2
<1> QED BY <1>2, <1>3, <1>4, <1>5

(* An operation goes on or ends, and only startOAuth gives itself a session. *)
GoesOn(w) ==
  /\ job[w].pc # "idle" /\ (job[w].op = "startOAuth" => job[w].pc # "queued")
  /\ SameCall(w) \/ Ends(w)

LEMMA WorkGoesOn ==
  ASSUME Types, NEW w \in Worker, Work(w), ~StartOAuthBegin(w)
  PROVE  GoesOn(w)
<1> USE Machine DEF Types, GoesOn
<1>1. Replace(w) \/ CpaReconcile(w) \/ Probe(w) \/ Bind(w) \/ Bound(w) => GoesOn(w)
  BY DEF Replace, ReplaceWrite, ReplaceRename, CpaReconcile, ReconcileRead, ReconcileUnload, ReconcileAbsent,
         ReconcilePut, Probe, Bind, Bound
<1>2. PutCredential(w) => GoesOn(w)
  BY DEF PutCredential, PutBegin, PutSaved, PutSynced, PutReady, PutThrown, PutUndoSaved, PutUndone, MyTurn, Running
<1>3. DeleteCredential(w) => GoesOn(w)
  <2>1. DeleteBegin(w) => GoesOn(w)
    <3>1. DeleteBegin(w) => DeleteStored(w) \/ SetsPrev(w, "call", "dropFile", mem[job[w].prov])
      BY DEF DeleteBegin, SetsPrev
    <3>2. DeleteBegin(w) => job[w].op = "delete" /\ job[w].pc = "queued"
      BY DEF DeleteBegin, MyTurn
    <3> QED BY <3>1, <3>2, Direct DEF DeleteStored
  <2> QED BY <2>1 DEF DeleteCredential, DropFile, DeleteDropped, DeleteStored, DeleteSaved, DeleteSynced, DeleteThrown,
         DeleteUndone, Running
<1>4. ImportCredential(w) => GoesOn(w)
  BY DEF ImportCredential, ImportBegin, ImportFile, ImportImported, ImportSaved, ImportSynced, ImportReady,
         ImportThrown, ImportUndoSaved, ImportUndone, MyTurn, Running
<1>5. Reconcile(w) => GoesOn(w)
  <2>1. ReconcileBegin(w) => GoesOn(w)
    <3>1. ReconcileBegin(w) => (\/ Sync(w, "sync", mem, {}, {})
                                \/ \E p : SetsTarget(w, "call", "repair", p, mem[p]))
      BY DEF ReconcileBegin, SetsTarget
    <3>2. ReconcileBegin(w) => job[w].op = "reconcile" /\ job[w].pc = "queued"
      BY DEF ReconcileBegin, MyTurn
    <3> QED BY <3>1, <3>2, Direct
  <2>2. RepairList(w) => GoesOn(w)
    <3>1. RepairList(w) => (\/ Await(w, "thrown", "repair") \/ Sync(w, "sync", mem, {}, {})
                            \/ \E f : SetsRef(w, "bind", f))
      BY DEF RepairList, SetsRef
    <3>2. RepairList(w) => job[w].op = "reconcile" /\ job[w].pc = "call"
      BY DEF RepairList, Running
    <3> QED BY <3>1, <3>2, Direct
  <2> QED BY <2>1, <2>2 DEF Reconcile, ReconcileSaved, ReconcileHealth, ReconcileThrown, Running
<1>6. CheckProviders(w) => GoesOn(w)
  BY DEF CheckProviders, CheckBegin, CheckHealth, CheckThrown, MyTurn
<1>7. OAuthOperation(w) => GoesOn(w)
  <2>1. Discover(w) => GoesOn(w)
    <3>1. Discover(w) => Await(w, "thrown", "discover") \/ \E c : SetsCred(w, "bind", c)
      BY DEF Discover, SetsCred
    <3>2. Discover(w) => job[w].op = "oauthStatus" /\ job[w].pc = "call"
      BY DEF Discover, Running
    <3> QED BY <3>1, <3>2, Direct
  <2> QED BY <2>1 DEF OAuthOperation, StartOAuthReply, SessionBegin, PostCallback, CallbackAccepted,
         StatusReply, StatusSaved, StatusSynced, StatusReady, SessionThrown, MyTurn, Running
<1> QED BY <1>1, <1>2, <1>3, <1>4, <1>5, <1>6, <1>7 DEF Work

(* A session keeps its Provider.                                             *)
SessionsKept ==
  /\ sess' \in [Session -> SessionType]
  /\ \A s \in Session : sess[s].prov \in Provider => sess'[s].prov \in Provider
  /\ \A s \in Session : sess'[s].phase \notin {"none", "gone"} => sess'[s].prov \in Provider

Phases == {"none", "starting", "awaiting_callback", "callback_accepted", "ready", "failed", "gone"}

LEMMA OneSession ==
  ASSUME SessionTypes, NEW s \in Session, NEW r \in SessionType, sess' = [sess EXCEPT ![s] = r],
         sess[s].prov \in Provider => r.prov \in Provider,
         r.phase \notin {"none", "gone"} => r.prov \in Provider
  PROVE  SessionsKept
BY DEF SessionTypes, SessionsKept

LEMMA PhaseSet ==
  ASSUME SessionTypes, NEW s \in Session, NEW ph \in Phases, sess' = [sess EXCEPT ![s].phase = ph],
         sess[s].prov \in Provider \/ ph = "gone"
  PROVE  SessionsKept
<1> DEFINE r == [sess[s] EXCEPT !.phase = ph]
<1>1. sess[s] \in SessionType /\ sess' = [sess EXCEPT ![s] = r]
  BY DEF SessionTypes
<1>2. r \in SessionType /\ r.phase = ph /\ r.prov = sess[s].prov
  BY <1>1 DEF SessionType, Phases
<1> HIDE DEF r
<1> QED BY <1>1, <1>2, OneSession

LEMMA SessionJobs ==
  ASSUME Types, NEW w \in Worker, GoesOn(w), SessionsKept
  PROVE  SessionTypes'
<1> USE DEF Types
<1>1. ASSUME NEW v \in Worker, HasSession(job'[v]) PROVE HasSession(job[v]) /\ job'[v].sid = job[v].sid
  BY <1>1 DEF GoesOn, SameCall, Ends, Others, HasSession, Idle
<1>2. ASSUME NEW v \in Worker, HasSession(job'[v]) PROVE job'[v].sid \in Session /\ sess'[job'[v].sid].prov \in Provider
  BY <1>1, <1>2 DEF SessionTypes, SessionsKept
<1>3. \A v \in Worker : HasSession(job[v])' <=> HasSession(job'[v])
  BY DEF HasSession
<1> QED BY <1>2, <1>3 DEF SessionTypes, SessionsKept

LEMMA SessionTypesKept == SessionTypes /\ UNCHANGED sess => SessionsKept
BY DEF SessionTypes, SessionsKept

(* What the OAuth operations do to the sessions.                             *)
LEMMA SessionSteps ==
  ASSUME Types, NEW w \in Worker, OAuthOperation(w), ~StartOAuthBegin(w)
  PROVE  SessionsKept
<1> USE DEF Types
<1> DEFINE s == job[w].sid
<1>1. HasSession(job[w])
  BY DEF OAuthOperation, StartOAuthReply, SessionBegin, PostCallback, CallbackAccepted, StatusReply, Discover,
         StatusSaved, StatusSynced, StatusReady, SessionThrown, MyTurn, Running, HasSession
<1>2. s \in Session /\ sess[s].prov \in Provider /\ sess[s] \in SessionType
  BY <1>1 DEF SessionTypes
<1>3. ASSUME StartOAuthReply(w) PROVE SessionsKept
  <2> DEFINE before == {<<f, files[f].at>> : f \in {g \in File : files[g] # None}}
             r == [sess[s] EXCEPT !.phase = "awaiting_callback", !.before = before]
  <2>1. sess' = Forget(s) \/ sess' = [sess EXCEPT ![s].phase = "awaiting_callback", ![s].before = before]
    BY <1>3 DEF StartOAuthReply
  <2>2. ASSUME sess' = [sess EXCEPT ![s].phase = "awaiting_callback", ![s].before = before] PROVE SessionsKept
    <3>1. before \in SUBSET (File \X Nat)
      BY DEF CpaTypes
    <3>2. sess' = [sess EXCEPT ![s] = r]
      BY <2>2 DEF SessionTypes
    <3> HIDE DEF before
    <3>3. r \in SessionType /\ r.prov = sess[s].prov
      BY <1>2, <3>1 DEF SessionType
    <3> HIDE DEF r, s
    <3> QED BY <1>2, <3>2, <3>3, OneSession
  <2>3. sess' = Forget(s) => SessionsKept
    BY <1>2, PhaseSet DEF Forget, Phases
  <2> QED BY <2>1, <2>2, <2>3
<1>4. SessionBegin(w) => SessionsKept
  BY <1>2, PhaseSet, SessionTypesKept DEF SessionBegin, Forget, Phases, oauth
<1>5. CallbackAccepted(w) => SessionsKept
  BY <1>2, PhaseSet DEF CallbackAccepted, Phases
<1>6. StatusReady(w) \/ SessionThrown(w) => SessionsKept
  BY <1>2, PhaseSet DEF StatusReady, SessionThrown, Phases
<1>7. PostCallback(w) \/ StatusReply(w) \/ Discover(w) \/ StatusSaved(w) \/ StatusSynced(w) => SessionsKept
  BY SessionTypesKept DEF PostCallback, StatusReply, Discover, StatusSaved, StatusSynced, oauth
<1> QED BY <1>3, <1>4, <1>5, <1>6, <1>7 DEF OAuthOperation

(* A session begins with a Provider; the one it replaces is forgotten.       *)
LEMMA SessionStarts ==
  ASSUME Types, NEW w \in Worker, StartOAuthBegin(w)
  PROVE  SessionTypes'
<1> USE DEF Types
<1> DEFINE p == job[w].prov
           a == active[p]
<1>1. p \in Provider /\ job[w] \in JobType /\ job[w].op = "startOAuth"
  BY DEF StartOAuthBegin, MyTurn, JobTypes, JobOK
<1>2. ASSUME Release(w), UNCHANGED sess PROVE SessionTypes'
  <2>1. Ends(w) /\ job[w].pc # "idle"
    BY <1>2, Machine DEF StartOAuthBegin, MyTurn
  <2>2. ASSUME NEW v \in Worker, HasSession(job'[v]) PROVE HasSession(job[v]) /\ job'[v] = job[v]
    BY <2>1, <2>2 DEF Ends, Others, HasSession, Idle
  <2>3. \A v \in Worker : HasSession(job[v])' <=> HasSession(job'[v])
    BY DEF HasSession
  <2> QED BY <1>2, <2>2, <2>3 DEF SessionTypes
<1>3. ASSUME NEW s \in Session,
             sess[s].phase = "none",
             sess' = [q \in Session |-> IF q = s THEN [sess[s] EXCEPT !.phase = "starting", !.prov = p]
                                        ELSE IF q = a THEN Forget(a)[a] ELSE sess[q]],
             job' = [job EXCEPT ![w].pc = "call", ![w].stage = "start", ![w].sid = s]
      PROVE  SessionTypes'
  <2> DEFINE r == [sess[s] EXCEPT !.phase = "starting", !.prov = p]
             g == Forget(a)[a]
             j == [job[w] EXCEPT !.pc = "call", !.stage = "start", !.sid = s]
  <2>1. r \in SessionType /\ r.prov = p
    BY <1>1 DEF SessionTypes, SessionType
  <2>2. a \in Session => g \in SessionType /\ g.phase = "gone" /\ g.prov = sess[a].prov
    BY DEF Forget, SessionTypes, SessionType
  <2>3. sess' = [q \in Session |-> IF q = s THEN r ELSE IF q = a THEN g ELSE sess[q]]
    BY <1>3
  <2> HIDE DEF r, g, a
  <2>4. SessionsKept
    BY <1>1, <2>1, <2>2, <2>3 DEF SessionsKept, SessionTypes
  <2>5. job' = [job EXCEPT ![w] = j]
    BY <1>3 DEF JobTypes
  <2>6. j.sid = s
    BY <1>1 DEF JobType
  <2> HIDE DEF j
  <2>7. Others(w) /\ job'[w].sid = s
    BY <2>5, <2>6 DEF Others, JobTypes
  <2>8. sess'[s].prov = p
    BY <2>1, <2>3
  <2>9. ASSUME NEW v \in Worker, HasSession(job'[v])
        PROVE  job'[v].sid \in Session /\ sess'[job'[v].sid].prov \in Provider
    BY <1>1, <2>4, <2>7, <2>8, <2>9 DEF Others, SessionTypes, SessionsKept
  <2>10. \A v \in Worker : HasSession(job[v])' <=> HasSession(job'[v])
    BY DEF HasSession
  <2> QED BY <2>4, <2>9, <2>10 DEF SessionTypes, SessionsKept
<1> QED BY <1>2, <1>3 DEF StartOAuthBegin, oauth

(* Only the OAuth operations change a session while they work.               *)
LEMMA SessionsElsewhere ==
  ASSUME NEW w \in Worker, Work(w), ~OAuthOperation(w)
  PROVE  UNCHANGED sess
<1>1. Replace(w) \/ CpaReconcile(w) \/ Probe(w) \/ Bind(w) \/ Bound(w) => UNCHANGED sess
  BY DEF Replace, ReplaceWrite, ReplaceRename, CpaReconcile, ReconcileRead, ReconcileUnload, ReconcileAbsent,
         ReconcilePut, Probe, Bind, Bound, oauth
<1>2. PutCredential(w) => UNCHANGED sess
  BY DEF PutCredential, PutBegin, PutSaved, PutSynced, PutReady, PutThrown, PutUndoSaved, PutUndone, oauth
<1>3. DeleteCredential(w) => UNCHANGED sess
  BY DEF DeleteCredential, DeleteBegin, DropFile, DeleteDropped, DeleteSaved, DeleteSynced, DeleteThrown,
         DeleteUndone, oauth
<1>4. ImportCredential(w) => UNCHANGED sess
  BY DEF ImportCredential, ImportBegin, ImportFile, ImportImported, ImportSaved, ImportSynced, ImportReady,
         ImportThrown, ImportUndoSaved, ImportUndone, oauth
<1>5. Reconcile(w) \/ CheckProviders(w) => UNCHANGED sess
  BY DEF Reconcile, ReconcileBegin, RepairList, ReconcileSaved, ReconcileHealth, ReconcileThrown,
         CheckProviders, CheckBegin, CheckHealth, CheckThrown, oauth
<1> QED BY <1>1, <1>2, <1>3, <1>4, <1>5 DEF Work

LEMMA SessionTypesNext == ASSUME Types, [Next]_vars PROVE SessionTypes'
<1> USE DEF Types
<1>0. \A v \in Worker : HasSession(job[v])' <=> HasSession(job'[v])
  BY DEF HasSession
<1>1. ASSUME NEW w \in Worker, Request(w) PROVE SessionTypes'
  <2>1. PICK op \in AllOps, p \in Provider, c \in CredType \cup {None}, s \in Session \cup {None} :
          RequestOf(w, op, p, c, s)
    BY <1>1, Requests
  <2>2. UNCHANGED sess
    BY <1>1 DEF Request, oauth
  <2>3. Others(w) /\ job'[w].pc = "queued" /\ job'[w].op = op
    BY <2>1, CallJob DEF RequestOf
  <2>4. job'[w].sid = s
    BY <2>1 DEF RequestOf, Call, Idle, JobTypes
  <2>5. ASSUME NEW v \in Worker, HasSession(job'[v])
        PROVE  job'[v].sid \in Session /\ sess[job'[v].sid].prov \in Provider
    BY <2>1, <2>3, <2>4, <2>5 DEF RequestOf, Others, HasSession, SessionTypes
  <2> QED BY <1>0, <2>2, <2>5 DEF SessionTypes
<1>2. ASSUME NEW w \in Worker, Work(w) PROVE SessionTypes'
  <2>1. StartOAuthBegin(w) => SessionTypes'
    BY SessionStarts
  <2>2. ASSUME ~StartOAuthBegin(w) PROVE SessionTypes'
    <3>1. OAuthOperation(w) => SessionsKept
      BY <2>2, SessionSteps
    <3>2. ASSUME ~OAuthOperation(w) PROVE UNCHANGED sess
      BY <1>2, <3>2, SessionsElsewhere
    <3>3. GoesOn(w)
      BY <1>2, <2>2, WorkGoesOn
    <3> QED BY <3>1, <3>2, <3>3, SessionTypesKept, SessionJobs
  <2> QED BY <2>1, <2>2
<1>3. ASSUME ScheduledReconcile PROVE SessionTypes'
  <2>1. UNCHANGED sess /\ Call(Timer, "reconcile", None, None, None) /\ Timer \in Worker
    BY <1>3, ControlAssumption DEF ScheduledReconcile, oauth
  <2>2. Others(Timer) /\ job'[Timer].op = "reconcile"
    BY <2>1, CallJob
  <2>3. ASSUME NEW v \in Worker, HasSession(job'[v])
        PROVE  job'[v].sid \in Session /\ sess[job'[v].sid].prov \in Provider
    BY <2>1, <2>2, <2>3 DEF Others, HasSession, SessionTypes
  <2> QED BY <1>0, <2>1, <2>3 DEF SessionTypes
<1>4. ASSUME Crash PROVE SessionTypes'
  <2>1. \A v \in Worker : ~HasSession(job'[v])
    BY <1>4 DEF Crash, HasSession, Idle
  <2>2. \A s \in Session : Forget(s)[s] \in SessionType /\ Forget(s)[s].phase = "gone"
    BY DEF Forget, SessionTypes, SessionType
  <2>3. sess' = [s \in Session |-> IF sess[s].phase = "none" THEN sess[s] ELSE Forget(s)[s]]
    BY <1>4 DEF Crash
  <2>4. /\ sess' \in [Session -> SessionType]
        /\ \A s \in Session : sess'[s].phase \in {"none", "gone"}
    BY <2>2, <2>3 DEF SessionTypes
  <2> QED BY <1>0, <2>1, <2>4 DEF SessionTypes
<1>5. ASSUME NEW s \in Session, Expire(s) PROVE SessionTypes'
  <2> DEFINE r == [sess[s] EXCEPT !.expired = TRUE]
  <2>1. r \in SessionType /\ r.phase = sess[s].phase /\ r.prov = sess[s].prov
    BY DEF SessionTypes, SessionType
  <2>2. sess' = [sess EXCEPT ![s] = r] /\ UNCHANGED job
    BY <1>5 DEF Expire, SessionTypes
  <2> HIDE DEF r
  <2>3. SessionsKept
    BY <2>1, <2>2, OneSession DEF SessionTypes
  <2> QED BY <1>0, <2>2, <2>3 DEF SessionTypes, SessionsKept
<1>6. UNCHANGED <<sess, job>> => SessionTypes'
  BY <1>0 DEF SessionTypes
<1>7. ((\E s \in Session : Login(s)) \/ (\E p \in Provider : Rotate(p)) \/ Refresh) => UNCHANGED <<sess, job>>
  BY DEF Login, Rotate, Refresh, oauth
<1> QED BY <1>1, <1>2, <1>3, <1>4, <1>5, <1>6, <1>7 DEF Next, vars, oauth

(* Whatever an acknowledgement records is a credential, nothing, or the mark *)
(* of an undecided Provider.                                                 *)
Records(c) == acked' = acked \/ \E p : acked' = [acked EXCEPT ![p] = c]

LEMMA RecordsTypes ==
  ASSUME OtherTypes, NEW c \in CredType \cup {None, Unknown}, Records(c)
  PROVE  acked' \in [Provider -> CredType \cup {None, Unknown}]
BY DEF OtherTypes, Records

LEMMA AckedSteps ==
  ASSUME NEW w \in Worker, Work(w)
  PROVE  Records(job[w].cred) \/ Records(job[w].prev) \/ Records(None) \/ Records(Unknown)
<1> USE DEF Records, Acknowledge, Undecided, ghost
<1>1. Replace(w) \/ CpaReconcile(w) \/ Probe(w) \/ Bind(w) => UNCHANGED acked
  BY DEF Replace, ReplaceWrite, ReplaceRename, CpaReconcile, ReconcileRead, ReconcileUnload, ReconcileAbsent,
         ReconcilePut, Probe, Bind
<1>2. Bound(w) => Records(Unknown)
  BY DEF Bound
<1>3. PutCredential(w) => Records(job[w].cred) \/ Records(job[w].prev) \/ Records(Unknown)
  BY DEF PutCredential, PutBegin, PutSaved, PutSynced, PutReady, PutThrown, PutUndoSaved, PutUndone
<1>4. DeleteCredential(w) => Records(job[w].prev) \/ Records(None) \/ Records(Unknown)
  BY DEF DeleteCredential, DeleteBegin, DropFile, DeleteDropped, DeleteStored, DeleteSaved, DeleteSynced,
         DeleteThrown, DeleteUndone
<1>5. ImportCredential(w) => Records(job[w].cred) \/ Records(None) \/ Records(Unknown)
  BY DEF ImportCredential, ImportBegin, ImportFile, ImportImported, ImportSaved, ImportSynced, ImportReady,
         ImportThrown, ImportUndoSaved, ImportUndone
<1>6. Reconcile(w) \/ CheckProviders(w) => Records(job[w].cred)
  BY DEF Reconcile, ReconcileBegin, RepairList, ReconcileSaved, ReconcileHealth, ReconcileThrown,
         CheckProviders, CheckBegin, CheckHealth, CheckThrown
<1>7. OAuthOperation(w) => Records(job[w].cred)
  BY DEF OAuthOperation, StartOAuthBegin, StartOAuthReply, SessionBegin, PostCallback, CallbackAccepted, StatusReply,
         Discover, StatusSaved, StatusSynced, StatusReady, SessionThrown
<1> QED BY <1>1, <1>2, <1>3, <1>4, <1>5, <1>6, <1>7 DEF Work

LEMMA AckedTypesNext ==
  ASSUME Types, [Next]_vars
  PROVE  acked' \in [Provider -> CredType \cup {None, Unknown}]
<1> USE DEF Types
<1>1. ASSUME NEW w \in Worker, Work(w) PROVE acked' \in [Provider -> CredType \cup {None, Unknown}]
  BY <1>1, AckedSteps, JobOf, RecordsTypes
<1>2. ASSUME NEW w \in Worker, Request(w) PROVE UNCHANGED acked
  BY <1>2 DEF Request, ghost
<1>3. ScheduledReconcile \/ Refresh \/ Crash => UNCHANGED acked
  BY DEF ScheduledReconcile, Refresh, Crash, ghost
<1>4. (\E s \in Session : Login(s) \/ Expire(s)) \/ (\E p \in Provider : Rotate(p)) => UNCHANGED acked
  BY DEF Login, Expire, Rotate, ghost
<1> QED BY <1>1, <1>2, <1>3, <1>4 DEF Next, vars, ghost, OtherTypes

(* The active session of a Provider is set by startOAuth and cleared.        *)
LEMMA ActiveTypesNext ==
  ASSUME Types, [Next]_vars
  PROVE  active' \in [Provider -> Session \cup {None}]
<1> USE DEF Types, OtherTypes
<1>1. UNCHANGED active => active' \in [Provider -> Session \cup {None}]
  OBVIOUS
<1>2. ASSUME NEW w \in Worker, OAuthOperation(w) PROVE active' \in [Provider -> Session \cup {None}]
  <2>1. \/ UNCHANGED active
        \/ \E p, s : active' = ClearActive(p, s)
        \/ \E p, s : s \in Session \cup {None} /\ active' = [active EXCEPT ![p] = s]
    BY <1>2 DEF OAuthOperation, StartOAuthBegin, StartOAuthReply, SessionBegin, PostCallback, CallbackAccepted,
                StatusReply, Discover, StatusSaved, StatusSynced, StatusReady, SessionThrown, oauth
  <2> QED BY <2>1 DEF ClearActive
<1>3. ASSUME NEW w \in Worker, Work(w), ~OAuthOperation(w) PROVE UNCHANGED active
  <2>1. Replace(w) \/ CpaReconcile(w) \/ Probe(w) \/ Bind(w) \/ Bound(w) => UNCHANGED active
    BY DEF Replace, ReplaceWrite, ReplaceRename, CpaReconcile, ReconcileRead, ReconcileUnload, ReconcileAbsent,
           ReconcilePut, Probe, Bind, Bound, oauth
  <2>2. PutCredential(w) => UNCHANGED active
    BY DEF PutCredential, PutBegin, PutSaved, PutSynced, PutReady, PutThrown, PutUndoSaved, PutUndone, oauth
  <2>3. DeleteCredential(w) => UNCHANGED active
    BY DEF DeleteCredential, DeleteBegin, DropFile, DeleteDropped, DeleteSaved, DeleteSynced, DeleteThrown,
           DeleteUndone, oauth
  <2>4. ImportCredential(w) => UNCHANGED active
    BY DEF ImportCredential, ImportBegin, ImportFile, ImportImported, ImportSaved, ImportSynced, ImportReady,
           ImportThrown, ImportUndoSaved, ImportUndone, oauth
  <2>5. Reconcile(w) \/ CheckProviders(w) => UNCHANGED active
    BY DEF Reconcile, ReconcileBegin, RepairList, ReconcileSaved, ReconcileHealth, ReconcileThrown,
           CheckProviders, CheckBegin, CheckHealth, CheckThrown, oauth
  <2> QED BY <1>3, <2>1, <2>2, <2>3, <2>4, <2>5 DEF Work
<1>4. ASSUME NEW w \in Worker, Request(w) PROVE UNCHANGED active
  BY <1>4 DEF Request, oauth
<1>5. ScheduledReconcile \/ Refresh => UNCHANGED active
  BY DEF ScheduledReconcile, Refresh, oauth
<1>6. Crash => active' \in [Provider -> Session \cup {None}]
  BY DEF Crash
<1>7. (\E s \in Session : Login(s) \/ Expire(s)) \/ (\E p \in Provider : Rotate(p)) => UNCHANGED active
  BY DEF Login, Expire, Rotate, oauth
<1> QED BY <1>1, <1>2, <1>3, <1>4, <1>5, <1>6, <1>7 DEF Next, vars, oauth

(* The setup of a behaviour never changes.                                   *)
LEMMA SetupKept == ASSUME [Next]_vars PROVE UNCHANGED setup
<1> USE DEF budget, Fault
<1>1. ASSUME NEW w \in Worker, Work(w) PROVE UNCHANGED setup
  <2>1. Replace(w) \/ CpaReconcile(w) \/ Probe(w) \/ Bind(w) \/ Bound(w) => UNCHANGED setup
    BY DEF Replace, ReplaceWrite, ReplaceRename, CpaReconcile, ReconcileRead, ReconcileUnload, ReconcileAbsent,
           ReconcilePut, Probe, Bind, Bound
  <2>2. PutCredential(w) => UNCHANGED setup
    BY DEF PutCredential, PutBegin, PutSaved, PutSynced, PutReady, PutThrown, PutUndoSaved, PutUndone, SetReady
  <2>3. DeleteCredential(w) => UNCHANGED setup
    BY DEF DeleteCredential, DeleteBegin, DropFile, DeleteDropped, DeleteSaved, DeleteSynced, DeleteThrown,
           DeleteUndone
  <2>4. ImportCredential(w) => UNCHANGED setup
    BY DEF ImportCredential, ImportBegin, ImportFile, ImportImported, ImportSaved, ImportSynced, ImportReady,
           ImportThrown, ImportUndoSaved, ImportUndone, SetReady
  <2>5. Reconcile(w) \/ CheckProviders(w) => UNCHANGED setup
    BY DEF Reconcile, ReconcileBegin, RepairList, ReconcileSaved, ReconcileHealth, ReconcileThrown,
           CheckProviders, CheckBegin, CheckHealth, CheckThrown
  <2>6. OAuthOperation(w) => UNCHANGED setup
    BY DEF OAuthOperation, StartOAuthBegin, StartOAuthReply, SessionBegin, PostCallback, CallbackAccepted,
           StatusReply, Discover, StatusSaved, StatusSynced, StatusReady, SessionThrown, SetReady
  <2> QED BY <1>1, <2>1, <2>2, <2>3, <2>4, <2>5, <2>6 DEF Work
<1>2. ASSUME NEW w \in Worker, Request(w) PROVE UNCHANGED setup
  BY <1>2 DEF Request
<1>3. ScheduledReconcile \/ Refresh \/ Crash => UNCHANGED setup
  BY DEF ScheduledReconcile, Refresh, Crash
<1>4. (\E s \in Session : Login(s) \/ Expire(s)) \/ (\E p \in Provider : Rotate(p)) => UNCHANGED setup
  BY DEF Login, Expire, Rotate
<1> QED BY <1>1, <1>2, <1>3, <1>4 DEF Next, vars

LEMMA ReadyTypesNext == ASSUME Types, [Next]_vars PROVE ready' \in BOOLEAN
<1> USE DEF Types, OtherTypes
<1>0. \A p, c : Healthy(p, c) \in BOOLEAN
  BY DEF Healthy
<1>1. ASSUME NEW w \in Worker, Work(w) PROVE ready' \in BOOLEAN
  <2>1. Replace(w) \/ CpaReconcile(w) \/ Probe(w) \/ Bind(w) \/ Bound(w) => UNCHANGED ready
    BY DEF Replace, ReplaceWrite, ReplaceRename, CpaReconcile, ReconcileRead, ReconcileUnload, ReconcileAbsent,
           ReconcilePut, Probe, Bind, Bound
  <2>2. PutCredential(w) => ready' \in BOOLEAN
    BY <1>0 DEF PutCredential, PutBegin, PutSaved, PutSynced, PutReady, PutThrown, PutUndoSaved, PutUndone, SetReady
  <2>3. DeleteCredential(w) => ready' \in BOOLEAN
    BY DEF DeleteCredential, DeleteBegin, DropFile, DeleteDropped, DeleteSaved, DeleteSynced, DeleteThrown,
           DeleteUndone
  <2>4. ImportCredential(w) => ready' \in BOOLEAN
    BY <1>0 DEF ImportCredential, ImportBegin, ImportFile, ImportImported, ImportSaved, ImportSynced, ImportReady,
           ImportThrown, ImportUndoSaved, ImportUndone, SetReady
  <2>5. Reconcile(w) => ready' \in BOOLEAN
    BY DEF Reconcile, ReconcileBegin, RepairList, ReconcileSaved, ReconcileHealth, ReconcileThrown
  <2>6. CheckProviders(w) => ready' \in BOOLEAN
    BY DEF CheckProviders, CheckBegin, CheckHealth, CheckThrown
  <2>7. OAuthOperation(w) => ready' \in BOOLEAN
    BY <1>0 DEF OAuthOperation, StartOAuthBegin, StartOAuthReply, SessionBegin, PostCallback, CallbackAccepted,
           StatusReply, Discover, StatusSaved, StatusSynced, StatusReady, SessionThrown, SetReady
  <2> QED BY <1>1, <2>1, <2>2, <2>3, <2>4, <2>5, <2>6, <2>7 DEF Work
<1>2. ASSUME NEW w \in Worker, Request(w) PROVE UNCHANGED ready
  BY <1>2 DEF Request
<1>3. ScheduledReconcile \/ Refresh => UNCHANGED ready
  BY DEF ScheduledReconcile, Refresh
<1>4. Crash => ready' \in BOOLEAN
  BY DEF Crash
<1>5. (\E s \in Session : Login(s) \/ Expire(s)) \/ (\E p \in Provider : Rotate(p)) => UNCHANGED ready
  BY DEF Login, Expire, Rotate
<1> QED BY <1>1, <1>2, <1>3, <1>4, <1>5 DEF Next, vars

LEMMA TypesInit == ASSUME Init PROVE Types
<1>1. setup.stored \in Payload /\ setup \in Setups
  BY ControlAssumption DEF Init
<1>2. StoreTypes
  BY <1>1 DEF Init, StoreTypes
<1>3. CpaTypes
  <2>1. cfg \in [Provider -> Key \cup {None}] /\ live = cfg
    <3>1. cfg = ApiKeys(setup.stored) /\ live = cfg
      BY DEF Init, ApiKeys
    <3> QED BY <1>1, <3>1, Payloads
  <2>2. files \in [File -> [at : Nat, prefix : Provider \cup {None}] \cup {None}]
    <3> DEFINE Owners(f) == {p \in Provider : setup.stored[p] # None /\ setup.stored[p].ref = f}
               file(f) == [at |-> 0, prefix |-> CHOOSE p \in Owners(f) : TRUE]
    <3>1. files = [f \in File |-> IF Owners(f) = {} THEN None ELSE file(f)]
      BY DEF Init
    <3>2. ASSUME NEW f \in File, Owners(f) # {} PROVE file(f) \in [at : Nat, prefix : Provider \cup {None}]
      <4>1. (CHOOSE p \in Owners(f) : TRUE) \in Provider
        BY <3>2
      <4> HIDE DEF Owners
      <4> QED BY <4>1
    <3> HIDE DEF Owners, file
    <3> QED BY <3>1, <3>2
  <2> QED BY <2>1, <2>2 DEF Init, CpaTypes
<1>4. JobTypes
  BY IdleJob DEF Init, JobTypes
<1>5. SessionTypes
  BY DEF Init, SessionTypes, SessionType, NoSession, HasSession, Idle
<1>6. OtherTypes
  <2>1. \A p \in Provider : setup.stored[p] \in CredType \cup {None}
    BY <1>1, Payloads
  <2>2. acked = setup.stored
    BY DEF Init
  <2>3. setup.stored \in [Provider -> CredType \cup {None, Unknown}]
    BY <1>1 DEF Payload
  <2> QED BY <1>1, <2>2, <2>3 DEF Init, OtherTypes
<1> QED BY <1>2, <1>3, <1>4, <1>5, <1>6 DEF Types

LEMMA TypesNext == ASSUME Types, [Next]_vars PROVE Types'
<1>1. StoreTypes' /\ CpaTypes' /\ JobTypes' /\ SessionTypes'
  BY StoreTypesNext, CpaTypesNext, JobTypesNext, SessionTypesNext DEF Types
<1>2. OtherTypes'
  BY AckedTypesNext, ActiveTypesNext, ReadyTypesNext, SetupKept DEF Types, OtherTypes
<1> QED BY <1>1, <1>2 DEF Types

(* The stronger types hold of every behaviour, crashes and logins included.  *)
THEOREM TypesHold == Spec => []Types
<1> QED BY TypesInit, TypesNext, PTL DEF Spec

(* The store, CPA, the requests and the sessions keep their types: among     *)
(* them that a request which writes the store always does so for a Provider, *)
(* and with a whole payload.                                                 *)
THEOREM ControlTypeCorrect == Spec => []ControlTypeOK
<1>1. Types => ControlTypeOK
  BY DEF Types, StoreTypes, CpaTypes, JobTypes, JobType, OtherTypes, ControlTypeOK
<1> QED BY <1>1, TypesHold, PTL

-----------------------------------------------------------------------------
(* What an admin was told is kept.                                           *)

Saving == {"write", "rename", "saved"}

Busy(j) == j.pc \notin {"idle", "queued"}

(* What the running operation knows of the store m from its place in its     *)
(* method: which credential its Provider has there, what it is about to      *)
(* write, and that its payload changes no other Provider.                    *)
Knows(j, m) ==
  /\ j.pc \in Saving => j.stage \in {"save", "undoSave"}
  /\ j.stage \in {"save", "undoSave"} => j.pc \in Saving \cup {"thrown"}
  /\ j.pc \in Saving => \A q \in Provider \ {j.prov} : j.list[q] = m[q]
  /\ j.op \in {"put", "delete", "import", "reconcile", "reconcileProvider", "semanticReadiness"}
  /\ j.pc = "bound" => j.stage = "bind"
  /\ j.op = "put" =>
       /\ j.stage \in {"save", "sync", "probe", "undoSave", "undoSync", "undoProbe"}
       /\ j.stage = "save" => j.list[j.prov] = j.cred
       /\ j.stage \in {"sync", "probe"} => m[j.prov] = j.cred
       /\ j.stage = "undoSave" => j.list[j.prov] = j.prev
       /\ j.stage \in {"undoSync", "undoProbe"} => m[j.prov] = j.prev
  /\ j.op = "delete" =>
       /\ j.stage \in {"dropFile", "save", "sync", "undoSave"}
       /\ j.pc = "call" => j.stage = "dropFile"
       /\ j.stage = "dropFile" => m[j.prov] = j.prev
       /\ j.stage = "save" => j.list[j.prov] = None
       /\ j.stage = "sync" => m[j.prov] = None
       /\ j.stage = "undoSave" => j.list[j.prov] = j.prev
  /\ j.op = "import" =>
       /\ j.stage \in {"import", "save", "sync", "probe", "undoSave", "undoFile", "undoFileOnly"}
       /\ j.stage = "save" => j.list[j.prov] = j.cred
       /\ j.stage \in {"sync", "probe"} => m[j.prov] = j.cred
       /\ j.stage = "undoSave" => j.list[j.prov] = None
       /\ j.stage \in {"import", "save", "undoFile"} => m[j.prov] = None
       /\ j.stage = "undoFileOnly" => j.pc = "call"
  /\ j.op = "reconcile" =>
       /\ j.stage \in {"repair", "bind", "save", "sync"}
       /\ j.stage = "save" => j.list[j.prov] = j.cred
  /\ j.op \in {"reconcileProvider", "semanticReadiness"} => j.stage = "sync"

(* While it is deciding about its Provider the admin is told nothing of it;  *)
(* the temporary file is its own; and the store file is what memory is, but  *)
(* between the rename and the assignment to #payload.                        *)
Local(j, m, d, t, a) ==
  Busy(j) =>
    /\ Knows(j, m)
    /\ (j.op \in {"put", "delete", "import"} \/ j.pc \in Saving) => a[j.prov] = Unknown
    /\ j.pc = "rename" => t = j.list
    /\ IF j.pc = "saved" THEN d = j.list ELSE d = m

Turns ==
  /\ tail \in Seq(Worker)
  /\ \A w \in Worker : Busy(job[w]) => tail # << >> /\ Head(tail) = w

KeptInv ==
  /\ Turns
  /\ \A w \in Worker : job[w].pc # "idle" => job[w].op \notin OAuthOps
  /\ \A w \in Worker : Local(job[w], mem, disk, tmp, acked)
  /\ (\A w \in Worker : ~Busy(job[w])) => mem = disk
  /\ \A p \in Provider : Kept(p)

NoLogins == setup.ops \cap OAuthOps = {}

(* Only the head of the line is between two awaits.                          *)
Alone(w) == tail # << >> /\ Head(tail) = w /\ \A v \in Worker : v # w => ~Busy(job[v])

(* Whichever step a worker takes, it is between two awaits or is first.      *)
LEMMA Runs == ASSUME NEW w \in Worker, Work(w) PROVE Busy(job[w]) \/ MyTurn(w, job[w].op)
<1> USE DEF Busy
<1>1. Replace(w) \/ CpaReconcile(w) \/ Probe(w) \/ Bind(w) \/ Bound(w) => Busy(job[w])
  BY DEF Replace, ReplaceWrite, ReplaceRename, CpaReconcile, ReconcileRead, ReconcileUnload, ReconcileAbsent,
         ReconcilePut, Probe, Bind, Bound
<1>2. PutCredential(w) => Busy(job[w]) \/ MyTurn(w, job[w].op)
  BY DEF PutCredential, PutBegin, PutSaved, PutSynced, PutReady, PutThrown, PutUndoSaved, PutUndone, Running, MyTurn
<1>3. DeleteCredential(w) => Busy(job[w]) \/ MyTurn(w, job[w].op)
  BY DEF DeleteCredential, DeleteBegin, DropFile, DeleteDropped, DeleteSaved, DeleteSynced, DeleteThrown,
         DeleteUndone, Running, MyTurn
<1>4. ImportCredential(w) => Busy(job[w]) \/ MyTurn(w, job[w].op)
  BY DEF ImportCredential, ImportBegin, ImportFile, ImportImported, ImportSaved, ImportSynced, ImportReady,
         ImportThrown, ImportUndoSaved, ImportUndone, Running, MyTurn
<1>5. Reconcile(w) \/ CheckProviders(w) => Busy(job[w]) \/ MyTurn(w, job[w].op)
  BY DEF Reconcile, ReconcileBegin, RepairList, ReconcileSaved, ReconcileHealth, ReconcileThrown,
         CheckProviders, CheckBegin, CheckHealth, CheckThrown, Running, MyTurn
<1>6. OAuthOperation(w) => Busy(job[w]) \/ MyTurn(w, job[w].op)
  BY DEF OAuthOperation, StartOAuthBegin, StartOAuthReply, SessionBegin, PostCallback, CallbackAccepted,
         StatusReply, Discover, StatusSaved, StatusSynced, StatusReady, SessionThrown, Running, MyTurn
<1> HIDE DEF Busy
<1> QED BY <1>1, <1>2, <1>3, <1>4, <1>5, <1>6 DEF Work

LEMMA WorkingAlone ==
  ASSUME Types, KeptInv, NEW w \in Worker, Work(w)
  PROVE  /\ Alone(w) /\ job[w].op \notin OAuthOps
         /\ Busy(job[w]) \/ (job[w].pc = "queued" /\ mem = disk)
<1>1. Busy(job[w]) \/ MyTurn(w, job[w].op)
  BY Runs
<1>2. job[w].op \notin OAuthOps
  BY <1>1 DEF KeptInv, Busy, MyTurn
<1>3. tail # << >> /\ Head(tail) = w
  BY <1>1, <1>2 DEF KeptInv, Turns, MyTurn
<1>4. \A v \in Worker : v # w => ~Busy(job[v])
  BY <1>3 DEF KeptInv, Turns
<1>5. ~Busy(job[w]) => mem = disk
  BY <1>4 DEF KeptInv
<1> QED BY <1>1, <1>2, <1>3, <1>4, <1>5 DEF Alone, MyTurn

(* What the worker's step must leave behind.                                 *)
Continues(w) ==
  /\ Busy(job'[w]) /\ job'[w].op = job[w].op /\ tail' = tail
  /\ Local(job'[w], mem', disk', tmp', acked')

Finishes(w) == job'[w] = Idle /\ tail' = Tail(tail) /\ mem' = disk'

StillKept == \A p \in Provider : acked'[p] # Unknown => mem'[p] = acked'[p] /\ disk'[p] = acked'[p]

Advances(w) == Others(w) /\ (Continues(w) \/ Finishes(w)) /\ StillKept

LEMMA Advance ==
  ASSUME KeptInv, NEW w \in Worker, Alone(w), job[w].op \notin OAuthOps, Advances(w)
  PROVE  KeptInv'
<1>1. \A v \in Worker : v # w => job'[v] = job[v] /\ ~Busy(job'[v])
  BY DEF Advances, Others, Alone
<1>2. \A v \in Worker : (Busy(job[v])' <=> Busy(job'[v]))
  BY DEF Busy
<1>3. tail' \in Seq(Worker)
  BY HeadTailProperties DEF Advances, Continues, Finishes, KeptInv, Turns, Alone
<1>4. \A v \in Worker : Busy(job'[v]) => v = w /\ Continues(w)
  BY <1>1 DEF Advances, Finishes, Idle, Busy
<1>5. Turns'
  BY <1>2, <1>3, <1>4 DEF Turns, Continues, Alone
<1>6. \A v \in Worker : job'[v].pc # "idle" => job'[v].op \notin OAuthOps
  BY <1>1, <1>4 DEF KeptInv, Advances, Continues, Finishes, Idle
<1>7. \A v \in Worker : Local(job'[v], mem', disk', tmp', acked')
  BY <1>4 DEF Continues, Local
<1>8. (\A v \in Worker : ~Busy(job'[v])) => mem' = disk'
  BY DEF Advances, Continues, Finishes
<1>9. \A p \in Provider : Kept(p)'
  BY DEF Advances, StillKept, Kept
<1> QED BY <1>2, <1>5, <1>6, <1>7, <1>8, <1>9 DEF KeptInv

Working(w) ==
  /\ Alone(w) /\ job[w].op \notin OAuthOps
  /\ Busy(job[w]) \/ (job[w].pc = "queued" /\ mem = disk)

LEMMA StoreIs ==
  ASSUME KeptInv, NEW w \in Worker, Working(w)
  PROVE  /\ job[w].pc # "saved" => disk = mem
         /\ job[w].pc = "saved" => disk = job[w].list
         /\ job[w].pc = "rename" => tmp = job[w].list
         /\ Busy(job[w]) => Knows(job[w], mem)
         /\ Busy(job[w]) /\ (job[w].op \in {"put", "delete", "import"} \/ job[w].pc \in Saving)
              => acked[job[w].prov] = Unknown
BY DEF Working, KeptInv, Local, Busy

(* The kinds of steps an operation takes.  It awaits, and the store and what *)
(* the admin knows stay.                                                     *)
LEMMA QuietAdvances ==
  ASSUME KeptInv, NEW w \in Worker, Working(w), Others(w), UNCHANGED <<mem, disk, tail, acked>>,
         NEW pc, pc \notin Saving \cup {"idle", "queued"}, NEW stage, Goes(job[w], job'[w], pc, stage),
         job[w].pc # "saved", Busy(job[w]) \/ job[w].op \notin {"put", "delete", "import"},
         Knows(job'[w], mem)
  PROVE  Advances(w)
<1>1. Busy(job'[w]) /\ job'[w].op = job[w].op /\ job'[w].prov = job[w].prov /\ job'[w].pc = pc
  BY DEF Goes, Busy
<1>2. disk = mem
  BY StoreIs
<1>3. job'[w].op \in {"put", "delete", "import"} => acked[job'[w].prov] = Unknown
  BY <1>1, StoreIs
<1>4. Local(job'[w], mem', disk', tmp', acked')
  BY <1>1, <1>2, <1>3 DEF Local, Saving
<1>5. StillKept
  BY DEF StillKept, KeptInv, Kept
<1> QED BY <1>1, <1>4, <1>5 DEF Advances, Continues

(* It begins to write its Provider's credential, which is then undecided.    *)
LEMMA SaveAdvances ==
  ASSUME Types, KeptInv, NEW w \in Worker, Working(w), NEW stage \in {"save", "undoSave"},
         NEW p \in Provider, p = job[w].prov, NEW c \in CredType \cup {None}, Save(w, stage, p, c),
         UNCHANGED <<mem, disk, tmp>>, job[w].pc # "saved",
         Undecided(p) \/ (UNCHANGED acked /\ acked[p] = Unknown),
         Knows(job'[w], mem)
  PROVE  Advances(w)
<1>1. Others(w) /\ Goes(job[w], job'[w], "write", stage) /\ tail' = tail
  BY SaveJob DEF Types
<1>2. disk = mem
  BY StoreIs
<1>3. Busy(job'[w]) /\ job'[w].op = job[w].op /\ job'[w].prov = p /\ job'[w].pc = "write"
  BY <1>1 DEF Goes, Busy
<1>4. acked'[p] = Unknown /\ \A q \in Provider : q # p => acked'[q] = acked[q]
  BY DEF Undecided, Types, OtherTypes
<1>5. Local(job'[w], mem', disk', tmp', acked')
  BY <1>2, <1>3, <1>4 DEF Local
<1>6. StillKept
  BY <1>4 DEF StillKept, KeptInv, Kept
<1> QED BY <1>1, <1>3, <1>5, <1>6 DEF Advances, Continues

(* The write ended: memory becomes what the file is.                         *)
LEMMA Assigned ==
  ASSUME Types, KeptInv, NEW w \in Worker, Working(w), job[w].pc = "saved", Assign(w), job[w].prov \in Provider,
         UNCHANGED acked \/ Acknowledge(job[w].prov, job[w].list[job[w].prov])
  PROVE  mem' = disk' /\ mem' = job[w].list /\ tmp' = tmp /\ StillKept
<1> DEFINE p == job[w].prov
<1>1. disk = job[w].list /\ Knows(job[w], mem) /\ acked[p] = Unknown
  BY StoreIs DEF Busy, Saving
<1>2. mem' = job[w].list /\ disk' = disk /\ tmp' = tmp
  BY DEF Assign
<1>3. \A q \in Provider : q # p => job[w].list[q] = mem[q]
  BY <1>1 DEF Knows, Saving
<1>4. /\ \A q \in Provider : q # p => acked'[q] = acked[q]
      /\ acked'[p] = Unknown \/ acked'[p] = job[w].list[p]
  BY <1>1 DEF Acknowledge, Types, OtherTypes
<1>5. StillKept
  BY <1>1, <1>2, <1>3, <1>4 DEF StillKept, KeptInv, Kept
<1> QED BY <1>1, <1>2, <1>5

LEMMA AssignAdvances ==
  ASSUME Types, KeptInv, NEW w \in Worker, Working(w), job[w].pc = "saved", Assign(w), job[w].prov \in Provider,
         UNCHANGED acked \/ (Acknowledge(job[w].prov, job[w].list[job[w].prov]) /\ job[w].op = "reconcile"),
         Others(w), tail' = tail,
         NEW pc, pc \notin Saving \cup {"idle", "queued"}, NEW stage, Goes(job[w], job'[w], pc, stage),
         Knows(job'[w], job[w].list)
  PROVE  Advances(w)
<1>1. mem' = disk' /\ mem' = job[w].list /\ tmp' = tmp /\ StillKept
  BY Assigned
<1>2. Busy(job'[w]) /\ job'[w].op = job[w].op /\ job'[w].prov = job[w].prov /\ job'[w].pc = pc
  BY DEF Goes, Busy
<1>3. job'[w].op \in {"put", "delete", "import"} => acked'[job'[w].prov] = Unknown
  BY <1>2, StoreIs DEF Busy, Saving
<1>4. Local(job'[w], mem', disk', tmp', acked')
  BY <1>1, <1>2, <1>3 DEF Local, Saving
<1> QED BY <1>1, <1>2, <1>4 DEF Advances, Continues

(* It ends, and may tell the admin what the store holds.                     *)
LEMMA EndAdvances ==
  ASSUME Types, KeptInv, NEW w \in Worker, Working(w), Release(w), UNCHANGED <<mem, disk>>, job[w].pc # "saved",
         UNCHANGED acked \/ (job[w].prov \in Provider /\ Acknowledge(job[w].prov, mem[job[w].prov]))
  PROVE  Advances(w)
<1>1. Others(w) /\ job'[w] = Idle /\ tail' = Tail(tail)
  BY ReleaseJob DEF Types, Working
<1>2. disk = mem
  BY StoreIs
<1>3. StillKept
  BY <1>2 DEF StillKept, KeptInv, Kept, Acknowledge, Types, OtherTypes
<1> QED BY <1>1, <1>2, <1>3 DEF Advances, Finishes

LEMMA AssignEnds ==
  ASSUME Types, KeptInv, NEW w \in Worker, Working(w), job[w].pc = "saved", Assign(w), job[w].prov \in Provider,
         Acknowledge(job[w].prov, job[w].list[job[w].prov]), Release(w)
  PROVE  Advances(w)
<1>1. Others(w) /\ job'[w] = Idle /\ tail' = Tail(tail)
  BY ReleaseJob DEF Types, Working
<1>2. mem' = disk' /\ StillKept
  BY Assigned
<1> QED BY <1>1, <1>2 DEF Advances, Finishes

(* An await rejects, and nothing has been decided.                           *)
LEMMA Stops ==
  ASSUME Types, KeptInv, NEW w \in Worker, Working(w), Busy(job[w]), job[w].pc \in {"write", "rename"},
         Await(w, "thrown", job[w].stage), UNCHANGED <<mem, disk, acked>>
  PROVE  Advances(w)
<1>1. Knows(job[w], mem) /\ job[w].stage \in Stages
  BY StoreIs, JobOf DEF Types
<1>2. "thrown" \in Step /\ "thrown" \notin Saving \cup {"idle", "queued"}
  BY DEF Step, Saving
<1>3. /\ Others(w) /\ Goes(job[w], job'[w], "thrown", job[w].stage) /\ UNCHANGED tail
      /\ job'[w].cred = job[w].cred /\ job'[w].prev = job[w].prev /\ job'[w].list = job[w].list
  BY <1>1, <1>2, AwaitJob DEF Types
<1>4. Knows(job'[w], mem)
  BY <1>1, <1>2, <1>3 DEF Knows, Goes
<1> QED BY <1>2, <1>3, <1>4, QuietAdvances

(* #replace, cpa.reconcile, the probe and the bind, for whichever operation. *)
LEMMA MachineryAdvances ==
  ASSUME Types, KeptInv, NEW w \in Worker, Working(w),
         Replace(w) \/ CpaReconcile(w) \/ Probe(w) \/ Bind(w) \/ Bound(w)
  PROVE  Advances(w)
<1> USE DEF Types
<1>1. ASSUME Busy(job[w])
      PROVE  /\ Knows(job[w], mem) /\ job[w].stage \in Stages /\ job[w] \in JobType
             /\ job[w].op \in {"put", "delete", "import"} \/ job[w].pc \in Saving => acked[job[w].prov] = Unknown
  BY <1>1, StoreIs, JobOf
<1>2. ASSUME ReplaceWrite(w) PROVE Advances(w)
  <2>1. job[w].pc = "write" /\ UNCHANGED <<mem, disk, acked>>
    BY <1>2 DEF ReplaceWrite, ghost
  <2>2. Busy(job[w]) /\ "rename" \in Step
    BY <2>1 DEF Busy, Step
  <2>3. CASE Await(w, "rename", job[w].stage) /\ tmp' = job[w].list
    <3>1. /\ Others(w) /\ Goes(job[w], job'[w], "rename", job[w].stage) /\ tail' = tail
          /\ job'[w].cred = job[w].cred /\ job'[w].prev = job[w].prev /\ job'[w].list = job[w].list
      BY <1>1, <2>2, <2>3, AwaitJob
    <3>2. Knows(job'[w], mem)
      BY <1>1, <2>1, <2>2, <3>1 DEF Knows, Goes, Saving
    <3>3. disk = mem /\ acked[job[w].prov] = Unknown
      BY <2>1, <2>2, StoreIs DEF Saving
    <3>4. Busy(job'[w]) /\ Local(job'[w], mem', disk', tmp', acked')
      BY <2>1, <2>3, <3>1, <3>2, <3>3 DEF Local, Goes, Busy
    <3>5. StillKept
      BY <2>1 DEF StillKept, KeptInv, Kept
    <3> QED BY <3>1, <3>4, <3>5 DEF Advances, Continues, Goes
  <2>4. CASE Await(w, "thrown", job[w].stage)
    BY <2>1, <2>2, <2>4, Stops
  <2> QED BY <1>2, <2>3, <2>4 DEF ReplaceWrite
<1>3. ASSUME ReplaceRename(w) PROVE Advances(w)
  <2>1. job[w].pc = "rename" /\ UNCHANGED <<mem, acked>>
    BY <1>3 DEF ReplaceRename, ghost
  <2>2. Busy(job[w]) /\ "saved" \in Step
    BY <2>1 DEF Busy, Step
  <2>3. tmp = job[w].list /\ acked[job[w].prov] = Unknown
    BY <2>1, <2>2, StoreIs DEF Saving
  <2>4. CASE Await(w, "saved", job[w].stage) /\ disk' = tmp
    <3>1. /\ Others(w) /\ Goes(job[w], job'[w], "saved", job[w].stage) /\ tail' = tail
          /\ job'[w].cred = job[w].cred /\ job'[w].prev = job[w].prev /\ job'[w].list = job[w].list
      BY <1>1, <2>2, <2>4, AwaitJob
    <3>2. Knows(job'[w], mem)
      BY <1>1, <2>1, <2>2, <3>1 DEF Knows, Goes, Saving
    <3>3. Busy(job'[w]) /\ Local(job'[w], mem', disk', tmp', acked')
      BY <2>1, <2>3, <2>4, <3>1, <3>2 DEF Local, Goes, Busy
    <3>4. \A q \in Provider : q # job[w].prov => disk'[q] = mem[q]
      BY <1>1, <2>1, <2>2, <2>3, <2>4 DEF Knows, Saving
    <3>5. StillKept
      BY <2>1, <2>3, <3>4 DEF StillKept, KeptInv, Kept
    <3> QED BY <3>1, <3>3, <3>5 DEF Advances, Continues, Goes
  <2>5. CASE Await(w, "thrown", job[w].stage) /\ UNCHANGED disk
    BY <2>1, <2>2, <2>5, Stops
  <2> QED BY <1>3, <2>4, <2>5 DEF ReplaceRename
<1>4. ASSUME NEW pc \in {"thrown", "put", "unload", "absent", "synced", "probed", "bound"},
             Await(w, pc, job[w].stage), UNCHANGED <<mem, disk, tmp, acked>>,
             job[w].pc \in {"read", "unload", "absent", "put", "probe", "call"},
             job[w].pc = "call" => job[w].stage = "bind",
             pc = "bound" => job[w].stage = "bind"
      PROVE  Advances(w)
  <2>1. Busy(job[w]) /\ pc \in Step /\ pc \notin Saving \cup {"idle", "queued"} /\ job[w].pc \notin Saving
    BY <1>4 DEF Busy, Step, Saving
  <2>2. /\ Others(w) /\ Goes(job[w], job'[w], pc, job[w].stage) /\ UNCHANGED tail
        /\ job'[w].cred = job[w].cred /\ job'[w].prev = job[w].prev /\ job'[w].list = job[w].list
    BY <1>1, <1>4, <2>1, AwaitJob
  <2>3. Knows(job'[w], mem)
    BY <1>1, <1>4, <2>1, <2>2 DEF Knows, Goes
  <2>4. job[w].pc # "saved"
    BY <1>4
  <2> QED BY <1>4, <2>1, <2>2, <2>3, <2>4, QuietAdvances
<1>5. CpaReconcile(w) => Advances(w)
  BY <1>4 DEF CpaReconcile, ReconcileRead, ReconcileUnload, ReconcileAbsent, ReconcilePut, store, ghost
<1>6. Probe(w) => Advances(w)
  BY <1>4 DEF Probe, store, ghost
<1>7. Bind(w) => Advances(w)
  BY <1>4 DEF Bind, store, ghost
<1>8. ASSUME Bound(w) PROVE Advances(w)
  <2> DEFINE p == job[w].prov
             c == Cred("oauth", job[w].cred.ref, clock)
  <2>1. job[w].pc = "bound" /\ Save(w, "save", p, c) /\ Undecided(p) /\ UNCHANGED <<mem, disk, tmp>>
    BY <1>8 DEF Bound, store
  <2>2. p \in Provider /\ job[w].cred \in OAuthCred /\ clock \in Nat
    BY <2>1, JobOf DEF JobOK, CpaTypes
  <2>3. c \in CredType
    BY <2>2, Creds
  <2>4. Busy(job[w]) /\ job[w].op = "reconcile"
    BY <1>1, <2>1 DEF Busy, Knows
  <2>5. c # None
    BY <2>3, ControlAssumption
  <2> HIDE DEF c
  <2>6. /\ Goes(job[w], job'[w], "write", "save") /\ job'[w].list[p] = c /\ job'[w].cred = c
        /\ \A q \in Provider : q # p => job'[w].list[q] = mem[q]
    BY <2>1, <2>2, <2>3, <2>5, SaveJob
  <2>7. Knows(job'[w], mem)
    BY <2>4, <2>6 DEF Knows, Goes, Saving
  <2> QED BY <2>1, <2>2, <2>3, <2>7, SaveAdvances
<1> QED BY <1>2, <1>3, <1>5, <1>6, <1>7, <1>8 DEF Replace

LEMMA PutAdvances ==
  ASSUME Types, KeptInv, NEW w \in Worker, Working(w), PutCredential(w)
  PROVE  Advances(w)
<1> USE DEF Types
<1> DEFINE p == job[w].prov
<1>1. job[w].op = "put" /\ job[w].pc # "idle"
  BY DEF PutCredential, PutBegin, PutSaved, PutSynced, PutReady, PutThrown, PutUndoSaved, PutUndone,
              MyTurn, Running
<1>2. /\ p \in Provider /\ job[w].prev \in CredType \cup {None} /\ job[w].cred \in CredType \cup {None}
      /\ job[w].list \in Payload
  BY <1>1, JobOf DEF JobOK
<1>3. Busy(job[w]) => Knows(job[w], mem) /\ acked[p] = Unknown
  BY <1>1, StoreIs
<1>4. ASSUME NEW stage \in {"probe", "undoProbe"}, Await(w, "probe", stage), UNCHANGED <<store, acked>>,
             Busy(job[w]), job[w].pc \notin Saving, job[w].stage \in {"sync", "undoSync"},
             stage = "probe" <=> job[w].stage = "sync"
      PROVE  Advances(w)
  <2>1. "probe" \in Step /\ stage \in Stages /\ "probe" \notin Saving \cup {"idle", "queued"}
    BY DEF Step, Stages, Saving
  <2>2. /\ Others(w) /\ Goes(job[w], job'[w], "probe", stage) /\ UNCHANGED tail
        /\ job'[w].cred = job[w].cred /\ job'[w].prev = job[w].prev
    BY <1>4, <2>1, AwaitJob
  <2>3. Knows(job'[w], mem)
    BY <1>1, <1>3, <1>4, <2>1, <2>2 DEF Knows, Goes
  <2>4. UNCHANGED <<mem, disk, tmp>> /\ job[w].pc # "saved"
    BY <1>4 DEF store, Saving
  <2> QED BY <1>4, <2>1, <2>2, <2>3, <2>4, QuietAdvances
<1>5. ASSUME NEW stage \in {"sync", "undoSync"}, NEW f \in SUBSET Provider, Assign(w),
             Sync(w, stage, job[w].list, f, {}), UNCHANGED acked, job[w].pc = "saved",
             job[w].stage = IF stage = "sync" THEN "save" ELSE "undoSave"
      PROVE  Advances(w)
  <2>1. stage \in Stages /\ "read" \notin Saving \cup {"idle", "queued"} /\ Busy(job[w])
    BY <1>5 DEF Stages, Saving, Busy
  <2>2. /\ Others(w) /\ Goes(job[w], job'[w], "read", stage) /\ tail' = tail
        /\ job'[w].cred = job[w].cred /\ job'[w].prev = job[w].prev
    <3>1. JobTypes /\ job[w].list \in Payload /\ stage \in Stages /\ {} \in SUBSET Provider
      BY <1>2, <2>1
    <3> HIDE DEF Types
    <3> QED BY <1>5, <3>1, SyncJob
  <2>3. Knows(job'[w], job[w].list)
    BY <1>1, <1>3, <1>5, <2>1, <2>2 DEF Knows, Goes
  <2> QED BY <1>2, <1>5, <2>1, <2>2, <2>3, AssignAdvances
<1>6. ASSUME PutBegin(w) PROVE Advances(w)
  <2>1. /\ Save(w, "save", p, job[w].cred) /\ Undecided(p) /\ UNCHANGED <<mem, disk, tmp>>
        /\ job[w].pc = "queued"
    BY <1>6 DEF PutBegin, MyTurn, store
  <2>2. /\ Goes(job[w], job'[w], "write", "save") /\ job'[w].list[p] = job[w].cred /\ job'[w].cred = job[w].cred
        /\ \A q \in Provider : q # p => job'[w].list[q] = mem[q]
    BY <1>2, <2>1, SaveJob
  <2>3. Knows(job'[w], mem)
    BY <1>1, <2>2 DEF Knows, Goes, Saving
  <2> QED BY <1>2, <2>1, <2>3, SaveAdvances
<1>7. PutSaved(w) => Advances(w)
  BY <1>2, <1>5 DEF PutSaved, Running, ghost
<1>8. PutSynced(w) => Advances(w)
  BY <1>4 DEF PutSynced, Running, ghost, Busy, Saving
<1>9. ASSUME PutReady(w) PROVE Advances(w)
  <2>1. /\ job[w].pc = "probed" /\ job[w].stage = "probe" /\ Acknowledge(p, job[w].cred) /\ Release(w)
        /\ UNCHANGED <<mem, disk>>
    BY <1>9 DEF PutReady, Running, store
  <2>2. mem[p] = job[w].cred
    BY <1>1, <1>3, <2>1 DEF Busy, Knows
  <2> QED BY <1>2, <2>1, <2>2, EndAdvances
<1>10. ASSUME PutUndone(w) PROVE Advances(w)
  <2>1. /\ Running(w, "put", "synced", "undoSync") \/ Running(w, "put", "probed", "undoProbe")
        /\ UNCHANGED store
    BY <1>10 DEF PutUndone
  <2>2. Busy(job[w]) /\ job[w].pc \notin Saving /\ job[w].pc # "saved" /\ mem[p] = job[w].prev
    BY <1>1, <1>3, <2>1 DEF Busy, Running, Saving, Knows
  <2>3. CASE job[w].pc = "synced" /\ Await(w, "probe", "undoProbe") /\ UNCHANGED acked
    BY <1>4, <2>1, <2>2, <2>3 DEF Running
  <2>4. CASE Acknowledge(p, job[w].prev) /\ Release(w)
    BY <1>2, <2>1, <2>2, <2>4, EndAdvances DEF store
  <2> QED BY <1>10, <2>3, <2>4 DEF PutUndone, ghost
<1>11. ASSUME PutUndoSaved(w) PROVE Advances(w)
  <2>1. \E f \in SUBSET Provider : Sync(w, "undoSync", job[w].list, f, {})
    BY <1>2, <1>11 DEF PutUndoSaved
  <2> QED BY <1>5, <1>11, <2>1 DEF PutUndoSaved, Running, ghost
<1>12. ASSUME PutThrown(w) PROVE Advances(w)
  <2>1. /\ job[w].pc = "thrown" /\ UNCHANGED store
        /\ \/ Release(w) /\ UNCHANGED acked
           \/ /\ job[w].stage \in {"sync", "probe"} /\ UNCHANGED acked
              /\ \/ job[w].prev = None /\ mem[p] = None /\ Sync(w, "undoSync", mem, {}, {})
                 \/ Save(w, "undoSave", p, job[w].prev)
           \/ /\ job[w].stage \in {"undoSync", "undoProbe"}
              /\ Acknowledge(p, job[w].prev) /\ Release(w)
    BY <1>12 DEF PutThrown, ghost
  <2>2. Busy(job[w]) /\ Knows(job[w], mem) /\ acked[p] = Unknown /\ UNCHANGED <<mem, disk, tmp>>
    BY <1>3, <2>1 DEF Busy, store
  <2>3. CASE Release(w) /\ UNCHANGED acked
    BY <2>1, <2>2, <2>3, EndAdvances
  <2>4. CASE job[w].prev = None /\ mem[p] = None /\ Sync(w, "undoSync", mem, {}, {}) /\ UNCHANGED acked
    <3>1. "undoSync" \in Stages /\ "read" \notin Saving \cup {"idle", "queued"} /\ mem \in Payload
      BY DEF Stages, Saving, StoreTypes
    <3>2. /\ Others(w) /\ Goes(job[w], job'[w], "read", "undoSync") /\ UNCHANGED tail
          /\ job'[w].cred = job[w].cred /\ job'[w].prev = job[w].prev
      BY <2>4, <3>1, SyncJob
    <3>3. Knows(job'[w], mem)
      BY <1>1, <2>2, <2>4, <3>1, <3>2 DEF Knows, Goes
    <3> QED BY <2>1, <2>2, <2>4, <3>1, <3>2, <3>3, QuietAdvances
  <2>5. CASE Save(w, "undoSave", p, job[w].prev) /\ UNCHANGED acked
    <3>1. /\ Goes(job[w], job'[w], "write", "undoSave") /\ job'[w].list[p] = job[w].prev /\ job'[w].prev = job[w].prev
          /\ \A q \in Provider : q # p => job'[w].list[q] = mem[q]
      BY <1>2, <2>5, SaveJob
    <3>2. Knows(job'[w], mem)
      BY <1>1, <3>1 DEF Knows, Goes, Saving
    <3> QED BY <1>2, <2>1, <2>2, <2>5, <3>2, SaveAdvances
  <2>6. CASE job[w].stage \in {"undoSync", "undoProbe"} /\ Acknowledge(p, job[w].prev) /\ Release(w)
    <3>1. mem[p] = job[w].prev
      BY <1>1, <2>2, <2>6 DEF Knows
    <3> QED BY <1>2, <2>1, <2>2, <2>6, <3>1, EndAdvances
  <2> QED BY <2>1, <2>3, <2>4, <2>5, <2>6
<1> QED BY <1>6, <1>7, <1>8, <1>9, <1>10, <1>11, <1>12 DEF PutCredential

LEMMA DeleteAdvances ==
  ASSUME Types, KeptInv, NEW w \in Worker, Working(w), DeleteCredential(w)
  PROVE  Advances(w)
<1> USE DEF Types
<1> DEFINE p == job[w].prov
<1>1. job[w].op = "delete" /\ job[w].pc # "idle"
  BY DEF DeleteCredential, DeleteBegin, DropFile, DeleteDropped, DeleteSaved, DeleteSynced, DeleteThrown,
         DeleteUndone, MyTurn, Running
<1>2. /\ p \in Provider /\ job[w].prev \in CredType \cup {None} /\ job[w].cred \in CredType \cup {None}
      /\ job[w].list \in Payload
  BY <1>1, JobOf DEF JobOK
<1>3. Busy(job[w]) => Knows(job[w], mem) /\ acked[p] = Unknown
  BY <1>1, StoreIs
<1>4. ASSUME DeleteStored(w), UNCHANGED <<mem, disk, tmp>>, job[w].pc # "saved" PROVE Advances(w)
  <2>1. CASE Release(w) /\ UNCHANGED acked
    BY <1>4, <2>1, EndAdvances
  <2>2. CASE Save(w, "save", p, None) /\ Undecided(p)
    <3>1. /\ Goes(job[w], job'[w], "write", "save") /\ job'[w].list[p] = None
          /\ \A q \in Provider : q # p => job'[w].list[q] = mem[q]
      BY <1>2, <2>2, SaveJob
    <3>2. Knows(job'[w], mem)
      BY <1>1, <3>1 DEF Knows, Goes, Saving
    <3> QED BY <1>2, <1>4, <2>2, <3>2, SaveAdvances
  <2> QED BY <1>4, <2>1, <2>2 DEF DeleteStored, ghost
<1>5. ASSUME DeleteBegin(w) PROVE Advances(w)
  <2>1. job[w].pc = "queued" /\ UNCHANGED <<mem, disk, tmp>> /\ mem = disk
    BY <1>5 DEF DeleteBegin, MyTurn, store, Working, Busy
  <2>2. CASE DeleteStored(w)
    BY <1>4, <2>1, <2>2
  <2>3. ASSUME job' = [job EXCEPT ![w].pc = "call", ![w].stage = "dropFile", ![w].prev = mem[p]], Still, Undecided(p)
        PROVE  Advances(w)
    <3> DEFINE j == [job[w] EXCEPT !.pc = "call", !.stage = "dropFile", !.prev = mem[p]]
    <3>1. job' = [job EXCEPT ![w] = j]
      BY <2>3 DEF JobTypes
    <3>2. job[w] \in JobType
      BY JobOf
    <3>3. /\ j.pc = "call" /\ j.stage = "dropFile" /\ j.prov = p /\ j.op = "delete" /\ j.prev = mem[p]
      BY <1>1, <3>2 DEF JobType
    <3> HIDE DEF j
    <3>4. Knows(j, mem) /\ Busy(j)
      BY <3>3 DEF Knows, Saving, Busy
    <3>5. acked'[p] = Unknown /\ \A q \in Provider : q # p => acked'[q] = acked[q]
      BY <1>2, <2>3 DEF Undecided, OtherTypes
    <3>6. Local(j, mem', disk', tmp', acked')
      BY <2>1, <3>3, <3>4, <3>5 DEF Local
    <3>7. StillKept
      BY <2>1, <3>5 DEF StillKept, KeptInv, Kept
    <3>8. Others(w) /\ job'[w] = j
      BY <3>1 DEF Others, JobTypes
    <3> QED BY <1>1, <2>3, <3>3, <3>4, <3>6, <3>7, <3>8 DEF Advances, Continues, Still
  <2> QED BY <1>5, <2>2, <2>3 DEF DeleteBegin
<1>6. ASSUME DropFile(w) PROVE Advances(w)
  <2>1. PICK pc \in {"dropped", "thrown"} : Await(w, pc, "dropFile")
    BY <1>6 DEF DropFile
  <2>2. job[w].pc = "call" /\ UNCHANGED <<mem, disk, tmp, acked>>
    BY <1>6 DEF DropFile, store, ghost
  <2>3. pc \in Step /\ "dropFile" \in Stages /\ pc \notin Saving \cup {"idle", "queued"} /\ Busy(job[w])
    BY <2>2 DEF Step, Stages, Saving, Busy
  <2>4. /\ Others(w) /\ Goes(job[w], job'[w], pc, "dropFile") /\ UNCHANGED tail /\ job'[w].prev = job[w].prev
    BY <2>1, <2>3, AwaitJob
  <2>5. Knows(job'[w], mem)
    BY <1>1, <1>3, <2>2, <2>3, <2>4 DEF Knows, Goes
  <2>6. job[w].pc # "saved"
    BY <2>2
  <2> QED BY <2>2, <2>3, <2>4, <2>5, <2>6, QuietAdvances
<1>7. DeleteDropped(w) => Advances(w)
  BY <1>4 DEF DeleteDropped, Running, store
<1>8. ASSUME DeleteSaved(w) PROVE Advances(w)
  <2>1. /\ job[w].pc = "saved" /\ job[w].stage = "save" /\ Assign(w) /\ UNCHANGED acked
        /\ Sync(w, "sync", job[w].list, {}, {p})
    BY <1>8 DEF DeleteSaved, Running, ghost
  <2>2. /\ "sync" \in Stages /\ "read" \notin Saving \cup {"idle", "queued"} /\ Busy(job[w])
        /\ {} \in SUBSET Provider /\ {p} \in SUBSET Provider
    BY <1>2, <2>1 DEF Stages, Saving, Busy
  <2>3. Others(w) /\ Goes(job[w], job'[w], "read", "sync") /\ tail' = tail
    <3>1. JobTypes
      OBVIOUS
    <3> HIDE DEF Types, p
    <3> QED BY <1>2, <2>1, <2>2, <3>1, SyncJob
  <2>4. Knows(job'[w], job[w].list)
    BY <1>1, <1>3, <2>1, <2>2, <2>3 DEF Knows, Goes
  <2> QED BY <1>2, <2>1, <2>2, <2>3, <2>4, AssignAdvances
<1>9. ASSUME DeleteSynced(w) PROVE Advances(w)
  <2>1. /\ job[w].pc = "synced" /\ job[w].stage = "sync" /\ Acknowledge(p, None) /\ Release(w)
        /\ UNCHANGED <<mem, disk>>
    BY <1>9 DEF DeleteSynced, Running, store
  <2>2. mem[p] = None
    BY <1>1, <1>3, <2>1 DEF Busy, Knows
  <2> QED BY <1>2, <2>1, <2>2, EndAdvances
<1>10. ASSUME DeleteThrown(w) PROVE Advances(w)
  <2>1. job[w].pc = "thrown" /\ UNCHANGED <<mem, disk, tmp>>
    BY <1>10 DEF DeleteThrown, store
  <2>2. Knows(job[w], mem) /\ acked[p] = Unknown /\ job[w].pc # "saved"
    BY <1>3, <2>1 DEF Busy
  <2>3. \/ job[w].stage = "dropFile" /\ Release(w) /\ Acknowledge(p, job[w].prev)
        \/ Save(w, "undoSave", p, job[w].prev) /\ UNCHANGED acked
        \/ Release(w) /\ UNCHANGED acked
    BY <1>10 DEF DeleteThrown, ghost
  <2>4. CASE job[w].stage = "dropFile" /\ Release(w) /\ Acknowledge(p, job[w].prev)
    <3>1. mem[p] = job[w].prev
      BY <1>1, <2>2, <2>4 DEF Knows
    <3> QED BY <1>2, <2>1, <2>2, <2>4, <3>1, EndAdvances
  <2>5. CASE Save(w, "undoSave", p, job[w].prev) /\ UNCHANGED acked
    <3>1. /\ Goes(job[w], job'[w], "write", "undoSave") /\ job'[w].list[p] = job[w].prev /\ job'[w].prev = job[w].prev
          /\ \A q \in Provider : q # p => job'[w].list[q] = mem[q]
      BY <1>2, <2>5, SaveJob
    <3>2. Knows(job'[w], mem)
      BY <1>1, <3>1 DEF Knows, Goes, Saving
    <3> QED BY <1>2, <2>1, <2>2, <2>5, <3>2, SaveAdvances
  <2>6. CASE Release(w) /\ UNCHANGED acked
    BY <2>1, <2>2, <2>6, EndAdvances
  <2> QED BY <2>3, <2>4, <2>5, <2>6
<1>11. ASSUME DeleteUndone(w) PROVE Advances(w)
  <2>1. /\ job[w].pc = "saved" /\ job[w].stage = "undoSave" /\ Assign(w) /\ Acknowledge(p, job[w].prev) /\ Release(w)
    BY <1>11 DEF DeleteUndone, Running
  <2>2. job[w].list[p] = job[w].prev
    BY <1>1, <1>3, <2>1 DEF Busy, Knows
  <2> QED BY <1>2, <2>1, <2>2, AssignEnds
<1> QED BY <1>5, <1>6, <1>7, <1>8, <1>9, <1>10, <1>11 DEF DeleteCredential

LEMMA ImportAdvances ==
  ASSUME Types, KeptInv, NEW w \in Worker, Working(w), ImportCredential(w)
  PROVE  Advances(w)
<1> USE DEF Types
<1> DEFINE p == job[w].prov
<1>1. job[w].op = "import" /\ job[w].pc # "idle"
  BY DEF ImportCredential, ImportBegin, ImportFile, ImportImported, ImportSaved, ImportSynced, ImportReady,
         ImportThrown, ImportUndoSaved, ImportUndone, MyTurn, Running
<1>2. /\ p \in Provider /\ job[w].prev \in CredType \cup {None} /\ job[w].cred \in CredType \cup {None}
      /\ job[w].list \in Payload
  BY <1>1, JobOf DEF JobOK
<1>3. Busy(job[w]) => Knows(job[w], mem) /\ acked[p] = Unknown
  BY <1>1, StoreIs
<1>4. /\ {"call", "imported", "probe", "thrown"} \subseteq Step
      /\ {"call", "imported", "probe", "thrown", "read"} \cap (Saving \cup {"idle", "queued"}) = {}
      /\ {"import", "probe", "undoFile", "undoFileOnly", "sync"} \subseteq Stages
  BY DEF Step, Saving, Stages
<1>5. ASSUME ImportBegin(w) PROVE Advances(w)
  <2>1. job[w].pc = "queued" /\ UNCHANGED <<mem, disk, tmp>> /\ mem = disk
    BY <1>5 DEF ImportBegin, MyTurn, store, Working, Busy
  <2>2. CASE Release(w) /\ UNCHANGED acked
    BY <2>1, <2>2, EndAdvances
  <2>3. CASE mem[p] = None /\ Await(w, "call", "import") /\ Undecided(p)
    <3>1. /\ Others(w) /\ Goes(job[w], job'[w], "call", "import") /\ UNCHANGED tail
      BY <1>4, <2>3, AwaitJob
    <3>2. Knows(job'[w], mem) /\ Busy(job'[w])
      BY <1>1, <2>3, <3>1 DEF Knows, Goes, Saving, Busy
    <3>3. acked'[p] = Unknown /\ \A q \in Provider : q # p => acked'[q] = acked[q]
      BY <1>2, <2>3 DEF Undecided, OtherTypes
    <3>4. Local(job'[w], mem', disk', tmp', acked')
      BY <2>1, <3>1, <3>2, <3>3 DEF Local, Goes
    <3>5. StillKept
      BY <2>1, <3>3 DEF StillKept, KeptInv, Kept
    <3> QED BY <3>1, <3>2, <3>4, <3>5 DEF Advances, Continues, Goes
  <2> QED BY <1>5, <2>2, <2>3 DEF ImportBegin, ghost
<1>6. ASSUME ImportFile(w) PROVE Advances(w)
  <2>1. PICK pc \in {"imported", "thrown"} : Await(w, pc, "import")
    BY <1>6 DEF ImportFile
  <2>2. job[w].pc = "call" /\ job[w].stage = "import" /\ UNCHANGED <<mem, disk, tmp, acked>>
    BY <1>6 DEF ImportFile, Running, store, ghost
  <2>3. Busy(job[w]) /\ job[w].pc # "saved"
    BY <2>2 DEF Busy
  <2>4. Others(w) /\ Goes(job[w], job'[w], pc, "import") /\ UNCHANGED tail
    BY <1>4, <2>1, AwaitJob
  <2>5. Knows(job'[w], mem)
    BY <1>1, <1>3, <1>4, <2>2, <2>3, <2>4 DEF Knows, Goes
  <2> QED BY <1>4, <2>2, <2>3, <2>4, <2>5, QuietAdvances
<1>7. ASSUME ImportImported(w) PROVE Advances(w)
  <2> DEFINE c == Cred("credential-import", VertexFile[p], clock)
  <2>1. job[w].pc = "imported" /\ job[w].stage = "import" /\ Save(w, "save", p, c) /\ UNCHANGED <<mem, disk, tmp, acked>>
    BY <1>7 DEF ImportImported, Running, store, ghost
  <2>2. VertexFile[p] \in File /\ clock \in Nat
    BY <1>2, ControlAssumption DEF CpaTypes
  <2>3. c \in CredType
    BY <2>2, Creds
  <2>4. c # None
    BY <2>3, ControlAssumption
  <2>5. acked[p] = Unknown /\ job[w].pc # "saved" /\ mem[p] = None
    BY <1>1, <1>3, <2>1 DEF Busy, Knows
  <2> HIDE DEF c
  <2>6. /\ Goes(job[w], job'[w], "write", "save") /\ job'[w].list[p] = c /\ job'[w].cred = c
        /\ \A q \in Provider : q # p => job'[w].list[q] = mem[q]
    BY <1>2, <2>1, <2>3, <2>4, SaveJob
  <2>7. Knows(job'[w], mem)
    BY <1>1, <2>5, <2>6 DEF Knows, Goes, Saving
  <2> QED BY <1>2, <2>1, <2>3, <2>5, <2>7, SaveAdvances
<1>8. ASSUME ImportSaved(w) PROVE Advances(w)
  <2>1. /\ job[w].pc = "saved" /\ job[w].stage = "save" /\ Assign(w) /\ UNCHANGED acked
        /\ Sync(w, "sync", job[w].list, {}, {})
    BY <1>8 DEF ImportSaved, Running, ghost
  <2>2. Busy(job[w]) /\ {} \in SUBSET Provider
    BY <2>1 DEF Busy
  <2>3. Others(w) /\ Goes(job[w], job'[w], "read", "sync") /\ tail' = tail /\ job'[w].cred = job[w].cred
    <3>1. JobTypes
      OBVIOUS
    <3> HIDE DEF Types, p
    <3> QED BY <1>2, <1>4, <2>1, <2>2, <3>1, SyncJob
  <2>4. Knows(job'[w], job[w].list)
    BY <1>1, <1>3, <1>4, <2>1, <2>2, <2>3 DEF Knows, Goes
  <2> QED BY <1>2, <1>4, <2>1, <2>2, <2>3, <2>4, AssignAdvances
<1>9. ASSUME ImportSynced(w) PROVE Advances(w)
  <2>1. /\ job[w].pc = "synced" /\ job[w].stage = "sync" /\ Await(w, "probe", "probe")
        /\ UNCHANGED <<mem, disk, tmp, acked>>
    BY <1>9 DEF ImportSynced, Running, store, ghost
  <2>2. Busy(job[w]) /\ job[w].pc # "saved"
    BY <2>1 DEF Busy
  <2>3. Others(w) /\ Goes(job[w], job'[w], "probe", "probe") /\ UNCHANGED tail /\ job'[w].cred = job[w].cred
    BY <1>4, <2>1, AwaitJob
  <2>4. Knows(job'[w], mem)
    BY <1>1, <1>3, <1>4, <2>1, <2>2, <2>3 DEF Knows, Goes
  <2> QED BY <1>4, <2>1, <2>2, <2>3, <2>4, QuietAdvances
<1>10. ASSUME ImportReady(w) PROVE Advances(w)
  <2>1. /\ job[w].pc = "probed" /\ job[w].stage = "probe" /\ Acknowledge(p, job[w].cred) /\ Release(w)
        /\ UNCHANGED <<mem, disk>>
    BY <1>10 DEF ImportReady, Running, store
  <2>2. mem[p] = job[w].cred
    BY <1>1, <1>3, <2>1 DEF Busy, Knows
  <2> QED BY <1>2, <2>1, <2>2, EndAdvances
<1>11. ASSUME ImportUndone(w) PROVE Advances(w)
  <2>1. /\ job[w].pc = "call" /\ Release(w) /\ UNCHANGED <<mem, disk>>
        /\ (job[w].stage = "undoFile" /\ Acknowledge(p, None)) \/ UNCHANGED acked
    BY <1>11 DEF ImportUndone, Running, store, ghost
  <2>2. job[w].stage = "undoFile" => mem[p] = None
    BY <1>1, <1>3, <2>1 DEF Busy, Knows
  <2>3. job[w].pc # "saved"
    BY <2>1
  <2> QED BY <1>2, <2>1, <2>2, <2>3, EndAdvances
<1>12. ASSUME ImportUndoSaved(w) PROVE Advances(w)
  <2>1. /\ job[w].pc = "saved" /\ job[w].stage = "undoSave" /\ Assign(w) /\ UNCHANGED acked
        /\ Await(w, "call", "undoFile")
    BY <1>12 DEF ImportUndoSaved, Running, ghost
  <2>2. Busy(job[w])
    BY <2>1 DEF Busy
  <2>3. Others(w) /\ Goes(job[w], job'[w], "call", "undoFile") /\ tail' = tail
    BY <1>4, <2>1, AwaitJob
  <2>4. Knows(job'[w], job[w].list)
    BY <1>1, <1>3, <1>4, <2>1, <2>2, <2>3 DEF Knows, Goes
  <2> QED BY <1>2, <1>4, <2>1, <2>2, <2>3, <2>4, AssignAdvances
<1>13. ASSUME ImportThrown(w) PROVE Advances(w)
  <2>1. job[w].pc = "thrown" /\ UNCHANGED <<mem, disk, tmp>>
    BY <1>13 DEF ImportThrown, store
  <2>2. Knows(job[w], mem) /\ acked[p] = Unknown /\ job[w].pc # "saved" /\ Busy(job[w])
    BY <1>3, <2>1 DEF Busy
  <2>3. \/ job[w].stage = "import" /\ Release(w) /\ Acknowledge(p, None)
        \/ Save(w, "undoSave", p, None) /\ UNCHANGED acked
        \/ Await(w, "call", "undoFileOnly") /\ UNCHANGED acked
        \/ /\ job[w].stage \notin {"import", "undoSave"}
           /\ ~(job[w].stage \in {"save", "sync", "probe"} /\ mem[p] # None)
           /\ Await(w, "call", "undoFile") /\ UNCHANGED acked
    BY <1>13 DEF ImportThrown, ghost
  <2>4. CASE job[w].stage = "import" /\ Release(w) /\ Acknowledge(p, None)
    <3>1. mem[p] = None
      BY <1>1, <2>2, <2>4 DEF Knows
    <3> QED BY <1>2, <2>1, <2>2, <2>4, <3>1, EndAdvances
  <2>5. CASE Save(w, "undoSave", p, None) /\ UNCHANGED acked
    <3>1. /\ Goes(job[w], job'[w], "write", "undoSave") /\ job'[w].list[p] = None
          /\ \A q \in Provider : q # p => job'[w].list[q] = mem[q]
      BY <1>2, <2>5, SaveJob
    <3>2. Knows(job'[w], mem)
      BY <1>1, <3>1 DEF Knows, Goes, Saving
    <3> QED BY <1>2, <2>1, <2>2, <2>5, <3>2, SaveAdvances
  <2>6. CASE /\ job[w].stage \notin {"import", "undoSave"}
             /\ ~(job[w].stage \in {"save", "sync", "probe"} /\ mem[p] # None)
             /\ Await(w, "call", "undoFile") /\ UNCHANGED acked
    <3>1. mem[p] = None
      BY <1>1, <2>1, <2>2, <2>6 DEF Knows, Saving
    <3>2. Others(w) /\ Goes(job[w], job'[w], "call", "undoFile") /\ UNCHANGED tail
      BY <1>4, <2>6, AwaitJob
    <3>3. Knows(job'[w], mem)
      BY <1>1, <1>4, <3>1, <3>2 DEF Knows, Goes
    <3> QED BY <1>4, <2>1, <2>2, <2>6, <3>2, <3>3, QuietAdvances
  <2>7. CASE Await(w, "call", "undoFileOnly") /\ UNCHANGED acked
    <3>1. Others(w) /\ Goes(job[w], job'[w], "call", "undoFileOnly") /\ UNCHANGED tail
      BY <1>4, <2>7, AwaitJob
    <3>2. Knows(job'[w], mem)
      BY <1>1, <1>4, <3>1 DEF Knows, Goes
    <3> QED BY <1>4, <2>1, <2>2, <2>7, <3>1, <3>2, QuietAdvances
  <2> QED BY <2>3, <2>4, <2>5, <2>6, <2>7
<1> QED BY <1>5, <1>6, <1>7, <1>8, <1>9, <1>10, <1>11, <1>12, <1>13 DEF ImportCredential

LEMMA ReconcileAdvances ==
  ASSUME Types, KeptInv, NEW w \in Worker, Working(w), Reconcile(w) \/ CheckProviders(w)
  PROVE  Advances(w)
<1> USE DEF Types
<1> DEFINE p == job[w].prov
           ops3 == {"reconcile", "reconcileProvider", "semanticReadiness"}
<1>1. job[w].op \in ops3 /\ job[w].pc # "idle"
  BY DEF Reconcile, ReconcileBegin, RepairList, ReconcileSaved, ReconcileHealth, ReconcileThrown,
         CheckProviders, CheckBegin, CheckHealth, CheckThrown, MyTurn, Running
<1>2. job[w] \in JobType /\ job[w].list \in Payload /\ mem \in Payload /\ {} \in SUBSET Provider
  BY JobOf DEF StoreTypes
<1>3. Busy(job[w]) => Knows(job[w], mem)
  BY StoreIs
<1>4. /\ {"call", "thrown"} \subseteq Step
      /\ {"call", "thrown", "read"} \cap (Saving \cup {"idle", "queued"}) = {}
      /\ {"repair", "sync", "bind"} \subseteq Stages
  BY DEF Step, Saving, Stages
<1>5. ASSUME Sync(w, "sync", mem, {}, {}), UNCHANGED <<mem, disk, tmp, acked>>, job[w].pc # "saved"
      PROVE  Advances(w)
  <2>1. Others(w) /\ Goes(job[w], job'[w], "read", "sync") /\ UNCHANGED tail
    <3>1. JobTypes
      OBVIOUS
    <3> HIDE DEF Types, p
    <3> QED BY <1>2, <1>4, <1>5, <3>1, SyncJob
  <2>2. Knows(job'[w], mem)
    BY <1>1, <1>4, <2>1 DEF Knows, Goes
  <2>3. Busy(job[w]) \/ job[w].op \notin {"put", "delete", "import"}
    BY <1>1
  <2> QED BY <1>4, <1>5, <2>1, <2>2, <2>3, QuietAdvances
<1>6. ASSUME NEW j, job' = [job EXCEPT ![w] = j], Goes(job[w], j, "call", "repair") \/ Goes(job[w], j, "call", "bind")
             \/ (j.pc = "call" /\ j.stage = "repair" /\ j.op = job[w].op), job[w].op = "reconcile",
             Still, UNCHANGED <<mem, disk, tmp, acked>>, job[w].pc # "saved"
      PROVE  Advances(w)
  <2>1. Others(w) /\ job'[w] = j /\ tail' = tail
    BY <1>6 DEF Others, JobTypes, Still
  <2>2. j.pc = "call" /\ j.stage \in {"repair", "bind"} /\ j.op = "reconcile"
    BY <1>6 DEF Goes
  <2>3. Knows(j, mem) /\ Busy(j)
    BY <2>2 DEF Knows, Saving, Busy
  <2>4. disk = mem
    BY <1>6, StoreIs
  <2>5. Local(j, mem', disk', tmp', acked')
    BY <1>6, <2>2, <2>3, <2>4 DEF Local, Saving
  <2>6. StillKept
    BY <1>6 DEF StillKept, KeptInv, Kept
  <2> QED BY <1>6, <2>1, <2>2, <2>3, <2>5, <2>6 DEF Advances, Continues
<1>7. ASSUME ReconcileBegin(w) PROVE Advances(w)
  <2>1. job[w].pc = "queued" /\ job[w].op = "reconcile" /\ UNCHANGED <<mem, disk, tmp, acked>>
    BY <1>7 DEF ReconcileBegin, MyTurn, store, ghost
  <2>2. CASE Sync(w, "sync", mem, {}, {})
    BY <1>5, <2>1, <2>2
  <2>3. ASSUME NEW q, SetsTarget(w, "call", "repair", q, mem[q]), Still PROVE Advances(w)
    <3> DEFINE j == [job[w] EXCEPT !.pc = "call", !.stage = "repair", !.prov = q, !.cred = mem[q]]
    <3>1. job' = [job EXCEPT ![w] = j]
      BY <2>3 DEF JobTypes, SetsTarget
    <3>2. j.pc = "call" /\ j.stage = "repair" /\ j.op = job[w].op
      BY <1>2 DEF JobType
    <3> HIDE DEF j
    <3>3. job[w].pc # "saved"
      BY <2>1
    <3> QED BY <1>6, <2>1, <2>3, <3>1, <3>2, <3>3
  <2>4. Sync(w, "sync", mem, {}, {}) \/ \E q : SetsTarget(w, "call", "repair", q, mem[q]) /\ Still
    BY <1>7 DEF ReconcileBegin, SetsTarget
  <2> QED BY <2>2, <2>3, <2>4
<1>8. ASSUME RepairList(w) PROVE Advances(w)
  <2>1. /\ job[w].pc = "call" /\ job[w].stage = "repair" /\ job[w].op = "reconcile"
        /\ UNCHANGED <<mem, disk, tmp, acked>>
    BY <1>8 DEF RepairList, Running, store, ghost
  <2>2. job[w].pc # "saved" /\ Busy(job[w])
    BY <2>1 DEF Busy
  <2>3. CASE Sync(w, "sync", mem, {}, {})
    BY <1>5, <2>1, <2>2, <2>3
  <2>4. CASE Await(w, "thrown", "repair")
    <3>1. Others(w) /\ Goes(job[w], job'[w], "thrown", "repair") /\ UNCHANGED tail
      BY <1>4, <2>4, AwaitJob
    <3>2. Knows(job'[w], mem)
      BY <1>4, <2>1, <3>1 DEF Knows, Goes
    <3> QED BY <1>4, <2>1, <2>2, <3>1, <3>2, QuietAdvances
  <2>5. ASSUME NEW f, SetsRef(w, "bind", f), Still PROVE Advances(w)
    <3> DEFINE c == [job[w].cred EXCEPT !.ref = f]
               j == [job[w] EXCEPT !.stage = "bind", !.cred = c]
    <3>1. job' = [job EXCEPT ![w] = j]
      BY <2>5, JobOf DEF JobTypes, SetsRef
    <3> HIDE DEF c
    <3>2. j.pc = job[w].pc /\ j.stage = "bind" /\ j.op = job[w].op /\ j.prov = job[w].prov /\ j.sid = job[w].sid
      BY <1>2 DEF JobType
    <3> HIDE DEF j
    <3>3. Goes(job[w], j, "call", "bind")
      BY <2>1, <3>2 DEF Goes
    <3> QED BY <1>6, <2>1, <2>2, <2>5, <3>1, <3>3
  <2>6. Sync(w, "sync", mem, {}, {}) \/ Await(w, "thrown", "repair") \/ \E f : SetsRef(w, "bind", f) /\ Still
    BY <1>8 DEF RepairList, SetsRef
  <2> QED BY <2>3, <2>4, <2>5, <2>6
<1>9. ASSUME ReconcileSaved(w) PROVE Advances(w)
  <2>1. /\ job[w].pc = "saved" /\ job[w].stage = "save" /\ job[w].op = "reconcile" /\ Assign(w)
        /\ Acknowledge(p, job[w].cred) /\ Sync(w, "sync", job[w].list, {}, {})
    BY <1>9 DEF ReconcileSaved, Running
  <2>2. Busy(job[w])
    BY <2>1 DEF Busy
  <2>3. p \in Provider
    BY <2>1, JobOf DEF JobOK
  <2>4. job[w].list[p] = job[w].cred
    BY <1>3, <2>1, <2>2 DEF Knows
  <2>5. Others(w) /\ Goes(job[w], job'[w], "read", "sync") /\ tail' = tail
    <3>1. JobTypes
      OBVIOUS
    <3> HIDE DEF Types, p
    <3> QED BY <1>2, <1>4, <2>1, <3>1, SyncJob
  <2>6. Knows(job'[w], job[w].list)
    BY <1>4, <2>1, <2>5 DEF Knows, Goes
  <2> QED BY <1>4, <2>1, <2>3, <2>4, <2>5, <2>6, AssignAdvances
<1>10. ReconcileHealth(w) \/ ReconcileThrown(w) \/ CheckHealth(w) \/ CheckThrown(w) => Advances(w)
  <2>1. ASSUME Release(w), UNCHANGED <<mem, disk, acked>>, job[w].pc # "saved" PROVE Advances(w)
    BY <2>1, EndAdvances
  <2> QED BY <2>1 DEF ReconcileHealth, ReconcileThrown, CheckHealth, CheckThrown, Running, store, ghost
<1>11. ASSUME CheckBegin(w) PROVE Advances(w)
  <2>1. job[w].pc = "queued" /\ UNCHANGED <<mem, disk, tmp, acked>> /\ job[w].pc # "saved"
    BY <1>11 DEF CheckBegin, MyTurn, store, ghost
  <2>2. CASE Release(w)
    BY <2>1, <2>2, EndAdvances
  <2>3. CASE Sync(w, "sync", mem, {}, {})
    BY <1>5, <2>1, <2>3
  <2> QED BY <1>11, <2>2, <2>3 DEF CheckBegin
<1> QED BY <1>7, <1>8, <1>9, <1>10, <1>11 DEF Reconcile, CheckProviders

(* A request or the timer joins the line behind whoever is running.          *)
LEMMA CallKeeps ==
  ASSUME Types, KeptInv, NEW w \in Worker, NEW op \in AllOps \cup {"reconcile"}, op \notin OAuthOps,
         NEW p \in Provider \cup {None}, NEW c \in CredType \cup {None}, NEW s \in Session \cup {None},
         Call(w, op, p, c, s), UNCHANGED <<mem, disk, tmp, acked>>
  PROVE  KeptInv'
<1>1. Others(w) /\ job'[w].pc = "queued" /\ job'[w].op = op /\ tail' = Append(tail, w) /\ job[w].pc = "idle"
  BY CallJob DEF Types, Call
<1>2. \A v \in Worker : Busy(job'[v]) <=> Busy(job[v])
  BY <1>1 DEF Others, Busy
<1>3. \A v \in Worker : Busy(job'[v]) => job'[v] = job[v]
  BY <1>1, <1>2 DEF Others, Busy
<1>4. \A v \in Worker : Busy(job[v])' <=> Busy(job'[v])
  BY DEF Busy
<1>5. tail' \in Seq(Worker) /\ tail' # << >> /\ (tail # << >> => Head(tail') = Head(tail))
  BY <1>1 DEF KeptInv, Turns
<1>6. Turns'
  BY <1>2, <1>4, <1>5 DEF KeptInv, Turns
<1>7. \A v \in Worker : job'[v].pc # "idle" => job'[v].op \notin OAuthOps
  BY <1>1 DEF KeptInv, Others
<1>8. \A v \in Worker : Local(job'[v], mem', disk', tmp', acked')
  BY <1>3 DEF KeptInv, Local
<1>9. (\A v \in Worker : ~Busy(job'[v])) => mem' = disk'
  BY <1>2 DEF KeptInv
<1>10. \A q \in Provider : Kept(q)'
  BY DEF KeptInv, Kept
<1> QED BY <1>4, <1>6, <1>7, <1>8, <1>9, <1>10 DEF KeptInv

(* What neither the jobs nor the store take part in.                         *)
LEMMA OutsideKeeps ==
  ASSUME KeptInv, UNCHANGED <<mem, disk, tmp, acked, tail, job>>
  PROVE  KeptInv'
BY DEF KeptInv, Turns, Local, Knows, Busy, Kept

(* A restart loads the file: between the rename and the assignment it is the *)
(* file that is right, and the Provider of that write is undecided.          *)
LEMMA CrashKeeps == ASSUME Types, KeptInv, Crash PROVE KeptInv'
<1>1. mem' = disk /\ UNCHANGED <<disk, tmp, acked>> /\ tail' = <<Timer>>
  BY DEF Crash, ghost
<1>2. Timer \in Worker
  BY ControlAssumption
<1>3. \A v \in Worker : ~Busy(job'[v]) /\ (job'[v].pc # "idle" => job'[v].op \notin OAuthOps)
  BY DEF Crash, Busy, Idle, OAuthOps
<1>4. \A v \in Worker : Busy(job[v])' <=> Busy(job'[v])
  BY DEF Busy
<1>5. Turns'
  BY <1>1, <1>2, <1>3, <1>4 DEF Turns
<1>6. \A v \in Worker : Local(job'[v], mem', disk', tmp', acked')
  BY <1>3 DEF Local
<1>7. \A q \in Provider : Kept(q)'
  BY <1>1 DEF KeptInv, Kept
<1> QED BY <1>1, <1>3, <1>4, <1>5, <1>6, <1>7 DEF KeptInv

LEMMA KeptInit == ASSUME Init PROVE KeptInv
<1>1. Turns
  BY DEF Init, Turns, Busy, Idle
<1>2. \A w \in Worker : job[w].pc = "idle" /\ ~Busy(job[w])
  BY DEF Init, Busy, Idle
<1>3. mem = disk /\ \A p \in Provider : Kept(p)
  BY DEF Init, Kept
<1> QED BY <1>1, <1>2, <1>3 DEF KeptInv, Local

LEMMA KeptNext == ASSUME Types, NoLogins, KeptInv, [Next]_vars PROVE KeptInv'
<1>1. ASSUME NEW w \in Worker, Request(w) PROVE KeptInv'
  <2>1. PICK op \in AllOps, p \in Provider, c \in CredType \cup {None}, s \in Session \cup {None} :
          RequestOf(w, op, p, c, s)
    BY <1>1, Requests
  <2>2. op \notin OAuthOps /\ Call(w, op, p, c, s)
    BY <2>1 DEF RequestOf, NoLogins
  <2>3. UNCHANGED <<mem, disk, tmp, acked>>
    BY <1>1 DEF Request, store, ghost
  <2> QED BY <2>2, <2>3, CallKeeps
<1>2. ASSUME NEW w \in Worker, Work(w) PROVE KeptInv'
  <2>1. Working(w)
    BY <1>2, WorkingAlone DEF Working
  <2>2. ~OAuthOperation(w)
    <3>1. OAuthOperation(w) => job[w].op \in OAuthOps
      BY DEF OAuthOperation, StartOAuthBegin, StartOAuthReply, SessionBegin, PostCallback, CallbackAccepted,
             StatusReply, Discover, StatusSaved, StatusSynced, StatusReady, SessionThrown, MyTurn, Running, OAuthOps
    <3> QED BY <2>1, <3>1 DEF Working
  <2>3. Advances(w)
    BY <1>2, <2>1, <2>2, MachineryAdvances, PutAdvances, DeleteAdvances, ImportAdvances, ReconcileAdvances DEF Work
  <2> QED BY <2>1, <2>3, Advance DEF Working
<1>3. ASSUME ScheduledReconcile PROVE KeptInv'
  <2>1. Call(Timer, "reconcile", None, None, None) /\ Timer \in Worker /\ "reconcile" \notin OAuthOps
    BY <1>3, ControlAssumption DEF ScheduledReconcile, OAuthOps
  <2>2. UNCHANGED <<mem, disk, tmp, acked>>
    BY <1>3 DEF ScheduledReconcile, store, ghost
  <2> QED BY <2>1, <2>2, CallKeeps
<1>4. Crash => KeptInv'
  BY CrashKeeps
<1>5. ((\E s \in Session : Login(s) \/ Expire(s)) \/ (\E p \in Provider : Rotate(p)) \/ Refresh)
        => UNCHANGED <<mem, disk, tmp, acked, tail, job>>
  BY DEF Login, Expire, Rotate, Refresh, store, ghost
<1>6. UNCHANGED vars => UNCHANGED <<mem, disk, tmp, acked, tail, job>>
  BY DEF vars, store, ghost
<1> QED BY <1>1, <1>2, <1>3, <1>4, <1>5, <1>6, OutsideKeeps DEF Next

(* What the service told an admin - a saved, imported or deleted credential, *)
(* or the one it rolled back to - is in memory and in the file a restart     *)
(* loads, however requests, failures and crashes fall, as long as no login   *)
(* runs next to the line.                                                    *)
THEOREM AcknowledgedIsKept == Spec => []AcknowledgedKept
<1> DEFINE I == Types /\ (NoLogins => KeptInv)
<1>1. Init => I
  BY TypesInit, KeptInit
<1>2. I /\ [Next]_vars => I'
  <2>1. [Next]_vars => (NoLogins' <=> NoLogins)
    BY SetupKept DEF NoLogins
  <2> QED BY <2>1, TypesNext, KeptNext
<1>3. I => AcknowledgedKept
  BY DEF NoLogins, AcknowledgedKept, KeptInv
<1> QED BY <1>1, <1>2, <1>3, PTL DEF Spec

-----------------------------------------------------------------------------
(* The OAuth sessions, in every setup: the operations of one Provider run    *)
(* one at a time, and each knows the session it is about.                    *)

Open == {"awaiting_callback", "callback_accepted"}

(* An OAuth operation between two awaits is the first in its Provider's line. *)
OAuthTurns ==
  /\ oauthTails \in [Provider -> Seq(Worker)]
  /\ \A w \in Worker : Busy(job[w]) /\ job[w].op \in OAuthOps =>
       oauthTails[job[w].prov] # << >> /\ Head(oauthTails[job[w].prov]) = w

(* A queued request's session was opened for its Provider; the session of a  *)
(* running one is the Provider's active session, in the phase the operation  *)
(* found it in, and its callback is forwarded by this operation or was not.  *)
Attends(j, se, ac, po) ==
  /\ j.pc # "idle" /\ j.op \in {"submitOAuthCallback", "oauthStatus"} =>
       se[j.sid].prov = j.prov /\ se[j.sid].phase # "none"
  /\ Busy(j) /\ j.op \in OAuthOps =>
       /\ se[j.sid].prov = j.prov /\ ac[j.prov] = j.sid
       /\ j.op = "startOAuth" =>
            j.pc = "call" /\ j.stage = "start" /\ se[j.sid].phase = "starting"
       /\ j.op = "submitOAuthCallback" =>
            /\ j.stage = "submitOAuthCallback" /\ j.pc \in {"call", "posted", "thrown"}
            /\ se[j.sid].phase = "awaiting_callback"
            /\ j.pc = "call" => po[j.sid] = 0
       /\ j.op = "oauthStatus" => se[j.sid].phase \in Open

Posting(j, s) == j.op = "submitOAuthCallback" /\ j.sid = s /\ j.pc \in {"posted", "thrown"}

(* A callback was forwarded for a session only when it was accepted or is    *)
(* being submitted, and an open session is its Provider's active one.        *)
SessionOK(s, jobs, se, ac, po) ==
  /\ po[s] \in {0, 1}
  /\ se[s].phase \in {"none", "starting"} => po[s] = 0
  /\ se[s].phase = "awaiting_callback" /\ (\A w \in Worker : ~Posting(jobs[w], s)) => po[s] = 0
  /\ se[s].phase \in Open /\ ~se[s].expired => ac[se[s].prov] = s

ActiveOK(p, se, ac) == ac[p] # None => se[ac[p]].phase # "none" /\ se[ac[p]].prov = p

Counted == posted \in [Session -> Nat]

OAuthInv ==
  /\ OAuthTurns
  /\ \A w \in Worker : Attends(job[w], sess, active, posted)
  /\ \A s \in Session : SessionOK(s, job, sess, active, posted)
  /\ \A p \in Provider : ActiveOK(p, sess, active)

(* The worker is first in its Provider's line.                               *)
First(w) ==
  /\ job[w].op \in OAuthOps /\ job[w].prov \in Provider
  /\ oauthTails[job[w].prov] # << >> /\ Head(oauthTails[job[w].prov]) = w

LEMMA IsFirst ==
  ASSUME Types, OAuthInv, NEW w \in Worker, Work(w), job[w].op \in OAuthOps
  PROVE  First(w)
<1>1. Busy(job[w]) \/ MyTurn(w, job[w].op)
  BY Runs
<1>2. job[w].pc # "idle" /\ job[w].op # "reconcile"
  BY <1>1 DEF Busy, MyTurn, OAuthOps
<1>3. job[w].prov \in Provider
  BY <1>2 DEF Types, JobTypes, JobOK
<1> QED BY <1>1, <1>3 DEF First, OAuthInv, OAuthTurns, MyTurn

(* Where the call stands after its step, in its Provider's line.             *)
Stays(w) ==
  /\ Others(w) /\ Busy(job'[w]) /\ oauthTails' = oauthTails
  /\ job'[w].op = job[w].op /\ job'[w].prov = job[w].prov

Leaves(w) ==
  /\ Others(w) /\ job'[w] = Idle
  /\ oauthTails' = [oauthTails EXCEPT ![job[w].prov] = Tail(@)]

(* An OAuth step is about its own Provider only.                             *)
Focused(p) ==
  /\ \A q \in Provider : q # p => active'[q] = active[q]
  /\ \A s \in Session :
       /\ sess[s].phase # "none" => sess'[s].prov = sess[s].prov /\ sess'[s].phase # "none"
       /\ sess'[s].prov # p => sess'[s] = sess[s] /\ posted'[s] = posted[s]

LEMMA FocusedKeeps ==
  ASSUME Types, OAuthInv, NEW w \in Worker, First(w), Stays(w) \/ Leaves(w), Focused(job[w].prov),
         Attends(job'[w], sess', active', posted'), active' \in [Provider -> Session \cup {None}],
         \A s \in Session : sess'[s].prov = job[w].prov => SessionOK(s, job', sess', active', posted'),
         ActiveOK(job[w].prov, sess', active')
  PROVE  OAuthInv'
<1> DEFINE p == job[w].prov
<1>0. p \in Provider /\ Others(w)
  BY DEF First, Stays, Leaves
<1>1. ASSUME NEW v \in Worker, v # w, Busy(job[v]), job[v].op \in OAuthOps
      PROVE  /\ job[v].prov # p /\ job[v].prov \in Provider /\ job[v].sid \in Session
             /\ sess[job[v].sid].prov = job[v].prov /\ sess[job[v].sid].phase # "none"
  <2>1. job[v].prov # p
    BY <1>1 DEF First, OAuthInv, OAuthTurns
  <2>2. HasSession(job[v]) /\ job[v].pc # "idle" /\ job[v].op # "reconcile"
    BY <1>1 DEF HasSession, OAuthOps, Busy
  <2>3. job[v].prov \in Provider /\ job[v].sid \in Session
    BY <2>2 DEF Types, JobTypes, JobOK, SessionTypes
  <2>4. Attends(job[v], sess, active, posted)
    BY DEF OAuthInv
  <2>5. sess[job[v].sid].prov = job[v].prov /\ sess[job[v].sid].phase # "none"
    BY <1>1, <2>2, <2>4 DEF Attends, OAuthOps
  <2> QED BY <2>1, <2>3, <2>5
<1>2. OAuthTurns'
  <2>1. oauthTails' \in [Provider -> Seq(Worker)] /\ \A q \in Provider : q # p => oauthTails'[q] = oauthTails[q]
    <3>1. oauthTails \in [Provider -> Seq(Worker)]
      BY DEF OAuthInv, OAuthTurns
    <3>2. Tail(oauthTails[p]) \in Seq(Worker)
      BY <1>0, <3>1, HeadTailProperties DEF First
    <3>3. oauthTails' = oauthTails \/ oauthTails' = [oauthTails EXCEPT ![p] = Tail(oauthTails[p])]
      BY DEF Stays, Leaves
    <3> HIDE DEF p
    <3> QED BY <1>0, <3>1, <3>2, <3>3
  <2>2. ASSUME NEW v \in Worker, Busy(job'[v]), job'[v].op \in OAuthOps
        PROVE  oauthTails'[job'[v].prov] # << >> /\ Head(oauthTails'[job'[v].prov]) = v
    <3>1. CASE v # w
      <4>1. job'[v] = job[v]
        BY <1>0, <3>1 DEF Others
      <4> QED BY <1>1, <2>1, <2>2, <3>1, <4>1 DEF OAuthInv, OAuthTurns
    <3>2. CASE v = w
      BY <2>2, <3>2 DEF Stays, Leaves, First, Idle, Busy
    <3> QED BY <3>1, <3>2
  <2>3. \A v \in Worker : Busy(job[v])' <=> Busy(job'[v])
    BY DEF Busy
  <2> QED BY <2>1, <2>2, <2>3 DEF OAuthTurns
<1>3. ASSUME NEW v \in Worker PROVE Attends(job'[v], sess', active', posted')
  <2>1. CASE v = w
    BY <2>1
  <2>2. CASE v # w
    <3> DEFINE j == job[v]
    <3>1. job'[v] = j /\ Attends(j, sess, active, posted)
      BY <1>0, <2>2 DEF Others, OAuthInv
    <3>2. CASE ~Busy(j) \/ j.op \notin OAuthOps
      <4>1. ASSUME j.pc # "idle", j.op \in {"submitOAuthCallback", "oauthStatus"}
            PROVE  sess'[j.sid].prov = j.prov /\ sess'[j.sid].phase # "none"
        <5>1. sess[j.sid].prov = j.prov /\ sess[j.sid].phase # "none"
          BY <3>1, <4>1 DEF Attends
        <5>2. j.sid \in Session
          BY <4>1 DEF Types, SessionTypes, HasSession
        <5>3. j.sid \in Session => sess'[j.sid].prov = j.prov /\ sess'[j.sid].phase # "none"
          BY <5>1 DEF Focused
        <5> QED BY <5>2, <5>3
      <4> QED BY <3>1, <3>2, <4>1 DEF Attends
    <3>3. CASE Busy(j) /\ j.op \in OAuthOps
      <4>1. /\ j.prov # p /\ j.prov \in Provider /\ j.sid \in Session
            /\ sess[j.sid].prov = j.prov /\ sess[j.sid].phase # "none"
        BY <1>1, <2>2, <3>3
      <4>2. sess'[j.sid] = sess[j.sid] /\ posted'[j.sid] = posted[j.sid] /\ active'[j.prov] = active[j.prov]
        BY <4>1 DEF Focused
      <4> QED BY <3>1, <4>2 DEF Attends
    <3> QED BY <3>2, <3>3
  <2> QED BY <2>1, <2>2
<1>4. ASSUME NEW s \in Session PROVE SessionOK(s, job', sess', active', posted')
  <2>1. CASE sess'[s].prov = p
    BY <2>1
  <2>2. CASE sess'[s].prov # p
    <3>1. sess'[s] = sess[s] /\ posted'[s] = posted[s] /\ SessionOK(s, job, sess, active, posted)
      BY <2>2 DEF Focused, OAuthInv
    <3>2. sess[s].phase \in Open => active'[sess[s].prov] = active[sess[s].prov]
      BY <2>2, <3>1 DEF Focused, Open, Types, SessionTypes
    <3>3. ~Posting(job[w], s)
      <4>1. Attends(job[w], sess, active, posted)
        BY DEF OAuthInv
      <4> QED BY <2>2, <3>1, <4>1 DEF Posting, Attends
    <3>4. (\A v \in Worker : ~Posting(job'[v], s)) => \A v \in Worker : ~Posting(job[v], s)
      BY <1>0, <3>3 DEF Others
    <3> QED BY <3>1, <3>2, <3>4 DEF SessionOK
  <2> QED BY <2>1, <2>2
<1>5. ASSUME NEW q \in Provider PROVE ActiveOK(q, sess', active')
  <2>1. CASE q # p
    <3>1. active'[q] = active[q] /\ ActiveOK(q, sess, active) /\ active[q] \in Session \cup {None}
      BY <2>1 DEF Focused, OAuthInv, Types, OtherTypes
    <3> QED BY <3>1 DEF Focused, ActiveOK
  <2> QED BY <2>1
<1>6. /\ \A v \in Worker : Attends(job[v], sess, active, posted)' <=> Attends(job'[v], sess', active', posted')
      /\ \A s \in Session : SessionOK(s, job, sess, active, posted)' <=> SessionOK(s, job', sess', active', posted')
      /\ \A q \in Provider : ActiveOK(q, sess, active)' <=> ActiveOK(q, sess', active')
  OBVIOUS
<1> QED BY <1>2, <1>3, <1>4, <1>5, <1>6 DEF OAuthInv

(* The running operation's session, and the Provider's others: none of them  *)
(* is open, and none is having its callback submitted.                       *)
LEMMA Mine ==
  ASSUME Types, OAuthInv, NEW w \in Worker, First(w), Busy(job[w])
  PROVE  /\ job[w].sid \in Session /\ job[w].prov \in Provider
         /\ sess[job[w].sid].prov = job[w].prov /\ active[job[w].prov] = job[w].sid
         /\ sess[job[w].sid].phase \in Open \cup {"starting"}
         /\ Attends(job[w], sess, active, posted)
         /\ SessionOK(job[w].sid, job, sess, active, posted)
         /\ \A t \in Session : t # job[w].sid /\ sess[t].prov = job[w].prov =>
              /\ posted[t] \in {0, 1}
              /\ sess[t].phase \in {"none", "starting", "awaiting_callback"} => posted[t] = 0
              /\ sess[t].phase \in Open => sess[t].expired
<1> DEFINE s == job[w].sid
           p == job[w].prov
<1>1. job[w].op \in OAuthOps /\ p \in Provider
  BY DEF First
<1>2. HasSession(job[w])
  BY <1>1 DEF HasSession, OAuthOps, Busy
<1>3. s \in Session
  BY <1>2 DEF Types, SessionTypes
<1>4. Attends(job[w], sess, active, posted)
  BY DEF OAuthInv
<1>5. sess[s].prov = p /\ active[p] = s /\ sess[s].phase \in Open \cup {"starting"}
  BY <1>1, <1>4 DEF Attends, OAuthOps, Open
<1>6. ASSUME NEW t \in Session, t # s, sess[t].prov = p, NEW v \in Worker PROVE ~Posting(job[v], t)
  <2>1. CASE v = w
    BY <1>6, <2>1 DEF Posting
  <2>2. CASE v # w
    <3>1. Posting(job[v], t) => Busy(job[v]) /\ job[v].op \in OAuthOps /\ job[v].sid = t
      BY DEF Posting, Busy, OAuthOps
    <3>2. Busy(job[v]) /\ job[v].op \in OAuthOps => job[v].prov # p
      BY <2>2 DEF OAuthInv, OAuthTurns, First
    <3>3. Attends(job[v], sess, active, posted)
      BY DEF OAuthInv
    <3> QED BY <1>6, <3>1, <3>2, <3>3 DEF Attends
  <2> QED BY <2>1, <2>2
<1>7. ASSUME NEW t \in Session, t # s, sess[t].prov = p
      PROVE  /\ posted[t] \in {0, 1}
             /\ sess[t].phase \in {"none", "starting", "awaiting_callback"} => posted[t] = 0
             /\ sess[t].phase \in Open => sess[t].expired
  <2>1. SessionOK(t, job, sess, active, posted)
    BY DEF OAuthInv
  <2>2. sess[t].expired \in BOOLEAN
    BY DEF Types, SessionTypes, SessionType
  <2> QED BY <1>5, <1>6, <1>7, <2>1, <2>2 DEF SessionOK
<1> QED BY <1>1, <1>3, <1>4, <1>5, <1>7 DEF OAuthInv

(* So a step that touches no session but its own has to answer for that one. *)
LEMMA OwnSession ==
  ASSUME Types, OAuthInv, NEW w \in Worker, First(w), Busy(job[w]), Stays(w) \/ Leaves(w),
         active' \in [Provider -> Session \cup {None}],
         \A q \in Provider : q # job[w].prov => active'[q] = active[q],
         active'[job[w].prov] \in {job[w].sid, None},
         \A t \in Session : t # job[w].sid => sess'[t] = sess[t] /\ posted'[t] = posted[t],
         sess'[job[w].sid].prov = job[w].prov, sess'[job[w].sid].phase # "none",
         Attends(job'[w], sess', active', posted'),
         SessionOK(job[w].sid, job', sess', active', posted')
  PROVE  OAuthInv'
<1> DEFINE s == job[w].sid
           p == job[w].prov
<1>1. /\ s \in Session /\ p \in Provider /\ sess[s].prov = p
      /\ \A t \in Session : t # s /\ sess[t].prov = p =>
              /\ posted[t] \in {0, 1}
              /\ sess[t].phase \in {"none", "starting", "awaiting_callback"} => posted[t] = 0
              /\ sess[t].phase \in Open => sess[t].expired
  BY Mine
<1>2. Focused(p)
  BY <1>1 DEF Focused
<1>3. ASSUME NEW t \in Session, sess'[t].prov = p PROVE SessionOK(t, job', sess', active', posted')
  <2>1. CASE t = s
    BY <2>1
  <2>2. CASE t # s
    BY <1>1, <1>3, <2>2 DEF SessionOK
  <2> QED BY <2>1, <2>2
<1>4. ActiveOK(p, sess', active')
  BY <1>1 DEF ActiveOK
<1> QED BY <1>2, <1>3, <1>4, FocusedKeeps

LEMMA IdleAttends == \A se, ac, po : Attends(Idle, se, ac, po)
BY DEF Attends, Idle, Busy

(* What the machinery does to the place of a call.                           *)
LEMMA Places ==
  ASSUME JobTypes, NEW w \in Worker
  PROVE  /\ \A pc, stage : Await(w, pc, stage) =>
              Others(w) /\ Goes(job[w], job'[w], pc, stage) /\ oauthTails' = oauthTails
         /\ \A stage, l, f, r : Sync(w, stage, l, f, r) =>
              Others(w) /\ Goes(job[w], job'[w], "read", stage) /\ oauthTails' = oauthTails
         /\ \A stage, p, c : Save(w, stage, p, c) =>
              Others(w) /\ Goes(job[w], job'[w], "write", stage) /\ oauthTails' = oauthTails
         /\ \A stage, c : SetsCred(w, stage, c) => Others(w) /\ Goes(job[w], job'[w], job[w].pc, stage)
<1>0. job \in [Worker -> JobType] /\ job[w] \in JobType
  BY DEF JobTypes
<1>1. ASSUME NEW j, NEW pc, NEW stage, job' = [job EXCEPT ![w] = j], Goes(job[w], j, pc, stage)
      PROVE  Others(w) /\ Goes(job[w], job'[w], pc, stage)
  BY <1>0, <1>1 DEF Others
<1>2. ASSUME NEW pc, NEW stage, Await(w, pc, stage)
      PROVE  Others(w) /\ Goes(job[w], job'[w], pc, stage) /\ oauthTails' = oauthTails
  <2> DEFINE j == [job[w] EXCEPT !.pc = pc, !.stage = stage]
  <2>1. job' = [job EXCEPT ![w] = j] /\ oauthTails' = oauthTails
    BY <1>0, <1>2 DEF Await, Still
  <2>2. Goes(job[w], j, pc, stage)
    BY <1>0 DEF JobType, Goes
  <2> HIDE DEF j
  <2> QED BY <1>1, <2>1, <2>2
<1>3. ASSUME NEW stage, NEW l, NEW f, NEW r, Sync(w, stage, l, f, r)
      PROVE  Others(w) /\ Goes(job[w], job'[w], "read", stage) /\ oauthTails' = oauthTails
  <2> DEFINE j == [job[w] EXCEPT !.pc = "read", !.stage = stage, !.list = l, !.force = f, !.remove = r]
  <2>1. job' = [job EXCEPT ![w] = j] /\ oauthTails' = oauthTails
    BY <1>0, <1>3 DEF Sync, Still
  <2>2. Goes(job[w], j, "read", stage)
    BY <1>0 DEF JobType, Goes
  <2> HIDE DEF j
  <2> QED BY <1>1, <2>1, <2>2
<1>4. ASSUME NEW stage, NEW p, NEW c, Save(w, stage, p, c)
      PROVE  Others(w) /\ Goes(job[w], job'[w], "write", stage) /\ oauthTails' = oauthTails
  <2> DEFINE l == [mem EXCEPT ![p] = c]
             x == IF stage = "save" THEN mem[p] ELSE job[w].prev
             y == IF stage = "save" /\ c # None THEN c ELSE job[w].cred
             j == [job[w] EXCEPT !.pc = "write", !.stage = stage, !.list = l, !.prev = x, !.cred = y]
  <2>1. job' = [job EXCEPT ![w] = j] /\ oauthTails' = oauthTails
    BY <1>0, <1>4 DEF Save, Still
  <2> HIDE DEF l, x, y
  <2>2. Goes(job[w], j, "write", stage)
    BY <1>0 DEF JobType, Goes
  <2> HIDE DEF j
  <2> QED BY <1>1, <2>1, <2>2
<1>5. ASSUME NEW stage, NEW c, SetsCred(w, stage, c)
      PROVE  Others(w) /\ Goes(job[w], job'[w], job[w].pc, stage)
  <2> DEFINE j == [job[w] EXCEPT !.stage = stage, !.cred = c]
  <2>1. job' = [job EXCEPT ![w] = j]
    BY <1>0, <1>5 DEF SetsCred
  <2>2. Goes(job[w], j, job[w].pc, stage)
    BY <1>0 DEF JobType, Goes
  <2> HIDE DEF j
  <2> QED BY <1>1, <2>1, <2>2
<1> QED BY <1>2, <1>3, <1>4, <1>5

LEMMA LeavesBy ==
  ASSUME JobTypes, NEW w \in Worker, Release(w), job[w].op \in OAuthOps
  PROVE  Leaves(w)
BY ReleaseJob DEF Release, Leaves

(* oauthStatus on its way: its session stays as it is.                       *)
LEMMA StatusGoes ==
  ASSUME Types, OAuthInv, NEW w \in Worker, First(w), Busy(job[w]), job[w].op = "oauthStatus",
         Others(w), oauthTails' = oauthTails, NEW pc, NEW stage, Goes(job[w], job'[w], pc, stage),
         pc \notin {"idle", "queued"}, UNCHANGED <<sess, active, posted>>
  PROVE  OAuthInv'
<1> DEFINE s == job[w].sid
<1>1. Stays(w) /\ job'[w].sid = s /\ job'[w].op = "oauthStatus"
  BY DEF Stays, Goes, Busy
<1>2. /\ s \in Session /\ job[w].prov \in Provider /\ sess[s].prov = job[w].prov /\ active[job[w].prov] = s
      /\ sess[s].phase \in Open \cup {"starting"}
      /\ Attends(job[w], sess, active, posted) /\ SessionOK(s, job, sess, active, posted)
  BY Mine
<1>3. Attends(job'[w], sess', active', posted')
  BY <1>1, <1>2 DEF Attends, Stays, Busy
<1>4. ASSUME NEW v \in Worker PROVE Posting(job[v], s) => Posting(job'[v], s)
  BY DEF Posting, Others
<1>5. SessionOK(s, job', sess', active', posted')
  BY <1>2, <1>4 DEF SessionOK
<1>6. active' \in [Provider -> Session \cup {None}] /\ sess[s].phase # "none"
  BY <1>2 DEF Types, OtherTypes, Open
<1> QED BY <1>1, <1>2, <1>3, <1>5, <1>6, OwnSession

LEMMA LeaveKeeps ==
  ASSUME Types, OAuthInv, NEW w \in Worker, First(w), Release(w), UNCHANGED <<sess, active, posted>>,
         job[w].op # "submitOAuthCallback" \/ job[w].pc = "queued"
  PROVE  OAuthInv'
<1>1. Leaves(w) /\ job[w].prov \in Provider
  BY LeavesBy DEF First, Types
<1>2. Focused(job[w].prov)
  BY DEF Focused
<1>3. ASSUME NEW s \in Session, NEW v \in Worker PROVE Posting(job[v], s) => Posting(job'[v], s)
  BY <1>1 DEF Posting, Leaves, Others
<1>4. ASSUME NEW s \in Session PROVE SessionOK(s, job', sess', active', posted')
  BY <1>3 DEF SessionOK, OAuthInv
<1>5. ActiveOK(job[w].prov, sess', active')
  BY <1>1 DEF OAuthInv, ActiveOK
<1>6. active' \in [Provider -> Session \cup {None}]
  BY DEF Types, OtherTypes
<1> QED BY <1>1, <1>2, <1>4, <1>5, <1>6, IdleAttends, FocusedKeeps DEF Leaves

LEMMA MachineryKeepsSessions ==
  ASSUME Types, OAuthInv, NEW w \in Worker, First(w),
         Replace(w) \/ CpaReconcile(w) \/ Probe(w) \/ Bind(w) \/ Bound(w)
  PROVE  OAuthInv'
<1> USE Places DEF Types
<1>1. /\ job[w].pc \in Step \ {"idle", "queued", "posted", "thrown"}
      /\ job[w].pc = "call" => job[w].stage = "bind"
      /\ UNCHANGED <<sess, active, posted>>
  <2> USE DEF Step
  <2>1. Replace(w) => /\ job[w].pc \in {"write", "rename"} /\ UNCHANGED <<sess, active, posted>>
    BY DEF Replace, ReplaceWrite, ReplaceRename, oauth, ghost
  <2>2. CpaReconcile(w) => /\ job[w].pc \in {"read", "unload", "absent", "put"} /\ UNCHANGED <<sess, active, posted>>
    BY DEF CpaReconcile, ReconcileRead, ReconcileUnload, ReconcileAbsent, ReconcilePut, oauth, ghost
  <2>3. Probe(w) => job[w].pc = "probe" /\ UNCHANGED <<sess, active, posted>>
    BY DEF Probe, oauth, ghost
  <2>4. Bind(w) => job[w].pc = "call" /\ job[w].stage = "bind" /\ UNCHANGED <<sess, active, posted>>
    BY DEF Bind, oauth, ghost
  <2>5. Bound(w) => job[w].pc = "bound" /\ UNCHANGED <<sess, active, posted>>
    BY DEF Bound, Undecided, oauth
  <2> QED BY <2>1, <2>2, <2>3, <2>4, <2>5
<1>2. Busy(job[w])
  BY <1>1 DEF Busy
<1>3. job[w].op = "oauthStatus"
  <2>1. Attends(job[w], sess, active, posted) /\ job[w].op \in OAuthOps
    BY DEF OAuthInv, First
  <2> QED BY <1>1, <1>2, <2>1 DEF Attends, OAuthOps
<1>4. \E pc \in Step \ {"idle", "queued"}, stage \in Stages :
        Others(w) /\ Goes(job[w], job'[w], pc, stage) /\ oauthTails' = oauthTails
  <2> USE JobOf DEF Step
  <2>1. Replace(w) => \E pc \in {"rename", "saved", "thrown"} : Await(w, pc, job[w].stage)
    BY DEF Replace, ReplaceWrite, ReplaceRename
  <2>2. CpaReconcile(w) => \E pc \in {"thrown", "put", "unload", "absent", "synced"} : Await(w, pc, job[w].stage)
    BY DEF CpaReconcile, ReconcileRead, ReconcileUnload, ReconcileAbsent, ReconcilePut
  <2>3. Probe(w) => \E pc \in {"probed", "thrown"} : Await(w, pc, job[w].stage)
    BY DEF Probe
  <2>4. Bind(w) => \E pc \in {"bound", "thrown"} : Await(w, pc, "bind")
    BY DEF Bind
  <2>5. Bound(w) => Save(w, "save", job[w].prov, Cred("oauth", job[w].cred.ref, clock))
    BY DEF Bound
  <2>6. {"save", "bind"} \subseteq Stages
    BY DEF Stages
  <2> QED BY <2>1, <2>2, <2>3, <2>4, <2>5, <2>6
<1>5. PICK pc \in Step \ {"idle", "queued"}, stage \in Stages :
        Others(w) /\ Goes(job[w], job'[w], pc, stage) /\ oauthTails' = oauthTails
  BY <1>4
<1> QED BY <1>1, <1>2, <1>3, <1>5, StatusGoes

(* A Provider's next session begins: the one it replaces was stale.          *)
LEMMA StartBeginKeeps ==
  ASSUME Types, OAuthInv, NEW w \in Worker, First(w), StartOAuthBegin(w)
  PROVE  OAuthInv'
<1> USE DEF Types
<1> DEFINE p == job[w].prov
           a == active[p]
<1>1. job[w].op = "startOAuth" /\ job[w].pc = "queued" /\ UNCHANGED posted
  BY DEF StartOAuthBegin, MyTurn, ghost
<1>2. ASSUME Release(w), UNCHANGED oauth PROVE OAuthInv'
  BY <1>1, <1>2, LeaveKeeps DEF oauth
<1>3. ASSUME NEW s \in Session,
             ~(a # None /\ ~Stale(a)), sess[s].phase = "none",
             sess' = [q \in Session |-> IF q = s THEN [sess[s] EXCEPT !.phase = "starting", !.prov = p]
                                        ELSE IF q = a THEN Forget(a)[a] ELSE sess[q]],
             active' = [active EXCEPT ![p] = s],
             job' = [job EXCEPT ![w].pc = "call", ![w].stage = "start", ![w].sid = s], Still
      PROVE  OAuthInv'
  <2> DEFINE r == [sess[s] EXCEPT !.phase = "starting", !.prov = p]
             g == Forget(a)[a]
             j == [job[w] EXCEPT !.pc = "call", !.stage = "start", !.sid = s]
  <2>0. p \in Provider /\ job[w] \in JobType /\ job \in [Worker -> JobType] /\ sess \in [Session -> SessionType]
    BY DEF First, JobTypes, SessionTypes
  <2>1. r.phase = "starting" /\ r.prov = p
    BY <2>0 DEF SessionType
  <2>2. a \in Session => g.phase = "gone" /\ g.prov = sess[a].prov
    BY <2>0 DEF Forget, SessionType
  <2>3. a # None => sess[a].phase # "none" /\ sess[a].prov = p /\ (sess[a].phase = "gone" \/ sess[a].expired)
    BY <1>3, <2>0 DEF OAuthInv, ActiveOK, Stale
  <2>4. job' = [job EXCEPT ![w] = j]
    BY <1>3, <2>0
  <2>5. j.pc = "call" /\ j.stage = "start" /\ j.sid = s /\ j.op = "startOAuth" /\ j.prov = p
    BY <1>1, <2>0 DEF JobType
  <2>6. /\ a \in Session \cup {None} /\ None \notin Session
        /\ active' \in [Provider -> Session \cup {None}] /\ active'[p] = s
    BY <1>3, <2>0, ControlAssumption DEF OtherTypes
  <2>7. sess' = [q \in Session |-> IF q = s THEN r ELSE IF q = a THEN g ELSE sess[q]]
    BY <1>3
  <2> HIDE DEF r, g, j
  <2>8. /\ sess'[s] = r
        /\ \A q \in Session : q # s /\ q # a => sess'[q] = sess[q]
        /\ \A q \in Session : q # s /\ q = a => sess'[q] = g
    BY <2>7
  <2>9. Others(w) /\ job'[w] = j
    BY <2>0, <2>4 DEF Others
  <2>10. Stays(w)
    BY <1>1, <1>3, <2>5, <2>9 DEF Stays, Still, Busy
  <2>11. Focused(p)
    <3>1. \A q \in Provider : q # p => active'[q] = active[q]
      BY <1>3, <2>0 DEF OtherTypes
    <3>2. ASSUME NEW q \in Session PROVE sess[q].phase # "none" => sess'[q].prov = sess[q].prov /\ sess'[q].phase # "none"
      BY <1>3, <2>2, <2>8
    <3>3. ASSUME NEW q \in Session, sess'[q].prov # p PROVE sess'[q] = sess[q]
      <4>1. q # s
        BY <2>1, <2>8, <3>3
      <4>2. q # a
        BY <2>2, <2>3, <2>6, <2>8, <3>3, <4>1
      <4> QED BY <2>8, <4>1, <4>2
    <3> QED BY <1>1, <3>1, <3>2, <3>3 DEF Focused
  <2>12. SessionOK(s, job, sess, active, posted)
    BY DEF OAuthInv
  <2>13. Attends(job'[w], sess', active', posted')
    BY <1>1, <2>1, <2>5, <2>6, <2>8, <2>9 DEF Attends
  <2>14. ASSUME NEW t \in Session, sess'[t].prov = p PROVE SessionOK(t, job', sess', active', posted')
    <3>1. CASE t = s
      BY <1>1, <1>3, <2>1, <2>8, <2>12, <3>1 DEF SessionOK, Open
    <3>2. SessionOK(t, job, sess, active, posted)
      BY DEF OAuthInv
    <3>3. CASE t # s /\ t = a
      BY <1>1, <2>2, <2>8, <3>2, <3>3 DEF SessionOK, Open
    <3>4. CASE t # s /\ t # a
      <4>1. sess'[t] = sess[t] /\ sess[t].prov = p
        BY <2>8, <2>14, <3>4
      <4>2. ASSUME NEW v \in Worker PROVE Posting(job[v], t) => Posting(job'[v], t)
        BY <1>1, <2>9 DEF Posting, Others
      <4>3. ~(sess[t].phase \in Open /\ ~sess[t].expired)
        BY <3>2, <3>4, <4>1 DEF SessionOK
      <4> QED BY <1>1, <3>2, <4>1, <4>2, <4>3 DEF SessionOK
    <3> QED BY <3>1, <3>3, <3>4
  <2>15. ActiveOK(p, sess', active')
    BY <2>1, <2>6, <2>8 DEF ActiveOK
  <2> QED BY <2>6, <2>10, <2>11, <2>13, <2>14, <2>15, FocusedKeeps
<1> QED BY <1>2, <1>3 DEF StartOAuthBegin

(* CPA handed out a state, or the session is forgotten.                      *)
LEMMA StartReplyKeeps ==
  ASSUME Types, OAuthInv, NEW w \in Worker, First(w), StartOAuthReply(w)
  PROVE  OAuthInv'
<1> USE DEF Types
<1> DEFINE p == job[w].prov
           s == job[w].sid
<1>1. /\ job[w].op = "startOAuth" /\ Busy(job[w]) /\ Release(w) /\ UNCHANGED posted
  BY DEF StartOAuthReply, Running, Busy, ghost
<1>2. /\ s \in Session /\ p \in Provider /\ sess[s].prov = p /\ active[p] = s
      /\ Attends(job[w], sess, active, posted) /\ SessionOK(s, job, sess, active, posted)
  BY <1>1, Mine
<1>3. sess[s].phase = "starting" /\ posted[s] = 0
  BY <1>1, <1>2 DEF Attends, SessionOK, OAuthOps
<1>4. Leaves(w)
  BY <1>1, LeavesBy DEF OAuthOps
<1>5. sess \in [Session -> SessionType] /\ active \in [Provider -> Session \cup {None}]
  BY DEF SessionTypes, OtherTypes
<1>6. /\ \A t \in Session : t # s => sess'[t] = sess[t]
      /\ sess'[s].prov = p /\ sess'[s].phase \in {"awaiting_callback", "gone"}
      /\ sess'[s].phase = "awaiting_callback" => active'[p] = s
      /\ active' = active \/ active' = [active EXCEPT ![p] = None]
  <2> DEFINE before == {<<f, files[f].at>> : f \in {g \in File : files[g] # None}}
  <2>1. \/ sess' = [sess EXCEPT ![s].phase = "awaiting_callback", ![s].before = before] /\ active' = active
        \/ sess' = Forget(s) /\ active' = [active EXCEPT ![p] = None]
    BY DEF StartOAuthReply
  <2> HIDE DEF before, s, p
  <2>2. CASE sess' = [sess EXCEPT ![s].phase = "awaiting_callback", ![s].before = before] /\ active' = active
    <3> DEFINE r == [sess[s] EXCEPT !.phase = "awaiting_callback", !.before = before]
    <3>1. sess' = [sess EXCEPT ![s] = r]
      BY <1>2, <1>5, <2>2
    <3>2. r.prov = sess[s].prov /\ r.phase = "awaiting_callback"
      BY <1>2, <1>5 DEF SessionType
    <3> HIDE DEF r
    <3> QED BY <1>2, <1>5, <2>2, <3>1, <3>2
  <2>3. CASE sess' = Forget(s) /\ active' = [active EXCEPT ![p] = None]
    BY <1>2, <1>5, <2>3 DEF Forget, SessionType
  <2> QED BY <2>1, <2>2, <2>3
<1>7. /\ active' \in [Provider -> Session \cup {None}] /\ active'[p] \in {s, None}
      /\ \A q \in Provider : q # p => active'[q] = active[q]
  BY <1>2, <1>5, <1>6
<1>8. SessionOK(s, job', sess', active', posted')
  BY <1>1, <1>3, <1>6 DEF SessionOK, Open
<1>9. Attends(job'[w], sess', active', posted')
  BY <1>4, IdleAttends DEF Leaves
<1> QED BY <1>1, <1>4, <1>6, <1>7, <1>8, <1>9, OwnSession

(* A session past its time is forgotten, an open one is taken up.            *)
LEMMA SessionBeginKeeps ==
  ASSUME Types, OAuthInv, NEW w \in Worker, First(w), SessionBegin(w)
  PROVE  OAuthInv'
<1> USE DEF Types
<1> DEFINE p == job[w].prov
           s == job[w].sid
<1>1. /\ job[w].op \in {"submitOAuthCallback", "oauthStatus"} /\ job[w].pc = "queued" /\ UNCHANGED posted
  BY DEF SessionBegin, MyTurn, ghost
<1>2. /\ s \in Session /\ p \in Provider /\ sess[s].prov = p /\ sess[s].phase # "none"
      /\ Attends(job[w], sess, active, posted) /\ SessionOK(s, job, sess, active, posted)
  <2>1. HasSession(job[w])
    BY <1>1 DEF HasSession
  <2>2. Attends(job[w], sess, active, posted) /\ SessionTypes
    BY DEF OAuthInv
  <2> QED BY <1>1, <2>1, <2>2 DEF First, SessionTypes, OAuthInv, Attends
<1>3. sess \in [Session -> SessionType] /\ active \in [Provider -> Session \cup {None}]
  BY DEF SessionTypes, OtherTypes
<1>4. \A v \in Worker, t \in Session : Others(w) /\ Posting(job[v], t) => Posting(job'[v], t)
  BY <1>1 DEF Posting, Others
<1>5. ASSUME Release(w), UNCHANGED oauth PROVE OAuthInv'
  BY <1>1, <1>5, LeaveKeeps DEF oauth
<1>6. ASSUME Release(w), sess' = Forget(s), active' = ClearActive(p, s) PROVE OAuthInv'
  <2>1. Leaves(w)
    BY <1>1, <1>6, LeavesBy DEF OAuthOps
  <2>2. /\ sess'[s].prov = p /\ sess'[s].phase = "gone"
        /\ \A t \in Session : t # s => sess'[t] = sess[t]
    BY <1>2, <1>3, <1>6 DEF Forget, SessionType
  <2>3. /\ active' \in [Provider -> Session \cup {None}]
        /\ \A q \in Provider : q # p => active'[q] = active[q]
        /\ active'[p] = IF active[p] = s THEN None ELSE active[p]
    BY <1>2, <1>3, <1>6 DEF ClearActive
  <2>4. Focused(p)
    BY <1>1, <1>2, <2>2, <2>3 DEF Focused
  <2>5. ASSUME NEW t \in Session, sess'[t].prov = p PROVE SessionOK(t, job', sess', active', posted')
    <3>1. CASE t = s
      BY <1>1, <1>2, <2>2, <3>1 DEF SessionOK, Open
    <3>2. CASE t # s
      <4>1. SessionOK(t, job, sess, active, posted) /\ sess'[t] = sess[t]
        BY <2>2, <3>2 DEF OAuthInv
      <4>2. active[p] = t => active'[p] = t
        BY <2>3, <3>2
      <4>3. (\A v \in Worker : ~Posting(job'[v], t)) => \A v \in Worker : ~Posting(job[v], t)
        BY <1>4, <2>1 DEF Leaves
      <4> QED BY <1>1, <2>5, <4>1, <4>2, <4>3 DEF SessionOK
    <3> QED BY <3>1, <3>2
  <2>6. ActiveOK(p, sess', active')
    <3>1. ActiveOK(p, sess, active)
      BY <1>2 DEF OAuthInv
    <3>2. active[p] # s => active'[p] = active[p] /\ (active[p] \in Session => sess'[active[p]] = sess[active[p]])
      BY <2>2, <2>3
    <3>3. active[p] \in Session \cup {None}
      BY <1>2, <1>3
    <3> QED BY <2>3, <3>1, <3>2, <3>3 DEF ActiveOK
  <2>7. Attends(job'[w], sess', active', posted')
    BY <2>1, IdleAttends DEF Leaves
  <2> QED BY <2>1, <2>3, <2>4, <2>5, <2>6, <2>7, FocusedKeeps
<1>7. ASSUME UNCHANGED oauth, ~sess[s].expired \/ sess[s].phase = "gone",
             sess[s].phase \in (IF job[w].op = "submitOAuthCallback" THEN {"awaiting_callback"}
                                ELSE {"awaiting_callback", "callback_accepted"}),
             Await(w, "call", job[w].op)
      PROVE  OAuthInv'
  <2>1. Others(w) /\ Goes(job[w], job'[w], "call", job[w].op) /\ oauthTails' = oauthTails
    BY <1>7, Places
  <2>2. Stays(w)
    BY <2>1 DEF Stays, Goes, Busy
  <2>3. UNCHANGED <<sess, active, posted>>
    BY <1>1, <1>7 DEF oauth
  <2>4. active[p] = s
    BY <1>2, <1>7 DEF SessionOK, Open
  <2>5. ASSUME job[w].op = "submitOAuthCallback" PROVE posted[s] = 0
    <3>1. ASSUME NEW v \in Worker PROVE ~Posting(job[v], s)
      <4>1. CASE v = w
        BY <1>1, <4>1 DEF Posting
      <4>2. CASE v # w
        <5>1. Posting(job[v], s) => Busy(job[v]) /\ job[v].op \in OAuthOps /\ job[v].sid = s
          BY DEF Posting, Busy, OAuthOps
        <5>2. Busy(job[v]) /\ job[v].op \in OAuthOps => job[v].prov # p
          BY <4>2 DEF OAuthInv, OAuthTurns, First
        <5>3. Attends(job[v], sess, active, posted)
          BY DEF OAuthInv
        <5> QED BY <1>2, <5>1, <5>2, <5>3 DEF Attends
      <4> QED BY <4>1, <4>2
    <3> QED BY <1>2, <1>7, <2>5, <3>1 DEF SessionOK
  <2>6. Attends(job'[w], sess', active', posted')
    BY <1>1, <1>2, <1>7, <2>1, <2>3, <2>4, <2>5 DEF Attends, Goes, Open, OAuthOps
  <2>7. Focused(p)
    BY <2>3 DEF Focused
  <2>8. ASSUME NEW t \in Session PROVE SessionOK(t, job', sess', active', posted')
    <3>1. SessionOK(t, job, sess, active, posted)
      BY DEF OAuthInv
    <3> QED BY <1>4, <2>1, <2>3, <3>1 DEF SessionOK
  <2>9. ActiveOK(p, sess', active')
    BY <1>2, <2>3 DEF OAuthInv, ActiveOK
  <2> QED BY <1>3, <2>2, <2>3, <2>6, <2>7, <2>8, <2>9, FocusedKeeps
<1> QED BY <1>5, <1>6, <1>7 DEF SessionBegin

(* The callback goes out once: this operation found it awaited.              *)
LEMMA CallbackKeeps ==
  ASSUME Types, Counted, OAuthInv, NEW w \in Worker, First(w), PostCallback(w) \/ CallbackAccepted(w)
  PROVE  OAuthInv'
<1> USE DEF Types
<1> DEFINE p == job[w].prov
           s == job[w].sid
<1>1. job[w].op = "submitOAuthCallback" /\ Busy(job[w])
  BY DEF PostCallback, CallbackAccepted, Running, Busy
<1>2. /\ s \in Session /\ p \in Provider /\ sess[s].prov = p /\ active[p] = s
      /\ Attends(job[w], sess, active, posted) /\ SessionOK(s, job, sess, active, posted)
  BY <1>1, Mine
<1>3. /\ sess[s].phase = "awaiting_callback" /\ job[w].stage = "submitOAuthCallback"
      /\ job[w].pc = "call" => posted[s] = 0
  BY <1>1, <1>2 DEF Attends, OAuthOps
<1>4. /\ sess \in [Session -> SessionType] /\ active \in [Provider -> Session \cup {None}]
  BY DEF SessionTypes, OtherTypes
<1>5. \A t \in Session : posted[t] \in {0, 1}
  BY DEF OAuthInv, SessionOK
<1>6. ASSUME PostCallback(w) PROVE OAuthInv'
  <2>1. \E pc \in {"posted", "thrown"} : Await(w, pc, "submitOAuthCallback")
    BY <1>6 DEF PostCallback
  <2>2. PICK pc \in {"posted", "thrown"} :
          Others(w) /\ Goes(job[w], job'[w], pc, "submitOAuthCallback") /\ oauthTails' = oauthTails
    BY <2>1, Places
  <2>3. Stays(w)
    BY <2>2 DEF Stays, Goes, Busy
  <2>4. job[w].pc = "call" /\ UNCHANGED <<sess, active>> /\ posted' \in {posted, [posted EXCEPT ![s] = @ + 1]}
    BY <1>6 DEF PostCallback, Running, oauth
  <2>5. posted'[s] \in {0, 1} /\ \A t \in Session : t # s => posted'[t] = posted[t]
    BY <1>2, <1>3, <2>4 DEF Counted
  <2>6. Attends(job'[w], sess', active', posted')
    BY <1>1, <1>2, <1>3, <2>2, <2>4 DEF Attends, Goes, OAuthOps
  <2>7. Posting(job'[w], s)
    BY <1>1, <2>2 DEF Posting, Goes
  <2>8. SessionOK(s, job', sess', active', posted')
    BY <1>2, <1>3, <2>4, <2>5, <2>7 DEF SessionOK
  <2> QED BY <1>1, <1>2, <1>3, <1>4, <2>3, <2>4, <2>5, <2>6, <2>8, OwnSession
<1>7. ASSUME CallbackAccepted(w) PROVE OAuthInv'
  <2>1. Leaves(w)
    BY <1>1, <1>7, LeavesBy DEF OAuthOps, CallbackAccepted
  <2>2. sess' = [sess EXCEPT ![s].phase = "callback_accepted"] /\ UNCHANGED <<active, posted>>
    BY <1>7 DEF CallbackAccepted, ghost
  <2>3. /\ \A t \in Session : t # s => sess'[t] = sess[t]
        /\ sess'[s].prov = p /\ sess'[s].phase = "callback_accepted"
    BY <1>2, <1>4, <2>2 DEF SessionType
  <2>4. SessionOK(s, job', sess', active', posted')
    BY <1>2, <1>5, <2>2, <2>3 DEF SessionOK
  <2>5. Attends(job'[w], sess', active', posted')
    BY <2>1, IdleAttends DEF Leaves
  <2> QED BY <1>1, <1>2, <1>4, <2>1, <2>2, <2>3, <2>4, <2>5, OwnSession
<1> QED BY <1>6, <1>7

(* oauthStatus asks CPA, finds the login's file and stores the credential.   *)
LEMMA StatusKeeps ==
  ASSUME Types, OAuthInv, NEW w \in Worker, First(w),
         StatusReply(w) \/ Discover(w) \/ StatusSaved(w) \/ StatusSynced(w)
  PROVE  OAuthInv'
<1> USE Places DEF Types
<1>1. job[w].op = "oauthStatus" /\ Busy(job[w]) /\ UNCHANGED <<sess, active, posted>>
  BY DEF StatusReply, Discover, StatusSaved, StatusSynced, Running, Busy, oauth, ghost
<1>2. \/ Release(w)
      \/ \E pc \in {"call", "thrown", "probe", "read"} : \E stage :
           Others(w) /\ Goes(job[w], job'[w], pc, stage) /\ oauthTails' = oauthTails
  <2>1. StatusReply(w) => Release(w) \/ Await(w, "call", "discover") \/ Await(w, "thrown", "oauthStatus")
    BY DEF StatusReply
  <2>2. Discover(w) => \/ Await(w, "thrown", "discover")
                       \/ job[w].pc = "call" /\ oauthTails' = oauthTails /\ \E c : SetsCred(w, "bind", c)
    BY DEF Discover, SetsCred, Running, Still
  <2>3. StatusSaved(w) => Sync(w, "sync", job[w].list, {}, {})
    BY DEF StatusSaved
  <2>4. StatusSynced(w) => Await(w, "probe", "probe")
    BY DEF StatusSynced
  <2> QED BY <2>1, <2>2, <2>3, <2>4
<1>3. Release(w) => OAuthInv'
  BY <1>1, LeaveKeeps
<1> QED BY <1>1, <1>2, <1>3, StatusGoes

(* The session ends, well or not.                                            *)
LEMMA SessionEndKeeps ==
  ASSUME Types, OAuthInv, NEW w \in Worker, First(w), StatusReady(w) \/ SessionThrown(w)
  PROVE  OAuthInv'
<1> USE DEF Types
<1> DEFINE p == job[w].prov
           s == job[w].sid
<1>1. job[w].op \in OAuthOps /\ Busy(job[w]) /\ Release(w) /\ UNCHANGED posted
  BY DEF StatusReady, SessionThrown, Running, Busy, OAuthOps, Acknowledge, ghost
<1>2. /\ s \in Session /\ p \in Provider /\ sess[s].prov = p /\ active[p] = s
      /\ SessionOK(s, job, sess, active, posted)
  BY <1>1, Mine
<1>3. Leaves(w)
  BY <1>1, LeavesBy
<1>4. /\ sess \in [Session -> SessionType] /\ active \in [Provider -> Session \cup {None}]
  BY DEF SessionTypes, OtherTypes
<1>5. /\ \E ph \in {"ready", "failed"} : sess' = [sess EXCEPT ![s].phase = ph]
      /\ active' = [active EXCEPT ![p] = None]
  BY <1>2 DEF StatusReady, SessionThrown, ClearActive
<1>6. /\ \A t \in Session : t # s => sess'[t] = sess[t]
      /\ sess'[s].prov = p /\ sess'[s].phase \in {"ready", "failed"}
  BY <1>2, <1>4, <1>5 DEF SessionType
<1>7. /\ active' \in [Provider -> Session \cup {None}] /\ active'[p] = None
      /\ \A q \in Provider : q # p => active'[q] = active[q]
  BY <1>2, <1>4, <1>5
<1>8. SessionOK(s, job', sess', active', posted')
  BY <1>1, <1>2, <1>6 DEF SessionOK, Open
<1>9. Attends(job'[w], sess', active', posted')
  BY <1>3, IdleAttends DEF Leaves
<1> QED BY <1>1, <1>3, <1>6, <1>7, <1>8, <1>9, OwnSession

(* An operation that is not an OAuth one leaves the sessions alone.          *)
LEMMA ElsewhereSteps ==
  ASSUME Types, NEW w \in Worker, Work(w), job[w].op \notin OAuthOps
  PROVE  UNCHANGED <<sess, active, posted, oauthTails>>
<1> USE DEF oauth, ghost, Await, Sync, Save, Still, Acknowledge, Undecided
<1>1. Release(w) => UNCHANGED oauthTails
  BY DEF Release
<1>2. Replace(w) \/ CpaReconcile(w) \/ Probe(w) \/ Bind(w) \/ Bound(w) => UNCHANGED <<sess, active, posted, oauthTails>>
  BY DEF Replace, ReplaceWrite, ReplaceRename, CpaReconcile, ReconcileRead, ReconcileUnload, ReconcileAbsent,
         ReconcilePut, Probe, Bind, Bound
<1>3. PutCredential(w) => UNCHANGED <<sess, active, posted, oauthTails>>
  BY <1>1 DEF PutCredential, PutBegin, PutSaved, PutSynced, PutReady, PutThrown, PutUndoSaved, PutUndone
<1>4. DeleteCredential(w) => UNCHANGED <<sess, active, posted, oauthTails>>
  BY <1>1 DEF DeleteCredential, DeleteBegin, DropFile, DeleteDropped, DeleteStored, DeleteSaved, DeleteSynced,
         DeleteThrown, DeleteUndone
<1>5. ImportCredential(w) => UNCHANGED <<sess, active, posted, oauthTails>>
  BY <1>1 DEF ImportCredential, ImportBegin, ImportFile, ImportImported, ImportSaved, ImportSynced, ImportReady,
         ImportThrown, ImportUndoSaved, ImportUndone
<1>6. Reconcile(w) => UNCHANGED <<sess, active, posted, oauthTails>>
  BY <1>1 DEF Reconcile, ReconcileBegin, RepairList, ReconcileSaved, ReconcileHealth, ReconcileThrown
<1>7. CheckProviders(w) => UNCHANGED <<sess, active, posted, oauthTails>>
  BY <1>1 DEF CheckProviders, CheckBegin, CheckHealth, CheckThrown
<1>8. ~OAuthOperation(w)
  BY DEF OAuthOperation, StartOAuthBegin, StartOAuthReply, SessionBegin, PostCallback, CallbackAccepted,
         StatusReply, Discover, StatusSaved, StatusSynced, StatusReady, SessionThrown, Running, MyTurn, OAuthOps
<1> QED BY <1>2, <1>3, <1>4, <1>5, <1>6, <1>7, <1>8 DEF Work

(* A step of which no OAuth operation notices anything.                      *)
LEMMA ElsewhereKeeps ==
  ASSUME OAuthInv, UNCHANGED <<sess, active, posted, oauthTails>>,
         \A v \in Worker : \/ job'[v] = job[v]
                           \/ /\ job[v].op \notin OAuthOps \/ job[v].pc = "idle"
                              /\ job'[v].op \notin OAuthOps \/ job'[v].pc = "idle"
  PROVE  OAuthInv'
<1>1. ASSUME NEW v \in Worker
      PROVE  /\ Attends(job'[v], sess', active', posted')
             /\ \A s \in Session : Posting(job[v], s) => Posting(job'[v], s)
             /\ Busy(job'[v]) /\ job'[v].op \in OAuthOps => job'[v] = job[v]
  BY DEF Attends, OAuthInv, Posting, OAuthOps, Busy
<1>2. OAuthTurns'
  <2>1. \A v \in Worker : Busy(job[v])' <=> Busy(job'[v])
    BY DEF Busy
  <2> QED BY <1>1, <2>1 DEF OAuthInv, OAuthTurns
<1>3. ASSUME NEW s \in Session PROVE SessionOK(s, job', sess', active', posted')
  BY <1>1 DEF SessionOK, OAuthInv
<1>4. \A p \in Provider : ActiveOK(p, sess', active')
  BY DEF OAuthInv
<1> QED BY <1>1, <1>2, <1>3, <1>4 DEF OAuthInv

LEMMA WorkKeepsSessions == ASSUME Types, Counted, OAuthInv, NEW w \in Worker, Work(w) PROVE OAuthInv'
<1>1. CASE job[w].op \in OAuthOps
  <2>1. First(w)
    BY <1>1, IsFirst
  <2>2. ~(PutCredential(w) \/ DeleteCredential(w) \/ ImportCredential(w) \/ Reconcile(w) \/ CheckProviders(w))
    <3>1. ~PutCredential(w)
      BY <1>1 DEF PutCredential, PutBegin, PutSaved, PutSynced, PutReady, PutThrown, PutUndoSaved, PutUndone,
                  Running, MyTurn, OAuthOps
    <3>2. ~DeleteCredential(w)
      BY <1>1 DEF DeleteCredential, DeleteBegin, DropFile, DeleteDropped, DeleteSaved, DeleteSynced, DeleteThrown,
                  DeleteUndone, Running, MyTurn, OAuthOps
    <3>3. ~ImportCredential(w)
      BY <1>1 DEF ImportCredential, ImportBegin, ImportFile, ImportImported, ImportSaved, ImportSynced, ImportReady,
                  ImportThrown, ImportUndoSaved, ImportUndone, Running, MyTurn, OAuthOps
    <3>4. ~(Reconcile(w) \/ CheckProviders(w))
      BY <1>1 DEF Reconcile, ReconcileBegin, RepairList, ReconcileSaved, ReconcileHealth, ReconcileThrown,
                  CheckProviders, CheckBegin, CheckHealth, CheckThrown, Running, MyTurn, OAuthOps
    <3> QED BY <3>1, <3>2, <3>3, <3>4
  <2>3. OAuthOperation(w) => OAuthInv'
    BY <2>1, StartBeginKeeps, StartReplyKeeps, SessionBeginKeeps, CallbackKeeps, StatusKeeps, SessionEndKeeps
       DEF OAuthOperation
  <2> QED BY <2>1, <2>2, <2>3, MachineryKeepsSessions DEF Work
<1>2. CASE job[w].op \notin OAuthOps
  <2>1. UNCHANGED <<sess, active, posted, oauthTails>>
    BY <1>2, ElsewhereSteps
  <2>2. GoesOn(w)
    <3>1. ~StartOAuthBegin(w)
      BY <1>2 DEF StartOAuthBegin, MyTurn, OAuthOps
    <3> QED BY <3>1, WorkGoesOn
  <2>3. Others(w) /\ (job'[w].op \notin OAuthOps \/ job'[w].pc = "idle")
    BY <1>2, <2>2 DEF GoesOn, SameCall, Ends, Idle
  <2> QED BY <1>2, <2>1, <2>3, ElsewhereKeeps DEF Others
<1> QED BY <1>1, <1>2

(* What queues is first in no line yet, but where the line was empty.        *)
LEMMA RequestKeepsSessions ==
  ASSUME Types, OAuthInv, NEW w \in Worker, Request(w)
  PROVE  OAuthInv'
<1> USE DEF Types
<1>0. UNCHANGED <<sess, active, posted>>
  BY DEF Request, oauth, ghost
<1>1. PICK op \in AllOps, p \in Provider, c \in CredType \cup {None}, s \in Session \cup {None} :
        /\ Call(w, op, p, c, s)
        /\ op \in {"submitOAuthCallback", "oauthStatus"} =>
             s \in Session /\ sess[s].prov = p /\ sess[s].phase # "none"
  <2>1. /\ {"delete", "import", "semanticReadiness", "startOAuth"} \subseteq AllOps
        /\ {"put", "reconcileProvider", "submitOAuthCallback", "oauthStatus"} \subseteq AllOps
        /\ {"delete", "import", "semanticReadiness", "startOAuth", "put", "reconcileProvider"}
             \cap {"submitOAuthCallback", "oauthStatus"} = {}
    BY DEF AllOps
  <2>2. \A k \in Key : Cred("api-key", k, 0) \in CredType
    BY Creds
  <2>3. \A q \in Provider : mem[q] \in CredType \cup {None}
    BY Payloads DEF StoreTypes
  <2>4. \A t \in Session : sess[t].phase \notin {"none", "gone"} => sess[t].prov \in Provider
    BY DEF SessionTypes
  <2>5. CASE \E o \in setup.ops \cap {"delete", "import", "semanticReadiness", "startOAuth"}, q \in Provider :
               Call(w, o, q, None, None)
    BY <2>1, <2>5
  <2>6. CASE \E q \in Provider, k \in Key : Call(w, "put", q, Cred("api-key", k, 0), None)
    BY <2>1, <2>2, <2>6
  <2>7. CASE \E q \in Provider : Call(w, "reconcileProvider", q, mem[q], None)
    BY <2>1, <2>3, <2>7
  <2>8. CASE \E o \in setup.ops \cap {"submitOAuthCallback", "oauthStatus"}, t \in Session :
               sess[t].phase \notin {"none", "gone"} /\ Call(w, o, sess[t].prov, None, t)
    BY <2>1, <2>4, <2>8
  <2> QED BY <2>5, <2>6, <2>7, <2>8 DEF Request
<1>2. job[w].pc = "idle"
  BY <1>1 DEF Call
<1>3. Others(w) /\ job'[w].pc = "queued" /\ job'[w].op = op /\ job'[w].prov = p
  BY <1>1, CallJob
<1>4. job'[w].sid = s
  BY <1>1 DEF Call, Idle, JobTypes
<1>5. CASE op \notin OAuthOps
  <2>1. UNCHANGED oauthTails
    BY <1>1, <1>5 DEF Call
  <2> QED BY <1>0, <1>2, <1>3, <1>5, <2>1, ElsewhereKeeps DEF Others
<1>6. CASE op \in OAuthOps
  <2>1. oauthTails' = [oauthTails EXCEPT ![p] = Append(@, w)] /\ oauthTails \in [Provider -> Seq(Worker)]
    BY <1>1, <1>6 DEF Call, OAuthInv, OAuthTurns
  <2>2. /\ oauthTails' \in [Provider -> Seq(Worker)]
        /\ \A q \in Provider : oauthTails[q] # << >> =>
             oauthTails'[q] # << >> /\ Head(oauthTails'[q]) = Head(oauthTails[q])
    <3>1. Append(oauthTails[p], w) \in Seq(Worker)
      BY <2>1
    <3>2. oauthTails[p] # << >> =>
            Append(oauthTails[p], w) # << >> /\ Head(Append(oauthTails[p], w)) = Head(oauthTails[p])
      BY <2>1, HeadTailAppend, AppendProperties, EmptySeq
    <3> QED BY <2>1, <3>1, <3>2
  <2>3. OAuthTurns'
    <3>1. ASSUME NEW v \in Worker, Busy(job'[v]), job'[v].op \in OAuthOps
          PROVE  oauthTails'[job'[v].prov] # << >> /\ Head(oauthTails'[job'[v].prov]) = v
      <4>1. v # w /\ job'[v] = job[v]
        BY <1>3, <3>1 DEF Others, Busy
      <4>2. job[v].prov \in Provider
        BY <3>1, <4>1 DEF JobTypes, JobOK, Busy, OAuthOps
      <4> QED BY <2>2, <3>1, <4>1, <4>2 DEF OAuthInv, OAuthTurns
    <3>2. \A v \in Worker : Busy(job[v])' <=> Busy(job'[v])
      BY DEF Busy
    <3> QED BY <2>2, <3>1, <3>2 DEF OAuthTurns
  <2>4. ASSUME NEW v \in Worker PROVE Attends(job'[v], sess', active', posted')
    <3>1. Attends(job[v], sess, active, posted)
      BY DEF OAuthInv
    <3>2. CASE v # w
      BY <1>0, <1>3, <3>1, <3>2 DEF Others
    <3>3. CASE v = w
      BY <1>0, <1>1, <1>3, <1>4, <3>3 DEF Attends, Busy
    <3> QED BY <3>2, <3>3
  <2>5. ASSUME NEW t \in Session PROVE SessionOK(t, job', sess', active', posted')
    <3>1. SessionOK(t, job, sess, active, posted)
      BY DEF OAuthInv
    <3>2. \A v \in Worker : Posting(job[v], t) => Posting(job'[v], t)
      BY <1>2, <1>3 DEF Posting, Others
    <3> QED BY <1>0, <3>1, <3>2 DEF SessionOK
  <2>6. \A q \in Provider : ActiveOK(q, sess', active')
    BY <1>0 DEF OAuthInv
  <2> QED BY <2>3, <2>4, <2>5, <2>6 DEF OAuthInv
<1> QED BY <1>5, <1>6

LEMMA ExpireKeepsSessions == ASSUME Types, OAuthInv, NEW s \in Session, Expire(s) PROVE OAuthInv'
<1> DEFINE r == [sess[s] EXCEPT !.expired = TRUE]
<1>1. r.phase = sess[s].phase /\ r.prov = sess[s].prov /\ r.expired
  BY DEF Types, SessionTypes, SessionType
<1>2. sess' = [sess EXCEPT ![s] = r] /\ UNCHANGED <<job, active, posted, oauthTails>>
  BY DEF Expire, Types, SessionTypes, ghost
<1> HIDE DEF r
<1>3. \A t \in Session : /\ sess'[t].phase = sess[t].phase /\ sess'[t].prov = sess[t].prov
                         /\ sess[t].expired => sess'[t].expired
  BY <1>1, <1>2 DEF Types, SessionTypes
<1>4. OAuthTurns'
  <2>1. \A v \in Worker : Busy(job[v])' <=> Busy(job[v])
    BY <1>2 DEF Busy
  <2> QED BY <1>2, <2>1 DEF OAuthInv, OAuthTurns
<1>5. ASSUME NEW v \in Worker PROVE Attends(job'[v], sess', active', posted')
  <2>1. job[v].sid \in Session \/ job[v].pc = "idle" \/ job[v].op \notin OAuthOps \/ (job[v].op = "startOAuth" /\ ~Busy(job[v]))
    <3>1. HasSession(job[v]) => job[v].sid \in Session
      BY DEF Types, SessionTypes
    <3> QED BY <3>1 DEF HasSession, OAuthOps, Busy
  <2>2. Attends(job[v], sess, active, posted)
    BY DEF OAuthInv
  <2>3. CASE job[v].sid \in Session
    BY <1>2, <1>3, <2>2, <2>3 DEF Attends
  <2>4. CASE job[v].sid \notin Session
    BY <1>2, <2>1, <2>4 DEF Attends, OAuthOps, Busy
  <2> QED BY <2>3, <2>4
<1>6. ASSUME NEW t \in Session PROVE SessionOK(t, job', sess', active', posted')
  <2>1. SessionOK(t, job, sess, active, posted)
    BY DEF OAuthInv
  <2> QED BY <1>2, <1>3, <2>1 DEF SessionOK
<1>7. ASSUME NEW p \in Provider PROVE ActiveOK(p, sess', active')
  <2>1. ActiveOK(p, sess, active) /\ active[p] \in Session \cup {None}
    BY DEF OAuthInv, Types, OtherTypes
  <2> QED BY <1>2, <1>3, <2>1 DEF ActiveOK
<1> QED BY <1>4, <1>5, <1>6, <1>7 DEF OAuthInv

LEMMA CrashKeepsSessions == ASSUME Types, OAuthInv, Crash PROVE OAuthInv'
<1>1. /\ oauthTails' = [p \in Provider |-> << >>] /\ active' = [p \in Provider |-> None] /\ UNCHANGED posted
      /\ sess' = [s \in Session |-> IF sess[s].phase = "none" THEN sess[s] ELSE Forget(s)[s]]
  BY DEF Crash, ghost
<1>2. \A v \in Worker : ~Busy(job'[v]) /\ (job'[v].pc = "idle" \/ job'[v].op = "reconcile")
  BY DEF Crash, Busy, Idle
<1>3. OAuthTurns'
  <2>1. \A v \in Worker : Busy(job[v])' <=> Busy(job'[v])
    BY DEF Busy
  <2>2. << >> \in Seq(Worker)
    OBVIOUS
  <2> QED BY <1>1, <1>2, <2>1, <2>2 DEF OAuthTurns
<1>4. \A v \in Worker : Attends(job'[v], sess', active', posted')
  BY <1>2 DEF Attends
<1>5. ASSUME NEW s \in Session PROVE SessionOK(s, job', sess', active', posted')
  <2>1. SessionOK(s, job, sess, active, posted)
    BY DEF OAuthInv
  <2>2. Forget(s)[s].phase = "gone"
    BY DEF Forget, Types, SessionTypes, SessionType
  <2>3. sess'[s].phase \in {"none", "gone"} /\ (sess'[s].phase = "none" => sess[s].phase = "none")
    BY <1>1, <2>2
  <2> QED BY <1>1, <2>1, <2>3 DEF SessionOK, Open
<1>6. \A p \in Provider : ActiveOK(p, sess', active')
  BY <1>1 DEF ActiveOK
<1> QED BY <1>3, <1>4, <1>5, <1>6 DEF OAuthInv

LEMMA OAuthInit == ASSUME Init PROVE Counted /\ OAuthInv
<1>1. /\ oauthTails = [p \in Provider |-> << >>] /\ active = [p \in Provider |-> None]
      /\ sess = [s \in Session |-> NoSession] /\ posted = [s \in Session |-> 0] /\ job = [w \in Worker |-> Idle]
  BY DEF Init
<1>2. OAuthTurns
  BY <1>1 DEF OAuthTurns, Idle, Busy
<1>3. \A w \in Worker : Attends(job[w], sess, active, posted)
  BY <1>1, IdleAttends
<1>4. \A s \in Session : SessionOK(s, job, sess, active, posted)
  BY <1>1 DEF SessionOK, NoSession, Open
<1>5. \A p \in Provider : ActiveOK(p, sess, active)
  BY <1>1 DEF ActiveOK
<1> QED BY <1>1, <1>2, <1>3, <1>4, <1>5 DEF OAuthInv, Counted

(* Only a submission forwards a callback.                                    *)
LEMMA PostedSteps == ASSUME Types, [Next]_vars PROVE UNCHANGED posted \/ \E w \in Worker : PostCallback(w)
<1>1. ASSUME NEW w \in Worker, Work(w), ~PostCallback(w) PROVE UNCHANGED posted
  <2>1. CASE job[w].op \notin OAuthOps
    BY <1>1, <2>1, ElsewhereSteps
  <2>2. CASE job[w].op \in OAuthOps
    <3>1. ~PutCredential(w) /\ ~DeleteCredential(w)
      BY <2>2 DEF PutCredential, PutBegin, PutSaved, PutSynced, PutReady, PutThrown, PutUndoSaved, PutUndone,
                  DeleteCredential, DeleteBegin, DropFile, DeleteDropped, DeleteSaved, DeleteSynced, DeleteThrown,
                  DeleteUndone, Running, MyTurn, OAuthOps
    <3>2. ~ImportCredential(w)
      BY <2>2 DEF ImportCredential, ImportBegin, ImportFile, ImportImported, ImportSaved, ImportSynced, ImportReady,
                  ImportThrown, ImportUndoSaved, ImportUndone, Running, MyTurn, OAuthOps
    <3>3. ~(Reconcile(w) \/ CheckProviders(w))
      BY <2>2 DEF Reconcile, ReconcileBegin, RepairList, ReconcileSaved, ReconcileHealth, ReconcileThrown,
                  CheckProviders, CheckBegin, CheckHealth, CheckThrown, Running, MyTurn, OAuthOps
    <3>4. Replace(w) \/ CpaReconcile(w) \/ Probe(w) \/ Bind(w) \/ Bound(w) => UNCHANGED posted
      BY DEF Replace, ReplaceWrite, ReplaceRename, CpaReconcile, ReconcileRead, ReconcileUnload, ReconcileAbsent,
             ReconcilePut, Probe, Bind, Bound, Undecided, ghost
    <3>5. OAuthOperation(w) => UNCHANGED posted
      BY <1>1 DEF OAuthOperation, StartOAuthBegin, StartOAuthReply, SessionBegin, CallbackAccepted, StatusReply,
                  Discover, StatusSaved, StatusSynced, StatusReady, SessionThrown, Acknowledge, ghost
    <3> QED BY <1>1, <3>1, <3>2, <3>3, <3>4, <3>5 DEF Work
  <2> QED BY <2>1, <2>2
<1>2. ASSUME NEW w \in Worker, Request(w) PROVE UNCHANGED posted
  BY <1>2 DEF Request, ghost
<1>3. ScheduledReconcile \/ Refresh \/ Crash => UNCHANGED posted
  BY DEF ScheduledReconcile, Refresh, Crash, ghost
<1>4. (\E s \in Session : Login(s) \/ Expire(s)) \/ (\E p \in Provider : Rotate(p)) => UNCHANGED posted
  BY DEF Login, Expire, Rotate, ghost
<1> QED BY <1>1, <1>2, <1>3, <1>4 DEF Next, vars, ghost

LEMMA CountedNext == ASSUME Types, Counted, [Next]_vars PROVE Counted'
BY PostedSteps DEF PostCallback, Counted

LEMMA OAuthNext == ASSUME Types, Counted, OAuthInv, [Next]_vars PROVE OAuthInv'
<1>1. ASSUME NEW w \in Worker, Request(w) \/ Work(w) PROVE OAuthInv'
  BY <1>1, RequestKeepsSessions, WorkKeepsSessions
<1>2. ASSUME ScheduledReconcile PROVE OAuthInv'
  <2>1. Call(Timer, "reconcile", None, None, None) /\ Timer \in Worker /\ UNCHANGED <<sess, active, posted>>
    BY <1>2, ControlAssumption DEF ScheduledReconcile, oauth, ghost
  <2>2. Others(Timer) /\ job'[Timer].op = "reconcile" /\ job[Timer].pc = "idle" /\ UNCHANGED oauthTails
    BY <2>1, CallJob DEF Types, Call, OAuthOps
  <2> QED BY <2>1, <2>2, ElsewhereKeeps DEF Others, OAuthOps
<1>3. ASSUME UNCHANGED <<sess, active, posted, oauthTails, job>> PROVE OAuthInv'
  BY <1>3, ElsewhereKeeps
<1>4. (\E s \in Session : Login(s)) \/ (\E p \in Provider : Rotate(p)) \/ Refresh
        => UNCHANGED <<sess, active, posted, oauthTails, job>>
  BY DEF Login, Rotate, Refresh, oauth, ghost
<1>5. UNCHANGED vars => UNCHANGED <<sess, active, posted, oauthTails, job>>
  BY DEF vars, oauth, ghost
<1> QED BY <1>1, <1>2, <1>3, <1>4, <1>5, ExpireKeepsSessions, CrashKeepsSessions DEF Next

(* In every setup the OAuth operations of a Provider take turns, a running   *)
(* one's session is the Provider's active one, and a callback was forwarded  *)
(* at most once (#withOAuthProvider, #activeOAuthProviders).                 *)
THEOREM SessionsHold == Spec => [](Types /\ Counted /\ OAuthInv)
<1>1. Init => Types /\ Counted /\ OAuthInv
  BY TypesInit, OAuthInit
<1>2. Types /\ Counted /\ OAuthInv /\ [Next]_vars => (Types /\ Counted /\ OAuthInv)'
  BY TypesNext, CountedNext, OAuthNext
<1> QED BY <1>1, <1>2, PTL DEF Spec

(* A session's one-time authorization code reaches CPA at most once: a       *)
(* second submission finds the session accepted, failed or forgotten, also   *)
(* when the first one's answer was lost, in every setup.                     *)
THEOREM CallbackGoesOnce == Spec => []CallbackOnce
<1>1. OAuthInv => CallbackOnce
  BY DEF OAuthInv, SessionOK, CallbackOnce
<1> QED BY <1>1, SessionsHold, PTL

(* At most one OAuth session of a Provider can still be completed: the open  *)
(* one is the active one, and startOAuth refuses while that is not stale.    *)
THEOREM OneSessionOpen == Spec => []OneOpenSession
<1>1. OAuthInv => OneOpenSession
  BY DEF OAuthInv, SessionOK, OneOpenSession, Open
<1> QED BY <1>1, SessionsHold, PTL

-----------------------------------------------------------------------------
(* CPA's key collection, without logins.                                     *)

ApiCred == [method : {"api-key"}, ref : Key, at : {0}]

(* CPA's collection c has every key of the store m, and maybe others.        *)
Mat(c, m) == \A p \in Provider : ApiKeys(m)[p] # None => c[p] = ApiKeys(m)[p]

LEMMA MatWhole == ASSUME NEW c, NEW m, c = ApiKeys(m) PROVE Mat(c, m)
BY DEF Mat

(* It still does when the store forgets a credential.                        *)
LEMMA MatLess ==
  ASSUME NEW c, NEW m, NEW l, NEW p, Mat(c, m), l[p] = None, \A q \in Provider \ {p} : l[q] = m[q]
  PROVE  Mat(c, l)
<1>1. ASSUME NEW q \in Provider, ApiKeys(l)[q] # None PROVE c[q] = ApiKeys(l)[q]
  <2>1. q # p
    BY <1>1 DEF ApiKeys
  <2>2. ApiKeys(l)[q] = ApiKeys(m)[q]
    BY <2>1 DEF ApiKeys
  <2> QED BY <1>1, <2>2 DEF Mat
<1> QED BY <1>1 DEF Mat

(* No auth file carries the Provider's prefix.                               *)
Bare(p, fs) == \A f \in File : fs[f] # None => fs[f].prefix # p

(* The operation may end and leave a readiness rd as it found it.            *)
Lasting(j) ==
  \/ j.stage \in {"dropFile", "import"} \/ j.op \in {"semanticReadiness", "delete"}
  \/ j.op = "put" /\ j.stage \in {"save", "undoSave"}

(* What the running operation knows of the collection c and of the clients l *)
(* built from it: it writes the keys of the store m; a readiness that may    *)
(* outlive it is about these keys; and putCredential saw the old key unloaded *)
(* before it wrote the new one.                                              *)
AtHead(j, m, c, l, fs, rd) ==
  /\ j.pc \in {"read", "unload", "absent", "put", "synced", "probe", "probed"} => j.list = m
  /\ j.pc \in {"synced", "probe", "probed"} => c = ApiKeys(m)
  /\ j.stage \in {"dropFile", "import"} => j.pc \in {"call", "dropped", "imported", "thrown"}
  /\ j.op \in {"semanticReadiness", "delete"} =>
       (j.pc = "read" => j.force = {}) /\ j.pc \notin {"unload", "absent"}
  /\ Lasting(j) /\ rd => Mat(c, m)
  /\ j.op = "put" /\ j.stage \in {"sync", "probe"} =>
       /\ j.pc \in {"read", "unload", "absent", "put"} => j.force = {j.prov}
       /\ j.pc = "absent" => c[j.prov] = None
       /\ j.pc = "put" => c[j.prov] = None /\ l[j.prov] = None /\ Bare(j.prov, fs)
       /\ j.pc \in {"synced", "probe", "probed"} => l[j.prov] \in {None, j.cred.ref} /\ Bare(j.prov, fs)
       /\ j.pc = "probed" => l[j.prov] = j.cred.ref

KeyInv ==
  /\ \A w \in Worker : job[w].pc # "idle" /\ job[w].op = "put" => job[w].cred \in ApiCred
  /\ (\A w \in Worker : ~Busy(job[w])) /\ ready => Mat(cfg, mem)
  /\ \A w \in Worker : Busy(job[w]) => AtHead(job[w], mem, cfg, live, files, ready)

(* Which fields of the job a step of the machinery leaves as they are.       *)
LEMMA Fields ==
  ASSUME JobTypes, NEW w \in Worker
  PROVE  /\ \A pc, stage : Await(w, pc, stage) =>
              /\ Others(w) /\ Goes(job[w], job'[w], pc, stage)
              /\ job'[w].list = job[w].list /\ job'[w].force = job[w].force /\ job'[w].cred = job[w].cred
         /\ \A stage, l, f, r : Sync(w, stage, l, f, r) =>
              /\ Others(w) /\ Goes(job[w], job'[w], "read", stage)
              /\ job'[w].list = l /\ job'[w].force = f /\ job'[w].cred = job[w].cred
         /\ \A stage, p, c : Save(w, stage, p, c) =>
              /\ Others(w) /\ Goes(job[w], job'[w], "write", stage) /\ job'[w].force = job[w].force
              /\ stage # "save" \/ c \in {None, job[w].cred} => job'[w].cred = job[w].cred
         /\ Release(w) => Others(w) /\ job'[w] = Idle
<1>0. job \in [Worker -> JobType] /\ job[w] \in JobType
  BY DEF JobTypes
<1>2. ASSUME NEW pc, NEW stage, Await(w, pc, stage)
      PROVE  /\ Others(w) /\ Goes(job[w], job'[w], pc, stage)
             /\ job'[w].list = job[w].list /\ job'[w].force = job[w].force /\ job'[w].cred = job[w].cred
  <2> DEFINE j == [job[w] EXCEPT !.pc = pc, !.stage = stage]
  <2>1. job' = [job EXCEPT ![w] = j]
    BY <1>0, <1>2 DEF Await
  <2>2. Goes(job[w], j, pc, stage) /\ j.list = job[w].list /\ j.force = job[w].force /\ j.cred = job[w].cred
    BY <1>0 DEF JobType, Goes
  <2> HIDE DEF j
  <2> QED BY <1>0, <2>1, <2>2 DEF Others
<1>3. ASSUME NEW stage, NEW l, NEW f, NEW r, Sync(w, stage, l, f, r)
      PROVE  /\ Others(w) /\ Goes(job[w], job'[w], "read", stage)
             /\ job'[w].list = l /\ job'[w].force = f /\ job'[w].cred = job[w].cred
  <2> DEFINE j == [job[w] EXCEPT !.pc = "read", !.stage = stage, !.list = l, !.force = f, !.remove = r]
  <2>1. job' = [job EXCEPT ![w] = j]
    BY <1>0, <1>3 DEF Sync
  <2>2. Goes(job[w], j, "read", stage) /\ j.list = l /\ j.force = f /\ j.cred = job[w].cred
    BY <1>0 DEF JobType, Goes
  <2> HIDE DEF j
  <2> QED BY <1>0, <2>1, <2>2 DEF Others
<1>4. ASSUME NEW stage, NEW p, NEW c, Save(w, stage, p, c)
      PROVE  /\ Others(w) /\ Goes(job[w], job'[w], "write", stage) /\ job'[w].force = job[w].force
             /\ stage # "save" \/ c \in {None, job[w].cred} => job'[w].cred = job[w].cred
  <2> DEFINE l == [mem EXCEPT ![p] = c]
             x == IF stage = "save" THEN mem[p] ELSE job[w].prev
             y == IF stage = "save" /\ c # None THEN c ELSE job[w].cred
             j == [job[w] EXCEPT !.pc = "write", !.stage = stage, !.list = l, !.prev = x, !.cred = y]
  <2>1. job' = [job EXCEPT ![w] = j]
    BY <1>0, <1>4 DEF Save
  <2>0. stage # "save" \/ c \in {None, job[w].cred} => y = job[w].cred
    OBVIOUS
  <2> HIDE DEF l, x, y
  <2>2. Goes(job[w], j, "write", stage) /\ j.force = job[w].force /\ j.cred = y
    BY <1>0 DEF JobType, Goes
  <2> HIDE DEF j
  <2> QED BY <1>0, <2>0, <2>1, <2>2 DEF Others
<1>5. Release(w) => Others(w) /\ job'[w] = Idle
  BY ReleaseJob
<1> QED BY <1>2, <1>3, <1>4, <1>5

(* What the step of the one running operation must leave behind.             *)
Materialises(w) ==
  /\ Others(w)
  /\ \/ /\ Busy(job'[w]) /\ job'[w].op = job[w].op /\ AtHead(job'[w], mem', cfg', live', files', ready')
        /\ job[w].op = "put" => job'[w].cred = job[w].cred
     \/ job'[w] = Idle /\ (ready' => Mat(cfg', mem'))

LEMMA HeadKeeps ==
  ASSUME KeyInv, NEW w \in Worker, Working(w), Materialises(w)
  PROVE  KeyInv'
<1>1. \A v \in Worker : v # w => job'[v] = job[v] /\ ~Busy(job'[v])
  BY DEF Materialises, Others, Working, Alone
<1>2. \A v \in Worker : (Busy(job[v])' <=> Busy(job'[v]))
  BY DEF Busy
<1>3. \A v \in Worker : Busy(job'[v]) => v = w /\ AtHead(job'[w], mem', cfg', live', files', ready')
  BY <1>1 DEF Materialises, Idle, Busy
<1>4. (\A v \in Worker : ~Busy(job'[v])) /\ ready' => Mat(cfg', mem')
  BY DEF Materialises
<1>5. ASSUME NEW v \in Worker, job'[v].pc # "idle", job'[v].op = "put" PROVE job'[v].cred \in ApiCred
  <2>1. CASE v # w
    BY <1>1, <1>5, <2>1 DEF KeyInv
  <2>2. CASE v = w
    BY <1>5, <2>2 DEF KeyInv, Materialises, Idle, Working, Busy
  <2> QED BY <2>1, <2>2
<1> QED BY <1>2, <1>3, <1>4, <1>5 DEF KeyInv

LEMMA MachineryMaterialises ==
  ASSUME Types, KeptInv, KeyInv, NEW w \in Worker, Working(w),
         Replace(w) \/ CpaReconcile(w) \/ Probe(w) \/ Bind(w) \/ Bound(w)
  PROVE  Materialises(w)
<1> USE Fields DEF Types
<1> DEFINE j == job[w]
           p == job[w].prov
<1>1. Busy(j) /\ Knows(j, mem) /\ AtHead(j, mem, cfg, live, files, ready)
  <2>1. Busy(j)
    BY DEF Replace, ReplaceWrite, ReplaceRename, CpaReconcile, ReconcileRead, ReconcileUnload, ReconcileAbsent,
           ReconcilePut, Probe, Bind, Bound, Busy
  <2> QED BY <2>1, StoreIs DEF KeyInv
<1>2. ASSUME Replace(w) PROVE Materialises(w)
  <2>1. /\ j.pc \in Saving /\ \E pc \in {"rename", "saved", "thrown"} : Await(w, pc, j.stage)
    BY <1>2 DEF Replace, ReplaceWrite, ReplaceRename, Saving
  <2>2. PICK pc \in {"rename", "saved", "thrown"} : Others(w) /\ Goes(j, job'[w], pc, j.stage) /\ job'[w].cred = j.cred
    BY <2>1
  <2>3. j.stage \in {"save", "undoSave"} /\ j.op # "semanticReadiness" /\ UNCHANGED <<mem, cfg, ready>>
    BY <1>1, <1>2, <2>1 DEF Knows, Replace, ReplaceWrite, ReplaceRename, cpa
  <2>4. AtHead(job'[w], mem', cfg', live', files', ready')
    BY <1>1, <2>2, <2>3 DEF AtHead, Goes, Lasting
  <2> QED BY <2>2, <2>4 DEF Materialises, Goes, Busy
<1>3. j.op = "put" /\ j.stage \in {"sync", "probe"} =>
        /\ p \in Provider /\ j.cred \in ApiCred /\ mem[p] = j.cred /\ ApiKeys(mem)[p] = j.cred.ref /\ j.cred.ref # None
  <2>1. ASSUME j.op = "put", j.stage \in {"sync", "probe"} PROVE p \in Provider /\ j.cred \in ApiCred /\ mem[p] = j.cred
    BY <1>1, <2>1 DEF Knows, KeyInv, JobTypes, JobOK, Busy
  <2>2. ASSUME p \in Provider, j.cred \in ApiCred, mem[p] = j.cred PROVE ApiKeys(mem)[p] = j.cred.ref /\ j.cred.ref # None
    <3>1. j.cred \in CredType /\ j.cred.method = "api-key" /\ j.cred.ref \in Key
      BY <2>2 DEF ApiCred, CredType
    <3>2. j.cred # None /\ j.cred.ref # None
      BY <3>1, ControlAssumption
    <3> QED BY <2>2, <3>1, <3>2 DEF ApiKeys
  <2> QED BY <2>1, <2>2
<1>4. ASSUME NEW pc \in {"thrown", "put", "unload", "absent", "synced", "probed", "bound"}, Await(w, pc, j.stage),
             AtHead(job'[w], mem', cfg', live', files', ready')
      PROVE  Materialises(w)
  BY <1>4 DEF Materialises, Goes, Busy
<1>5. ASSUME ReconcileRead(w) PROVE Materialises(w)
  <2> DEFINE reload == {q \in j.force : ApiKeys(j.list)[q] # None}
  <2>1. j.pc = "read" /\ UNCHANGED <<mem, cfg, live, files, ready>>
    BY <1>5 DEF ReconcileRead, store, cpa
  <2>2. \/ Await(w, "thrown", j.stage)
        \/ Await(w, IF reload = {} THEN "put" ELSE "unload", j.stage)
    BY <1>5 DEF ReconcileRead
  <2>3. j.list = mem /\ (j.op \in {"semanticReadiness", "delete"} => reload = {})
    BY <1>1, <2>1 DEF AtHead
  <2>4. j.op = "put" /\ j.stage \in {"sync", "probe"} => reload # {}
    BY <1>1, <1>3, <2>1, <2>3 DEF AtHead
  <2> HIDE DEF reload
  <2>5. CASE Await(w, "thrown", j.stage)
    <3>1. AtHead(job'[w], mem', cfg', live', files', ready')
      BY <1>1, <2>1, <2>5 DEF AtHead, Goes, Lasting
    <3> QED BY <1>4, <2>5, <3>1
  <2>6. CASE reload = {} /\ Await(w, "put", j.stage)
    <3>1. AtHead(job'[w], mem', cfg', live', files', ready')
      BY <1>1, <2>1, <2>3, <2>4, <2>6 DEF AtHead, Goes, Lasting
    <3> QED BY <1>4, <2>6, <3>1
  <2>7. CASE reload # {} /\ Await(w, "unload", j.stage)
    <3>1. AtHead(job'[w], mem', cfg', live', files', ready')
      BY <1>1, <2>1, <2>3, <2>7 DEF AtHead, Goes, Lasting
    <3> QED BY <1>4, <2>7, <3>1
  <2> QED BY <2>2, <2>5, <2>6, <2>7
<1>6. ASSUME ReconcileUnload(w) PROVE Materialises(w)
  <2>1. j.pc = "unload" /\ UNCHANGED <<mem, live, files, ready>>
    BY <1>6 DEF ReconcileUnload, store
  <2>2. \/ /\ cfg' = [q \in Provider |-> IF q \in j.force THEN None ELSE ApiKeys(j.list)[q]]
           /\ Await(w, "absent", j.stage)
        \/ Await(w, "thrown", j.stage)
    BY <1>6 DEF ReconcileUnload
  <2>3. /\ j.op \notin {"semanticReadiness", "delete"} /\ j.list = mem
        /\ j.stage \notin {"dropFile", "import", "save", "undoSave"}
    BY <1>1, <2>1 DEF AtHead, Knows, Saving
  <2>4. CASE cfg' = [q \in Provider |-> IF q \in j.force THEN None ELSE ApiKeys(j.list)[q]] /\ Await(w, "absent", j.stage)
    <3>1. j.op = "put" /\ j.stage \in {"sync", "probe"} => j.force = {p} /\ cfg'[p] = None
      BY <1>1, <1>3, <2>1, <2>4 DEF AtHead
    <3>2. AtHead(job'[w], mem', cfg', live', files', ready')
      BY <2>1, <2>3, <2>4, <3>1 DEF AtHead, Goes, Lasting
    <3> QED BY <1>4, <2>4, <3>2
  <2>5. CASE Await(w, "thrown", j.stage)
    <3>1. AtHead(job'[w], mem', cfg', live', files', ready')
      BY <2>1, <2>3, <2>5 DEF AtHead, Goes, Lasting
    <3> QED BY <1>4, <2>5, <3>1
  <2> QED BY <2>2, <2>4, <2>5
<1>7. ASSUME ReconcileAbsent(w) PROVE Materialises(w)
  <2> DEFINE served == {q \in j.force : CatalogServed(q)}
  <2>1. j.pc = "absent" /\ UNCHANGED <<mem, cfg, live, files, ready>>
    BY <1>7 DEF ReconcileAbsent, store, cpa
  <2>2. (served = {} /\ Await(w, "put", j.stage)) \/ Await(w, "thrown", j.stage)
    BY <1>7 DEF ReconcileAbsent
  <2>3. /\ j.op \notin {"semanticReadiness", "delete"} /\ j.list = mem
        /\ j.stage \notin {"dropFile", "import", "save", "undoSave"}
    BY <1>1, <2>1 DEF AtHead, Knows, Saving
  <2>4. CASE served = {} /\ Await(w, "put", j.stage)
    <3>1. ASSUME j.op = "put", j.stage \in {"sync", "probe"}
          PROVE  j.force = {p} /\ cfg[p] = None /\ live[p] = None /\ Bare(p, files)
      <4>1. j.force = {p} /\ cfg[p] = None
        BY <1>1, <2>1, <3>1 DEF AtHead
      <4>2. ~CatalogServed(p)
        BY <2>4, <4>1
      <4> QED BY <4>1, <4>2 DEF CatalogServed, Prefixed, Bare
    <3>2. AtHead(job'[w], mem', cfg', live', files', ready')
      BY <2>1, <2>3, <2>4, <3>1 DEF AtHead, Goes, Lasting
    <3> QED BY <1>4, <2>4, <3>2
  <2>5. CASE Await(w, "thrown", j.stage)
    <3>1. AtHead(job'[w], mem', cfg', live', files', ready')
      BY <2>1, <2>3, <2>5 DEF AtHead, Goes, Lasting
    <3> QED BY <1>4, <2>5, <3>1
  <2> QED BY <2>2, <2>4, <2>5
<1>8. ASSUME ReconcilePut(w) PROVE Materialises(w)
  <2>1. j.pc = "put" /\ UNCHANGED <<mem, live, files, ready>>
    BY <1>8 DEF ReconcilePut, store
  <2>2. \/ cfg' = ApiKeys(j.list) /\ Await(w, "synced", j.stage)
        \/ cfg' \in {cfg, ApiKeys(j.list)} /\ Await(w, "thrown", j.stage)
    BY <1>8 DEF ReconcilePut
  <2>3. j.stage \notin {"dropFile", "import"} /\ j.list = mem
    BY <1>1, <2>1 DEF AtHead
  <2>0. Lasting(j) /\ ready => Mat(cfg', mem)
    BY <1>1, <2>2, <2>3, MatWhole DEF AtHead
  <2>4. CASE cfg' = ApiKeys(j.list) /\ Await(w, "synced", j.stage)
    <3>1. AtHead(job'[w], mem', cfg', live', files', ready')
      BY <1>1, <2>0, <2>1, <2>3, <2>4 DEF AtHead, Goes, Lasting
    <3> QED BY <1>4, <2>4, <3>1
  <2>5. CASE cfg' \in {cfg, ApiKeys(j.list)} /\ Await(w, "thrown", j.stage)
    <3>1. AtHead(job'[w], mem', cfg', live', files', ready')
      BY <1>1, <2>0, <2>1, <2>3, <2>5 DEF AtHead, Goes, Lasting
    <3> QED BY <1>4, <2>5, <3>1
  <2> QED BY <2>2, <2>4, <2>5
<1>9. ASSUME Probe(w) PROVE Materialises(w)
  <2>1. j.pc = "probe" /\ UNCHANGED <<mem, cfg, live, files, ready>>
    BY <1>9 DEF Probe, store, cpa
  <2>2. (CatalogServed(p) /\ Await(w, "probed", j.stage)) \/ Await(w, "thrown", j.stage)
    BY <1>9 DEF Probe
  <2>3. j.stage \notin {"dropFile", "import"} /\ j.list = mem
    BY <1>1, <2>1 DEF AtHead
  <2>4. CASE CatalogServed(p) /\ Await(w, "probed", j.stage)
    <3>1. Bare(p, files) => live[p] # None
      BY <2>4 DEF CatalogServed, Prefixed, Bare
    <3>2. AtHead(job'[w], mem', cfg', live', files', ready')
      BY <1>1, <2>1, <2>3, <2>4, <3>1 DEF AtHead, Goes, Lasting
    <3> QED BY <1>4, <2>4, <3>2
  <2>5. CASE Await(w, "thrown", j.stage)
    <3>1. AtHead(job'[w], mem', cfg', live', files', ready')
      BY <1>1, <2>1, <2>3, <2>5 DEF AtHead, Goes, Lasting
    <3> QED BY <1>4, <2>5, <3>1
  <2> QED BY <2>2, <2>4, <2>5
<1>10. ASSUME Bind(w) PROVE Materialises(w)
  <2>1. j.pc = "call" /\ j.stage = "bind"
    BY <1>10 DEF Bind
  <2>2. j.op = "reconcile"
    BY <1>1, <2>1 DEF Knows
  <2>3. \E pc \in {"bound", "thrown"} : Await(w, pc, "bind")
    BY <1>10 DEF Bind
  <2>4. PICK pc \in {"bound", "thrown"} : Await(w, pc, j.stage)
    BY <2>1, <2>3
  <2>5. AtHead(job'[w], mem', cfg', live', files', ready')
    BY <2>1, <2>2, <2>4 DEF AtHead, Goes, Lasting
  <2> QED BY <1>4, <2>4, <2>5
<1>11. ASSUME Bound(w) PROVE Materialises(w)
  <2>1. j.pc = "bound" /\ Save(w, "save", p, Cred("oauth", j.cred.ref, clock))
    BY <1>11 DEF Bound
  <2>2. j.stage = "bind" /\ j.op = "reconcile"
    BY <1>1, <2>1 DEF Knows
  <2>3. Others(w) /\ Goes(j, job'[w], "write", "save")
    BY <2>1
  <2>4. AtHead(job'[w], mem', cfg', live', files', ready')
    BY <2>2, <2>3 DEF AtHead, Goes, Lasting
  <2> QED BY <2>2, <2>3, <2>4 DEF Materialises, Goes, Busy
<1> QED BY <1>2, <1>5, <1>6, <1>7, <1>8, <1>9, <1>10, <1>11 DEF CpaReconcile

(* An operation that just awaits or writes, none of it about the collection. *)
LEMMA PlainGoes ==
  ASSUME Types, NEW w \in Worker, Others(w),
         NEW pc \in {"write", "call", "dropped", "imported", "thrown"}, NEW stage, Goes(job[w], job'[w], pc, stage),
         stage \in {"dropFile", "import"} => pc # "write",
         stage \in {"dropFile", "import"} \/ job[w].op \in {"put", "delete"} => (ready' => Mat(cfg', mem')),
         job[w].op # "semanticReadiness",
         job[w].op = "put" => job'[w].cred = job[w].cred
  PROVE  Materialises(w)
BY DEF Materialises, AtHead, Goes, Busy, Lasting

LEMMA PlainSave ==
  ASSUME Types, NEW w \in Worker, NEW stage \in {"save", "undoSave"}, NEW p, NEW c, Save(w, stage, p, c),
         job[w].op # "semanticReadiness", job[w].op = "put" => stage # "save" \/ c = job[w].cred,
         job[w].op \in {"put", "delete"} => (ready' => Mat(cfg', mem'))
  PROVE  Materialises(w)
<1>1. /\ Others(w) /\ Goes(job[w], job'[w], "write", stage)
      /\ stage # "save" \/ c \in {None, job[w].cred} => job'[w].cred = job[w].cred
  BY Fields DEF Types
<1>2. job[w].op = "put" => job'[w].cred = job[w].cred
  BY <1>1
<1> QED BY <1>1, <1>2, PlainGoes

LEMMA PlainAwait ==
  ASSUME Types, NEW w \in Worker, NEW pc \in {"call", "dropped", "imported", "thrown"}, NEW stage, Await(w, pc, stage),
         stage \in {"dropFile", "import"} \/ job[w].op \in {"put", "delete"} => (ready' => Mat(cfg', mem')),
         job[w].op # "semanticReadiness"
  PROVE  Materialises(w)
<1>1. Others(w) /\ Goes(job[w], job'[w], pc, stage) /\ job'[w].cred = job[w].cred
  BY Fields DEF Types
<1> QED BY <1>1, PlainGoes

(* In line, a readiness is about the keys in memory.                         *)
LEMMA ReadyInLine ==
  ASSUME KeyInv, NEW w \in Worker, Working(w), job[w].pc = "queued", ready
  PROVE  Mat(cfg, mem)
<1>1. \A v \in Worker : ~Busy(job[v])
  BY DEF Working, Alone, Busy
<1> QED BY <1>1 DEF KeyInv

LEMMA PutMaterialises ==
  ASSUME Types, KeptInv, KeyInv, NEW w \in Worker, Working(w), PutCredential(w)
  PROVE  Materialises(w)
<1> USE Fields DEF Types
<1> DEFINE j == job[w]
           p == job[w].prov
<1>1. j.op = "put" /\ j.pc # "idle"
  BY DEF PutCredential, PutBegin, PutSaved, PutSynced, PutReady, PutThrown, PutUndoSaved, PutUndone,
              MyTurn, Running
<1>2. Busy(j) => Knows(j, mem) /\ AtHead(j, mem, cfg, live, files, ready)
  BY StoreIs DEF KeyInv
<1>3. ASSUME PutBegin(w) PROVE Materialises(w)
  <2>1. j.pc = "queued" /\ Save(w, "save", p, j.cred) /\ UNCHANGED <<mem, cfg, ready>>
    BY <1>3 DEF PutBegin, MyTurn, store, cpa
  <2>2. ready => Mat(cfg, mem)
    BY <2>1, ReadyInLine
  <2> QED BY <1>1, <2>1, <2>2, PlainSave
<1>4. ASSUME PutSaved(w) PROVE Materialises(w)
  <2>1. Sync(w, "sync", j.list, {p}, {}) /\ mem' = j.list
    BY <1>4 DEF PutSaved, Assign
  <2>2. AtHead(job'[w], mem', cfg', live', files', ready')
    BY <1>1, <2>1 DEF AtHead, Goes, Lasting
  <2> QED BY <1>1, <2>1, <2>2 DEF Materialises, Goes, Busy
<1>5. ASSUME PutSynced(w) PROVE Materialises(w)
  <2>1. j.pc = "synced" /\ j.stage = "sync" /\ Await(w, "probe", "probe") /\ UNCHANGED <<mem, cfg, live, files, ready>>
    BY <1>5 DEF PutSynced, Running, store, cpa
  <2>2. AtHead(j, mem, cfg, live, files, ready)
    BY <1>2, <2>1 DEF Busy
  <2>3. AtHead(job'[w], mem', cfg', live', files', ready')
    BY <1>1, <2>1, <2>2 DEF AtHead, Goes, Lasting
  <2> QED BY <1>1, <2>1, <2>3 DEF Materialises, Goes, Busy
<1>6. ASSUME PutReady(w) PROVE Materialises(w)
  <2>1. j.pc = "probed" /\ Release(w) /\ UNCHANGED <<mem, cfg>>
    BY <1>6 DEF PutReady, Running, store, cpa
  <2>2. Mat(cfg, mem)
    BY <1>2, <2>1, MatWhole DEF Busy, AtHead
  <2> QED BY <2>1, <2>2 DEF Materialises
<1>7. ASSUME PutThrown(w) PROVE Materialises(w)
  <2>1. j.pc = "thrown" /\ UNCHANGED <<mem, cfg>> /\ AtHead(j, mem, cfg, live, files, ready)
    BY <1>2, <1>7 DEF PutThrown, store, cpa, Busy
  <2>2. j.stage \in {"save", "undoSave"} /\ ready => Mat(cfg, mem)
    BY <1>1, <2>1 DEF AtHead, Lasting
  <2>3. \/ Release(w) /\ (ready' => ready /\ j.stage \in {"save", "undoSave"})
        \/ Sync(w, "undoSync", mem, {}, {})
        \/ Save(w, "undoSave", p, j.prev) /\ ready' = FALSE
    BY <1>7 DEF PutThrown
  <2>4. CASE Release(w) /\ (ready' => ready /\ j.stage \in {"save", "undoSave"})
    BY <2>1, <2>2, <2>4 DEF Materialises
  <2>5. CASE Sync(w, "undoSync", mem, {}, {})
    <3>1. AtHead(job'[w], mem', cfg', live', files', ready')
      BY <1>1, <2>1, <2>5 DEF AtHead, Goes, Lasting
    <3> QED BY <1>1, <2>5, <3>1 DEF Materialises, Goes, Busy
  <2>6. CASE Save(w, "undoSave", p, j.prev) /\ ready' = FALSE
    BY <1>1, <2>6, PlainSave
  <2> QED BY <2>3, <2>4, <2>5, <2>6
<1>8. ASSUME PutUndoSaved(w) PROVE Materialises(w)
  <2>1. \E f : Sync(w, "undoSync", j.list, f, {}) /\ mem' = j.list
    BY <1>8 DEF PutUndoSaved, Assign
  <2>2. AtHead(job'[w], mem', cfg', live', files', ready')
    BY <1>1, <2>1 DEF AtHead, Goes, Lasting
  <2> QED BY <1>1, <2>1, <2>2 DEF Materialises, Goes, Busy
<1>9. ASSUME PutUndone(w) PROVE Materialises(w)
  <2>1. /\ j.pc \in {"synced", "probed"} /\ UNCHANGED <<mem, cfg>>
        /\ Await(w, "probe", "undoProbe") \/ (Release(w) /\ ready' = FALSE)
    BY <1>9 DEF PutUndone, Running, store, cpa
  <2>2. cfg = ApiKeys(mem) /\ j.list = mem
    BY <1>2, <2>1 DEF Busy, AtHead
  <2>3. CASE Release(w) /\ ready' = FALSE
    BY <2>3 DEF Materialises
  <2>4. CASE Await(w, "probe", "undoProbe")
    <3>1. AtHead(job'[w], mem', cfg', live', files', ready')
      BY <1>1, <2>1, <2>2, <2>4 DEF AtHead, Goes, Lasting
    <3> QED BY <1>1, <2>4, <3>1 DEF Materialises, Goes, Busy
  <2> QED BY <2>1, <2>3, <2>4
<1> QED BY <1>3, <1>4, <1>5, <1>6, <1>7, <1>8, <1>9 DEF PutCredential

LEMMA DeleteMaterialises ==
  ASSUME Types, KeptInv, KeyInv, NEW w \in Worker, Working(w), DeleteCredential(w)
  PROVE  Materialises(w)
<1> USE Fields DEF Types
<1> DEFINE j == job[w]
           p == job[w].prov
<1>1. j.op = "delete" /\ j.pc # "idle"
  BY DEF DeleteCredential, DeleteBegin, DropFile, DeleteDropped, DeleteSaved, DeleteSynced, DeleteThrown,
         DeleteUndone, MyTurn, Running
<1>2. Busy(j) => Knows(j, mem) /\ AtHead(j, mem, cfg, live, files, ready)
  BY StoreIs DEF KeyInv
<1>3. ASSUME DeleteStored(w), UNCHANGED <<mem, cfg, ready>>, ready => Mat(cfg, mem) PROVE Materialises(w)
  <2>1. Release(w) \/ Save(w, "save", p, None)
    BY <1>3 DEF DeleteStored
  <2>2. Release(w) => Materialises(w)
    BY <1>3 DEF Materialises
  <2>3. Save(w, "save", p, None) => Materialises(w)
    BY <1>1, <1>3, PlainSave
  <2> QED BY <2>1, <2>2, <2>3
<1>4. ASSUME DeleteBegin(w) PROVE Materialises(w)
  <2>1. /\ j.pc = "queued" /\ UNCHANGED <<mem, cfg, ready>>
        /\ DeleteStored(w) \/ SetsPrev(w, "call", "dropFile", mem[p])
    BY <1>4 DEF DeleteBegin, MyTurn, SetsPrev, store, cpa
  <2>2. ready => Mat(cfg, mem)
    BY <2>1, ReadyInLine
  <2>3. ASSUME SetsPrev(w, "call", "dropFile", mem[p]) PROVE Materialises(w)
    <3> DEFINE i == [j EXCEPT !.pc = "call", !.stage = "dropFile", !.prev = mem[p]]
    <3>1. job' = [job EXCEPT ![w] = i] /\ j \in JobType
      BY <2>3 DEF SetsPrev, JobTypes
    <3>2. Goes(j, i, "call", "dropFile")
      BY <3>1 DEF Goes, JobType
    <3> HIDE DEF i
    <3>3. Others(w) /\ job'[w] = i
      BY <3>1 DEF Others, JobTypes
    <3> QED BY <1>1, <2>1, <2>2, <3>2, <3>3, PlainGoes
  <2> QED BY <1>3, <2>1, <2>2, <2>3
<1>5. ASSUME DropFile(w) PROVE Materialises(w)
  <2>1. /\ j.pc = "call" /\ UNCHANGED <<mem, cfg, ready>>
        /\ \E pc \in {"dropped", "thrown"} : Await(w, pc, "dropFile")
    BY <1>5 DEF DropFile, store
  <2>2. j.stage = "dropFile" /\ AtHead(j, mem, cfg, live, files, ready)
    BY <1>1, <1>2, <2>1 DEF Busy, Knows
  <2>3. ready => Mat(cfg, mem)
    BY <2>2 DEF AtHead, Lasting
  <2> QED BY <1>1, <2>1, <2>3, PlainAwait
<1>6. ASSUME DeleteDropped(w) PROVE Materialises(w)
  <2>1. j.pc = "dropped" /\ j.stage = "dropFile" /\ DeleteStored(w) /\ UNCHANGED <<mem, cfg, ready>>
    BY <1>6 DEF DeleteDropped, Running, store, cpa
  <2>2. ready => Mat(cfg, mem)
    BY <1>2, <2>1 DEF Busy, AtHead, Lasting
  <2> QED BY <1>3, <2>1, <2>2
<1>7. ASSUME DeleteSaved(w) PROVE Materialises(w)
  <2>1. /\ Sync(w, "sync", j.list, {}, {p}) /\ mem' = j.list /\ UNCHANGED <<cfg, ready>>
        /\ j.pc = "saved" /\ j.stage = "save"
    BY <1>7 DEF DeleteSaved, Assign, Running, cpa
  <2>0. /\ ready => Mat(cfg, mem)
        /\ j.list[p] = None /\ \A q \in Provider \ {p} : j.list[q] = mem[q]
    BY <1>1, <1>2, <2>1 DEF Busy, AtHead, Lasting, Knows, Saving
  <2>3. ready' => Mat(cfg', mem')
    BY <2>0, <2>1, MatLess
  <2>2. AtHead(job'[w], mem', cfg', live', files', ready')
    BY <1>1, <2>1, <2>3 DEF AtHead, Goes, Lasting
  <2> QED BY <1>1, <2>1, <2>2 DEF Materialises, Goes, Busy
<1>8. ASSUME DeleteSynced(w) PROVE Materialises(w)
  <2>1. j.pc = "synced" /\ Release(w) /\ UNCHANGED <<mem, cfg>>
    BY <1>8 DEF DeleteSynced, Running, store, cpa
  <2>2. Mat(cfg, mem)
    BY <1>2, <2>1, MatWhole DEF Busy, AtHead
  <2> QED BY <2>1, <2>2 DEF Materialises
<1>9. ASSUME DeleteThrown(w) PROVE Materialises(w)
  <2>1. j.pc = "thrown" /\ UNCHANGED <<mem, cfg, ready>>
    BY <1>9 DEF DeleteThrown, store, cpa
  <2>2. ready => Mat(cfg, mem)
    BY <1>1, <1>2, <2>1 DEF Busy, AtHead, Lasting
  <2>3. CASE j.stage # "sync"
    <3>1. Release(w)
      BY <1>9, <2>3 DEF DeleteThrown
    <3> QED BY <2>1, <2>2, <3>1 DEF Materialises
  <2>4. CASE j.stage = "sync"
    <3>1. Save(w, "undoSave", p, j.prev)
      BY <1>9, <2>4 DEF DeleteThrown
    <3> QED BY <1>1, <2>1, <2>2, <3>1, PlainSave
  <2> QED BY <2>3, <2>4
<1>10. DeleteUndone(w) => Materialises(w)
  BY DEF DeleteUndone, Materialises
<1> QED BY <1>4, <1>5, <1>6, <1>7, <1>8, <1>9, <1>10 DEF DeleteCredential

LEMMA ImportMaterialises ==
  ASSUME Types, KeptInv, KeyInv, NEW w \in Worker, Working(w), ImportCredential(w)
  PROVE  Materialises(w)
<1> USE Fields DEF Types
<1> DEFINE j == job[w]
           p == job[w].prov
<1>1. j.op = "import" /\ j.pc # "idle"
  BY DEF ImportCredential, ImportBegin, ImportFile, ImportImported, ImportSaved, ImportSynced, ImportReady,
         ImportThrown, ImportUndoSaved, ImportUndone, MyTurn, Running
<1>2. Busy(j) => Knows(j, mem) /\ AtHead(j, mem, cfg, live, files, ready)
  BY StoreIs DEF KeyInv
<1>3. ASSUME ImportBegin(w) PROVE Materialises(w)
  <2>1. j.pc = "queued" /\ UNCHANGED <<mem, cfg, ready>> /\ (Release(w) \/ Await(w, "call", "import"))
    BY <1>3 DEF ImportBegin, MyTurn, store, cpa
  <2>2. ready => Mat(cfg, mem)
    BY <2>1, ReadyInLine
  <2>3. Release(w) => Materialises(w)
    BY <2>1, <2>2 DEF Materialises
  <2>4. Await(w, "call", "import") => Materialises(w)
    BY <1>1, <2>1, <2>2, PlainAwait
  <2> QED BY <2>1, <2>3, <2>4
<1>4. ASSUME ImportFile(w) PROVE Materialises(w)
  <2>1. /\ j.pc = "call" /\ j.stage = "import" /\ UNCHANGED <<mem, cfg, ready>>
        /\ \E pc \in {"imported", "thrown"} : Await(w, pc, "import")
    BY <1>4 DEF ImportFile, Running, store
  <2>2. ready => Mat(cfg, mem)
    BY <1>2, <2>1 DEF Busy, AtHead, Lasting
  <2> QED BY <1>1, <2>1, <2>2, PlainAwait
<1>5. ImportImported(w) => Materialises(w)
  <2>1. ImportImported(w) => Save(w, "save", p, Cred("credential-import", VertexFile[p], clock))
    BY DEF ImportImported
  <2> QED BY <1>1, <2>1, PlainSave
<1>6. ASSUME ImportSaved(w) PROVE Materialises(w)
  <2>1. Sync(w, "sync", j.list, {}, {}) /\ mem' = j.list
    BY <1>6 DEF ImportSaved, Assign
  <2>2. AtHead(job'[w], mem', cfg', live', files', ready')
    BY <1>1, <2>1 DEF AtHead, Goes, Lasting
  <2> QED BY <1>1, <2>1, <2>2 DEF Materialises, Goes, Busy
<1>7. ASSUME ImportSynced(w) PROVE Materialises(w)
  <2>1. j.pc = "synced" /\ Await(w, "probe", "probe") /\ UNCHANGED <<mem, cfg>>
    BY <1>7 DEF ImportSynced, Running, store, cpa
  <2>2. cfg = ApiKeys(mem) /\ j.list = mem
    BY <1>2, <2>1 DEF Busy, AtHead
  <2>3. AtHead(job'[w], mem', cfg', live', files', ready')
    BY <1>1, <2>1, <2>2 DEF AtHead, Goes, Lasting
  <2> QED BY <1>1, <2>1, <2>3 DEF Materialises, Goes, Busy
<1>8. ASSUME ImportReady(w) PROVE Materialises(w)
  <2>1. j.pc = "probed" /\ Release(w) /\ UNCHANGED <<mem, cfg>>
    BY <1>8 DEF ImportReady, Running, store, cpa
  <2>2. Mat(cfg, mem)
    BY <1>2, <2>1, MatWhole DEF Busy, AtHead
  <2> QED BY <2>1, <2>2 DEF Materialises
<1>9. ASSUME ImportThrown(w) PROVE Materialises(w)
  <2>1. j.pc = "thrown" /\ UNCHANGED <<mem, cfg>>
    BY <1>9 DEF ImportThrown, store, cpa
  <2>2. CASE j.stage = "import"
    <3>1. Release(w) /\ ready' = ready
      BY <1>9, <2>2 DEF ImportThrown, Types, OtherTypes
    <3>2. ready => Mat(cfg, mem)
      BY <1>2, <2>1, <2>2 DEF Busy, AtHead, Lasting
    <3> QED BY <2>1, <3>1, <3>2 DEF Materialises
  <2>3. CASE j.stage # "import"
    <3>1. Save(w, "undoSave", p, None) \/ \E stage \in {"undoFile", "undoFileOnly"} : Await(w, "call", stage)
      BY <1>9, <2>3 DEF ImportThrown
    <3>2. Save(w, "undoSave", p, None) => Materialises(w)
      BY <1>1, PlainSave
    <3>3. \A stage \in {"undoFile", "undoFileOnly"} : Await(w, "call", stage) => Materialises(w)
      BY <1>1, PlainAwait
    <3> QED BY <3>1, <3>2, <3>3
  <2> QED BY <2>2, <2>3
<1>10. ImportUndoSaved(w) => Materialises(w)
  <2>1. ImportUndoSaved(w) => Await(w, "call", "undoFile")
    BY DEF ImportUndoSaved
  <2> QED BY <1>1, <2>1, PlainAwait
<1>11. ImportUndone(w) => Materialises(w)
  BY DEF ImportUndone, Materialises
<1> QED BY <1>3, <1>4, <1>5, <1>6, <1>7, <1>8, <1>9, <1>10, <1>11 DEF ImportCredential

LEMMA ReconcileMaterialises ==
  ASSUME Types, KeptInv, KeyInv, NEW w \in Worker, Working(w), Reconcile(w) \/ CheckProviders(w)
  PROVE  Materialises(w)
<1>0. ASSUME NEW f, SetsRef(w, "bind", f)
      PROVE  job' = [job EXCEPT ![w] = [job[w] EXCEPT !.stage = "bind", !.cred = [job[w].cred EXCEPT !.ref = f]]]
  BY <1>0, JobOf DEF Types, JobTypes, SetsRef
<1> USE Fields DEF Types
<1> DEFINE j == job[w]
<1>1. j.op \in {"reconcile", "reconcileProvider", "semanticReadiness"} /\ j.pc # "idle"
  BY DEF Reconcile, ReconcileBegin, RepairList, ReconcileSaved, ReconcileHealth, ReconcileThrown,
         CheckProviders, CheckBegin, CheckHealth, CheckThrown, MyTurn, Running
<1>2. Busy(j) => AtHead(j, mem, cfg, live, files, ready)
  BY DEF KeyInv
<1>3. ASSUME Sync(w, "sync", mem', {}, {}), UNCHANGED <<cfg, ready>>,
             j.op = "semanticReadiness" /\ ready => Mat(cfg, mem')
      PROVE  Materialises(w)
  <2>1. /\ Others(w) /\ Goes(j, job'[w], "read", "sync")
        /\ job'[w].list = mem' /\ job'[w].force = {}
    BY <1>3
  <2>2. AtHead(job'[w], mem', cfg', live', files', ready')
    BY <1>1, <1>3, <2>1 DEF AtHead, Goes, Lasting
  <2> QED BY <1>1, <2>1, <2>2 DEF Materialises, Goes, Busy
<1>4. ASSUME NEW i, job' = [job EXCEPT ![w] = i], i.pc = "call", i.stage \in {"repair", "bind"},
             i.op = "reconcile", j.op = "reconcile"
      PROVE  Materialises(w)
  <2>1. Others(w) /\ job'[w] = i
    BY <1>4 DEF Others, JobTypes
  <2>2. AtHead(i, mem', cfg', live', files', ready')
    BY <1>4 DEF AtHead, Lasting
  <2> QED BY <1>4, <2>1, <2>2 DEF Materialises, Busy
<1>5. ASSUME ReconcileBegin(w) PROVE Materialises(w)
  <2>1. j.pc = "queued" /\ j.op = "reconcile" /\ UNCHANGED <<mem, cfg, ready>>
    BY <1>5 DEF ReconcileBegin, MyTurn, store, cpa
  <2>2. CASE Sync(w, "sync", mem, {}, {})
    BY <1>3, <2>1, <2>2
  <2>3. ASSUME NEW q, SetsTarget(w, "call", "repair", q, mem[q]) PROVE Materialises(w)
    <3> DEFINE i == [j EXCEPT !.pc = "call", !.stage = "repair", !.prov = q, !.cred = mem[q]]
    <3>1. job' = [job EXCEPT ![w] = i] /\ j \in JobType
      BY <2>3 DEF JobTypes, SetsTarget
    <3>2. i.pc = "call" /\ i.stage = "repair" /\ i.op = j.op
      BY <3>1 DEF JobType
    <3> HIDE DEF i
    <3> QED BY <1>4, <2>1, <3>1, <3>2
  <2>4. Sync(w, "sync", mem, {}, {}) \/ \E q : SetsTarget(w, "call", "repair", q, mem[q])
    BY <1>5 DEF ReconcileBegin, SetsTarget
  <2> QED BY <2>2, <2>3, <2>4
<1>6. ASSUME RepairList(w) PROVE Materialises(w)
  <2>1. j.pc = "call" /\ j.stage = "repair" /\ j.op = "reconcile" /\ UNCHANGED <<mem, cfg, ready>>
    BY <1>6 DEF RepairList, Running, store, cpa
  <2>2. CASE Sync(w, "sync", mem, {}, {})
    BY <1>3, <2>1, <2>2
  <2>3. CASE Await(w, "thrown", "repair")
    BY <2>1, <2>3, PlainAwait
  <2>4. ASSUME NEW f, SetsRef(w, "bind", f) PROVE Materialises(w)
    <3> DEFINE c == [j.cred EXCEPT !.ref = f]
               i == [j EXCEPT !.stage = "bind", !.cred = c]
    <3>1. job' = [job EXCEPT ![w] = i]
      BY <1>0, <2>4
    <3> HIDE DEF c
    <3>2. i.pc = j.pc /\ i.stage = "bind" /\ i.op = j.op
      BY JobOf DEF JobType
    <3> HIDE DEF i
    <3> QED BY <1>4, <2>1, <3>1, <3>2
  <2>5. Sync(w, "sync", mem, {}, {}) \/ Await(w, "thrown", "repair") \/ \E f : SetsRef(w, "bind", f)
    BY <1>6 DEF RepairList, SetsRef
  <2> QED BY <2>2, <2>3, <2>4, <2>5
<1>7. ASSUME ReconcileSaved(w) PROVE Materialises(w)
  <2>1. j.op = "reconcile" /\ mem' = j.list /\ Sync(w, "sync", j.list, {}, {}) /\ UNCHANGED <<cfg, ready>>
    BY <1>7 DEF ReconcileSaved, Running, Assign, cpa
  <2> QED BY <1>3, <2>1
<1>8. ASSUME ReconcileHealth(w) \/ CheckHealth(w) PROVE Materialises(w)
  <2>1. j.pc = "synced" /\ Release(w) /\ UNCHANGED <<mem, cfg>>
    BY <1>8 DEF ReconcileHealth, CheckHealth, Running, store, cpa
  <2>2. Mat(cfg, mem)
    BY <1>2, <2>1, MatWhole DEF Busy, AtHead
  <2> QED BY <2>1, <2>2 DEF Materialises
<1>9. ReconcileThrown(w) => Materialises(w)
  BY DEF ReconcileThrown, Materialises
<1>10. ASSUME CheckBegin(w) PROVE Materialises(w)
  <2>1. j.pc = "queued" /\ UNCHANGED <<mem, cfg, ready>> /\ (Release(w) \/ Sync(w, "sync", mem, {}, {}))
    BY <1>10 DEF CheckBegin, MyTurn, store, cpa
  <2>2. ready => Mat(cfg, mem)
    BY <2>1, ReadyInLine
  <2>3. CASE Release(w)
    BY <2>1, <2>2, <2>3 DEF Materialises
  <2>4. CASE Sync(w, "sync", mem, {}, {})
    BY <1>3, <2>1, <2>2, <2>4
  <2> QED BY <2>1, <2>3, <2>4
<1>11. ASSUME CheckThrown(w) PROVE Materialises(w)
  <2>1. /\ j.pc = "thrown" /\ Release(w) /\ UNCHANGED <<mem, cfg>>
        /\ ready' = (ready /\ j.op = "semanticReadiness")
    BY <1>11 DEF CheckThrown, store, cpa
  <2>2. ready' => Mat(cfg, mem)
    BY <1>2, <2>1 DEF Busy, AtHead, Lasting
  <2> QED BY <2>1, <2>2 DEF Materialises
<1> QED BY <1>5, <1>6, <1>7, <1>8, <1>9, <1>10, <1>11 DEF Reconcile, CheckProviders

(* A request or the timer joins the line; a saved key comes with its request. *)
LEMMA CallMaterialises ==
  ASSUME Types, KeyInv, NEW w \in Worker, NEW op, NEW p, NEW c, NEW s, Call(w, op, p, c, s),
         op = "put" => c \in ApiCred, UNCHANGED <<mem, cfg, live, files, ready>>
  PROVE  KeyInv'
<1> DEFINE j == [Idle EXCEPT !.pc = "queued", !.op = op, !.prov = p, !.cred = c, !.sid = s]
<1>1. job' = [job EXCEPT ![w] = j] /\ job[w].pc = "idle" /\ job \in [Worker -> JobType]
  BY DEF Call, Types, JobTypes
<1>2. j.pc = "queued" /\ j.op = op /\ j.cred = c
  BY DEF Idle
<1> HIDE DEF j
<1>3. \A v \in Worker : job'[v] = IF v = w THEN j ELSE job[v]
  BY <1>1
<1>4. \A v \in Worker : (Busy(job[v])' <=> Busy(job[v])) /\ (Busy(job[v]) => job'[v] = job[v])
  BY <1>1, <1>2, <1>3 DEF Busy
<1>5. \A v \in Worker : job'[v].pc # "idle" /\ job'[v].op = "put" => job'[v].cred \in ApiCred
  BY <1>2, <1>3 DEF KeyInv
<1>6. (\A v \in Worker : ~Busy(job[v])') /\ ready' => Mat(cfg', mem')
  BY <1>4 DEF KeyInv
<1>7. \A v \in Worker : Busy(job[v])' => AtHead(job'[v], mem', cfg', live', files', ready')
  BY <1>4 DEF KeyInv
<1> QED BY <1>5, <1>6, <1>7 DEF KeyInv, Busy

LEMMA RequestMaterialises ==
  ASSUME Types, KeyInv, NEW w \in Worker, Request(w)
  PROVE  KeyInv'
<1>1. \E op, p, c, s : Call(w, op, p, c, s) /\ (op = "put" => c \in ApiCred)
  <2>1. \A k \in Key : Cred("api-key", k, 0) \in ApiCred
    BY DEF Cred, ApiCred
  <2>2. \/ \E op \in {"delete", "import", "semanticReadiness", "startOAuth"}, p \in Provider :
              Call(w, op, p, None, None)
        \/ \E p \in Provider, k \in Key : Call(w, "put", p, Cred("api-key", k, 0), None)
        \/ \E p \in Provider : Call(w, "reconcileProvider", p, mem[p], None)
        \/ \E op \in {"submitOAuthCallback", "oauthStatus"}, s \in Session : Call(w, op, sess[s].prov, None, s)
    BY DEF Request
  <2>3. CASE \E op \in {"delete", "import", "semanticReadiness", "startOAuth"}, p \in Provider :
              Call(w, op, p, None, None)
    BY <2>3
  <2>4. CASE \E p \in Provider, k \in Key : Call(w, "put", p, Cred("api-key", k, 0), None)
    BY <2>1, <2>4
  <2>5. CASE \E p \in Provider : Call(w, "reconcileProvider", p, mem[p], None)
    BY <2>5
  <2>6. CASE \E op \in {"submitOAuthCallback", "oauthStatus"}, s \in Session : Call(w, op, sess[s].prov, None, s)
    BY <2>6
  <2> QED BY <2>2, <2>3, <2>4, <2>5, <2>6
<1>2. UNCHANGED <<mem, cfg, live, files, ready>>
  BY DEF Request, store, cpa
<1> QED BY <1>1, <1>2, CallMaterialises

(* putCredential's key is the one the store has, once it is saved.           *)
LEMMA OwnKey ==
  ASSUME Types, KeptInv, KeyInv, NEW w \in Worker, Busy(job[w]), job[w].op = "put",
         job[w].stage \in {"sync", "probe"}
  PROVE  ApiKeys(mem)[job[w].prov] = job[w].cred.ref /\ job[w].cred.ref # None /\ job[w].prov \in Provider
<1> DEFINE p == job[w].prov
           c == job[w].cred
<1>1. p \in Provider /\ c \in ApiCred /\ mem[p] = c
  BY DEF KeyInv, Types, JobTypes, JobOK, Busy, KeptInv, Local, Knows
<1>2. c \in CredType /\ c.method = "api-key" /\ c.ref \in Key
  BY <1>1 DEF ApiCred, CredType
<1>3. c # None /\ c.ref # None
  BY <1>2, ControlAssumption
<1> QED BY <1>1, <1>2, <1>3 DEF ApiKeys

(* What happens in CPA of itself: its watcher catches up, an auth file comes *)
(* or is renamed, and none gets the prefix of a Provider that had none.      *)
LEMMA CpaKeepsKeys ==
  ASSUME Types, KeptInv, KeyInv, UNCHANGED <<mem, cfg, ready, job>>, live' \in {live, cfg},
         \A p \in Provider : Bare(p, files) => Bare(p, files')
  PROVE  KeyInv'
<1>1. ASSUME NEW w \in Worker, Busy(job[w]) PROVE AtHead(job[w], mem, cfg, live', files', ready)
  <2> DEFINE j == job[w]
  <2>1. AtHead(j, mem, cfg, live, files, ready)
    BY <1>1 DEF KeyInv
  <2>2. CASE j.op = "put" /\ j.stage \in {"sync", "probe"}
    <3>1. j.prov \in Provider /\ ApiKeys(mem)[j.prov] = j.cred.ref
      BY <1>1, <2>2, OwnKey
    <3> QED BY <2>1, <2>2, <3>1 DEF AtHead
  <2>3. CASE ~(j.op = "put" /\ j.stage \in {"sync", "probe"})
    BY <2>1, <2>3 DEF AtHead
  <2> QED BY <2>2, <2>3
<1> QED BY <1>1 DEF KeyInv, Busy

LEMMA OutsideMaterialises ==
  ASSUME Types, KeptInv, KeyInv,
         Refresh \/ (\E s \in Session : Login(s) \/ Expire(s)) \/ (\E p \in Provider : Rotate(p)) \/ UNCHANGED vars
  PROVE  KeyInv'
<1>1. Refresh => KeyInv'
  BY CpaKeepsKeys DEF Refresh, store
<1>2. ASSUME NEW s \in Session, Login(s) PROVE KeyInv'
  <2>1. UNCHANGED <<mem, cfg, ready, job, live>>
    BY <1>2 DEF Login, store
  <2>2. \/ files' = files
        \/ files' = [files EXCEPT ![AccountOf[sess[s].prov]] = [at |-> clock + 1, prefix |-> None]]
    BY <1>2 DEF Login
  <2>3. \A f \in File : files'[f] = files[f] \/ files'[f].prefix = None
    BY <2>2 DEF Types, CpaTypes
  <2>4. \A p \in Provider : Bare(p, files) => Bare(p, files')
    BY <2>3, ControlAssumption DEF Bare
  <2> QED BY <2>1, <2>4, CpaKeepsKeys
<1>3. ASSUME NEW s \in Session, Expire(s) PROVE KeyInv'
  BY <1>3, CpaKeepsKeys DEF Expire, store, cpa
<1>4. ASSUME NEW p \in Provider, Rotate(p) PROVE KeyInv'
  <2> DEFINE old == AccountOf[p]
  <2>1. UNCHANGED <<mem, cfg, ready, job, live>> /\ files[old] # None /\ old \in File
    BY <1>4, ControlAssumption DEF Rotate, store
  <2>2. PICK x \in {None, files[old].prefix} :
          files' = [files EXCEPT ![old] = None, ![RotatesTo[p]] = [at |-> clock + 1, prefix |-> x]]
    BY <1>4 DEF Rotate
  <2>3. \A f \in File : files'[f] \in {files[f], None} \/ files'[f].prefix = x
    BY <2>2 DEF Types, CpaTypes
  <2> HIDE DEF old
  <2>4. \A q \in Provider : Bare(q, files) => x # q
    BY <2>1, ControlAssumption DEF Bare
  <2>5. \A q \in Provider : Bare(q, files) => Bare(q, files')
    BY <2>3, <2>4 DEF Bare
  <2> QED BY <2>1, <2>5, CpaKeepsKeys
<1>5. UNCHANGED vars => KeyInv'
  BY CpaKeepsKeys DEF vars, store, cpa
<1> QED BY <1>1, <1>2, <1>3, <1>4, <1>5

LEMMA KeyInit == ASSUME Init PROVE KeyInv
<1>1. \A w \in Worker : job[w].pc = "idle" /\ ~Busy(job[w])
  BY DEF Init, Busy, Idle
<1>2. ready = FALSE
  BY DEF Init
<1> QED BY <1>1, <1>2 DEF KeyInv

LEMMA KeyNext == ASSUME Types, NoLogins, KeptInv, KeyInv, [Next]_vars PROVE KeyInv'
<1>1. ASSUME NEW w \in Worker, Work(w) PROVE KeyInv'
  <2>1. Working(w)
    BY <1>1, WorkingAlone DEF Working
  <2>2. ~OAuthOperation(w)
    <3>1. OAuthOperation(w) => job[w].op \in OAuthOps
      BY DEF OAuthOperation, StartOAuthBegin, StartOAuthReply, SessionBegin, PostCallback, CallbackAccepted,
             StatusReply, Discover, StatusSaved, StatusSynced, StatusReady, SessionThrown, MyTurn, Running, OAuthOps
    <3> QED BY <2>1, <3>1 DEF Working
  <2>3. Materialises(w)
    BY <1>1, <2>1, <2>2, MachineryMaterialises, PutMaterialises, DeleteMaterialises, ImportMaterialises,
       ReconcileMaterialises DEF Work
  <2> QED BY <2>1, <2>3, HeadKeeps
<1>2. ASSUME ScheduledReconcile PROVE KeyInv'
  <2>1. Call(Timer, "reconcile", None, None, None) /\ Timer \in Worker
    BY <1>2, ControlAssumption DEF ScheduledReconcile
  <2>2. UNCHANGED <<mem, cfg, live, files, ready>>
    BY <1>2 DEF ScheduledReconcile, store, cpa
  <2> QED BY <2>1, <2>2, CallMaterialises
<1>3. ASSUME Crash PROVE KeyInv'
  <2>1. \A v \in Worker : ~Busy(job'[v]) /\ (job'[v].pc # "idle" => job'[v].op = "reconcile")
    BY <1>3 DEF Crash, Busy, Idle
  <2>2. ready' = FALSE
    BY <1>3 DEF Crash
  <2> QED BY <2>1, <2>2 DEF KeyInv, Busy
<1> QED BY <1>1, <1>2, <1>3, RequestMaterialises, OutsideMaterialises DEF Next

(* Without logins next to the line, while no operation runs and the service  *)
(* says it is ready, CPA's key collection has every stored key: an operation *)
(* that may have left it otherwise takes #ready back.  The key of a deleted  *)
(* credential may linger, when deleteCredential's catch clause fails too.    *)
THEOREM ReadyIsMaterialised == Spec => [](NoLogins => ReadyMeansMaterialised)
<1> DEFINE I == Types /\ (NoLogins => KeptInv /\ KeyInv)
<1>1. Init => I
  BY TypesInit, KeptInit, KeyInit
<1>2. I /\ [Next]_vars => I'
  <2>1. [Next]_vars => (NoLogins' <=> NoLogins)
    BY SetupKept DEF NoLogins
  <2> QED BY <2>1, TypesNext, KeptNext, KeyNext
<1>3. I => (NoLogins => ReadyMeansMaterialised)
  BY DEF ReadyMeansMaterialised, KeyInv, Quiet, Busy, Mat
<1> QED BY <1>1, <1>2, <1>3, PTL DEF Spec

-----------------------------------------------------------------------------
(* The auth file of its own account.                                         *)

(* Requests are only made for the operations of the setup.                   *)
OpsOK == \A w \in Worker : job[w].pc # "idle" => job[w].op \in setup.ops \cup {"reconcile"}

OwnFiles(p) == {AccountOf[p], RotatesTo[p]}

(* No auth file goes away.                                                   *)
Untouched == ~setup.rotating /\ "delete" \notin setup.ops /\ "import" \notin setup.ops

(* Files come and go, but only one can be what a login was rotated into.     *)
OneRotation == NoLogins /\ (setup.rotating => \A p, q \in Provider : RotatesTo[p] = RotatesTo[q])

LeftAlone ==
  /\ \A p \in Provider : LET c == setup.stored[p]
                         IN  c # None /\ c.method = "oauth" => c.ref \in OwnFiles(p)
  /\ Untouched \/ OneRotation

(* A login the Provider p may be given while CPA's files are fs.             *)
Fine(p, c, fs) ==
  c # None /\ c.method = "oauth" => c.ref \in OwnFiles(p) /\ (Untouched => fs[c.ref] # None)

FineList(l, fs) == \A p \in Provider : Fine(p, l[p], fs)

(* So are those a request carries; and it looks for the file of a login only *)
(* when that login succeeded.                                                *)
FineJob(j, fs, lg) ==
  /\ FineList(j.list, fs)
  /\ j.prov \in Provider => Fine(j.prov, j.cred, fs) /\ Fine(j.prov, j.prev, fs)
  /\ j.op = "reconcile" /\ j.pc = "queued" => j.prev = None
  /\ j.op = "oauthStatus" /\ j.pc = "call" /\ j.stage = "discover" => lg[j.sid] = "ok"

(* A login's file that came after the start is one of its prefix's Provider, *)
(* or the one every login is rotated into.                                   *)
FileOK(f, fs, c) ==
  fs[f] # None =>
    /\ fs[f].at <= c
    /\ OneRotation /\ fs[f].at > 0 /\ f \notin Vertex =>
         \/ setup.rotating /\ \A p \in Provider : f = RotatesTo[p]
         \/ fs[f].prefix \in Provider /\ f \in OwnFiles(fs[f].prefix)

(* A session's Provider is known, what it saw when it started is past, and   *)
(* after its login succeeded the account's file is newer than that.          *)
LoginOK(s, se, lg, fs, c, po) ==
  /\ se[s].phase # "none" => se[s].prov \in Provider
  /\ \A x \in se[s].before : x[2] <= c
  /\ po[s] > 0 => "submitOAuthCallback" \in setup.ops
  /\ Untouched /\ lg[s] = "ok" =>
       /\ se[s].phase \notin {"none", "starting"}
       /\ fs[AccountOf[se[s].prov]] # None
       /\ <<AccountOf[se[s].prov], fs[AccountOf[se[s].prov]].at>> \notin se[s].before

OwnInv ==
  /\ FineList(mem, files) /\ FineList(disk, files) /\ (tmp # None => FineList(tmp, files))
  /\ \A w \in Worker : FineJob(job[w], files, login)
  /\ \A f \in File : FileOK(f, files, clock)
  /\ \A s \in Session : LoginOK(s, sess, login, files, clock, posted)

LEMMA FineGrows ==
  ASSUME NEW fs, NEW gs, \A f \in File : Untouched /\ fs[f] # None => gs[f] # None,
         NEW p, NEW c \in CredType \cup {None}, Fine(p, c, fs)
  PROVE  Fine(p, c, gs)
BY Creds DEF Fine, OAuthCred

LEMMA OpsNext == ASSUME Types, OpsOK, [Next]_vars PROVE OpsOK'
<1>0. UNCHANGED setup
  BY SetupKept
<1>1. ASSUME NEW w \in Worker, Request(w) PROVE OpsOK'
  <2>1. PICK op \in AllOps, p \in Provider, c \in CredType \cup {None}, s \in Session \cup {None} :
          RequestOf(w, op, p, c, s)
    BY <1>1, Requests
  <2>2. Others(w) /\ job'[w].op = op /\ op \in setup.ops
    BY <2>1, CallJob DEF RequestOf, Types
  <2>3. ASSUME NEW v \in Worker, job'[v].pc # "idle" PROVE job'[v].op \in setup'.ops \cup {"reconcile"}
    BY <1>0, <2>2, <2>3 DEF OpsOK, Others
  <2> QED BY <2>3 DEF OpsOK
<1>2. ASSUME NEW w \in Worker, Work(w) PROVE OpsOK'
  <2>1. CASE StartOAuthBegin(w)
    <3>1. \/ Release(w)
          \/ \E s : job' = [job EXCEPT ![w].pc = "call", ![w].stage = "start", ![w].sid = s]
      BY <2>1 DEF StartOAuthBegin
    <3>2. Release(w) => OpsOK'
      BY <1>0, ReleaseJob DEF OpsOK, Others, Types, Idle
    <3>3. ASSUME NEW s, job' = [job EXCEPT ![w].pc = "call", ![w].stage = "start", ![w].sid = s] PROVE OpsOK'
      <4> DEFINE j == [job[w] EXCEPT !.pc = "call", !.stage = "start", !.sid = s]
      <4>1. job' = [job EXCEPT ![w] = j] /\ job[w].pc # "idle"
        BY <2>1, <3>3 DEF Types, JobTypes, StartOAuthBegin, MyTurn
      <4>2. j.op = job[w].op
        BY JobOf DEF Types, JobType
      <4> HIDE DEF j
      <4>3. Others(w) /\ job'[w].op = job[w].op
        BY <4>1, <4>2 DEF Types, JobTypes, Others
      <4> QED BY <1>0, <4>1, <4>3 DEF OpsOK, Others
    <3> QED BY <3>1, <3>2, <3>3
  <2>2. CASE ~StartOAuthBegin(w)
    BY <1>0, <1>2, <2>2, WorkGoesOn DEF GoesOn, SameCall, Ends, Others, OpsOK, Idle
  <2> QED BY <2>1, <2>2
<1>3. ASSUME ScheduledReconcile PROVE OpsOK'
  <2>1. Call(Timer, "reconcile", None, None, None) /\ Timer \in Worker
    BY <1>3, ControlAssumption DEF ScheduledReconcile
  <2>2. Others(Timer) /\ job'[Timer].op = "reconcile"
    BY <2>1, CallJob DEF Types
  <2> QED BY <1>0, <2>2 DEF OpsOK, Others
<1>4. Crash => OpsOK'
  BY <1>0 DEF Crash, OpsOK, Idle
<1>5. (\E s \in Session : Login(s) \/ Expire(s)) \/ (\E p \in Provider : Rotate(p)) \/ Refresh => UNCHANGED job
  BY DEF Login, Expire, Rotate, Refresh
<1>6. UNCHANGED job => OpsOK'
  BY <1>0 DEF OpsOK
<1> QED BY <1>1, <1>2, <1>3, <1>4, <1>5, <1>6 DEF Next, vars

(* When putCredential returns, the client that serves the Provider was built *)
(* from the new key: it was unloaded and seen absent before the new one was  *)
(* written, and nothing else writes CPA's collection in between as long as   *)
(* no login's own cpa.reconcile runs next to the line.                       *)
THEOREM SavedKeyServed == Spec /\ (NoLogins \/ "put" \notin setup.ops) => SavedKeyIsServed
<1> DEFINE C == NoLogins \/ "put" \notin setup.ops
           I == Types /\ OpsOK /\ C /\ (NoLogins => KeptInv /\ KeyInv)
<1>1. Init /\ C => I
  <2>1. Init => OpsOK
    BY DEF OpsOK, Init, Idle
  <2> HIDE DEF C
  <2> QED BY <2>1, TypesInit, KeptInit, KeyInit
<1>2. I /\ [Next]_vars => I'
  <2>1. [Next]_vars => (NoLogins' <=> NoLogins) /\ (C' <=> C)
    BY SetupKept DEF NoLogins
  <2> QED BY <2>1, TypesNext, OpsNext, KeptNext, KeyNext
<1>3. ASSUME I, NEW w \in Worker, PutReady(w) PROVE live[job[w].prov] = job[w].cred.ref
  <2>1. job[w].op = "put" /\ job[w].pc = "probed" /\ job[w].stage = "probe"
    BY <1>3 DEF PutReady, Running
  <2>2. "put" \in setup.ops
    BY <1>3, <2>1 DEF OpsOK
  <2>3. AtHead(job[w], mem, cfg, live, files, ready)
    BY <1>3, <2>1, <2>2 DEF KeyInv, Busy
  <2> QED BY <2>1, <2>3 DEF AtHead
<1>4. I => [\A w \in Worker : PutReady(w) => live[job[w].prov] = job[w].cred.ref]_vars
  BY <1>3
<1> QED BY <1>1, <1>2, <1>4, PTL DEF Spec, SavedKeyIsServed

(* What changes CPA's auth files and logins.                                 *)
Rewrites(w) == Bind(w) \/ DropFile(w) \/ ImportFile(w) \/ ImportUndone(w)

LEMMA FileSteps ==
  ASSUME [Next]_vars
  PROVE  \/ UNCHANGED <<files, clock, login>>
         \/ \E w \in Worker : Rewrites(w)
         \/ \E s \in Session : Login(s)
         \/ \E p \in Provider : Rotate(p)
<1>1. ASSUME NEW w \in Worker, Work(w), ~Rewrites(w) PROVE UNCHANGED <<files, clock, login>>
  <2>1. Replace(w) \/ CpaReconcile(w) \/ Probe(w) \/ Bound(w) => UNCHANGED <<files, clock, login>>
    BY DEF Replace, ReplaceWrite, ReplaceRename, CpaReconcile, ReconcileRead, ReconcileUnload, ReconcileAbsent,
           ReconcilePut, Probe, Bound, cpa
  <2>2. PutCredential(w) => UNCHANGED <<files, clock, login>>
    BY DEF PutCredential, PutBegin, PutSaved, PutSynced, PutReady, PutThrown, PutUndoSaved, PutUndone, cpa
  <2>3. DeleteCredential(w) => UNCHANGED <<files, clock, login>>
    BY <1>1 DEF DeleteCredential, DeleteBegin, DeleteDropped, DeleteSaved, DeleteSynced, DeleteThrown,
                DeleteUndone, Rewrites, cpa
  <2>4. ImportCredential(w) => UNCHANGED <<files, clock, login>>
    BY <1>1 DEF ImportCredential, ImportBegin, ImportImported, ImportSaved, ImportSynced, ImportReady,
                ImportThrown, ImportUndoSaved, Rewrites, cpa
  <2>5. Reconcile(w) \/ CheckProviders(w) => UNCHANGED <<files, clock, login>>
    BY DEF Reconcile, ReconcileBegin, RepairList, ReconcileSaved, ReconcileHealth, ReconcileThrown,
           CheckProviders, CheckBegin, CheckHealth, CheckThrown, cpa
  <2>6. OAuthOperation(w) => UNCHANGED <<files, clock, login>>
    BY DEF OAuthOperation, StartOAuthBegin, StartOAuthReply, SessionBegin, PostCallback, CallbackAccepted,
           StatusReply, Discover, StatusSaved, StatusSynced, StatusReady, SessionThrown, cpa
  <2> QED BY <1>1, <2>1, <2>2, <2>3, <2>4, <2>5, <2>6 DEF Work, Rewrites
<1>2. ASSUME NEW w \in Worker, Request(w) PROVE UNCHANGED <<files, clock, login>>
  BY <1>2 DEF Request, cpa
<1>3. ScheduledReconcile \/ Refresh \/ Crash => UNCHANGED <<files, clock, login>>
  BY DEF ScheduledReconcile, Refresh, Crash, cpa
<1>4. ASSUME NEW s \in Session, Expire(s) PROVE UNCHANGED <<files, clock, login>>
  BY <1>4 DEF Expire, cpa
<1>5. UNCHANGED vars => UNCHANGED <<files, clock, login>>
  BY DEF vars, cpa
<1> QED BY <1>1, <1>2, <1>3, <1>4, <1>5 DEF Next

(* A file keeps its time, goes, or comes with the latest time.               *)
FilesMove ==
  /\ clock' \in Nat /\ clock <= clock'
  /\ \A f \in File : files'[f] # None =>
       (files[f] # None /\ files'[f].at = files[f].at) \/ (files'[f].at = clock + 1 /\ clock' = clock + 1)
  /\ \A f \in File : Untouched /\ files[f] # None => files'[f] # None
  /\ \A f \in File : FileOK(f, files', clock')

LEMMA FilesKept ==
  ASSUME Types, Counted, OAuthInv, OpsOK, LeftAlone, OwnInv, [Next]_vars
  PROVE  FilesMove
<1> DEFINE one(f, g) == files' = [files EXCEPT ![f] = g]
<1>0. /\ files \in [File -> [at : Nat, prefix : Provider \cup {None}] \cup {None}] /\ clock \in Nat
      /\ AccountOf \in [Provider -> File] /\ RotatesTo \in [Provider -> File] /\ VertexFile \in [Provider -> File]
      /\ None \notin [at : Nat, prefix : Provider \cup {None}] /\ None \notin Provider
  BY ControlAssumption DEF Types, CpaTypes
<1>1. \A f \in File : FileOK(f, files, clock)
  BY DEF OwnInv
<1>2. ASSUME UNCHANGED <<files, clock>> PROVE FilesMove
  BY <1>0, <1>1, <1>2 DEF FilesMove
<1>3. ASSUME NEW f \in File, one(f, None), ~Untouched, UNCHANGED clock PROVE FilesMove
  BY <1>0, <1>1, <1>3 DEF FilesMove, FileOK
<1>4. ASSUME NEW f \in File, NEW x \in Provider \cup {None}, one(f, [at |-> clock + 1, prefix |-> x]), clock' = clock + 1,
             OneRotation => \/ f \in Vertex
                            \/ setup.rotating /\ \A p \in Provider : f = RotatesTo[p]
                            \/ x \in Provider /\ f \in OwnFiles(x)
      PROVE  FilesMove
  <2> DEFINE g == [at |-> clock + 1, prefix |-> x]
  <2>1. g # None /\ g.at = clock + 1 /\ g.prefix = x
    <3>1. g \in [at : Nat, prefix : Provider \cup {None}]
      BY <1>0
    <3> QED BY <1>0, <3>1
  <2>2. \A h \in File : files'[h] = IF h = f THEN g ELSE files[h]
    BY <1>0, <1>4
  <2> HIDE DEF g
  <2>3. ASSUME NEW h \in File PROVE FileOK(h, files', clock')
    <3>1. CASE h = f
      BY <1>0, <1>4, <2>1, <2>2, <3>1 DEF FileOK
    <3>2. CASE h # f
      BY <1>0, <1>1, <1>4, <2>2, <3>2 DEF FileOK
    <3> QED BY <3>1, <3>2
  <2>4. clock' \in Nat /\ clock <= clock'
    BY <1>0, <1>4
  <2>5. \A h \in File : files'[h] # None =>
          (files[h] # None /\ files'[h].at = files[h].at) \/ (files'[h].at = clock + 1 /\ clock' = clock + 1)
    BY <1>4, <2>1, <2>2
  <2>6. \A h \in File : Untouched /\ files[h] # None => files'[h] # None
    BY <2>1, <2>2
  <2> QED BY <2>3, <2>4, <2>5, <2>6 DEF FilesMove
<1>5. ASSUME NEW w \in Worker, Bind(w) PROVE FilesMove
  <2> DEFINE f == job[w].cred.ref
             p == job[w].prov
             g == [files[f] EXCEPT !.prefix = p]
  <2>1. clock' = clock /\ (files' = files \/ (files[f] # None /\ files' = [files EXCEPT ![f].prefix = p]))
    BY <1>5 DEF Bind
  <2>2. p \in Provider /\ job[w].cred \in OAuthCred
    BY <1>5 DEF Bind, Types, JobTypes, JobOK
  <2>3. job[w].cred # None /\ job[w].cred.method = "oauth" /\ f \in File
    BY <2>2, Creds, ControlAssumption DEF OAuthCred
  <2>4. f \in OwnFiles(p)
    BY <2>2, <2>3 DEF OwnInv, FineJob, Fine
  <2>5. ASSUME files[f] # None, files' = [files EXCEPT ![f].prefix = p] PROVE FilesMove
    <3>0. files' = [files EXCEPT ![f] = g]
      BY <2>5
    <3>5. files[f] \in [at : Nat, prefix : Provider \cup {None}]
      BY <1>0, <2>3, <2>5
    <3>1. files[f] \in [at : Nat, prefix : Provider \cup {None}] /\ files' = [files EXCEPT ![f] = g]
      BY <3>0, <3>5
    <3>2. g.at = files[f].at /\ g.prefix = p /\ g # None
      <4>1. g \in [at : Nat, prefix : Provider \cup {None}] /\ g.at = files[f].at /\ g.prefix = p
        BY <2>2, <3>1
      <4> QED BY <1>0, <4>1
    <3>3. \A h \in File : files'[h] = IF h = f THEN g ELSE files[h]
      BY <1>0, <3>1
    <3> HIDE DEF g, f, p
    <3>4. ASSUME NEW h \in File PROVE FileOK(h, files', clock')
      <4>1. CASE h = f
        BY <1>1, <2>1, <2>2, <2>4, <2>5, <3>2, <3>3, <4>1 DEF FileOK
      <4>2. CASE h # f
        BY <1>1, <2>1, <3>3, <4>2 DEF FileOK
      <4> QED BY <4>1, <4>2
    <3>6. \A h \in File : files'[h] # None =>
            (files[h] # None /\ files'[h].at = files[h].at) \/ (files'[h].at = clock + 1 /\ clock' = clock + 1)
      BY <2>5, <3>2, <3>3
    <3>8. \A h \in File : Untouched /\ files[h] # None => files'[h] # None
      BY <2>5, <3>2, <3>3
    <3>7. clock' \in Nat /\ clock <= clock'
      BY <1>0, <2>1
    <3> QED BY <3>4, <3>6, <3>7, <3>8 DEF FilesMove
  <2> QED BY <1>2, <2>1, <2>5
<1>6. ASSUME NEW w \in Worker, DropFile(w) PROVE FilesMove
  <2>1. ~Untouched
    BY <1>6 DEF DropFile, OpsOK, Untouched
  <2>2. clock' = clock /\ (files' = files \/ one(job[w].prev.ref, None))
    BY <1>6 DEF DropFile
  <2>3. job[w].prev.ref \notin File /\ one(job[w].prev.ref, None) => files' = files
    BY <1>0
  <2> QED BY <1>2, <1>3, <2>1, <2>2, <2>3
<1>7. ASSUME NEW w \in Worker, ImportUndone(w) PROVE FilesMove
  <2>1. ~Untouched
    BY <1>7 DEF ImportUndone, Running, OpsOK, Untouched
  <2>2. job[w].prov \in Provider
    BY <1>7 DEF ImportUndone, Running, Types, JobTypes, JobOK
  <2>3. clock' = clock /\ (files' = files \/ one(VertexFile[job[w].prov], None))
    BY <1>7 DEF ImportUndone
  <2> QED BY <1>0, <1>2, <1>3, <2>1, <2>2, <2>3
<1>8. ASSUME NEW w \in Worker, ImportFile(w) PROVE FilesMove
  <2> DEFINE p == job[w].prov
  <2>1. p \in Provider
    BY <1>8 DEF ImportFile, Running, Types, JobTypes, JobOK
  <2>2. \/ UNCHANGED <<files, clock>>
        \/ \E x \in {None, p} : clock' = clock + 1 /\ one(VertexFile[p], [at |-> clock + 1, prefix |-> x])
    BY <1>8 DEF ImportFile
  <2>3. VertexFile[p] \in File /\ VertexFile[p] \in Vertex /\ {None, p} \subseteq Provider \cup {None}
    BY <1>0, <2>1 DEF Vertex
  <2> HIDE DEF p, one
  <2> QED BY <1>2, <1>4, <2>1, <2>2, <2>3
<1>9. ASSUME NEW s \in Session, Login(s) PROVE FilesMove
  <2> DEFINE p == sess[s].prov
  <2>1. posted[s] > 0
    BY <1>9 DEF Login
  <2>2. ~OneRotation
    BY <2>1 DEF OwnInv, LoginOK, OneRotation, NoLogins, OAuthOps
  <2>3. SessionOK(s, job, sess, active, posted) /\ LoginOK(s, sess, login, files, clock, posted)
    BY DEF OAuthInv, OwnInv
  <2>4. p \in Provider
    BY <2>1, <2>3 DEF SessionOK, LoginOK
  <2>5. \/ UNCHANGED <<files, clock>>
        \/ clock' = clock + 1 /\ one(AccountOf[p], [at |-> clock + 1, prefix |-> None])
    BY <1>9 DEF Login
  <2>6. AccountOf[p] \in File /\ None \in Provider \cup {None}
    BY <1>0, <2>4
  <2> HIDE DEF p, one
  <2> QED BY <1>2, <1>4, <2>2, <2>5, <2>6
<1>10. ASSUME NEW p \in Provider, Rotate(p) PROVE FilesMove
  <2> DEFINE old == AccountOf[p]
             new == RotatesTo[p]
  <2>1. /\ setup.rotating /\ files[old] # None /\ files[new] = None /\ clock' = clock + 1
        /\ old \in File /\ new \in File
    BY <1>0, <1>10 DEF Rotate
  <2>2. PICK x \in {None, files[old].prefix} :
          files' = [files EXCEPT ![old] = None, ![new] = [at |-> clock + 1, prefix |-> x]]
    BY <1>10 DEF Rotate
  <2>3. ~Untouched /\ (OneRotation => \A q \in Provider : new = RotatesTo[q])
    BY <2>1 DEF Untouched, OneRotation
  <2> DEFINE g == [at |-> clock + 1, prefix |-> x]
  <2>4. g # None /\ g.at = clock + 1
    <3>1. x \in Provider \cup {None}
      BY <1>0, <2>1
    <3>2. g \in [at : Nat, prefix : Provider \cup {None}]
      BY <1>0, <3>1
    <3> QED BY <1>0, <3>2
  <2>5. \A h \in File : files'[h] = IF h = new THEN g ELSE IF h = old THEN None ELSE files[h]
    BY <1>0, <2>1, <2>2
  <2> HIDE DEF g, old, new
  <2>6. ASSUME NEW h \in File PROVE FileOK(h, files', clock')
    <3>1. CASE h = new
      BY <1>0, <2>1, <2>3, <2>4, <2>5, <3>1 DEF FileOK
    <3>2. CASE h # new
      BY <1>0, <1>1, <2>1, <2>5, <3>2 DEF FileOK
    <3> QED BY <3>1, <3>2
  <2> QED BY <1>0, <2>1, <2>3, <2>4, <2>5, <2>6 DEF FilesMove
<1> HIDE DEF one
<1> QED BY <1>2, <1>5, <1>6, <1>7, <1>8, <1>9, <1>10, FileSteps DEF Rewrites

(* What a step does to a session: it opens for a Provider, then sees CPA's   *)
(* files, and keeps both.                                                    *)
SessionMoves(s) ==
  /\ sess[s].phase # "none" => sess'[s].prov = sess[s].prov /\ sess'[s].phase # "none"
  /\ sess[s].phase = "none" /\ sess'[s].phase # "none" => sess'[s].prov \in Provider
  /\ sess[s].phase \notin {"none", "starting"} =>
       sess'[s].before = sess[s].before /\ sess'[s].phase \notin {"none", "starting"}
  /\ \A x \in sess'[s].before :
       x \in sess[s].before \/ \E f \in File : files[f] # None /\ x = <<f, files[f].at>>

LEMMA SessionsMove ==
  ASSUME Types, OAuthInv, [Next]_vars, NEW s \in Session
  PROVE  SessionMoves(s)
<1>0. sess \in [Session -> SessionType] /\ sess[s] \in SessionType
  BY DEF Types, SessionTypes
<1>1. ASSUME sess'[s] = sess[s] PROVE SessionMoves(s)
  BY <1>1 DEF SessionMoves
<1>2. ASSUME NEW t, NEW ph \in Phases \ {"none", "starting"}, sess' = [sess EXCEPT ![t].phase = ph],
             t = s => sess[s].phase # "none"
      PROVE  SessionMoves(s)
  <2>1. CASE t # s
    BY <1>0, <1>1, <1>2, <2>1
  <2>2. CASE t = s
    <3> DEFINE r == [sess[s] EXCEPT !.phase = ph]
    <3>1. sess'[s] = r
      BY <1>0, <1>2, <2>2
    <3>2. r.phase = ph /\ r.prov = sess[s].prov /\ r.before = sess[s].before
      BY <1>0 DEF SessionType
    <3> HIDE DEF r
    <3> QED BY <1>2, <2>2, <3>1, <3>2 DEF SessionMoves
  <2> QED BY <2>1, <2>2
<1>3. ASSUME NEW w \in Worker, OAuthOperation(w) PROVE SessionMoves(s)
  <2> DEFINE t == job[w].sid
  <2>1. CASE StartOAuthBegin(w)
    <3> DEFINE p == job[w].prov
               a == active[p]
    <3>1. p \in Provider
      BY <2>1 DEF StartOAuthBegin, MyTurn, Types, JobTypes, JobOK
    <3>2. \/ UNCHANGED sess
          \/ \E q \in Session :
               /\ sess[q].phase = "none"
               /\ sess' = [r \in Session |-> IF r = q THEN [sess[q] EXCEPT !.phase = "starting", !.prov = p]
                                             ELSE IF r = a THEN Forget(a)[a] ELSE sess[r]]
      BY <2>1 DEF StartOAuthBegin, oauth
    <3>3. ASSUME NEW q \in Session, sess[q].phase = "none",
                 sess' = [r \in Session |-> IF r = q THEN [sess[q] EXCEPT !.phase = "starting", !.prov = p]
                                             ELSE IF r = a THEN Forget(a)[a] ELSE sess[r]]
          PROVE  SessionMoves(s)
      <4>1. CASE s = q
        <5> DEFINE r == [sess[s] EXCEPT !.phase = "starting", !.prov = p]
        <5>1. sess'[s] = r
          BY <3>3, <4>1
        <5>2. r.phase = "starting" /\ r.prov = p /\ r.before = sess[s].before
          BY <1>0 DEF SessionType
        <5> HIDE DEF r
        <5> QED BY <3>1, <3>3, <4>1, <5>1, <5>2 DEF SessionMoves
      <4>2. CASE s # q /\ s = a
        <5> DEFINE r == [sess[s] EXCEPT !.phase = "gone"]
        <5>1. sess'[s] = r
          BY <1>0, <3>3, <4>2 DEF Forget
        <5>2. r.phase = "gone" /\ r.prov = sess[s].prov /\ r.before = sess[s].before
          BY <1>0 DEF SessionType
        <5> HIDE DEF r
        <5>3. sess[s].phase # "none"
          <6>1. ActiveOK(p, sess, active)
            BY <3>1 DEF OAuthInv
          <6> QED BY <4>2, <6>1, ControlAssumption DEF ActiveOK
        <5> QED BY <5>1, <5>2, <5>3 DEF SessionMoves
      <4>3. CASE s # q /\ s # a
        BY <1>1, <3>3, <4>3
      <4> QED BY <4>1, <4>2, <4>3
    <3> QED BY <1>1, <3>2, <3>3
  <2>2. ASSUME ~StartOAuthBegin(w)
        PROVE  /\ t \in Session /\ sess[t].phase # "none"
               /\ StartOAuthReply(w) => sess[t].phase = "starting"
    <3>1. HasSession(job[w])
      BY <1>3, <2>2 DEF OAuthOperation, StartOAuthReply, SessionBegin, PostCallback, CallbackAccepted, StatusReply,
                  Discover, StatusSaved, StatusSynced, StatusReady, SessionThrown, MyTurn, Running, HasSession
    <3>2. t \in Session /\ Attends(job[w], sess, active, posted)
      BY <3>1 DEF Types, SessionTypes, OAuthInv
    <3>3. StartOAuthReply(w) => job[w].op = "startOAuth" /\ Busy(job[w])
      BY DEF StartOAuthReply, Running, Busy
    <3> QED BY <3>1, <3>2, <3>3 DEF HasSession, Attends, Busy, OAuthOps
  <2>3. CASE StartOAuthReply(w)
    <3> DEFINE before == {<<f, files[f].at>> : f \in {g \in File : files[g] # None}}
               r == [sess[s] EXCEPT !.phase = "awaiting_callback", !.before = before]
    <3>1. ~StartOAuthBegin(w)
      BY <2>3 DEF StartOAuthReply, StartOAuthBegin, MyTurn, Running
    <3>2. t \in Session /\ sess[t].phase = "starting"
      BY <2>2, <2>3, <3>1
    <3>3. sess' = Forget(t) \/ sess' = [sess EXCEPT ![t].phase = "awaiting_callback", ![t].before = before]
      BY <2>3 DEF StartOAuthReply
    <3>4. CASE sess' = Forget(t)
      BY <1>2, <3>2, <3>4 DEF Forget, Phases
    <3>5. CASE sess' = [sess EXCEPT ![t].phase = "awaiting_callback", ![t].before = before] /\ s = t
      <4>1. sess'[s] = r
        BY <1>0, <3>5
      <4>2. \A x \in before : \E f \in File : files[f] # None /\ x = <<f, files[f].at>>
        OBVIOUS
      <4> HIDE DEF before
      <4>3. r.phase = "awaiting_callback" /\ r.prov = sess[s].prov /\ r.before = before
        BY <1>0 DEF SessionType
      <4> HIDE DEF r
      <4> QED BY <3>2, <3>5, <4>1, <4>2, <4>3 DEF SessionMoves
    <3>6. CASE sess' = [sess EXCEPT ![t].phase = "awaiting_callback", ![t].before = before] /\ s # t
      BY <1>0, <1>1, <3>6
    <3> QED BY <3>3, <3>4, <3>5, <3>6
  <2>4. CASE ~StartOAuthBegin(w) /\ ~StartOAuthReply(w)
    <3>1. UNCHANGED sess \/ \E ph \in Phases \ {"none", "starting"} : sess' = [sess EXCEPT ![t].phase = ph]
      BY <1>3, <2>4 DEF OAuthOperation, SessionBegin, PostCallback, CallbackAccepted, StatusReply, Discover,
                  StatusSaved, StatusSynced, StatusReady, SessionThrown, Forget, Phases, oauth
    <3> QED BY <1>1, <1>2, <2>2, <2>4, <3>1
  <2> QED BY <2>1, <2>3, <2>4
<1>4. ASSUME NEW w \in Worker, Work(w), ~OAuthOperation(w) PROVE UNCHANGED sess
  BY <1>4, SessionsElsewhere
<1>5. ASSUME NEW w \in Worker, Request(w) PROVE UNCHANGED sess
  BY <1>5 DEF Request, oauth
<1>6. ASSUME Crash PROVE SessionMoves(s)
  <2> DEFINE r == [sess[s] EXCEPT !.phase = "gone"]
  <2>1. sess'[s] = IF sess[s].phase = "none" THEN sess[s] ELSE r
    BY <1>0, <1>6 DEF Crash, Forget
  <2>2. r.phase = "gone" /\ r.prov = sess[s].prov /\ r.before = sess[s].before
    BY <1>0 DEF SessionType
  <2> HIDE DEF r
  <2> QED BY <2>1, <2>2 DEF SessionMoves
<1>7. ASSUME NEW t \in Session, Expire(t) PROVE SessionMoves(s)
  <2> DEFINE r == [sess[s] EXCEPT !.expired = TRUE]
  <2>1. sess'[s] = IF s = t THEN r ELSE sess[s]
    BY <1>0, <1>7 DEF Expire
  <2>2. r.phase = sess[s].phase /\ r.prov = sess[s].prov /\ r.before = sess[s].before
    BY <1>0 DEF SessionType
  <2> HIDE DEF r
  <2> QED BY <2>1, <2>2 DEF SessionMoves
<1>8. ScheduledReconcile \/ Refresh \/ (\E t \in Session : Login(t)) \/ (\E p \in Provider : Rotate(p))
        => UNCHANGED sess
  BY DEF ScheduledReconcile, Refresh, Login, Rotate, oauth
<1>9. UNCHANGED vars => UNCHANGED sess
  BY DEF vars, oauth
<1> QED BY <1>1, <1>3, <1>4, <1>5, <1>6, <1>7, <1>8, <1>9 DEF Next

(* A request keeps to logins its Provider may be given.                      *)
StaysFine(w) == Others(w) /\ FineJob(job'[w], files, login)

LEMMA AwaitFine ==
  ASSUME Types, OwnInv, NEW w \in Worker, NEW pc, NEW stage, Await(w, pc, stage), pc # "queued",
         pc = "call" /\ stage = "discover" => job[w].op # "oauthStatus" \/ login[job[w].sid] = "ok"
  PROVE  StaysFine(w)
<1> DEFINE j == [job[w] EXCEPT !.pc = pc, !.stage = stage]
<1>1. job' = [job EXCEPT ![w] = j] /\ job \in [Worker -> JobType]
  BY DEF Await, Types, JobTypes
<1>2. /\ j.pc = pc /\ j.stage = stage /\ j.op = job[w].op /\ j.prov = job[w].prov /\ j.sid = job[w].sid
      /\ j.cred = job[w].cred /\ j.prev = job[w].prev /\ j.list = job[w].list
  BY <1>1 DEF JobType
<1> HIDE DEF j
<1>3. FineJob(job[w], files, login)
  BY DEF OwnInv
<1> QED BY <1>1, <1>2, <1>3 DEF StaysFine, Others, FineJob

LEMMA SyncFine ==
  ASSUME Types, OwnInv, NEW w \in Worker, NEW stage, NEW l, NEW f, NEW r, Sync(w, stage, l, f, r), FineList(l, files)
  PROVE  StaysFine(w)
<1> DEFINE j == [job[w] EXCEPT !.pc = "read", !.stage = stage, !.list = l, !.force = f, !.remove = r]
<1>1. job' = [job EXCEPT ![w] = j] /\ job \in [Worker -> JobType]
  BY DEF Sync, Types, JobTypes
<1>2. j.pc = "read" /\ j.prov = job[w].prov /\ j.cred = job[w].cred /\ j.prev = job[w].prev /\ j.list = l
  BY <1>1 DEF JobType
<1> HIDE DEF j
<1>3. FineJob(job[w], files, login)
  BY DEF OwnInv
<1> QED BY <1>1, <1>2, <1>3 DEF StaysFine, Others, FineJob

LEMMA SaveFine ==
  ASSUME Types, OwnInv, NEW w \in Worker, NEW stage, NEW c, Save(w, stage, job[w].prov, c),
         job[w].prov \in Provider, c \in CredType \cup {None}, Fine(job[w].prov, c, files)
  PROVE  StaysFine(w)
<1> DEFINE l == [mem EXCEPT ![job[w].prov] = c]
           x == IF stage = "save" THEN mem[job[w].prov] ELSE job[w].prev
           y == IF stage = "save" /\ c # None THEN c ELSE job[w].cred
           j == [job[w] EXCEPT !.pc = "write", !.stage = stage, !.list = l, !.prev = x, !.cred = y]
<1>1. job' = [job EXCEPT ![w] = j] /\ job \in [Worker -> JobType]
  BY DEF Save, Types, JobTypes
<1>2. FineJob(job[w], files, login) /\ FineList(mem, files)
  BY DEF OwnInv
<1>3. FineList(l, files)
  BY <1>2, Payloads DEF FineList, Types, StoreTypes
<1>4. Fine(job[w].prov, x, files) /\ Fine(job[w].prov, y, files)
  BY <1>2 DEF FineJob, FineList
<1> HIDE DEF l, x, y
<1>5. j.pc = "write" /\ j.prov = job[w].prov /\ j.cred = y /\ j.prev = x /\ j.list = l
  BY <1>1 DEF JobType
<1> HIDE DEF j
<1> QED BY <1>1, <1>3, <1>4, <1>5 DEF StaysFine, Others, FineJob

LEMMA IdleFine == FineJob(Idle, files, login)
BY ControlAssumption DEF FineJob, FineList, Fine, Idle, NoPayload

LEMMA ReleaseFine == ASSUME Types, NEW w \in Worker, Release(w) PROVE StaysFine(w)
BY ReleaseJob, IdleFine DEF StaysFine, Types

(* What each operation carries when it saves.                                *)
LEMMA Carried ==
  ASSUME Types, OwnInv, NEW w \in Worker
  PROVE  /\ FineList(mem, files) /\ FineList(job[w].list, files)
         /\ job[w].pc # "idle" /\ job[w].op # "reconcile" =>
              /\ job[w].prov \in Provider
              /\ Fine(job[w].prov, job[w].cred, files) /\ Fine(job[w].prov, job[w].prev, files)
         /\ job[w].cred \in CredType \cup {None} /\ job[w].prev \in CredType \cup {None}
         /\ \A p : Fine(p, None, files)
BY JobOf DEF Types, JobOK, OwnInv, FineJob, Fine

LEMMA MachineryFine ==
  ASSUME Types, OwnInv, NEW w \in Worker, Replace(w) \/ CpaReconcile(w) \/ Probe(w) \/ Bind(w) \/ Bound(w)
  PROVE  StaysFine(w)
<1>1. ASSUME NEW pc \in {"rename", "saved", "thrown", "put", "unload", "absent", "synced", "probed", "bound"}, NEW stage,
             Await(w, pc, stage)
      PROVE  StaysFine(w)
  BY <1>1, AwaitFine
<1>2. ASSUME Bound(w) PROVE StaysFine(w)
  <2> DEFINE p == job[w].prov
             c == Cred("oauth", job[w].cred.ref, clock)
  <2>1. p \in Provider /\ job[w].cred \in OAuthCred /\ Save(w, "save", p, c)
    BY <1>2 DEF Bound, Types, JobTypes, JobOK
  <2>2. job[w].cred.method = "oauth" /\ job[w].cred # None /\ job[w].cred.ref \in File
    BY <2>1, Creds, ControlAssumption DEF OAuthCred
  <2>3. c \in CredType /\ c.ref = job[w].cred.ref
    BY <2>2, Creds DEF Types, CpaTypes
  <2>4. Fine(p, job[w].cred, files)
    BY <2>1 DEF OwnInv, FineJob
  <2>5. Fine(p, c, files)
    BY <2>2, <2>3, <2>4 DEF Fine
  <2> HIDE DEF c
  <2> QED BY <2>1, <2>3, <2>5, SaveFine
<1>3. Replace(w) => StaysFine(w)
  BY <1>1 DEF Replace, ReplaceWrite, ReplaceRename
<1>4. CpaReconcile(w) => StaysFine(w)
  BY <1>1 DEF CpaReconcile, ReconcileRead, ReconcileUnload, ReconcileAbsent, ReconcilePut
<1>5. Probe(w) \/ Bind(w) => StaysFine(w)
  BY <1>1 DEF Probe, Bind
<1> QED BY <1>2, <1>3, <1>4, <1>5

LEMMA PutFine == ASSUME Types, OwnInv, NEW w \in Worker, PutCredential(w) PROVE StaysFine(w)
<1> DEFINE p == job[w].prov
<1>0. job[w].pc # "idle" /\ job[w].op = "put"
  BY DEF PutCredential, PutBegin, PutSaved, PutSynced, PutReady, PutThrown, PutUndoSaved, PutUndone, MyTurn, Running
<1>1. /\ FineList(mem, files) /\ FineList(job[w].list, files)
      /\ p \in Provider /\ Fine(p, job[w].cred, files) /\ Fine(p, job[w].prev, files)
      /\ job[w].cred \in CredType \cup {None} /\ job[w].prev \in CredType \cup {None}
  BY <1>0, Carried
<1>2. PutBegin(w) => StaysFine(w)
  BY <1>1, SaveFine DEF PutBegin
<1>3. PutSaved(w) \/ PutUndoSaved(w) => StaysFine(w)
  BY <1>1, SyncFine DEF PutSaved, PutUndoSaved
<1>4. PutSynced(w) => StaysFine(w)
  BY AwaitFine DEF PutSynced
<1>5. PutReady(w) => StaysFine(w)
  BY ReleaseFine DEF PutReady
<1>6. ASSUME PutThrown(w) PROVE StaysFine(w)
  <2>1. Release(w) \/ Sync(w, "undoSync", mem, {}, {}) \/ Save(w, "undoSave", p, job[w].prev)
    BY <1>6 DEF PutThrown
  <2>2. Release(w) => StaysFine(w)
    BY ReleaseFine
  <2>3. Sync(w, "undoSync", mem, {}, {}) => StaysFine(w)
    BY <1>1, SyncFine
  <2>4. Save(w, "undoSave", p, job[w].prev) => StaysFine(w)
    BY <1>1, SaveFine
  <2> QED BY <2>1, <2>2, <2>3, <2>4
<1>7. PutUndone(w) => StaysFine(w)
  BY AwaitFine, ReleaseFine DEF PutUndone
<1> QED BY <1>2, <1>3, <1>4, <1>5, <1>6, <1>7 DEF PutCredential

LEMMA DeleteFine == ASSUME Types, OwnInv, NEW w \in Worker, DeleteCredential(w) PROVE StaysFine(w)
<1> DEFINE p == job[w].prov
<1>0. job[w].pc # "idle" /\ job[w].op = "delete"
  BY DEF DeleteCredential, DeleteBegin, DropFile, DeleteDropped, DeleteSaved, DeleteSynced, DeleteThrown,
         DeleteUndone, MyTurn, Running
<1>1. /\ FineList(mem, files) /\ FineList(job[w].list, files)
      /\ p \in Provider /\ Fine(p, job[w].cred, files) /\ Fine(p, job[w].prev, files) /\ Fine(p, None, files)
      /\ job[w].cred \in CredType \cup {None} /\ job[w].prev \in CredType \cup {None}
  BY <1>0, Carried
<1>2. Release(w) => StaysFine(w)
  BY ReleaseFine
<1>3. Save(w, "save", p, None) \/ Save(w, "undoSave", p, job[w].prev) => StaysFine(w)
  BY <1>1, SaveFine
<1>4. \A pc \in {"dropped", "thrown"} : Await(w, pc, "dropFile") => StaysFine(w)
  BY AwaitFine
<1>5. ASSUME SetsPrev(w, "call", "dropFile", mem[p]) PROVE StaysFine(w)
  <2> DEFINE j == [job[w] EXCEPT !.pc = "call", !.stage = "dropFile", !.prev = mem[p]]
  <2>1. job' = [job EXCEPT ![w] = j] /\ job \in [Worker -> JobType]
    BY <1>5 DEF SetsPrev, Types, JobTypes
  <2>2. /\ j.pc = "call" /\ j.stage = "dropFile" /\ j.prov = p /\ j.cred = job[w].cred /\ j.prev = mem[p]
        /\ j.list = job[w].list
    BY <2>1 DEF JobType
  <2> HIDE DEF j
  <2>3. Fine(p, mem[p], files)
    BY <1>1 DEF FineList
  <2> QED BY <1>1, <2>1, <2>2, <2>3 DEF StaysFine, Others, FineJob
<1>6. DeleteBegin(w) => DeleteStored(w) \/ SetsPrev(w, "call", "dropFile", mem[p])
  BY DEF DeleteBegin, SetsPrev
<1>7. DeleteStored(w) => StaysFine(w)
  BY <1>2, <1>3 DEF DeleteStored
<1>8. DeleteSaved(w) => StaysFine(w)
  BY <1>1, SyncFine DEF DeleteSaved
<1>9. DeleteThrown(w) => Release(w) \/ Save(w, "undoSave", p, job[w].prev)
  BY DEF DeleteThrown
<1> QED BY <1>2, <1>3, <1>4, <1>5, <1>6, <1>7, <1>8, <1>9 DEF DeleteCredential, DropFile, DeleteDropped,
           DeleteSynced, DeleteUndone

LEMMA ImportFine == ASSUME Types, OwnInv, NEW w \in Worker, ImportCredential(w) PROVE StaysFine(w)
<1> DEFINE p == job[w].prov
           c == Cred("credential-import", VertexFile[p], clock)
<1>0. job[w].pc # "idle" /\ job[w].op = "import"
  BY DEF ImportCredential, ImportBegin, ImportFile, ImportImported, ImportSaved, ImportSynced, ImportReady,
         ImportThrown, ImportUndoSaved, ImportUndone, MyTurn, Running
<1>1. FineList(job[w].list, files) /\ p \in Provider /\ Fine(p, None, files)
  BY <1>0, Carried
<1>2. Release(w) => StaysFine(w)
  BY ReleaseFine
<1>3. \A pc \in {"call", "imported", "thrown", "probe"}, stage \in {"import", "probe", "undoFile", "undoFileOnly"} :
        Await(w, pc, stage) => StaysFine(w)
  BY AwaitFine
<1>4. Save(w, "undoSave", p, None) => StaysFine(w)
  BY <1>1, SaveFine
<1>5. c \in CredType /\ Fine(p, c, files)
  BY <1>1, Creds, ControlAssumption DEF Cred, Fine, Types, CpaTypes
<1> HIDE DEF c
<1>6. ImportImported(w) => StaysFine(w)
  <2>1. ImportImported(w) => Save(w, "save", p, c)
    BY DEF ImportImported, c
  <2> QED BY <1>1, <1>5, <2>1, SaveFine
<1>7. ImportSaved(w) => StaysFine(w)
  BY <1>1, SyncFine DEF ImportSaved
<1>8. ImportThrown(w) => Release(w) \/ Save(w, "undoSave", p, None)
                             \/ \E stage \in {"undoFile", "undoFileOnly"} : Await(w, "call", stage)
  BY DEF ImportThrown
<1>9. ImportThrown(w) => StaysFine(w)
  BY <1>2, <1>3, <1>4, <1>8
<1> QED BY <1>2, <1>3, <1>6, <1>7, <1>9 DEF ImportCredential, ImportBegin, ImportFile, ImportSynced,
           ImportReady, ImportUndoSaved, ImportUndone

(* A repair takes the one newer file, and under these setups that is the     *)
(* Provider's own; its file being gone is what makes it look.                *)
LEMMA ReconcileFine ==
  ASSUME Types, LeftAlone, OwnInv, NEW w \in Worker, Reconcile(w) \/ CheckProviders(w)
  PROVE  StaysFine(w)
<1>1. FineList(mem, files) /\ FineList(job[w].list, files) /\ FineJob(job[w], files, login)
  BY Carried DEF OwnInv
<1>2. Release(w) => StaysFine(w)
  BY ReleaseFine
<1>3. Sync(w, "sync", mem, {}, {}) \/ Sync(w, "sync", job[w].list, {}, {}) => StaysFine(w)
  BY <1>1, SyncFine
<1>4. ASSUME ReconcileBegin(w) PROVE StaysFine(w)
  <2>1. job[w].pc = "queued" /\ job[w].op = "reconcile"
    BY <1>4 DEF ReconcileBegin, MyTurn
  <2>2. Sync(w, "sync", mem, {}, {}) \/ \E q \in Provider : SetsTarget(w, "call", "repair", q, mem[q])
    <3>1. Cardinality(OAuthStored) = 1 => (CHOOSE q \in OAuthStored : TRUE) \in Provider
      BY NoneOfNone DEF OAuthStored
    <3> QED BY <1>4, <3>1 DEF ReconcileBegin, SetsTarget
  <2>3. ASSUME NEW q \in Provider, SetsTarget(w, "call", "repair", q, mem[q]) PROVE StaysFine(w)
    <3> DEFINE j == [job[w] EXCEPT !.pc = "call", !.stage = "repair", !.prov = q, !.cred = mem[q]]
    <3>1. job' = [job EXCEPT ![w] = j] /\ job \in [Worker -> JobType]
      BY <2>3 DEF SetsTarget, Types, JobTypes
    <3>2. /\ j.pc = "call" /\ j.stage = "repair" /\ j.prov = q /\ j.cred = mem[q] /\ j.prev = job[w].prev
          /\ j.list = job[w].list
      BY <3>1 DEF JobType
    <3> HIDE DEF j
    <3>3. Fine(q, mem[q], files) /\ Fine(q, job[w].prev, files)
      BY <1>1, <2>1 DEF FineList, FineJob, Fine
    <3> QED BY <1>1, <3>1, <3>2, <3>3 DEF StaysFine, Others, FineJob
  <2> QED BY <1>3, <2>2, <2>3
<1>5. ASSUME RepairList(w) PROVE StaysFine(w)
  <2> DEFINE p == job[w].prov
             c == job[w].cred
             found == RotatedInto(p, c)
             f == CHOOSE g \in found : TRUE
  <2>1. job[w].pc = "call" /\ job[w].stage = "repair" /\ job[w].op = "reconcile"
    BY <1>5 DEF RepairList, Running
  <2>2. \/ Await(w, "thrown", "repair") \/ Sync(w, "sync", mem, {}, {})
        \/ /\ files[c.ref] = None /\ Cardinality(found) = 1 /\ SetsRef(w, "bind", f)
           /\ \A h \in Vertex : found # {h}
    BY <1>5 DEF RepairList, SetsRef
  <2>3. Await(w, "thrown", "repair") => StaysFine(w)
    BY AwaitFine
  <2>4. ASSUME files[c.ref] = None, Cardinality(found) = 1, SetsRef(w, "bind", f), \A h \in Vertex : found # {h}
        PROVE  StaysFine(w)
    <3>1. p \in Provider /\ c \in OAuthCred
      BY <2>1 DEF Types, JobTypes, JobOK
    <3>2. c # None /\ c.method = "oauth" /\ c.at \in Nat
      BY <3>1, Creds, ControlAssumption DEF OAuthCred
    <3>3. f \in File /\ files[f] # None /\ files[f].prefix \in {None, p} /\ files[f].at > c.at
      BY <2>4, NoneOfNone DEF RotatedInto
    <3>4. ~Untouched /\ OneRotation
      BY <1>1, <2>4, <3>1, <3>2 DEF FineJob, Fine, LeftAlone
    <3>5. files[f].at > 0
      BY <3>2, <3>3 DEF Types, CpaTypes
    <3>0. f \notin Vertex
      <4>1. IsFiniteSet(found)
        BY FS_Subset, ControlAssumption DEF RotatedInto
      <4> HIDE DEF found
      <4>2. PICK x : found = {x}
        BY <2>4, <4>1, FS_Singleton
      <4> QED BY <2>4, <4>2
    <3>6. f \in OwnFiles(p)
      BY <3>0, <3>1, <3>3, <3>4, <3>5, ControlAssumption DEF OwnInv, FileOK, OwnFiles
    <3> HIDE DEF f, found
    <3> DEFINE d == [c EXCEPT !.ref = f]
               j == [job[w] EXCEPT !.stage = "bind", !.cred = d]
    <3>7. d.ref = f
      BY <3>1 DEF OAuthCred
    <3>8. Fine(p, d, files)
      BY <3>4, <3>6, <3>7 DEF Fine
    <3>9. job' = [job EXCEPT ![w] = j]
      BY <2>4 DEF SetsRef, Types, JobTypes
    <3> HIDE DEF d, c, p
    <3>10. /\ j.pc = job[w].pc /\ j.stage = "bind" /\ j.prov = job[w].prov /\ j.cred = d /\ j.prev = job[w].prev
           /\ j.list = job[w].list
      BY JobOf DEF Types, JobType
    <3> HIDE DEF j
    <3> QED BY <1>1, <2>1, <3>8, <3>9, <3>10, JobOf DEF StaysFine, Others, FineJob, Types, JobTypes, p
  <2> QED BY <1>3, <2>2, <2>3, <2>4
<1> QED BY <1>2, <1>3, <1>4, <1>5 DEF Reconcile, ReconcileSaved, ReconcileHealth, ReconcileThrown,
           CheckProviders, CheckBegin, CheckHealth, CheckThrown

(* A login that succeeded has put its account's file among the candidates,   *)
(* so if there is only one it is that one.                                   *)
LEMMA LoginFine ==
  ASSUME Types, OAuthInv, OpsOK, LeftAlone, OwnInv, NEW w \in Worker, OAuthOperation(w)
  PROVE  StaysFine(w)
<1> DEFINE s == job[w].sid
           p == job[w].prov
<1>1. FineList(job[w].list, files) /\ FineJob(job[w], files, login)
  BY Carried DEF OwnInv
<1>2. Release(w) => StaysFine(w)
  BY ReleaseFine
<1>3. ASSUME NEW pc \in {"call", "posted", "thrown", "probe"}, NEW stage, Await(w, pc, stage), stage # "discover" \/ pc # "call"
      PROVE  StaysFine(w)
  BY <1>3, AwaitFine
<1>4. ASSUME StartOAuthBegin(w) PROVE StaysFine(w)
  <2>1. Release(w) \/ \E q : job' = [job EXCEPT ![w].pc = "call", ![w].stage = "start", ![w].sid = q]
    BY <1>4 DEF StartOAuthBegin
  <2>2. ASSUME NEW q, job' = [job EXCEPT ![w].pc = "call", ![w].stage = "start", ![w].sid = q] PROVE StaysFine(w)
    <3> DEFINE j == [job[w] EXCEPT !.pc = "call", !.stage = "start", !.sid = q]
    <3>1. job' = [job EXCEPT ![w] = j]
      BY <2>2 DEF Types, JobTypes
    <3>2. /\ j.pc = "call" /\ j.stage = "start" /\ j.prov = p /\ j.cred = job[w].cred /\ j.prev = job[w].prev
          /\ j.list = job[w].list
      BY JobOf DEF Types, JobType
    <3> HIDE DEF j
    <3> QED BY <1>1, <3>1, <3>2 DEF StaysFine, Others, FineJob, Types, JobTypes
  <2> QED BY <1>2, <2>1, <2>2
<1>5. ASSUME StatusReply(w) PROVE StaysFine(w)
  <2>1. \/ Release(w) \/ Await(w, "thrown", "oauthStatus")
        \/ login[s] = "ok" /\ Await(w, "call", "discover")
    BY <1>5 DEF StatusReply
  <2> QED BY <1>2, <1>3, <2>1, AwaitFine
<1>6. ASSUME Discover(w) PROVE StaysFine(w)
  <2> DEFINE found == Candidates(s)
             f == CHOOSE g \in found : TRUE
             c == Cred("oauth", f, clock)
  <2>1. job[w].pc = "call" /\ job[w].stage = "discover" /\ job[w].op = "oauthStatus"
    BY <1>6 DEF Discover, Running
  <2>2. Await(w, "thrown", "discover") \/ (Cardinality(found) = 1 /\ SetsCred(w, "bind", c))
    BY <1>6 DEF Discover, SetsCred
  <2>3. ASSUME Cardinality(found) = 1, SetsCred(w, "bind", c) PROVE StaysFine(w)
    <3>1. Untouched
      BY <2>1 DEF LeftAlone, OneRotation, NoLogins, OpsOK, OAuthOps
    <3>2. s \in Session /\ sess[s].prov = p /\ p \in Provider
      <4>1. HasSession(job[w]) /\ Busy(job[w])
        BY <2>1 DEF HasSession, Busy
      <4>2. Attends(job[w], sess, active, posted)
        BY DEF OAuthInv
      <4> QED BY <2>1, <4>1, <4>2 DEF Types, SessionTypes, Attends, OAuthOps
    <3>3. login[s] = "ok"
      BY <1>1, <2>1 DEF FineJob
    <3> DEFINE own == AccountOf[p]
    <3>4. own \in found
      <4>1. LoginOK(s, sess, login, files, clock, posted)
        BY <3>2 DEF OwnInv
      <4>2. own \in File \ Vertex
        BY <3>2, ControlAssumption DEF Vertex
      <4> QED BY <3>1, <3>2, <3>3, <4>1, <4>2 DEF LoginOK, Candidates
    <3>5. f = own
      <4>0. IsFiniteSet(found)
        BY FS_Subset, ControlAssumption DEF Candidates
      <4> HIDE DEF found, own
      <4>1. PICK x : found = {x}
        BY <2>3, <4>0, FS_Singleton
      <4> QED BY <3>4, <4>1
    <3>6. files[own] # None
      BY <3>4 DEF Candidates
    <3> HIDE DEF f, found
    <3>7. c.ref = f
      BY DEF Cred
    <3>8. Fine(p, c, files)
      BY <3>5, <3>6, <3>7 DEF Fine, OwnFiles
    <3> HIDE DEF c
    <3> DEFINE j == [job[w] EXCEPT !.stage = "bind", !.cred = c]
    <3>9. job' = [job EXCEPT ![w] = j]
      BY <2>3 DEF SetsCred, Types, JobTypes
    <3>10. /\ j.pc = job[w].pc /\ j.stage = "bind" /\ j.prov = job[w].prov /\ j.cred = c /\ j.prev = job[w].prev
           /\ j.list = job[w].list
      BY JobOf DEF Types, JobType
    <3> HIDE DEF j, own
    <3> QED BY <1>1, <2>1, <3>2, <3>8, <3>9, <3>10 DEF StaysFine, Others, FineJob, Types, JobTypes
  <2> QED BY <1>3, <2>2, <2>3
<1>7. StatusSaved(w) => StaysFine(w)
  BY <1>1, SyncFine DEF StatusSaved
<1>8. SessionBegin(w) => StaysFine(w)
  <2>1. SessionBegin(w) => Release(w) \/ (Await(w, "call", job[w].op) /\ job[w].op # "discover")
    BY DEF SessionBegin
  <2> QED BY <1>2, <1>3, <2>1
<1> QED BY <1>2, <1>3, <1>4, <1>5, <1>6, <1>7, <1>8 DEF OAuthOperation, StartOAuthReply, PostCallback,
           CallbackAccepted, StatusSynced, StatusReady, SessionThrown

LEMMA WorkFine ==
  ASSUME Types, OAuthInv, OpsOK, LeftAlone, OwnInv, NEW w \in Worker, Work(w)
  PROVE  StaysFine(w)
BY MachineryFine, PutFine, DeleteFine, ImportFine, ReconcileFine, LoginFine DEF Work

(* A request starts with nothing, with a key, or with the stored credential. *)
LEMMA CallFine ==
  ASSUME Types, NEW w \in Worker, NEW op \in AllOps \cup {"reconcile"}, NEW p \in Provider \cup {None},
         NEW c \in CredType \cup {None}, NEW s \in Session \cup {None}, Call(w, op, p, c, s),
         p \in Provider => Fine(p, c, files)
  PROVE  StaysFine(w)
<1> DEFINE j == [Idle EXCEPT !.pc = "queued", !.op = op, !.prov = p, !.cred = c, !.sid = s]
<1>1. job' = [job EXCEPT ![w] = j] /\ job \in [Worker -> JobType]
  BY DEF Call, Types, JobTypes
<1>2. j.pc = "queued" /\ j.prov = p /\ j.cred = c /\ j.prev = None /\ j.list = NoPayload
  BY DEF Idle
<1> HIDE DEF j
<1>3. FineList(NoPayload, files) /\ \A q : Fine(q, None, files)
  BY DEF FineList, Fine, NoPayload
<1> QED BY <1>1, <1>2, <1>3 DEF StaysFine, Others, FineJob

LEMMA RequestFine ==
  ASSUME Types, OwnInv, NEW w \in Worker, Request(w)
  PROVE  StaysFine(w)
<1>1. setup.ops \subseteq AllOps
  BY ControlAssumption DEF Types, OtherTypes
<1>2. \A p : Fine(p, None, files)
  BY DEF Fine
<1>3. ASSUME NEW p \in Provider, NEW k \in Key PROVE Cred("api-key", k, 0) \in CredType /\ Fine(p, Cred("api-key", k, 0), files)
  BY Creds DEF Fine, Cred
<1>4. \A p \in Provider : mem[p] \in CredType \cup {None} /\ Fine(p, mem[p], files)
  BY Payloads DEF Types, StoreTypes, OwnInv, FineList
<1>5. ASSUME NEW op \in setup.ops, NEW p \in Provider, Call(w, op, p, None, None) PROVE StaysFine(w)
  BY <1>1, <1>2, <1>5, CallFine
<1>6. ASSUME "put" \in setup.ops, NEW p \in Provider, NEW k \in Key, Call(w, "put", p, Cred("api-key", k, 0), None)
      PROVE  StaysFine(w)
  <2> DEFINE c == Cred("api-key", k, 0)
  <2>1. c \in CredType /\ Fine(p, c, files)
    BY <1>3
  <2> HIDE DEF c
  <2>2. Call(w, "put", p, c, None)
    BY <1>6 DEF c
  <2> QED BY <1>1, <1>6, <2>1, <2>2, CallFine
<1>7. ASSUME "reconcileProvider" \in setup.ops, NEW p \in Provider, Call(w, "reconcileProvider", p, mem[p], None)
      PROVE  StaysFine(w)
  BY <1>1, <1>4, <1>7, CallFine
<1>8. ASSUME NEW op \in setup.ops \cap {"submitOAuthCallback", "oauthStatus"}, NEW s \in Session,
             sess[s].phase \notin {"none", "gone"}, Call(w, op, sess[s].prov, None, s)
      PROVE  StaysFine(w)
  <2>1. sess[s].prov \in Provider
    BY <1>8 DEF Types, SessionTypes
  <2> QED BY <1>1, <1>2, <1>8, <2>1, CallFine
<1> QED BY <1>5, <1>6, <1>7, <1>8 DEF Request

(* Whatever happens, no request comes to carry a login its Provider may not  *)
(* be given.                                                                 *)
LEMMA JobsFine ==
  ASSUME Types, OAuthInv, OpsOK, LeftAlone, OwnInv, [Next]_vars, NEW w \in Worker
  PROVE  FineJob(job'[w], files, login)
<1>1. FineJob(job[w], files, login)
  BY DEF OwnInv
<1>2. ASSUME NEW v \in Worker, StaysFine(v) PROVE FineJob(job'[w], files, login)
  BY <1>1, <1>2 DEF StaysFine, Others
<1>3. ASSUME NEW v \in Worker, Request(v) \/ Work(v) PROVE FineJob(job'[w], files, login)
  BY <1>2, <1>3, RequestFine, WorkFine
<1>4. ASSUME ScheduledReconcile PROVE FineJob(job'[w], files, login)
  BY <1>2, <1>4, CallFine, ControlAssumption DEF ScheduledReconcile
<1>5. ASSUME Crash PROVE FineJob(job'[w], files, login)
  <2> DEFINE j == [Idle EXCEPT !.pc = "queued", !.op = "reconcile"]
  <2>1. job'[w] = j \/ job'[w] = Idle
    BY <1>5 DEF Crash
  <2>2. j.op = "reconcile" /\ j.prov = None /\ j.prev = None /\ j.list = NoPayload
    BY DEF Idle
  <2> HIDE DEF j
  <2>3. FineList(NoPayload, files)
    BY DEF FineList, Fine, NoPayload
  <2> QED BY <2>1, <2>2, <2>3, IdleFine, ControlAssumption DEF FineJob
<1>6. (\E s \in Session : Login(s) \/ Expire(s)) \/ (\E p \in Provider : Rotate(p)) \/ Refresh => UNCHANGED job
  BY DEF Login, Expire, Rotate, Refresh
<1>7. UNCHANGED vars => UNCHANGED job
  BY DEF vars
<1> QED BY <1>1, <1>3, <1>4, <1>5, <1>6, <1>7 DEF Next

(* Neither does the store.                                                   *)
LEMMA StoreFine ==
  ASSUME Types, OwnInv, [Next]_vars
  PROVE  /\ FineList(mem', files) /\ FineList(disk', files)
         /\ tmp' # None => FineList(tmp', files)
<1>1. ASSUME NEW w \in Worker PROVE FineList(job[w].list, files)
  BY DEF OwnInv, FineJob
<1>2. UNCHANGED store => UNCHANGED <<mem, disk, tmp>>
  BY DEF store
<1>3. Crash => mem' = disk /\ UNCHANGED <<disk, tmp>>
  BY DEF Crash
<1>4. ASSUME NEW w \in Worker, Replace(w)
      PROVE  mem' = mem /\ (disk' = disk \/ (tmp # None /\ disk' = tmp)) /\ tmp' \in {tmp, job[w].list, None}
  BY <1>4 DEF Replace, ReplaceWrite, ReplaceRename
<1>5. ASSUME NEW w \in Worker, Assigns(w) PROVE mem' = job[w].list /\ UNCHANGED <<disk, tmp>>
  BY <1>5 DEF Assigns, PutSaved, PutUndoSaved, DeleteSaved, DeleteUndone, ImportSaved, ImportUndoSaved,
              ReconcileSaved, StatusSaved, Assign
<1> QED BY <1>1, <1>2, <1>3, <1>4, <1>5, StoreSteps DEF OwnInv

(* A login that ends well has just written its account's file.               *)
LEMMA LoginSteps ==
  ASSUME Types, [Next]_vars, NEW s \in Session
  PROVE  /\ login[s] = "ok" => login'[s] = "ok"
         /\ login[s] # "ok" /\ login'[s] = "ok" =>
              /\ posted[s] > 0 /\ UNCHANGED sess
              /\ files' = [files EXCEPT ![AccountOf[sess[s].prov]] = [at |-> clock + 1, prefix |-> None]]
<1>0. login \in [Session -> {"wait", "ok", "error"}]
  BY DEF Types, CpaTypes
<1>1. \A w \in Worker : Rewrites(w) => UNCHANGED login
  BY DEF Rewrites, Bind, DropFile, ImportFile, ImportUndone
<1>2. \A p \in Provider : Rotate(p) => UNCHANGED login
  BY DEF Rotate
<1>3. ASSUME NEW t \in Session, Login(t), t # s PROVE login'[s] = login[s]
  BY <1>0, <1>3 DEF Login
<1>4. ASSUME Login(s)
      PROVE  /\ login[s] = "wait" /\ posted[s] > 0 /\ UNCHANGED sess
             /\ login'[s] = "ok" =>
                  files' = [files EXCEPT ![AccountOf[sess[s].prov]] = [at |-> clock + 1, prefix |-> None]]
  BY <1>0, <1>4 DEF Login, oauth
<1> QED BY <1>1, <1>2, <1>3, <1>4, FileSteps

LEMMA LoginsNext ==
  ASSUME Types, Types', Counted, OAuthInv, OpsOK, OwnInv, FilesMove, [Next]_vars, NEW s \in Session
  PROVE  LoginOK(s, sess', login', files', clock', posted')
<1> DEFINE p == sess[s].prov
           q == sess'[s].prov
<1>0. /\ sess[s] \in SessionType /\ sess'[s] \in SessionType /\ clock \in Nat /\ clock' \in Nat /\ clock <= clock'
      /\ files \in [File -> [at : Nat, prefix : Provider \cup {None}] \cup {None}]
      /\ AccountOf \in [Provider -> File] /\ posted \in [Session -> Nat]
  BY ControlAssumption DEF Types, SessionTypes, CpaTypes, FilesMove, Counted
<1>1. LoginOK(s, sess, login, files, clock, posted) /\ SessionOK(s, job, sess, active, posted)
  BY DEF OwnInv, OAuthInv
<1>2. SessionMoves(s)
  BY SessionsMove
<1>3. sess'[s].phase # "none" => q \in Provider
  BY <1>1, <1>2 DEF LoginOK, SessionMoves
<1>4. \A x \in sess[s].before : x[2] <= clock
  BY <1>1 DEF LoginOK
<1>5. ASSUME NEW x \in sess'[s].before PROVE x[2] <= clock'
  <2>1. CASE x \in sess[s].before
    <3>1. x[2] \in Nat
      BY <1>0, <2>1 DEF SessionType
    <3> QED BY <1>0, <1>4, <2>1, <3>1
  <2>2. ASSUME NEW f \in File, files[f] # None, x = <<f, files[f].at>> PROVE x[2] <= clock'
    <3>1. files[f].at <= clock /\ files[f].at \in Nat
      BY <1>0, <2>2 DEF OwnInv, FileOK
    <3> QED BY <1>0, <2>2, <3>1
  <2> QED BY <1>2, <2>1, <2>2 DEF SessionMoves
<1>6. posted'[s] > 0 => "submitOAuthCallback" \in setup.ops
  <2>1. UNCHANGED posted => (posted'[s] > 0 => "submitOAuthCallback" \in setup.ops)
    BY <1>1 DEF LoginOK
  <2>2. ASSUME NEW w \in Worker, PostCallback(w) PROVE "submitOAuthCallback" \in setup.ops
    BY <2>2 DEF PostCallback, Running, OpsOK
  <2> QED BY <2>1, <2>2, PostedSteps
<1>7. ASSUME Untouched, login'[s] = "ok"
      PROVE  /\ sess'[s].phase \notin {"none", "starting"}
             /\ files'[AccountOf[q]] # None
             /\ <<AccountOf[q], files'[AccountOf[q]].at>> \notin sess'[s].before
  <2>1. CASE login[s] = "ok"
    <3>1. /\ sess[s].phase \notin {"none", "starting"}
          /\ files[AccountOf[p]] # None
          /\ <<AccountOf[p], files[AccountOf[p]].at>> \notin sess[s].before
      BY <1>1, <1>7, <2>1 DEF LoginOK
    <3>2. q = p /\ sess'[s].before = sess[s].before /\ sess'[s].phase \notin {"none", "starting"} /\ p \in Provider
      BY <1>1, <1>2, <3>1 DEF SessionMoves, LoginOK
    <3> DEFINE f == AccountOf[p]
    <3>3. f \in File
      BY <1>0, <3>2
    <3> HIDE DEF f
    <3>4. files'[f] # None
      BY <1>7, <3>1, <3>3 DEF FilesMove, f
    <3>5. files'[f].at = files[f].at \/ files'[f].at = clock + 1
      BY <3>3, <3>4 DEF FilesMove
    <3>6. <<f, files'[f].at>> \notin sess[s].before
      <4>1. CASE files'[f].at = files[f].at
        BY <3>1, <4>1 DEF f
      <4>2. CASE files'[f].at = clock + 1
        BY <1>0, <1>4, <4>2
      <4> QED BY <3>5, <4>1, <4>2
    <3> QED BY <3>2, <3>4, <3>6 DEF f
  <2>2. CASE login[s] # "ok"
    <3>1. /\ posted[s] > 0 /\ sess' = sess
          /\ files' = [files EXCEPT ![AccountOf[p]] = [at |-> clock + 1, prefix |-> None]]
      BY <1>7, <2>2, LoginSteps
    <3>2. sess[s].phase \notin {"none", "starting"} /\ p \in Provider
      BY <1>1, <3>1 DEF SessionOK, LoginOK
    <3> DEFINE f == AccountOf[p]
    <3>3. f \in File
      BY <1>0, <3>2
    <3>4. files'[f] = [at |-> clock + 1, prefix |-> None]
      BY <1>0, <3>1, <3>3
    <3>5. files'[f].at = clock + 1 /\ files'[f] # None
      <4>1. [at |-> clock + 1, prefix |-> None] \in [at : Nat, prefix : Provider \cup {None}]
        BY <1>0
      <4> QED BY <3>4, <4>1, ControlAssumption
    <3> HIDE DEF f
    <3>6. <<f, files'[f].at>> \notin sess[s].before
      BY <1>0, <1>4, <3>5
    <3> QED BY <3>1, <3>2, <3>5, <3>6 DEF f
  <2> QED BY <2>1, <2>2
<1> QED BY <1>3, <1>5, <1>6, <1>7 DEF LoginOK

(* What a request carries stays good when files and logins move.             *)
LEMMA JobsGrow ==
  ASSUME Types, Types', OAuthInv, FilesMove, [Next]_vars, NEW w \in Worker, FineJob(job'[w], files, login)
  PROVE  FineJob(job'[w], files', login')
<1> DEFINE j == job'[w]
<1>1. \A f \in File : Untouched /\ files[f] # None => files'[f] # None
  BY DEF FilesMove
<1>2. j \in JobType
  BY DEF Types, JobTypes
<1>3. \A p \in Provider : j.list[p] \in CredType \cup {None}
  BY <1>2, Payloads DEF JobType
<1>4. FineList(j.list, files')
  BY <1>1, <1>3, FineGrows DEF FineJob, FineList
<1>5. j.prov \in Provider => Fine(j.prov, j.cred, files') /\ Fine(j.prov, j.prev, files')
  <2>1. j.cred \in CredType \cup {None} /\ j.prev \in CredType \cup {None}
    BY <1>2 DEF JobType
  <2> QED BY <1>1, <2>1, FineGrows DEF FineJob
<1>6. j.op = "oauthStatus" /\ j.pc = "call" /\ j.stage = "discover" => login'[j.sid] = "ok"
  <2>1. j.op = "oauthStatus" /\ j.pc = "call" => j.sid \in Session
    BY DEF Types, SessionTypes, HasSession
  <2> QED BY <2>1, LoginSteps DEF FineJob
<1> QED BY <1>4, <1>5, <1>6 DEF FineJob

LEMMA OwnNext ==
  ASSUME Types, Counted, OAuthInv, OpsOK, LeftAlone, OwnInv, [Next]_vars
  PROVE  OwnInv'
<1>1. Types' /\ FilesMove
  BY TypesNext, FilesKept
<1>2. \A f \in File : Untouched /\ files[f] # None => files'[f] # None
  BY <1>1 DEF FilesMove
<1>3. ASSUME NEW l \in Payload, FineList(l, files) PROVE FineList(l, files')
  BY <1>2, <1>3, FineGrows, Payloads DEF FineList
<1>4. FineList(mem', files') /\ FineList(disk', files') /\ (tmp' # None => FineList(tmp', files'))
  <2>1. mem' \in Payload /\ disk' \in Payload /\ tmp' \in Payload \cup {None}
    BY <1>1 DEF Types, StoreTypes
  <2> QED BY <1>3, <2>1, StoreFine
<1>5. \A w \in Worker : FineJob(job'[w], files', login')
  BY <1>1, JobsFine, JobsGrow
<1>6. \A f \in File : FileOK(f, files', clock')
  BY <1>1 DEF FilesMove
<1>7. \A s \in Session : LoginOK(s, sess', login', files', clock', posted')
  BY <1>1, LoginsNext
<1>8. setup' = setup
  BY SetupKept
<1>9. /\ FineList(mem, files)' /\ FineList(disk, files)' /\ (tmp # None => FineList(tmp, files))'
      /\ \A w \in Worker : FineJob(job[w], files, login)'
  BY <1>4, <1>5, <1>8 DEF FineJob, FineList, Fine, Untouched
<1>10. \A f \in File : FileOK(f, files, clock)'
  BY <1>6, <1>8 DEF FileOK, OneRotation, NoLogins
<1>11. \A s \in Session : LoginOK(s, sess, login, files, clock, posted)'
  BY <1>7, <1>8 DEF LoginOK, Untouched
<1> QED BY <1>9, <1>10, <1>11 DEF OwnInv

LEMMA OwnInit == ASSUME Init, LeftAlone PROVE OwnInv
<1>0. setup \in Setups /\ setup.stored \in Payload /\ mem = setup.stored /\ disk = setup.stored /\ tmp = None
  BY ControlAssumption DEF Init
<1>1. ASSUME NEW p \in Provider PROVE Fine(p, setup.stored[p], files)
  <2> DEFINE c == setup.stored[p]
  <2>1. CASE c = None \/ c.method # "oauth"
    BY <2>1 DEF Fine
  <2>2. CASE c # None /\ c.method = "oauth"
    <3>1. c \in CredType /\ c.ref \in File /\ c.ref \in OwnFiles(p)
      BY <1>0, <2>2, Payloads, Creds DEF LeftAlone
    <3> DEFINE owners == {r \in Provider : setup.stored[r] # None /\ setup.stored[r].ref = c.ref}
               q == CHOOSE r \in owners : TRUE
    <3>2. p \in owners
      BY <2>2
    <3>3. files[c.ref] = [at |-> 0, prefix |-> q]
      BY <3>1, <3>2 DEF Init
    <3>4. q \in Provider
      BY <3>2
    <3> HIDE DEF q, owners
    <3>5. [at |-> 0, prefix |-> q] \in [at : Nat, prefix : Provider \cup {None}]
      BY <3>4
    <3> QED BY <3>1, <3>3, <3>5, ControlAssumption DEF Fine
  <2> QED BY <2>1, <2>2
<1>2. FineList(mem, files) /\ FineList(disk, files)
  BY <1>0, <1>1 DEF FineList
<1>3. \A w \in Worker : FineJob(job[w], files, login)
  BY IdleFine DEF Init
<1>4. ASSUME NEW f \in File PROVE FileOK(f, files, clock)
  <2>1. files[f] # None => files[f].at = 0
    BY DEF Init
  <2> QED BY <2>1 DEF FileOK, Init
<1>5. ASSUME NEW s \in Session PROVE LoginOK(s, sess, login, files, clock, posted)
  <2>1. sess[s] = NoSession /\ login[s] = "wait" /\ posted[s] = 0
    BY DEF Init
  <2>2. NoSession.phase = "none" /\ NoSession.before = {}
    BY DEF NoSession
  <2> QED BY <2>1, <2>2 DEF LoginOK
<1>6. (\A f \in File : FileOK(f, files, clock)) /\ \A s \in Session : LoginOK(s, sess, login, files, clock, posted)
  BY <1>4, <1>5
<1>7. tmp # None => FineList(tmp, files)
  BY <1>0
<1> QED BY <1>2, <1>3, <1>6, <1>7 DEF OwnInv

(* A login binds the auth file its own Provider's account wrote or was       *)
(* rotated into, also while other Providers log in: the one file that is new *)
(* since its session started is its own, because by the time oauthStatus     *)
(* looks for it the login has written it (#discoverCredential asks for       *)
(* exactly one).  It needs that no such file goes away in between: nothing   *)
(* deletes, imports or rotates one; or else that there are no logins, and at *)
(* most one file a repair could find.                                        *)
THEOREM OwnFileIsBound == Spec => [](LeftAlone => OwnFileBound)
<1> DEFINE I == Types /\ Counted /\ OAuthInv /\ OpsOK /\ (LeftAlone => OwnInv)
<1>1. Init => I
  <2>1. Init => OpsOK
    BY DEF OpsOK, Init, Idle
  <2> QED BY <2>1, TypesInit, OAuthInit, OwnInit
<1>2. I /\ [Next]_vars => I'
  <2>1. [Next]_vars => (LeftAlone' <=> LeftAlone)
    BY SetupKept DEF LeftAlone, Untouched, OneRotation, NoLogins
  <2> QED BY <2>1, TypesNext, CountedNext, OAuthNext, OpsNext, OwnNext
<1>3. I => (LeftAlone => OwnFileBound)
  BY DEF OwnInv, FineList, Fine, OwnFiles, OwnFileBound
<1> QED BY <1>1, <1>2, <1>3, PTL DEF Spec

==============================================================================
