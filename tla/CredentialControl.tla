------------------------- MODULE CredentialControl -------------------------
(* cliproxy-control: the narrow service that owns the Provider credentials   *)
(* of one CPA (CLIProxyAPI) instance.  It keeps them in an encrypted file    *)
(* (CredentialStore: #payload in memory, `path` and `path.tmp` on disk),     *)
(* materialises them in CPA through the Management API, and runs the OAuth   *)
(* sessions that make CPA write an auth file.                                *)
(*                                                                           *)
(* Credential changes and reconciliations run one at a time behind #mutate;  *)
(* the OAuth operations run one at a time per Provider behind                *)
(* #withOAuthProvider, and so next to a mutation and next to another         *)
(* Provider's OAuth operation.  Every await is a step boundary: a job's `pc` *)
(* is the await it is suspended at, "thrown" an await that rejected, and     *)
(* `stage` which of the method's awaits it is.                               *)
(*                                                                           *)
(* One API-key kind stands for API_KEY_KINDS (the loop body is the same for  *)
(* each, and what a fault leaves of two kinds is not told apart) and all     *)
(* OAuth credentials have the same kind.  CPA itself, and the person who     *)
(* logs in, are external.                                                    *)
EXTENDS Integers, Sequences, FiniteSets

CONSTANTS
  Provider,      \* Provider ids
  Key,           \* API keys an admin may save
  File,          \* CPA auth files; a file's name stands for its ref
  Session,       \* OAuth session ids (fresh random ids in the code)
  Worker,        \* requests in flight at once
  Timer,         \* the worker that runs the scheduled reconciliation
  None,
  Unknown,       \* ghost value: a request on the Provider is undecided
  AccountOf,     \* Provider -> the auth file a login for it writes
  VertexFile,    \* Provider -> the auth file an imported service account becomes
  RotatesTo,     \* Provider -> the auth file CPA may rotate that one into
  Setups         \* what the behaviours are about, see below

AllOps == {"put", "delete", "import", "reconcileProvider", "semanticReadiness",
           "startOAuth", "submitOAuthCallback", "oauthStatus"}

OAuthOps == {"startOAuth", "submitOAuthCallback", "oauthStatus"}

Cred(method, ref, at) == [method |-> method, ref |-> ref, at |-> at]

CredType == [method : {"api-key"}, ref : Key, at : {0}]
              \cup [method : {"oauth", "credential-import"}, ref : File, at : Nat]

Payload == [Provider -> CredType \cup {None}]

(* A setup fixes for one behaviour:                                          *)
(*   ops         the operations the admin calls,                             *)
(*   stored      the store's content at start: Provider -> credential or None, *)
(*   workers     the requests in flight at once,                             *)
(*   expiring    whether time may pass beyond oauthSessionTtlMs,             *)
(*   rotating    whether CPA may rotate the identity of an auth file,        *)
(*   maxOps, maxFaults, maxCrashes                                           *)
(*               the bounds on requests, failed CPA calls and crashes.       *)
ASSUME ControlAssumption ==
  /\ Timer \in Worker
  /\ IsFiniteSet(File)
  /\ AccountOf \in [Provider -> File] /\ RotatesTo \in [Provider -> File]
  /\ VertexFile \in [Provider -> File]
  /\ \A p, q \in Provider : VertexFile[p] \notin {AccountOf[q], RotatesTo[q]}
  /\ None \notin Provider \cup Key \cup Session \cup CredType
  /\ None \notin Payload /\ None \notin [at : Nat, prefix : Provider \cup {None}]
  /\ \A s \in Setups :
       /\ s.ops \subseteq AllOps /\ s.workers \subseteq Worker
       /\ s.stored \in Payload
       /\ s.expiring \in BOOLEAN /\ s.rotating \in BOOLEAN
       /\ {s.maxOps, s.maxFaults, s.maxCrashes} \subseteq Nat

VARIABLES
  mem,        \* CredentialStore.#payload
  disk,       \* the store file
  tmp,        \* the store's `path.tmp`, or None
  cfg,        \* CPA's API-key collection: Provider -> key or None
  live,       \* CPA's inference clients, rebuilt from cfg by a debounced watcher
  files,      \* CPA's auth files: [at, prefix] or None
  login,      \* CPA's OAuth state per session: "wait" | "ok" | "error"
  clock,      \* orders updatedAt of credentials and auth files
  ready,      \* #ready
  tail,       \* #tail: the mutations in call order, the running one first
  oauthTails, \* #oauthProviderTails, per Provider
  job,        \* the requests in flight
  sess,       \* #oauthSessions
  active,     \* #activeOAuthProviders
  acked,      \* ghost: the credential last acknowledged to the admin
  posted,     \* ghost: callbacks forwarded to CPA, per session
  ops, faults, crashes,
  setup       \* the member of Setups this behaviour is about; never changes

store == <<mem, disk, tmp>>
cpa == <<cfg, live, files, login, clock>>
oauth == <<sess, active>>
ghost == <<acked, posted>>
budget == <<ops, faults, crashes, setup>>
vars == <<store, cpa, ready, tail, oauthTails, job, oauth, ghost, budget>>

NoPayload == [p \in Provider |-> None]

Idle == [pc |-> "idle", op |-> None, stage |-> None, prov |-> None, cred |-> None,
         prev |-> None, list |-> NoPayload, force |-> {}, remove |-> {}, sid |-> None]

NoSession == [phase |-> "none", prov |-> None, before |-> {}, expired |-> FALSE]

Init ==
  /\ setup \in Setups
  /\ mem = setup.stored /\ disk = setup.stored /\ tmp = None
  /\ cfg = [p \in Provider |-> IF setup.stored[p] # None /\ setup.stored[p].method = "api-key"
                               THEN setup.stored[p].ref ELSE None]
  /\ live = cfg
  /\ files = [f \in File |->
                LET owners == {p \in Provider : setup.stored[p] # None /\ setup.stored[p].ref = f}
                IN  IF owners = {} THEN None
                    ELSE [at |-> 0, prefix |-> CHOOSE p \in owners : TRUE]]
  /\ login = [s \in Session |-> "wait"]
  /\ clock = 0
  /\ ready = FALSE
  /\ tail = << >>
  /\ oauthTails = [p \in Provider |-> << >>]
  /\ job = [w \in Worker |-> Idle]
  /\ sess = [s \in Session |-> NoSession]
  /\ active = [p \in Provider |-> None]
  /\ acked = setup.stored
  /\ posted = [s \in Session |-> 0]
  /\ ops = 0 /\ faults = 0 /\ crashes = 0

-----------------------------------------------------------------------------
(* Reading CPA.                                                              *)

ApiKeys(list) ==
  [p \in Provider |-> IF list[p] # None /\ list[p].method = "api-key"
                      THEN list[p].ref ELSE None]

Prefixed(p) == {f \in File : files[f] # None /\ files[f].prefix = p}

\* catalog(providerId): the models CPA serves under the Provider's prefix.
CatalogServed(p) == live[p] # None \/ Prefixed(p) # {}

\* credentialHealth: ready or not, from the auth files or the key collection.
Healthy(p, c) ==
  IF c.method = "api-key"
  THEN IF Prefixed(p) = {} THEN cfg[p] # None ELSE Cardinality(Prefixed(p)) = 1
  ELSE files[c.ref] # None

\* assertForceModelPrefix aside, what makes cpa.reconcile refuse to write.
Unmanaged(list, remove) ==
  \E p \in Provider : cfg[p] # None /\ ApiKeys(list)[p] = None /\ p \notin remove

-----------------------------------------------------------------------------
(* The await machinery shared by the operations.                             *)

Running(w, op, pc, stage) ==
  /\ job[w].op = op /\ job[w].pc = pc /\ job[w].stage = stage

\* #mutate and #withOAuthProvider: the caller queues behind the previous one.
Call(w, op, p, c, s) ==
  /\ job[w].pc = "idle"
  /\ job' = [job EXCEPT ![w] = [Idle EXCEPT !.pc = "queued", !.op = op, !.prov = p,
                                            !.cred = c, !.sid = s]]
  /\ IF op \in OAuthOps
     THEN oauthTails' = [oauthTails EXCEPT ![p] = Append(@, w)] /\ UNCHANGED tail
     ELSE tail' = Append(tail, w) /\ UNCHANGED oauthTails

MyTurn(w, op) ==
  /\ job[w].op = op /\ job[w].pc = "queued"
  /\ LET line == IF op \in OAuthOps THEN oauthTails[job[w].prov] ELSE tail
     IN  line # << >> /\ Head(line) = w

\* The finally clause: the next caller in line may run.
Release(w) ==
  /\ job' = [job EXCEPT ![w] = Idle]
  /\ IF job[w].op \in OAuthOps
     THEN /\ oauthTails' = [oauthTails EXCEPT ![job[w].prov] = Tail(@)]
          /\ UNCHANGED tail
     ELSE tail' = Tail(tail) /\ UNCHANGED oauthTails

Still == UNCHANGED <<tail, oauthTails>>

\* store.upsert / delete / restore: the new payload is computed from #payload
\* at the call, then #replace writes it.
Save(w, stage, p, c) ==
  /\ job' = [job EXCEPT ![w].pc = "write", ![w].stage = stage,
                        ![w].list = [mem EXCEPT ![p] = c],
                        ![w].prev = IF stage = "save" THEN mem[p] ELSE @,
                        ![w].cred = IF stage = "save" /\ c # None THEN c ELSE @]
  /\ Still

\* cpa.reconcile(this.#store.list(), { force..., remove... }).
Sync(w, stage, list, force, remove) ==
  /\ job' = [job EXCEPT ![w].pc = "read", ![w].stage = stage, ![w].list = list,
                        ![w].force = force, ![w].remove = remove]
  /\ Still

Await(w, pc, stage) ==
  /\ job' = [job EXCEPT ![w].pc = pc, ![w].stage = stage]
  /\ Still

Fault == faults < setup.maxFaults /\ faults' = faults + 1 /\ UNCHANGED <<ops, crashes, setup>>

Undecided(p) == acked' = [acked EXCEPT ![p] = Unknown] /\ UNCHANGED posted

Acknowledge(p, c) == acked' = [acked EXCEPT ![p] = c] /\ UNCHANGED posted

(* CredentialStore.#replace: write the temporary file, rename it over the     *)
(* store, then assign #payload (the step that resumes the caller).  A         *)
(* temporary file written in part is left out: its writer has thrown and does *)
(* not rename it, and the next one writes it anew.                            *)

\* Each call of the file system may fail: the temporary file is then the old
\* one or the new one.
ReplaceWrite(w) ==
  /\ job[w].pc = "write"
  /\ \/ tmp' = job[w].list /\ Await(w, "rename", job[w].stage) /\ UNCHANGED budget
     \/ Fault /\ tmp' \in {tmp, job[w].list} /\ Await(w, "thrown", job[w].stage)
  /\ UNCHANGED <<mem, disk, cpa, ready, oauth, ghost>>

\* chmod or rename also fails when another #replace already renamed the file away.
ReplaceRename(w) ==
  /\ job[w].pc = "rename"
  /\ \/ /\ tmp # None /\ disk' = tmp /\ tmp' = None
        /\ Await(w, "saved", job[w].stage)
        /\ UNCHANGED budget
     \/ /\ Await(w, "thrown", job[w].stage)
        /\ Fault \/ (tmp = None /\ UNCHANGED budget)
        /\ UNCHANGED <<disk, tmp>>
  /\ UNCHANGED <<mem, cpa, ready, oauth, ghost>>

Assign(w) == mem' = job[w].list /\ UNCHANGED <<disk, tmp>>

(* CpaManagementClient.reconcile: refuse a collection holding a key no stored *)
(* credential owns, unload the Providers to reload, then write the collection.*)

ReconcileRead(w) ==
  /\ job[w].pc = "read"
  /\ LET reload == {p \in job[w].force : ApiKeys(job[w].list)[p] # None}
     IN  \/ /\ Await(w, "thrown", job[w].stage)
            /\ \/ Fault
               \/ Unmanaged(job[w].list, job[w].remove) /\ UNCHANGED budget
         \/ /\ ~Unmanaged(job[w].list, job[w].remove)
            /\ Await(w, IF reload = {} THEN "put" ELSE "unload", job[w].stage)
            /\ UNCHANGED budget
  /\ UNCHANGED <<store, cpa, ready, oauth, ghost>>

\* A failed PUT may have been applied: only its answer is lost.
ReconcileUnload(w) ==
  LET intermediate == [p \in Provider |-> IF p \in job[w].force THEN None
                                           ELSE ApiKeys(job[w].list)[p]]
  IN
  /\ job[w].pc = "unload"
  /\ \/ /\ cfg' = intermediate
        /\ Await(w, "absent", job[w].stage)
        /\ UNCHANGED budget
     \/ /\ Fault
        /\ cfg' \in {cfg, intermediate}
        /\ Await(w, "thrown", job[w].stage)
  /\ UNCHANGED <<store, live, files, login, clock, ready, oauth, ghost>>

\* #assertCatalogAbsent polls until the prefix is gone; an auth file with the
\* prefix, or a key another operation's PUT has brought back, keeps it served
\* and the poll runs into its deadline.
ReconcileAbsent(w) ==
  /\ job[w].pc = "absent"
  /\ LET served == {p \in job[w].force : CatalogServed(p)}
     IN  \/ served = {} /\ Await(w, "put", job[w].stage) /\ UNCHANGED budget
         \/ /\ served # {} /\ Await(w, "thrown", job[w].stage)
            /\ \/ Fault
               \/ (\E p \in served : Prefixed(p) # {} \/ cfg[p] # None) /\ UNCHANGED budget
  /\ UNCHANGED <<store, cpa, ready, oauth, ghost>>

\* The PUT of the whole collection may be applied and fail, too.
ReconcilePut(w) ==
  /\ job[w].pc = "put"
  /\ \/ /\ cfg' = ApiKeys(job[w].list)
        /\ Await(w, "synced", job[w].stage)
        /\ UNCHANGED budget
     \/ /\ Fault
        /\ cfg' \in {cfg, ApiKeys(job[w].list)}
        /\ Await(w, "thrown", job[w].stage)
  /\ UNCHANGED <<store, live, files, login, clock, ready, oauth, ghost>>

\* assertCredentialReady and the health read after it.
ProbeTarget(w) == IF job[w].stage = "undoProbe" THEN job[w].prev ELSE job[w].cred

Probe(w) ==
  LET p == job[w].prov
      c == ProbeTarget(w)
  IN  /\ job[w].pc = "probe"
      /\ \/ /\ Healthy(p, c) /\ CatalogServed(p)
            /\ Await(w, "probed", job[w].stage)
            /\ UNCHANGED budget
         \/ /\ Await(w, "thrown", job[w].stage)
            /\ \/ Fault
               \/ /\ ~Healthy(p, c) \/ (c.method # "api-key" /\ ~CatalogServed(p))
                  /\ UNCHANGED budget
      /\ UNCHANGED <<store, cpa, ready, oauth, ghost>>

\* #reconcileAndProbe ends with a health read of its own: what it answers is
\* #ready, and the operation returns either way.
SetReady(w) ==
  \/ ready' = Healthy(job[w].prov, job[w].cred) /\ UNCHANGED budget
  \/ Fault /\ ready' = FALSE

-----------------------------------------------------------------------------
(* The admin's requests and the timer's.                                      *)

\* Bound: an unused session id is left for every startOAuth still queued.
SessionLeft ==
  Cardinality({s \in Session : sess[s].phase = "none"})
    > Cardinality({w \in Worker : job[w].op = "startOAuth" /\ job[w].pc = "queued"})

Request(w) ==
  /\ w \in setup.workers \ {Timer} /\ ops < setup.maxOps
  /\ \/ \E op \in setup.ops \cap {"delete", "import", "semanticReadiness", "startOAuth"} :
          \E p \in Provider : /\ op = "startOAuth" => SessionLeft
                              /\ Call(w, op, p, None, None)
     \/ "put" \in setup.ops /\ \E p \in Provider, k \in Key :
                            Call(w, "put", p, Cred("api-key", k, 0), None)
     \/ "reconcileProvider" \in setup.ops /\ \E p \in Provider :
                                         Call(w, "reconcileProvider", p, mem[p], None)
     \/ \E op \in setup.ops \cap {"submitOAuthCallback", "oauthStatus"}, s \in Session :
          sess[s].phase \notin {"none", "gone"} /\ Call(w, op, sess[s].prov, None, s)
  /\ ops' = ops + 1
  /\ UNCHANGED <<store, cpa, ready, oauth, ghost, faults, crashes, setup>>

\* runScheduledReconciliation: the timer is re-armed when the last one ended.
ScheduledReconcile ==
  /\ Call(Timer, "reconcile", None, None, None)
  /\ UNCHANGED <<store, cpa, ready, oauth, ghost, budget>>

(* putCredential *)

PutBegin(w) ==
  /\ MyTurn(w, "put")
  /\ Save(w, "save", job[w].prov, job[w].cred)
  /\ Undecided(job[w].prov)
  /\ UNCHANGED <<store, cpa, ready, oauth, budget>>

\* Mutant: the replacement is written without unloading the old client first.
PutSavedInPlace(w) ==
  /\ Running(w, "put", "saved", "save")
  /\ Assign(w)
  /\ Sync(w, "sync", job[w].list, {}, {})
  /\ UNCHANGED <<cpa, ready, oauth, ghost, budget>>

PutSaved(w) ==
  /\ Running(w, "put", "saved", "save")
  /\ Assign(w)
  /\ Sync(w, "sync", job[w].list, {job[w].prov}, {})
  /\ UNCHANGED <<cpa, ready, oauth, ghost, budget>>

PutSynced(w) ==
  /\ Running(w, "put", "synced", "sync")
  /\ Await(w, "probe", "probe")
  /\ UNCHANGED <<store, cpa, ready, oauth, ghost, budget>>

PutReady(w) ==
  /\ Running(w, "put", "probed", "probe")
  /\ SetReady(w)
  /\ Acknowledge(job[w].prov, job[w].cred)
  /\ Release(w)
  /\ UNCHANGED <<store, cpa, oauth>>

\* Mutant: the rollback deletes the credential instead of restoring it.
PutThrownDeletes(w) ==
  LET p == job[w].prov
  IN  /\ job[w].op = "put" /\ job[w].pc = "thrown"
      /\ \/ /\ job[w].stage \in {"save", "undoSave"}
            /\ Release(w) /\ UNCHANGED <<ready, ghost>>
         \/ /\ job[w].stage \in {"sync", "probe"}
            /\ ready' = FALSE
            /\ Save(w, "undoSave", p, None)
            /\ UNCHANGED ghost
         \/ /\ job[w].stage \in {"undoSync", "undoProbe"}
            /\ ready' = FALSE
            /\ Acknowledge(p, job[w].prev)
            /\ Release(w)
      /\ UNCHANGED <<store, cpa, oauth, budget>>

\* The catch clause: restore the previous credential, or delete the new one.
PutThrown(w) ==
  LET p == job[w].prov
      prev == job[w].prev
  IN  /\ job[w].op = "put" /\ job[w].pc = "thrown"
      /\ \/ /\ job[w].stage \in {"save", "undoSave"}
            /\ Release(w) /\ UNCHANGED <<ready, ghost>>
         \/ /\ job[w].stage \in {"sync", "probe"}
            /\ ready' = FALSE
            /\ IF prev = None /\ mem[p] = None
               THEN Sync(w, "undoSync", mem, {}, {})
               ELSE Save(w, "undoSave", p, prev)
            /\ UNCHANGED ghost
         \/ /\ job[w].stage \in {"undoSync", "undoProbe"}
            /\ ready' = FALSE
            /\ Acknowledge(p, prev)
            /\ Release(w)
      /\ UNCHANGED <<store, cpa, oauth, budget>>

PutUndoSaved(w) ==
  /\ Running(w, "put", "saved", "undoSave")
  /\ Assign(w)
  /\ Sync(w, "undoSync", job[w].list, IF job[w].prev = None THEN {} ELSE {job[w].prov}, {})
  /\ UNCHANGED <<cpa, ready, oauth, ghost, budget>>

PutUndone(w) ==
  /\ \/ Running(w, "put", "synced", "undoSync")
     \/ Running(w, "put", "probed", "undoProbe")
  /\ IF job[w].pc = "synced" /\ job[w].prev # None
     THEN Await(w, "probe", "undoProbe") /\ UNCHANGED <<ready, ghost>>
     ELSE ready' = FALSE /\ Acknowledge(job[w].prov, job[w].prev) /\ Release(w)
  /\ UNCHANGED <<store, cpa, oauth, budget>>

(* deleteCredential *)

\* store.delete answers undefined when the Provider has no credential.
DeleteStored(w) ==
  IF mem[job[w].prov] = None
  THEN Release(w) /\ UNCHANGED ghost
  ELSE Save(w, "save", job[w].prov, None) /\ Undecided(job[w].prov)

DeleteBegin(w) ==
  /\ MyTurn(w, "delete")
  /\ LET cur == mem[job[w].prov]
     IN  IF cur # None /\ cur.method # "api-key"
         THEN /\ job' = [job EXCEPT ![w].pc = "call", ![w].stage = "dropFile",
                                    ![w].prev = cur]
              /\ Still /\ Undecided(job[w].prov)
         ELSE DeleteStored(w)
  /\ UNCHANGED <<store, cpa, ready, oauth, budget>>

\* A failed DELETE may have been applied as well.
DropFile(w) ==
  LET dropped == [files EXCEPT ![job[w].prev.ref] = None]
  IN
  /\ job[w].op = "delete" /\ job[w].pc = "call"
  /\ \/ /\ files' = dropped
        /\ Await(w, "dropped", "dropFile")
        /\ UNCHANGED budget
     \/ Fault /\ Await(w, "thrown", "dropFile") /\ files' \in {files, dropped}
  /\ UNCHANGED <<store, cfg, live, login, clock, ready, oauth, ghost>>

DeleteDropped(w) ==
  /\ Running(w, "delete", "dropped", "dropFile")
  /\ DeleteStored(w)
  /\ UNCHANGED <<store, cpa, ready, oauth, budget>>

DeleteSaved(w) ==
  /\ Running(w, "delete", "saved", "save")
  /\ Assign(w)
  /\ Sync(w, "sync", job[w].list, {}, {job[w].prov})
  /\ UNCHANGED <<cpa, ready, oauth, ghost, budget>>

DeleteSynced(w) ==
  /\ Running(w, "delete", "synced", "sync")
  /\ ready' = TRUE
  /\ Acknowledge(job[w].prov, None)
  /\ Release(w)
  /\ UNCHANGED <<store, cpa, oauth, budget>>

DeleteThrown(w) ==
  /\ job[w].op = "delete" /\ job[w].pc = "thrown"
  /\ CASE job[w].stage = "dropFile" ->
             Release(w) /\ Acknowledge(job[w].prov, job[w].prev)
       [] job[w].stage = "sync" ->
             Save(w, "undoSave", job[w].prov, job[w].prev) /\ UNCHANGED ghost
       [] OTHER -> Release(w) /\ UNCHANGED ghost
  /\ UNCHANGED <<store, cpa, ready, oauth, budget>>

DeleteUndone(w) ==
  /\ Running(w, "delete", "saved", "undoSave")
  /\ Assign(w)
  /\ ready' = FALSE
  /\ Acknowledge(job[w].prov, job[w].prev)
  /\ Release(w)
  /\ UNCHANGED <<cpa, oauth, budget>>

(* importCredential *)

ImportBegin(w) ==
  /\ MyTurn(w, "import")
  /\ IF mem[job[w].prov] # None
     THEN Release(w) /\ UNCHANGED ghost
     ELSE Await(w, "call", "import") /\ Undecided(job[w].prov)
  /\ UNCHANGED <<store, cpa, ready, oauth, budget>>

\* importVertexCredential: CPA writes the file, which is then bound to the
\* Provider.  A failed bind deletes it again, as well as it can: the file may
\* stay when an answer is lost, with the Provider's prefix or without one.
ImportFile(w) ==
  LET f == VertexFile[job[w].prov]
      Written(prefix) == /\ files' = [files EXCEPT ![f] = [at |-> clock + 1, prefix |-> prefix]]
                         /\ clock' = clock + 1
  IN  /\ Running(w, "import", "call", "import")
      /\ \/ /\ files[f] = None /\ Written(job[w].prov)
            /\ Await(w, "imported", "import")
            /\ UNCHANGED budget
         \/ /\ Await(w, "thrown", "import")
            /\ Fault \/ (files[f] # None /\ UNCHANGED budget)
            /\ UNCHANGED <<files, clock>>
         \/ /\ files[f] = None /\ \E prefix \in {None, job[w].prov} : Written(prefix)
            /\ Await(w, "thrown", "import")
            /\ Fault
      /\ UNCHANGED <<store, cfg, live, login, ready, oauth, ghost>>

ImportImported(w) ==
  /\ Running(w, "import", "imported", "import")
  /\ Save(w, "save", job[w].prov,
          Cred("credential-import", VertexFile[job[w].prov], clock))
  /\ UNCHANGED <<store, cpa, ready, oauth, ghost, budget>>

ImportSaved(w) ==
  /\ Running(w, "import", "saved", "save")
  /\ Assign(w)
  /\ Sync(w, "sync", job[w].list, {}, {})
  /\ UNCHANGED <<cpa, ready, oauth, ghost, budget>>

ImportSynced(w) ==
  /\ Running(w, "import", "synced", "sync")
  /\ Await(w, "probe", "probe")
  /\ UNCHANGED <<store, cpa, ready, oauth, ghost, budget>>

ImportReady(w) ==
  /\ Running(w, "import", "probed", "probe")
  /\ SetReady(w)
  /\ Acknowledge(job[w].prov, job[w].cred)
  /\ Release(w)
  /\ UNCHANGED <<store, cpa, oauth>>

\* The catch clause: forget the credential, then the file CPA imported, also
\* when the store could not be written.
ImportThrown(w) ==
  LET p == job[w].prov
  IN  /\ job[w].op = "import" /\ job[w].pc = "thrown"
      /\ CASE job[w].stage = "import" -> Release(w) /\ Acknowledge(p, None)
           [] job[w].stage \in {"save", "sync", "probe"} /\ mem[p] # None ->
                 Save(w, "undoSave", p, None) /\ UNCHANGED ghost
           [] job[w].stage = "undoSave" -> Await(w, "call", "undoFileOnly") /\ UNCHANGED ghost
           [] OTHER -> Await(w, "call", "undoFile") /\ UNCHANGED ghost
      /\ ready' = (ready /\ job[w].stage \notin {"sync", "probe"})
      /\ UNCHANGED <<store, cpa, oauth, budget>>

ImportUndoSaved(w) ==
  /\ Running(w, "import", "saved", "undoSave")
  /\ Assign(w)
  /\ Await(w, "call", "undoFile")
  /\ UNCHANGED <<cpa, ready, oauth, ghost, budget>>

\* The file's deletion is best effort: its failure is swallowed.
ImportUndone(w) ==
  /\ \/ Running(w, "import", "call", "undoFile") /\ Acknowledge(job[w].prov, None)
     \/ Running(w, "import", "call", "undoFileOnly") /\ UNCHANGED ghost
  /\ \/ /\ files' = [files EXCEPT ![VertexFile[job[w].prov]] = None]
        /\ UNCHANGED budget
     \/ Fault /\ UNCHANGED files
  /\ ready' = FALSE
  /\ Release(w)
  /\ UNCHANGED <<store, cfg, live, login, clock, oauth>>

(* reconcile, with #repairRotatedOAuthBinding *)

OAuthStored == {p \in Provider : mem[p] # None /\ mem[p].method = "oauth"}

ReconcileBegin(w) ==
  /\ MyTurn(w, "reconcile")
  /\ IF Cardinality(OAuthStored) = 1
     THEN LET p == CHOOSE q \in OAuthStored : TRUE
          IN  /\ job' = [job EXCEPT ![w].pc = "call", ![w].stage = "repair",
                                    ![w].prov = p, ![w].cred = mem[p]]
              /\ Still
     ELSE Sync(w, "sync", mem, {}, {})
  /\ UNCHANGED <<store, cpa, ready, oauth, ghost, budget>>

Vertex == {VertexFile[p] : p \in Provider}

\* Newer auth files the one OAuth credential could have been rotated into.
RotatedInto(p, c) ==
  {f \in File : /\ files[f] # None
                /\ files[f].prefix \in {None, p}
                /\ files[f].at > c.at}

\* A file that is no login's is refused before anything is written.
RepairList(w) ==
  LET p == job[w].prov
      c == job[w].cred
      found == RotatedInto(p, c)
  IN  /\ Running(w, "reconcile", "call", "repair")
      /\ \/ /\ Await(w, "thrown", "repair")
            /\ \/ Fault
               \/ files[c.ref] = None /\ \E f \in Vertex : found = {f} /\ UNCHANGED budget
         \/ /\ ~(files[c.ref] = None /\ \E f \in Vertex : found = {f})
            /\ IF files[c.ref] = None /\ Cardinality(found) = 1
               THEN /\ job' = [job EXCEPT ![w].stage = "bind",
                                          ![w].cred.ref = CHOOSE f \in found : TRUE]
                    /\ Still
               ELSE Sync(w, "sync", mem, {}, {})
            /\ UNCHANGED budget
      /\ UNCHANGED <<store, cpa, ready, oauth, ghost>>

\* bindOAuthCredential: the PATCH that gives the file the Provider's prefix,
\* for a repair and for an OAuth session.  It may be applied although it, or
\* the reading of the file's models after it, fails.
Bind(w) ==
  LET f == job[w].cred.ref
  IN  /\ job[w].pc = "call" /\ job[w].stage = "bind"
      /\ \/ /\ files[f] # None
            /\ files' = [files EXCEPT ![f].prefix = job[w].prov]
            /\ Await(w, "bound", "bind")
            /\ UNCHANGED budget
         \/ /\ Await(w, "thrown", "bind")
            /\ Fault \/ (files[f] = None /\ UNCHANGED budget)
            /\ UNCHANGED files
         \/ /\ files[f] # None
            /\ files' = [files EXCEPT ![f].prefix = job[w].prov]
            /\ Await(w, "thrown", "bind")
            /\ Fault
      /\ UNCHANGED <<store, cfg, live, login, clock, ready, oauth, ghost>>

\* Both then upsert the credential under the bound file's identity.
Bound(w) ==
  /\ job[w].pc = "bound"
  /\ Save(w, "save", job[w].prov, Cred("oauth", job[w].cred.ref, clock))
  /\ Undecided(job[w].prov)
  /\ UNCHANGED <<store, cpa, ready, oauth, budget>>

ReconcileSaved(w) ==
  /\ Running(w, "reconcile", "saved", "save")
  /\ Assign(w)
  /\ Acknowledge(job[w].prov, job[w].cred)
  /\ Sync(w, "sync", job[w].list, {}, {})
  /\ UNCHANGED <<cpa, ready, oauth, budget>>

ReconcileHealth(w) ==
  /\ Running(w, "reconcile", "synced", "sync")
  /\ \/ /\ ready' = \A p \in Provider :
                       job[w].list[p] # None => Healthy(p, job[w].list[p])
        /\ UNCHANGED budget
     \/ Fault /\ ready' = FALSE
  /\ Release(w)
  /\ UNCHANGED <<store, cpa, oauth, ghost>>

ReconcileThrown(w) ==
  /\ job[w].op = "reconcile" /\ job[w].pc = "thrown"
  /\ ready' = FALSE
  /\ Release(w)
  /\ UNCHANGED <<store, cpa, oauth, ghost, budget>>

(* reconcileProvider (and the batch reconcileProviders), semanticReadiness *)

\* semanticReadiness refuses to run when no credential is stored.
CheckBegin(w) ==
  /\ job[w].op \in {"reconcileProvider", "semanticReadiness"}
  /\ MyTurn(w, job[w].op)
  /\ IF job[w].op = "semanticReadiness" /\ mem = NoPayload
     THEN Release(w)
     ELSE Sync(w, "sync", mem, {}, {})
  /\ UNCHANGED <<store, cpa, ready, oauth, ghost, budget>>

\* The Provider's credential was read before the call queued.
CheckHealth(w) ==
  /\ job[w].op \in {"reconcileProvider", "semanticReadiness"} /\ job[w].pc = "synced"
  /\ \/ /\ IF job[w].op = "reconcileProvider"
           THEN ready' = (job[w].cred # None /\ Healthy(job[w].prov, job[w].cred))
           ELSE ready' = \A p \in Provider :
                           job[w].list[p] # None => Healthy(p, job[w].list[p])
        /\ UNCHANGED budget
     \/ Fault /\ ready' \in {FALSE, ready}
  /\ Release(w)
  /\ UNCHANGED <<store, cpa, oauth, ghost>>

\* Only semanticReadiness leaves #ready as it was.
CheckThrown(w) ==
  /\ job[w].op \in {"reconcileProvider", "semanticReadiness"} /\ job[w].pc = "thrown"
  /\ ready' = (ready /\ job[w].op = "semanticReadiness")
  /\ Release(w)
  /\ UNCHANGED <<store, cpa, oauth, ghost, budget>>

(* OAuth sessions *)

Forget(s) == [sess EXCEPT ![s].phase = "gone"]

Stale(s) == sess[s].phase = "gone" \/ sess[s].expired

StartOAuthBegin(w) ==
  LET p == job[w].prov
      a == active[p]
  IN  /\ MyTurn(w, "startOAuth")
      /\ IF a # None /\ ~Stale(a)
         THEN Release(w) /\ UNCHANGED oauth
         ELSE \E s \in Session :
                /\ sess[s].phase = "none"
                /\ sess' = [q \in Session |->
                              IF q = s THEN [sess[s] EXCEPT !.phase = "starting", !.prov = p]
                              ELSE IF q = a THEN Forget(a)[a] ELSE sess[q]]
                /\ active' = [active EXCEPT ![p] = s]
                /\ job' = [job EXCEPT ![w].pc = "call", ![w].stage = "start", ![w].sid = s]
                /\ Still
      /\ UNCHANGED <<store, cpa, ready, ghost, budget>>

\* CPA lists its auth files (`before`) and hands out a state.
StartOAuthReply(w) ==
  LET s == job[w].sid
  IN  /\ Running(w, "startOAuth", "call", "start")
      /\ \/ /\ sess' = [sess EXCEPT
                          ![s].phase = "awaiting_callback",
                          ![s].before = {<<f, files[f].at>> :
                                           f \in {g \in File : files[g] # None}}]
            /\ UNCHANGED <<active, budget>>
         \/ /\ Fault
            /\ sess' = Forget(s)
            /\ active' = [active EXCEPT ![job[w].prov] = None]
      /\ Release(w)
      /\ UNCHANGED <<store, cpa, ready, ghost>>

ClearActive(p, s) == [active EXCEPT ![p] = IF @ = s THEN None ELSE @]

\* #requiredOAuthSession of submitOAuthCallback and oauthStatus.
SessionBegin(w) ==
  LET s == job[w].sid
      p == job[w].prov
      phase == sess[s].phase
      open == IF job[w].op = "submitOAuthCallback" THEN {"awaiting_callback"}
              ELSE {"awaiting_callback", "callback_accepted"}
  IN  /\ job[w].op \in {"submitOAuthCallback", "oauthStatus"} /\ MyTurn(w, job[w].op)
      /\ IF phase # "gone" /\ sess[s].expired
         THEN Release(w) /\ sess' = Forget(s) /\ active' = ClearActive(p, s)
         ELSE /\ UNCHANGED oauth
              /\ IF phase \in open THEN Await(w, "call", job[w].op) ELSE Release(w)
      /\ UNCHANGED <<store, cpa, ready, ghost, budget>>

PostCallback(w) ==
  LET s == job[w].sid
  IN  /\ Running(w, "submitOAuthCallback", "call", "submitOAuthCallback")
      /\ \/ /\ posted' = [posted EXCEPT ![s] = @ + 1]
            /\ Await(w, "posted", "submitOAuthCallback")
            /\ UNCHANGED budget
         \/ /\ Fault
            /\ posted' \in {posted, [posted EXCEPT ![s] = @ + 1]}
            /\ Await(w, "thrown", "submitOAuthCallback")
      /\ UNCHANGED <<store, cpa, ready, oauth, acked>>

CallbackAccepted(w) ==
  /\ Running(w, "submitOAuthCallback", "posted", "submitOAuthCallback")
  /\ sess' = [sess EXCEPT ![job[w].sid].phase = "callback_accepted"]
  /\ Release(w)
  /\ UNCHANGED <<store, cpa, ready, active, ghost, budget>>

\* oauthStatus asks CPA for the login's state.
StatusReply(w) ==
  /\ Running(w, "oauthStatus", "call", "oauthStatus")
  /\ \/ /\ login[job[w].sid] = "wait"
        /\ Release(w)
        /\ UNCHANGED budget
     \/ /\ login[job[w].sid] = "ok"
        /\ Await(w, "call", "discover")
        /\ UNCHANGED budget
     \/ /\ Await(w, "thrown", "oauthStatus")
        /\ Fault \/ (login[job[w].sid] = "error" /\ UNCHANGED budget)
  /\ UNCHANGED <<store, cpa, ready, oauth, ghost>>

\* The logins' auth files that are new or changed since the session started.
Candidates(s) ==
  {f \in File \ Vertex : files[f] # None /\ <<f, files[f].at>> \notin sess[s].before}

\* Mutant: the first candidate is taken, however many there are.
DiscoverFirst(w) ==
  LET found == Candidates(job[w].sid)
  IN  /\ Running(w, "oauthStatus", "call", "discover")
      /\ \/ /\ \E f \in found :
                 job' = [job EXCEPT ![w].stage = "bind", ![w].cred = Cred("oauth", f, clock)]
            /\ Still
            /\ UNCHANGED budget
         \/ /\ Await(w, "thrown", "discover")
            /\ Fault \/ (found = {} /\ UNCHANGED budget)
      /\ UNCHANGED <<store, cpa, ready, oauth, ghost>>

Discover(w) ==
  LET found == Candidates(job[w].sid)
  IN  /\ Running(w, "oauthStatus", "call", "discover")
      /\ \/ /\ Cardinality(found) = 1
            /\ job' = [job EXCEPT ![w].stage = "bind",
                                  ![w].cred = Cred("oauth", CHOOSE f \in found : TRUE, clock)]
            /\ Still
            /\ UNCHANGED budget
         \/ /\ Await(w, "thrown", "discover")
            /\ Fault \/ (Cardinality(found) # 1 /\ UNCHANGED budget)
      /\ UNCHANGED <<store, cpa, ready, oauth, ghost>>

StatusSaved(w) ==
  /\ Running(w, "oauthStatus", "saved", "save")
  /\ Assign(w)
  /\ Sync(w, "sync", job[w].list, {}, {})
  /\ UNCHANGED <<cpa, ready, oauth, ghost, budget>>

StatusSynced(w) ==
  /\ Running(w, "oauthStatus", "synced", "sync")
  /\ Await(w, "probe", "probe")
  /\ UNCHANGED <<store, cpa, ready, oauth, ghost, budget>>

StatusReady(w) ==
  /\ Running(w, "oauthStatus", "probed", "probe")
  /\ SetReady(w)
  /\ sess' = [sess EXCEPT ![job[w].sid].phase = "ready"]
  /\ active' = [active EXCEPT ![job[w].prov] = None]
  /\ Acknowledge(job[w].prov, job[w].cred)
  /\ Release(w)
  /\ UNCHANGED <<store, cpa>>

\* #failOAuthSession; the stored credential, if any, stays.
SessionThrown(w) ==
  LET s == job[w].sid
  IN  /\ job[w].op \in {"submitOAuthCallback", "oauthStatus"} /\ job[w].pc = "thrown"
      /\ sess' = [sess EXCEPT ![s].phase = "failed"]
      /\ active' = ClearActive(job[w].prov, s)
      /\ ready' = (ready /\ job[w].stage \notin {"sync", "probe"})
      /\ Release(w)
      /\ UNCHANGED <<store, cpa, ghost, budget>>

-----------------------------------------------------------------------------
(* The environment.                                                           *)

\* The login ends: CPA writes the account's auth file, or records an error.
Login(s) ==
  /\ posted[s] > 0 /\ login[s] = "wait"
  /\ \/ /\ login' = [login EXCEPT ![s] = "ok"]
        /\ files' = [files EXCEPT ![AccountOf[sess[s].prov]] =
                                   [at |-> clock + 1, prefix |-> None]]
        /\ clock' = clock + 1
     \/ login' = [login EXCEPT ![s] = "error"] /\ UNCHANGED <<files, clock>>
  /\ UNCHANGED <<store, cfg, live, ready, tail, oauthTails, job, oauth, ghost, budget>>

\* CPA rotates the identity of a login: its auth file goes, a newer one comes,
\* which keeps the Provider's prefix or has none.
Rotate(p) ==
  LET old == AccountOf[p]
      new == RotatesTo[p]
  IN  /\ setup.rotating /\ files[old] # None /\ files[new] = None
      /\ \E prefix \in {None, files[old].prefix} :
           files' = [files EXCEPT ![old] = None, ![new] = [at |-> clock + 1, prefix |-> prefix]]
      /\ clock' = clock + 1
      /\ UNCHANGED <<store, cfg, live, login, ready, tail, oauthTails, job, oauth, ghost, budget>>

\* CPA's debounced watcher rebuilds the inference clients from the collection.
Refresh ==
  /\ live # cfg
  /\ live' = cfg
  /\ UNCHANGED <<store, cfg, files, login, clock, ready, tail, oauthTails, job, oauth,
                 ghost, budget>>

\* Time passes the session's expiresAt.
Expire(s) ==
  /\ setup.expiring
  /\ sess[s].phase \in {"awaiting_callback", "callback_accepted", "ready", "failed"}
  /\ ~sess[s].expired
  /\ sess' = [sess EXCEPT ![s].expired = TRUE]
  /\ UNCHANGED <<store, cpa, ready, tail, oauthTails, job, active, ghost, budget>>

\* The process dies and restarts: initialize loads the store and reconciles.
Crash ==
  /\ crashes < setup.maxCrashes
  /\ crashes' = crashes + 1
  /\ mem' = disk
  /\ ready' = FALSE
  /\ tail' = <<Timer>>
  /\ oauthTails' = [p \in Provider |-> << >>]
  /\ job' = [w \in Worker |->
               IF w = Timer THEN [Idle EXCEPT !.pc = "queued", !.op = "reconcile"] ELSE Idle]
  /\ sess' = [s \in Session |-> IF sess[s].phase = "none" THEN sess[s] ELSE Forget(s)[s]]
  /\ active' = [p \in Provider |-> None]
  /\ UNCHANGED <<disk, tmp, cpa, ghost, ops, faults, setup>>

-----------------------------------------------------------------------------
Replace(w) == ReplaceWrite(w) \/ ReplaceRename(w)

CpaReconcile(w) ==
  ReconcileRead(w) \/ ReconcileUnload(w) \/ ReconcileAbsent(w) \/ ReconcilePut(w)

PutCredential(w) ==
  \/ PutBegin(w) \/ PutSaved(w) \/ PutSynced(w) \/ PutReady(w) \/ PutThrown(w)
  \/ PutUndoSaved(w) \/ PutUndone(w)

DeleteCredential(w) ==
  \/ DeleteBegin(w) \/ DropFile(w) \/ DeleteDropped(w) \/ DeleteSaved(w)
  \/ DeleteSynced(w) \/ DeleteThrown(w) \/ DeleteUndone(w)

ImportCredential(w) ==
  \/ ImportBegin(w) \/ ImportFile(w) \/ ImportImported(w) \/ ImportSaved(w)
  \/ ImportSynced(w) \/ ImportReady(w) \/ ImportThrown(w) \/ ImportUndoSaved(w)
  \/ ImportUndone(w)

Reconcile(w) ==
  \/ ReconcileBegin(w) \/ RepairList(w) \/ ReconcileSaved(w) \/ ReconcileHealth(w)
  \/ ReconcileThrown(w)

CheckProviders(w) == CheckBegin(w) \/ CheckHealth(w) \/ CheckThrown(w)

OAuthOperation(w) ==
  \/ StartOAuthBegin(w) \/ StartOAuthReply(w) \/ SessionBegin(w) \/ PostCallback(w)
  \/ CallbackAccepted(w) \/ StatusReply(w) \/ Discover(w) \/ StatusSaved(w)
  \/ StatusSynced(w) \/ StatusReady(w) \/ SessionThrown(w)

Work(w) ==
  \/ Replace(w) \/ CpaReconcile(w) \/ Probe(w) \/ Bind(w) \/ Bound(w)
  \/ PutCredential(w) \/ DeleteCredential(w) \/ ImportCredential(w)
  \/ Reconcile(w) \/ CheckProviders(w) \/ OAuthOperation(w)

Next ==
  \/ \E w \in Worker : Request(w) \/ Work(w)
  \/ ScheduledReconcile
  \/ \E s \in Session : Login(s) \/ Expire(s)
  \/ \E p \in Provider : Rotate(p)
  \/ Refresh
  \/ Crash

Spec == Init /\ [][Next]_vars

\* The event loop runs what is runnable, the reconciliation timer is re-armed
\* after every run, and CPA's watcher catches up with its configuration.
Fairness ==
  /\ \A w \in Worker : WF_vars(Work(w))
  /\ WF_vars(ScheduledReconcile)
  /\ WF_vars(Refresh)

FairSpec == Spec /\ Fairness

-----------------------------------------------------------------------------
Step == {"idle", "queued", "write", "rename", "saved", "read", "unload", "absent",
         "put", "synced", "probe", "probed", "call", "dropped", "imported", "bound",
         "posted", "thrown"}

\* Every variable keeps its type.
ControlTypeOK ==
  /\ mem \in Payload /\ disk \in Payload /\ tmp \in Payload \cup {None}
  /\ cfg \in [Provider -> Key \cup {None}] /\ live \in [Provider -> Key \cup {None}]
  /\ files \in [File -> [at : Nat, prefix : Provider \cup {None}] \cup {None}]
  /\ login \in [Session -> {"wait", "ok", "error"}]
  /\ ready \in BOOLEAN
  /\ \A w \in Worker : job[w].pc \in Step /\ job[w].list \in Payload
  /\ active \in [Provider -> Session \cup {None}]
  /\ \A p \in Provider : acked[p] \in CredType \cup {None, Unknown}

Kept(p) == acked[p] # Unknown => mem[p] = acked[p] /\ disk[p] = acked[p]

\* What an admin was told is kept: a credential whose save, import or deletion
\* was acknowledged, and a previous credential a failed save rolled back to,
\* is what the store holds, in memory and in the file a restart loads, until
\* the next operation on that Provider.  Behind it are #replace's
\* read-modify-write across awaits and the catch clauses' restores.  Only
\* what queues on #tail is safe: the logins of two Providers, and a login
\* next to a mutation, run side by side and may overwrite each other.
AcknowledgedKept == setup.ops \cap OAuthOps = {} => \A p \in Provider : Kept(p)

\* The same with logins, which does not hold.
LoginKept == \A p \in Provider : Kept(p)

Quiet == \A w \in Worker : job[w].pc \in {"idle", "queued"}

\* /ready answers yes only while CPA's key collection holds every stored API
\* key (#ready against the outcome of the last cpa.reconcile).  It may hold the
\* key of a deleted credential besides: when both deleteCredential's reconcile
\* and the restore in its catch clause fail, the line that clears #ready is
\* not reached.
ReadyMeansMaterialised ==
  Quiet /\ ready =>
    \A p \in Provider : ApiKeys(mem)[p] # None => cfg[p] = ApiKeys(mem)[p]

\* putCredential returns only when inference runs on the new key: a client
\* built from the old key cannot satisfy the readiness probe.
SavedKeyIsServed ==
  [][\A w \in Worker : PutReady(w) => live[job[w].prov] = job[w].cred.ref]_vars

\* At most one OAuth session of a Provider can still be completed.
OneOpenSession ==
  \A s, t \in Session :
    /\ s # t /\ sess[s].prov = sess[t].prov
    /\ ~sess[s].expired /\ ~sess[t].expired
    /\ sess[s].phase \in {"awaiting_callback", "callback_accepted"}
    => sess[t].phase \notin {"awaiting_callback", "callback_accepted"}

\* A session's callback (a one-time authorization code) reaches CPA at most once.
CallbackOnce == \A s \in Session : posted[s] <= 1

\* An OAuth login binds the auth file that this Provider's account wrote, or
\* was rotated into, also when another Provider of the same kind logs in at
\* the same time.
OwnFileBound ==
  \A p \in Provider :
    mem[p] # None /\ mem[p].method = "oauth" => mem[p].ref \in {AccountOf[p], RotatesTo[p]}

\* No auth file backs two Providers' credentials.
OneOwnerPerFile ==
  \A p, q \in Provider :
    p # q /\ mem[p] # None /\ mem[q] # None /\ mem[p].method = "oauth"
          /\ mem[q].method = "oauth" => mem[p].ref # mem[q].ref

\* Keys are only replaced, in this behaviour: each Provider has one already.
Replacing == setup.ops = {"put"} /\ \A p \in Provider : setup.stored[p] # None

\* An unready service becomes ready again: the periodic reconciliation retries
\* the store's state (failed CPA calls and crashes are finitely many).  That is
\* so when keys are replaced; one whose first save was taken back may stay in
\* CPA, where the reconciliation takes it for an unmanaged entry every time.
ReconcileRecovers == (~ready /\ Replacing) ~> ready

=============================================================================
