----------------------------- MODULE TaskLease -----------------------------
(***************************************************************************)
(* The PostgreSQL task lease: one row per task, taken over when it has run *)
(* out, with a fencing token that changes at every acquisition             *)
(* (packages/application/src/storage/postgres-task-lease.ts).              *)
(*                                                                         *)
(* Whether the row's lease_until_ms is still ahead of the database clock   *)
(* is one bit, leaseLive, that Expire may clear at any instant; the code   *)
(* only ever compares the two.  Fencing tokens are only compared for       *)
(* equality, so "the previous token plus one" is modelled by the least     *)
(* token that nobody remembers.                                            *)
(***************************************************************************)
EXTENDS Naturals, FiniteSets, FiniteSetsExt

CONSTANTS
  Workers,     \* processes that run the task
  MaxFaults    \* bound: crashes and leases that run out under a live worker

ASSUME LeaseAssumption ==
  IsFiniteSet(Workers) /\ "nobody" \notin Workers /\ MaxFaults \in Nat

VARIABLES
  leaseToken,  \* fencing_token of the row; NoToken: no row
  leaseOwner,  \* owner_id of the row; NoOwner after release ('')
  leaseLive,   \* lease_until_ms > clock_timestamp()
  held,        \* the lease object of each worker: its token, or NoToken
  aborted,     \* the abort signal of each worker: a renewal failed
  faults       \* how many faults have happened

leaseVars == <<leaseToken, leaseOwner, leaseLive, held, aborted, faults>>

NoToken == 0
NoOwner == "nobody"
Tokens == 1 .. Cardinality(Workers) + 1

LeaseTypeOK ==
  /\ leaseToken \in Tokens \cup {NoToken}
  /\ leaseOwner \in Workers \cup {NoOwner}
  /\ leaseLive \in BOOLEAN
  /\ held \in [Workers -> Tokens \cup {NoToken}]
  /\ aborted \in [Workers -> BOOLEAN]
  /\ faults \in 0 .. MaxFaults

LeaseInit ==
  /\ leaseToken = NoToken
  /\ leaseOwner = NoOwner
  /\ leaseLive = FALSE
  /\ held = [w \in Workers |-> NoToken]
  /\ aborted = [w \in Workers |-> FALSE]
  /\ faults = 0

FreshToken == Min(Tokens \ ({leaseToken} \cup {held[w] : w \in Workers}))

(* The row is the one this worker acquired.                                *)
Mine(w) == held[w] # NoToken /\ leaseToken = held[w] /\ leaseOwner = w

(* assertHeld, and the EXISTS clause every statement of a task carries.    *)
Held(w) == Mine(w) /\ leaseLive

acquire(w) ==
  /\ ~leaseLive
  /\ leaseToken' = FreshToken
  /\ leaseOwner' = w
  /\ leaseLive' = TRUE
  /\ held' = [held EXCEPT ![w] = FreshToken]
  /\ aborted' = [aborted EXCEPT ![w] = FALSE]
  /\ UNCHANGED faults

(* The renewal timer fires: a lost lease raises the abort signal.          *)
renewLost(w) ==
  /\ held[w] # NoToken
  /\ ~Held(w)
  /\ ~aborted[w]
  /\ aborted' = [aborted EXCEPT ![w] = TRUE]
  /\ UNCHANGED <<leaseToken, leaseOwner, leaseLive, held, faults>>

(* release, in the finally block; losing the lease is not an error there.  *)
release(w) ==
  /\ held' = [held EXCEPT ![w] = NoToken]
  /\ aborted' = [aborted EXCEPT ![w] = FALSE]
  /\ IF Mine(w) THEN leaseOwner' = NoOwner /\ leaseLive' = FALSE
                ELSE UNCHANGED <<leaseOwner, leaseLive>>
  /\ UNCHANGED <<leaseToken, faults>>

(* The process dies: its row stays until it runs out.                      *)
forget(w) ==
  /\ faults < MaxFaults
  /\ faults' = faults + 1
  /\ held' = [held EXCEPT ![w] = NoToken]
  /\ aborted' = [aborted EXCEPT ![w] = FALSE]
  /\ UNCHANGED <<leaseToken, leaseOwner, leaseLive>>

(* A lease runs out: its owner is gone, or (a fault) its renewal, due      *)
(* three times per lease, did not come in time.                            *)
expireAbandoned ==
  /\ leaseLive
  /\ \A w \in Workers : ~Mine(w)
  /\ leaseLive' = FALSE
  /\ UNCHANGED <<leaseToken, leaseOwner, held, aborted, faults>>

expireUnderOwner ==
  /\ leaseLive
  /\ \E w \in Workers : Mine(w)
  /\ faults < MaxFaults
  /\ faults' = faults + 1
  /\ leaseLive' = FALSE
  /\ UNCHANGED <<leaseToken, leaseOwner, held, aborted>>
=============================================================================
