-------------------------- MODULE LearningOutbox --------------------------
(***************************************************************************)
(* The outbox of canonical changes and the workers that reconcile the      *)
(* learning projection with them (ExperienceLearningProjector): one worker *)
(* in each process on the database, the Host and any management CLI.  A    *)
(* run claims due entries under a lease, rebuilds the projection and       *)
(* completes its claim in one transaction, or releases it for a retry.     *)
(*                                                                         *)
(* The lease token of a claim is the time at which it expires.  The time a *)
(* run claims with is read before its transaction starts: it waits up to   *)
(* MaxWait for the write queue and for the lock of another process.        *)
(*                                                                         *)
(* Every canonical change inserts its entry in its own transaction, so an  *)
(* entry stands for the change.  Entries are numbered as their rows.       *)
(***************************************************************************)
EXTENDS Integers, FiniteSets

CONSTANTS
  Workers,      \* one in each process
  MaxEntry,     \* bound: entries of the outbox
  MaxTime,      \* bound: the clock
  Leases,       \* values of learningClaimLeaseMs, which can be changed at any time
  RetryDelay,   \* learningRetryDelayMs
  BatchSize,    \* learningBatchSize
  MaxWait       \* a claim is written at most so long after its time was read

ASSUME ConstantsAssumption ==
  /\ MaxEntry \in Nat /\ MaxTime \in Nat /\ MaxWait \in Nat
  /\ Leases \subseteq Nat \ {0}
  /\ RetryDelay \in Nat \ {0} /\ BatchSize \in Nat \ {0}

VARIABLES
  clock,
  state, due, token,   \* the columns state, next_attempt_at and lease_until
  rows,                \* the changes the stored projection reflects
  checkpoint,          \* its source_offset and generation
  run                  \* the drain of each worker

outbox == <<state, due, token>>
projection == <<rows, checkpoint>>
vars == <<clock, outbox, projection, run>>

Entries == 1..MaxEntry
Times == 0..MaxTime
NoLease == -1
Run == [pc: {"idle", "claiming", "claimed", "failed"}, now: Times, lease: Leases \cup {0},
        batch: SUBSET Entries]
Idle == [pc |-> "idle", now |-> 0, lease |-> 0, batch |-> {}]

\* (mutant) The lease is kept in a coarser unit of time.
LeaseInUnits(p) == 2 * ((run[p].now + run[p].lease) \div 2)

\* What the run writes in lease_until, and compares it with later.
LeaseUntil(p) == run[p].now + run[p].lease

TypeOK ==
  /\ clock \in Times
  /\ state \in [Entries -> {"none", "pending", "claimed", "completed"}]
  /\ due \in [Entries -> Nat]
  /\ token \in [Entries -> Nat \cup {NoLease}]
  /\ rows \subseteq Entries
  /\ checkpoint \in [offset: Entries \cup {0}, generation: Nat]
  /\ run \in [Workers -> Run]

Init ==
  /\ clock = 0
  /\ state = [e \in Entries |-> "none"]
  /\ due = [e \in Entries |-> 0]
  /\ token = [e \in Entries |-> NoLease]
  /\ rows = {}
  /\ checkpoint = [offset |-> 0, generation |-> 0]
  /\ run = [p \in Workers |-> Idle]

\* The canonical changes so far.
Canonical == {e \in Entries : state[e] # "none"}

\* A canonical change commits with its entry.
Enqueue(e) ==
  /\ Canonical = 1..e - 1
  /\ state' = [state EXCEPT ![e] = "pending"]
  /\ due' = [due EXCEPT ![e] = clock]
  /\ UNCHANGED <<clock, token, projection, run>>

Tick ==
  /\ clock < MaxTime
  /\ \A p \in Workers : run[p].pc = "claiming" => clock < run[p].now + MaxWait
  /\ clock' = clock + 1
  /\ UNCHANGED <<outbox, projection, run>>

-----------------------------------------------------------------------------
\* The next round of a drain reads the time and the settings.
Round(lease) == [pc |-> "claiming", now |-> clock, lease |-> lease, batch |-> {}]

\* drain starts a run unless one is going on, which its callers share.
Drain(p) ==
  /\ run[p].pc = "idle"
  /\ \E lease \in Leases : run' = [run EXCEPT ![p] = Round(lease)]
  /\ UNCHANGED <<clock, outbox, projection>>

Expired(e, now) == state[e] = "claimed" /\ token[e] <= now

\* The due entries, and the first of them.
Due(now) == {e \in Entries : (state[e] = "pending" \/ Expired(e, now)) /\ due[e] <= now}
Batch(now) == {e \in Due(now) : Cardinality({x \in Due(now) : x < e}) < BatchSize}

\* claimLearningOutbox returns expired claims to pending and claims a batch.
\* The drain ends when there is none.
Claim(p) ==
  LET now == run[p].now
      batch == Batch(now)
  IN /\ run[p].pc = "claiming"
     /\ state' = [e \in Entries |-> IF e \in batch THEN "claimed"
                                    ELSE IF Expired(e, now) THEN "pending" ELSE state[e]]
     /\ token' = [e \in Entries |-> IF e \in batch THEN LeaseUntil(p)
                                    ELSE IF Expired(e, now) THEN NoLease ELSE token[e]]
     /\ run' = [run EXCEPT ![p] =
                  IF batch = {} THEN Idle ELSE [@ EXCEPT !.pc = "claimed", !.batch = batch]]
     /\ UNCHANGED <<clock, due, projection>>

\* (mutant) Whoever claimed an entry once may write to it.
OnceClaimed(p, e) == e \in run[p].batch

\* The entry is still claimed with the token of this run.
Mine(p, e) ==
  e \in run[p].batch /\ state[e] = "claimed" /\ token[e] = LeaseUntil(p)

\* The rows are rebuilt from all that is canonical.
RowsBuilt(p) == Canonical

\* (mutant) The checkpoint follows the batch.
OffsetOfBatch(p) == CHOOSE e \in run[p].batch : \A x \in run[p].batch : x <= e

\* The highest entry of the batch, unless a higher one was processed before.
Offset(p) ==
  CHOOSE o \in run[p].batch \cup {checkpoint.offset} :
    \A x \in run[p].batch \cup {checkpoint.offset} : x <= o

\* commitLearningProjection completes the batch if it is still the run's.  The
\* drain goes on with what is due by now, unless it is being disposed.
Commit(p) ==
  /\ run[p].pc = "claimed"
  /\ \A e \in run[p].batch : Mine(p, e)
  /\ state' = [e \in Entries |-> IF e \in run[p].batch THEN "completed" ELSE state[e]]
  /\ token' = [e \in Entries |-> IF e \in run[p].batch THEN NoLease ELSE token[e]]
  /\ rows' = RowsBuilt(p)
  /\ checkpoint' = [offset |-> Offset(p), generation |-> checkpoint.generation + 1]
  /\ run' = [run EXCEPT ![p] = Idle]
  /\ UNCHANGED <<clock, due>>

\* A lost claim, or a transaction that fails.
CommitFails(p) ==
  /\ run[p].pc = "claimed"
  /\ run' = [run EXCEPT ![p].pc = "failed"]
  /\ UNCHANGED <<clock, outbox, projection>>

\* releaseLearningOutbox: the run's claims are due again later.
Release(p) ==
  /\ run[p].pc = "failed"
  /\ state' = [e \in Entries |-> IF Mine(p, e) THEN "pending" ELSE state[e]]
  /\ due' = [e \in Entries |-> IF Mine(p, e) THEN clock + RetryDelay ELSE due[e]]
  /\ token' = [e \in Entries |-> IF Mine(p, e) THEN NoLease ELSE token[e]]
  /\ run' = [run EXCEPT ![p] = Idle]
  /\ UNCHANGED <<clock, projection>>

\* The process ends, or its transaction is refused: what it claimed expires.
Stops(p) ==
  /\ run[p].pc # "idle"
  /\ run' = [run EXCEPT ![p] = Idle]
  /\ UNCHANGED <<clock, outbox, projection>>

Next ==
  \/ Tick
  \/ \E e \in Entries : Enqueue(e)
  \/ \E p \in Workers :
       Drain(p) \/ Claim(p) \/ Commit(p) \/ CommitFails(p) \/ Release(p) \/ Stops(p)

Spec == Init /\ [][Next]_vars

-----------------------------------------------------------------------------
\* An entry is the claim of one run at a time: the token of a run whose lease
\* expired never matches that of the run which claimed the entry after it.
OneHolder ==
  \A p, q \in Workers : \A e \in Entries :
    Mine(p, e) /\ Mine(q, e) => p = q

\* The projection reflects every completed entry, however late and in whatever
\* order the entries were retried, and the checkpoint is the highest of them.
CompletedIsProjected ==
  /\ \A e \in Entries : state[e] = "completed" => e \in rows /\ e <= checkpoint.offset
  /\ checkpoint.offset # 0 => state[checkpoint.offset] = "completed"

\* A claimed entry leaves its claim because the lease expired or by a step of the
\* run that holds it: nobody else completes, releases or claims it.
OnlyHolderWrites ==
  [][\A e \in Entries :
       state[e] = "claimed" /\ <<state[e], token[e]>>' # <<state[e], token[e]>> =>
         \/ token[e] <= clock
         \/ \E p \in Workers :
              e \in run[p].batch /\ token[e] = LeaseUntil(p) /\ run'[p] = Idle]_vars

-----------------------------------------------------------------------------
\* The assumption under which a token is unique: no claim waits for its
\* transaction as long as a lease lasts.
LeasesOutliveWaits == \A lease \in Leases : MaxWait < lease
=============================================================================
