----------------------- MODULE LearningOutbox_proofs -----------------------
(***************************************************************************)
(* What is learned, for every set of workers, entries, usages, Versions    *)
(* and scopes, and every setting.                                          *)
(*                                                                         *)
(* LearningOutbox: the projection of completed entries and, if leases      *)
(* outlive waits, the single holder of an entry.                           *)
(*                                                                         *)
(* Governance: a reorder is authorized by what is in force when it is      *)
(* saved, and its rollout is bounded.  The invariant relates each decision *)
(* to the evaluation it rests on and the plans reordered under it.         *)
(*                                                                         *)
(* LearningRows: comparisons count what was known when their plan was      *)
(* made, and do not change; the order history proposes permutes equals.  A *)
(* usage that is settled is fixed, so samples can be counted at any later  *)
(* time; orders are compared by the numbers of those that come before.     *)
(***************************************************************************)
EXTENDS LearningOutbox, Governance, LearningRows, TLAPS, WellFoundedInduction, FiniteSetTheorems

\* A bounded set of numbers that is not empty has a greatest element.
LEMMA Greatest ==
  ASSUME NEW N \in Nat, NEW S \in SUBSET (0..N), S # {}
  PROVE  \E o \in S : \A x \in S : x <= o
<1> DEFINE T == {N - x : x \in S}
<1>1. T \subseteq Nat /\ T # {}
  <2>1. ASSUME NEW x \in S PROVE N - x \in Nat
    BY x \in 0..N
  <2>2. PICK x \in S : TRUE
    OBVIOUS
  <2>3. N - x \in T
    OBVIOUS
  <2> QED BY <2>1, <2>3
<1>2. PICK t \in T : \A u \in T : <<u, t>> \notin OpToRel(<, Nat)
  <2> HIDE DEF T
  <2> QED BY <1>1, NatLessThanWellFounded, WFMin
<1>3. \A u \in T : ~ (u < t)
  BY <1>1, <1>2 DEF OpToRel
<1>4. PICK o \in S : t = N - o
  OBVIOUS
<1>5. ASSUME NEW x \in S PROVE x <= o
  <2>1. N - x \in T
    OBVIOUS
  <2>2. ~ (N - x < N - o)
    BY <2>1, <1>3, <1>4
  <2>3. x \in Nat /\ o \in Nat
    OBVIOUS
  <2> QED BY <2>2, <2>3
<1> QED BY <1>5

\* The new offset is the greatest of the batch and the old one.
LEMMA OffsetIsGreatest ==
  ASSUME TypeOK, NEW p \in Workers
  PROVE  /\ Offset(p) \in run[p].batch \cup {checkpoint.offset}
         /\ \A x \in run[p].batch \cup {checkpoint.offset} : x <= Offset(p)
<1> DEFINE S == run[p].batch \cup {checkpoint.offset}
<1>1. S \in SUBSET (0..MaxEntry) /\ S # {} /\ MaxEntry \in Nat
  BY ConstantsAssumption DEF ConstantsAssumption, TypeOK, Run, Entries
<1>2. \E o \in S : \A x \in S : x <= o
  <2> HIDE DEF S
  <2> QED BY <1>1, Greatest
<1> QED BY <1>2 DEF Offset

-----------------------------------------------------------------------------
\* Types.

LEMMA InitTypes == Init => TypeOK
  BY ConstantsAssumption DEF ConstantsAssumption, Init, TypeOK, Run, Idle, Times, Entries

LEMMA LeaseUntilType ==
  ASSUME TypeOK, NEW p \in Workers PROVE LeaseUntil(p) \in Nat
<1>1. run[p] \in Run
  BY DEF TypeOK
<1>2. run[p].now \in Nat
  BY <1>1, ConstantsAssumption DEF ConstantsAssumption, Run, Times
<1>3. run[p].lease \in Nat
  <2>1. run[p].lease \in Leases \cup {0}
    BY <1>1 DEF Run
  <2>2. Leases \subseteq Nat
    BY ConstantsAssumption DEF ConstantsAssumption
  <2>3. CASE run[p].lease \in Leases
    BY <2>3, <2>2, Zenon
  <2>4. CASE run[p].lease = 0
    BY <2>4
  <2> QED BY <2>1, <2>3, <2>4, Zenon
<1> QED BY <1>2, <1>3 DEF LeaseUntil

LEMMA FailedRun ==
  ASSUME NEW r \in Run PROVE [r EXCEPT !.pc = "failed"] \in Run
BY DEF Run

LEMMA NextTypes ==
  ASSUME TypeOK, [Next]_vars PROVE TypeOK'
<1> USE ConstantsAssumption DEF ConstantsAssumption, TypeOK, Run, Times, Entries
<1>1. CASE Tick
  BY <1>1 DEF Tick, outbox, projection
<1>2. ASSUME NEW e \in Entries, Enqueue(e) PROVE TypeOK'
  BY <1>2 DEF Enqueue, projection
<1>3. ASSUME NEW p \in Workers, Drain(p) PROVE TypeOK'
  BY <1>3 DEF Drain, Round, outbox, projection
<1>4. ASSUME NEW p \in Workers, Claim(p) PROVE TypeOK'
  <2> DEFINE batch == Batch(run[p].now)
  <2>1. batch \subseteq Entries
    BY DEF Batch, Due
  <2>2. LeaseUntil(p) \in Nat
    BY LeaseUntilType
  <2> HIDE DEF batch
  <2>3. run' \in [Workers -> Run]
    <3> DEFINE new == IF batch = {} THEN Idle
                      ELSE [run[p] EXCEPT !.pc = "claimed", !.batch = batch]
    <3>1. new \in Run
      <4>1. Idle \in Run
        BY DEF Idle
      <4>2. run[p] \in Run
        OBVIOUS
      <4>3. [run[p] EXCEPT !.pc = "claimed", !.batch = batch] \in Run
        BY <4>2, <2>1
      <4> QED BY <4>1, <4>3
    <3>2. run' = [run EXCEPT ![p] = new]
      BY <1>4 DEF Claim, batch
    <3> HIDE DEF new
    <3> QED BY <3>1, <3>2
  <2>4. state' \in [Entries -> {"none", "pending", "claimed", "completed"}]
    BY <1>4, <2>1 DEF Claim, batch
  <2>5. token' \in [Entries -> Nat \cup {NoLease}]
    BY <1>4, <2>1, <2>2 DEF Claim, batch
  <2> QED BY <1>4, <2>3, <2>4, <2>5 DEF Claim, projection
<1>5. ASSUME NEW p \in Workers, Commit(p) PROVE TypeOK'
  <2>1. Offset(p) \in Entries \cup {0}
    BY OffsetIsGreatest
  <2>2. checkpoint' \in [offset: Entries \cup {0}, generation: Nat]
    BY <1>5, <2>1 DEF Commit
  <2>3. rows' \subseteq Entries
    BY <1>5 DEF Commit, RowsBuilt, Canonical
  <2>4. run' \in [Workers -> Run]
    BY <1>5 DEF Commit, Idle
  <2>5. /\ state' \in [Entries -> {"none", "pending", "claimed", "completed"}]
        /\ token' \in [Entries -> Nat \cup {NoLease}]
    BY <1>5 DEF Commit
  <2>6. clock' \in Times /\ due' \in [Entries -> Nat]
    BY <1>5 DEF Commit
  <2> QED BY <2>2, <2>3, <2>4, <2>5, <2>6
<1>6. ASSUME NEW p \in Workers, CommitFails(p) PROVE TypeOK'
  <2>1. run' \in [Workers -> Run]
    <3>1. [run[p] EXCEPT !.pc = "failed"] \in Run
      <4>1. run[p] \in Run
        OBVIOUS
      <4> HIDE DEF Run
      <4> QED BY <4>1, FailedRun
    <3>2. run' = [run EXCEPT ![p] = [run[p] EXCEPT !.pc = "failed"]]
      BY <1>6 DEF CommitFails
    <3> HIDE DEF Run
    <3> QED BY <3>1, <3>2
  <2> QED BY <1>6, <2>1 DEF CommitFails, outbox, projection
<1>7. ASSUME NEW p \in Workers, Release(p) PROVE TypeOK'
  <2>1. run' \in [Workers -> Run]
    BY <1>7 DEF Release, Idle
  <2>2. /\ state' \in [Entries -> {"none", "pending", "claimed", "completed"}]
        /\ token' \in [Entries -> Nat \cup {NoLease}]
    BY <1>7 DEF Release
  <2>3. clock + RetryDelay \in Nat
    OBVIOUS
  <2>4. due' \in [Entries -> Nat]
    BY <1>7, <2>3 DEF Release
  <2> QED BY <1>7, <2>1, <2>2, <2>4 DEF Release, projection
<1>8. ASSUME NEW p \in Workers, Stops(p) PROVE TypeOK'
  BY <1>8 DEF Stops, Idle, outbox, projection
<1>9. CASE UNCHANGED vars
  BY <1>9 DEF vars, outbox, projection
<1> QED BY <1>1, <1>2, <1>3, <1>4, <1>5, <1>6, <1>7, <1>8, <1>9 DEF Next

\* Every variable keeps its type, whatever the workers do.
THEOREM TypeInvariant == Spec => []TypeOK
  BY InitTypes, NextTypes, PTL DEF Spec

-----------------------------------------------------------------------------
\* Completed entries and the projection.

\* A claim takes no entry that is completed or not there.
LEMMA BatchIsOpen ==
  ASSUME NEW now, NEW e \in Batch(now)
  PROVE  e \in Entries /\ state[e] \in {"pending", "claimed"}
BY DEF Batch, Due, Expired

LEMMA NextProjected ==
  ASSUME TypeOK, CompletedIsProjected, [Next]_vars
  PROVE  CompletedIsProjected'
<1> USE DEF CompletedIsProjected
<1>1. CASE Tick
  BY <1>1 DEF Tick, outbox, projection
<1>2. ASSUME NEW e \in Entries, Enqueue(e) PROVE CompletedIsProjected'
  <2>1. e \notin Canonical
    BY <1>2, ConstantsAssumption DEF Enqueue, ConstantsAssumption, Entries
  <2>2. state[e] = "none"
    BY <2>1 DEF Canonical
  <2>3. \A x \in Entries : state'[x] = "completed" <=> state[x] = "completed"
    BY <1>2, <2>2 DEF Enqueue, TypeOK
  <2> QED BY <1>2, <2>3 DEF Enqueue, projection, TypeOK
<1>3. ASSUME NEW p \in Workers, Drain(p) PROVE CompletedIsProjected'
  BY <1>3 DEF Drain, outbox, projection
<1>4. ASSUME NEW p \in Workers, Claim(p) PROVE CompletedIsProjected'
  <2>1. \A x \in Entries : state'[x] = "completed" <=> state[x] = "completed"
    BY <1>4, BatchIsOpen DEF Claim, Expired
  <2> QED BY <1>4, <2>1 DEF Claim, projection, TypeOK
<1>5. ASSUME NEW p \in Workers, Commit(p) PROVE CompletedIsProjected'
  <2> DEFINE batch == run[p].batch
  <2>1. batch \subseteq Entries /\ \A e \in batch : state[e] = "claimed"
    BY <1>5 DEF Commit, Mine, TypeOK, Run
  <2>2. \A e \in Entries : state'[e] = IF e \in batch THEN "completed" ELSE state[e]
    BY <1>5 DEF Commit
  <2>3. rows' = Canonical /\ checkpoint'.offset = Offset(p)
    BY <1>5 DEF Commit, RowsBuilt
  <2>4. /\ Offset(p) \in batch \cup {checkpoint.offset}
        /\ \A x \in batch \cup {checkpoint.offset} : x <= Offset(p)
    BY OffsetIsGreatest
  <2>5. Offset(p) \in Nat /\ checkpoint.offset \in Entries \cup {0}
    BY <2>1, <2>4 DEF TypeOK, Entries
  <2> HIDE DEF batch
  <2>6. ASSUME NEW e \in Entries, state'[e] = "completed"
        PROVE  e \in rows' /\ e <= checkpoint'.offset
    <3>1. CASE e \in batch
      BY <3>1, <2>1, <2>3, <2>4 DEF Canonical
    <3>2. CASE e \notin batch
      <4>1. state[e] = "completed"
        BY <3>2, <2>2, <2>6
      <4>2. e <= checkpoint.offset /\ checkpoint.offset <= Offset(p)
        BY <4>1, <2>4
      <4>3. e <= Offset(p)
        BY <4>2, <2>5 DEF Entries
      <4> QED BY <4>1, <4>3, <2>3 DEF Canonical
    <3> QED BY <3>1, <3>2
  <2>7. checkpoint'.offset # 0 => state'[checkpoint'.offset] = "completed"
    <3>1. CASE Offset(p) \in batch
      BY <3>1, <2>1, <2>2, <2>3
    <3>2. CASE Offset(p) = checkpoint.offset
      BY <3>2, <2>2, <2>3, <2>5
    <3> QED BY <3>1, <3>2, <2>4
  <2> QED BY <2>6, <2>7
<1>6. ASSUME NEW p \in Workers, CommitFails(p) PROVE CompletedIsProjected'
  BY <1>6 DEF CommitFails, outbox, projection
<1>7. ASSUME NEW p \in Workers, Release(p) PROVE CompletedIsProjected'
  <2>1. \A x \in Entries : state'[x] = "completed" <=> state[x] = "completed"
    BY <1>7 DEF Release, Mine
  <2> QED BY <1>7, <2>1 DEF Release, projection, TypeOK
<1>8. ASSUME NEW p \in Workers, Stops(p) PROVE CompletedIsProjected'
  BY <1>8 DEF Stops, outbox, projection
<1>9. CASE UNCHANGED vars
  BY <1>9 DEF vars, outbox, projection
<1> QED BY <1>1, <1>2, <1>3, <1>4, <1>5, <1>6, <1>7, <1>8, <1>9 DEF Next

\* The projection reflects every completed entry, and the checkpoint is the
\* highest of them, in whatever order claims expire, are retried and completed.
THEOREM ProjectionInvariant == Spec => []CompletedIsProjected
<1>1. Init => CompletedIsProjected
  BY DEF Init, CompletedIsProjected
<1>2. TypeOK /\ CompletedIsProjected /\ [Next]_vars => CompletedIsProjected'
  BY NextProjected
<1> QED BY <1>1, <1>2, TypeInvariant, PTL DEF Spec

-----------------------------------------------------------------------------
\* Leases.

\* A run that still has a batch holds each entry of it, or its lease is over.
\* A claim that waits read its time at most MaxWait ago.
LeaseInv ==
  /\ \A p \in Workers : run[p].pc = "claiming" =>
       run[p].now <= clock /\ clock <= run[p].now + MaxWait /\ run[p].lease \in Leases
  /\ \A p \in Workers : \A e \in run[p].batch :
       run[p].pc # "claiming" /\ (Mine(p, e) \/ LeaseUntil(p) <= clock)
  /\ OneHolder

LEMMA InitLeases == Init => LeaseInv
  BY DEF Init, Idle, LeaseInv, OneHolder, Mine

\* A claim's token is later than now, so no other run's token equals it.
LEMMA ClaimLeases ==
  ASSUME TypeOK, LeaseInv, LeasesOutliveWaits, NEW p \in Workers, Claim(p)
  PROVE  LeaseInv'
<1> DEFINE now == run[p].now
           batch == Batch(now)
           until == LeaseUntil(p)
<1>1. now \in Nat /\ now <= clock /\ clock <= now + MaxWait /\ run[p].lease \in Leases
  BY DEF Claim, LeaseInv, TypeOK, Run, Times
<1>2. run[p].lease \in Nat /\ MaxWait < run[p].lease /\ MaxWait \in Nat /\ clock \in Nat
  <2>1. run[p].lease \in Nat
    BY <1>1, ConstantsAssumption, Zenon DEF ConstantsAssumption
  <2>2. MaxWait < run[p].lease
    BY <1>1, Zenon DEF LeasesOutliveWaits
  <2>3. MaxWait \in Nat /\ clock \in Nat
    BY ConstantsAssumption DEF ConstantsAssumption, TypeOK, Times
  <2> QED BY <2>1, <2>2, <2>3
<1>3. until \in Nat /\ clock < until
  BY <1>1, <1>2 DEF LeaseUntil
<1>4. \A e \in batch : e \in Entries /\ (state[e] # "claimed" \/ token[e] <= now)
  BY DEF Batch, Due, Expired
<1>5. \A q \in Workers \ {p} : run'[q] = run[q]
  BY DEF Claim
<1>6. \A q \in Workers \ {p} : LeaseUntil(q)' = LeaseUntil(q) /\ LeaseUntil(q) \in Nat
  BY <1>5, LeaseUntilType DEF LeaseUntil
<1>7. \A e \in Entries :
        /\ e \in batch => state'[e] = "claimed" /\ token'[e] = until
        /\ e \notin batch /\ state'[e] = "claimed" =>
             state[e] = "claimed" /\ token'[e] = token[e]
        /\ e \notin batch /\ state[e] = "claimed" /\ ~ (token[e] <= now) =>
             state'[e] = "claimed" /\ token'[e] = token[e]
  BY DEF Claim, Expired
<1>8. /\ batch = {} => run'[p] = Idle
      /\ batch # {} => run'[p] = [run[p] EXCEPT !.pc = "claimed", !.batch = batch]
  BY DEF Claim, TypeOK
<1>9. batch # {} => run'[p].pc = "claimed" /\ run'[p].batch = batch /\ LeaseUntil(p)' = until
  BY <1>8 DEF TypeOK, Run, LeaseUntil
<1>10. run'[p].pc # "claiming" /\ run'[p].batch = batch
  BY <1>8, <1>9 DEF Idle
<1> HIDE DEF now, batch, until
\* The others hold only what they held and was not taken.
<1>11. ASSUME NEW q \in Workers \ {p}, NEW e \in Entries, Mine(q, e)'
       PROVE  Mine(q, e) /\ e \notin batch
  <2>1. e \in run[q].batch /\ state'[e] = "claimed" /\ token'[e] = LeaseUntil(q)
    BY <1>5, <1>6, <1>11 DEF Mine
  <2>2. CASE e \in batch
    <3>1. LeaseUntil(q) = until
      BY <2>1, <2>2, <1>7
    <3>2. Mine(q, e)
      BY <2>1, <3>1, <1>3, <1>2 DEF LeaseInv
    <3>3. state[e] = "claimed" /\ token[e] = until
      BY <3>1, <3>2 DEF Mine
    <3> QED BY <2>2, <3>3, <1>1, <1>2, <1>3, <1>4
  <2>3. CASE e \notin batch
    BY <2>1, <2>3, <1>7 DEF Mine
  <2> QED BY <2>2, <2>3
<1>12. ASSUME NEW q \in Workers, run'[q].pc = "claiming"
       PROVE  run'[q].now <= clock' /\ clock' <= run'[q].now + MaxWait /\ run'[q].lease \in Leases
  BY <1>12, <1>5, <1>10 DEF LeaseInv, Claim
<1>13. ASSUME NEW q \in Workers, NEW e \in run'[q].batch
       PROVE  run'[q].pc # "claiming" /\ (Mine(q, e)' \/ LeaseUntil(q)' <= clock')
  <2>1. CASE q = p
    <3>1. e \in batch /\ batch # {}
      BY <2>1, <1>10, <1>13
    <3>2. state'[e] = "claimed" /\ token'[e] = until
      BY <3>1, <1>4, <1>7
    <3>3. Mine(p, e)'
      BY <3>1, <3>2, <1>9 DEF Mine
    <3> QED BY <2>1, <3>3, <1>10
  <2>2. CASE q # p
    <3>1. e \in run[q].batch /\ run[q].pc # "claiming" /\ e \in Entries
      BY <2>2, <1>5, <1>13 DEF LeaseInv, TypeOK, Run
    <3>2. CASE LeaseUntil(q) <= clock
      BY <3>1, <3>2, <2>2, <1>5, <1>6 DEF Claim
    <3>3. CASE Mine(q, e) /\ ~ (LeaseUntil(q) <= clock)
      <4>1. state[e] = "claimed" /\ token[e] = LeaseUntil(q)
        BY <3>3 DEF Mine
      <4>2. LeaseUntil(q) \in Nat
        BY <2>2, <1>6
      <4>3. ~ (token[e] <= now)
        BY <4>1, <4>2, <3>3, <1>1, <1>2
      <4>4. e \notin batch
        BY <4>1, <4>3, <1>4
      <4>5. state'[e] = "claimed" /\ token'[e] = token[e]
        BY <3>1, <4>1, <4>3, <4>4, <1>7
      <4>6. Mine(q, e)'
        BY <3>1, <4>1, <4>5, <2>2, <1>5, <1>6 DEF Mine
      <4> QED BY <4>6, <3>1, <2>2, <1>5
    <3> QED BY <3>1, <3>2, <3>3 DEF LeaseInv
  <2> QED BY <2>1, <2>2
<1>14. ASSUME NEW q \in Workers, NEW r \in Workers, NEW e \in Entries,
              Mine(q, e)', Mine(r, e)'
       PROVE  q = r
  <2>1. CASE q # p /\ r # p
    BY <2>1, <1>11, <1>14 DEF LeaseInv, OneHolder
  <2>2. ASSUME NEW x \in Workers, x = p, Mine(x, e)' PROVE e \in batch
    BY <2>2, <1>10 DEF Mine
  <2>3. CASE q = p /\ r # p
    BY <2>2, <2>3, <1>11, <1>14
  <2>4. CASE q # p /\ r = p
    BY <2>2, <2>4, <1>11, <1>14
  <2> QED BY <2>1, <2>3, <2>4
<1> QED BY <1>12, <1>13, <1>14 DEF LeaseInv, OneHolder

\* A step that changes no claim of a running worker, and ends the run of p.
LEMMA RunEnds ==
  ASSUME TypeOK, LeaseInv, NEW p \in Workers, run' = [run EXCEPT ![p] = Idle], clock' = clock,
         \A q \in Workers \ {p} : \A e \in Entries :
           /\ Mine(q, e) => state'[e] = state[e] /\ token'[e] = token[e]
           /\ state'[e] = "claimed" => state[e] = "claimed" /\ token'[e] = token[e]
  PROVE  LeaseInv'
<1>1. run'[p].pc = "idle" /\ run'[p].batch = {}
  BY DEF Idle, TypeOK
<1>2. \A q \in Workers \ {p} : run'[q] = run[q] /\ LeaseUntil(q)' = LeaseUntil(q)
  BY DEF TypeOK, LeaseUntil
<1>3. ASSUME NEW q \in Workers, run'[q].pc = "claiming"
       PROVE  run'[q].now <= clock' /\ clock' <= run'[q].now + MaxWait /\ run'[q].lease \in Leases
  BY <1>1, <1>2, <1>3 DEF LeaseInv
<1>4. ASSUME NEW q \in Workers, NEW e \in run'[q].batch
       PROVE  run'[q].pc # "claiming" /\ (Mine(q, e)' \/ LeaseUntil(q)' <= clock')
  <2>1. q # p /\ run'[q] = run[q] /\ LeaseUntil(q)' = LeaseUntil(q) /\ e \in Entries
    BY <1>1, <1>2, <1>4 DEF TypeOK, Run
  <2>2. Mine(q, e) => Mine(q, e)'
    BY <2>1 DEF Mine
  <2> QED BY <1>4, <2>1, <2>2 DEF LeaseInv
<1>5. ASSUME NEW q \in Workers, NEW e \in Entries, Mine(q, e)'
       PROVE  q # p /\ Mine(q, e)
  BY <1>1, <1>2, <1>5 DEF Mine
<1>6. OneHolder'
  BY <1>5 DEF LeaseInv, OneHolder
<1> QED BY <1>3, <1>4, <1>6 DEF LeaseInv

LEMMA NextLeases ==
  ASSUME TypeOK, LeaseInv, LeasesOutliveWaits, [Next]_vars
  PROVE  LeaseInv'
<1>1. CASE Tick
  <2>1. /\ clock \in Nat /\ clock' = clock + 1
        /\ \A p \in Workers : Mine(p, 0)' = Mine(p, 0) /\ LeaseUntil(p)' = LeaseUntil(p)
    BY <1>1 DEF Tick, TypeOK, Times, outbox, projection, Mine, LeaseUntil
  <2>2. ASSUME NEW p \in Workers, run'[p].pc = "claiming"
        PROVE  run'[p].now <= clock' /\ clock' <= run'[p].now + MaxWait /\ run'[p].lease \in Leases
    <3>1. run'[p] = run[p] /\ run[p].now \in Nat /\ MaxWait \in Nat
      BY <1>1, ConstantsAssumption DEF Tick, TypeOK, Run, Times, ConstantsAssumption
    <3>2. run[p].now <= clock /\ clock < run[p].now + MaxWait /\ run[p].lease \in Leases
      BY <1>1, <2>2, <3>1 DEF Tick, LeaseInv
    <3> QED BY <2>1, <3>1, <3>2
  <2>3. ASSUME NEW p \in Workers, NEW e \in run'[p].batch
        PROVE  run'[p].pc # "claiming" /\ (Mine(p, e)' \/ LeaseUntil(p)' <= clock')
    <3>1. run[p].pc # "claiming" /\ (Mine(p, e) \/ LeaseUntil(p) <= clock)
      BY <1>1, <2>3 DEF Tick, LeaseInv
    <3>2. Mine(p, e)' <=> Mine(p, e)
      BY <1>1 DEF Tick, outbox, Mine, LeaseUntil
    <3>3. LeaseUntil(p) \in Nat
      BY LeaseUntilType
    <3> QED BY <1>1, <2>1, <3>1, <3>2, <3>3 DEF Tick
  <2>4. OneHolder'
    BY <1>1 DEF Tick, outbox, LeaseInv, OneHolder, Mine, LeaseUntil
  <2> QED BY <2>2, <2>3, <2>4 DEF LeaseInv
<1>2. ASSUME NEW e \in Entries, Enqueue(e) PROVE LeaseInv'
  <2>1. e \notin Canonical
    BY <1>2, ConstantsAssumption DEF Enqueue, ConstantsAssumption, Entries
  <2>2. state[e] = "none"
    BY <2>1 DEF Canonical
  <2>3. \A p \in Workers : \A x \in Entries : Mine(p, x)' <=> Mine(p, x)
    BY <1>2, <2>2 DEF Enqueue, TypeOK, Mine, LeaseUntil
  <2>4. \A p \in Workers : run[p].batch \subseteq Entries
    BY DEF TypeOK, Run
  <2> QED BY <1>2, <2>3, <2>4 DEF Enqueue, LeaseInv, OneHolder, LeaseUntil
<1>3. ASSUME NEW p \in Workers, Drain(p) PROVE LeaseInv'
  <2>1. PICK lease \in Leases : run' = [run EXCEPT ![p] = Round(lease)]
    BY <1>3 DEF Drain
  <2>2. /\ run'[p].pc = "claiming" /\ run'[p].now = clock /\ run'[p].lease \in Leases
        /\ run'[p].batch = {}
    BY <2>1 DEF Round, TypeOK
  <2>3. \A q \in Workers \ {p} : run'[q] = run[q]
    BY <2>1 DEF TypeOK
  <2>4. clock <= clock + MaxWait /\ clock <= clock
    BY ConstantsAssumption DEF ConstantsAssumption, TypeOK, Times
  <2>5. UNCHANGED <<clock, state, token>>
    BY <1>3 DEF Drain, outbox
  <2>6. ASSUME NEW q \in Workers, NEW e, e \in run'[q].batch
        PROVE  q # p /\ (Mine(q, e)' <=> Mine(q, e)) /\ LeaseUntil(q)' = LeaseUntil(q)
    BY <2>2, <2>3, <2>5, <2>6 DEF Mine, LeaseUntil
  <2>7. OneHolder'
    <3>1. ASSUME NEW q \in Workers, NEW e \in Entries, Mine(q, e)' PROVE Mine(q, e)
      BY <3>1, <2>6 DEF Mine
    <3> QED BY <3>1 DEF LeaseInv, OneHolder
  <2> QED BY <2>2, <2>3, <2>4, <2>5, <2>6, <2>7 DEF LeaseInv
<1>4. ASSUME NEW p \in Workers, Claim(p) PROVE LeaseInv'
  BY <1>4, ClaimLeases
<1>5. ASSUME NEW p \in Workers, Commit(p) PROVE LeaseInv'
  <2>1. \A q \in Workers \ {p} : \A e \in Entries : Mine(q, e) => e \notin run[p].batch
    BY <1>5 DEF Commit, LeaseInv, OneHolder
  <2> QED BY <1>5, <2>1, RunEnds DEF Commit
<1>6. ASSUME NEW p \in Workers, CommitFails(p) PROVE LeaseInv'
  <2>1. run'[p].pc = "failed" /\ run'[p].now = run[p].now /\ run'[p].lease = run[p].lease
        /\ run'[p].batch = run[p].batch
    BY <1>6 DEF CommitFails, TypeOK, Run
  <2>2. \A q \in Workers \ {p} : run'[q] = run[q]
    BY <1>6 DEF CommitFails, TypeOK
  <2>3. UNCHANGED <<clock, state, token>>
    BY <1>6 DEF CommitFails, outbox
  <2>4. ASSUME NEW q \in Workers
        PROVE  /\ run'[q].batch = run[q].batch
               /\ LeaseUntil(q)' = LeaseUntil(q)
               /\ run'[q].pc = "claiming" => run[q].pc = "claiming" /\ run'[q] = run[q]
    BY <2>1, <2>2 DEF LeaseUntil
  <2>5. \A q \in Workers : \A e : Mine(q, e)' <=> Mine(q, e)
    BY <2>3, <2>4 DEF Mine
  <2>6. \A q \in Workers : \A e \in run'[q].batch : run'[q].pc # "claiming"
    BY <2>4 DEF LeaseInv
  <2> QED BY <2>3, <2>4, <2>5, <2>6 DEF LeaseInv, OneHolder
<1>7. ASSUME NEW p \in Workers, Release(p) PROVE LeaseInv'
  <2>1. \A q \in Workers \ {p} : \A e \in Entries : Mine(q, e) => ~ Mine(p, e)
    BY DEF LeaseInv, OneHolder
  <2> QED BY <1>7, <2>1, RunEnds DEF Release
<1>8. ASSUME NEW p \in Workers, Stops(p) PROVE LeaseInv'
  BY <1>8, RunEnds DEF Stops, outbox
<1>9. CASE UNCHANGED vars
  BY <1>9 DEF vars, outbox, LeaseInv, OneHolder, Mine, LeaseUntil
<1> QED BY <1>1, <1>2, <1>3, <1>4, <1>5, <1>6, <1>7, <1>8, <1>9 DEF Next

\* If every lease is longer than a claim can wait for its transaction, no two
\* runs ever hold the same entry, in any number of processes.
THEOREM OneHolderInvariant ==
  ASSUME LeasesOutliveWaits
  PROVE  Spec => []OneHolder
<1>1. TypeOK /\ LeaseInv /\ [Next]_vars => LeaseInv'
  BY NextLeases
<1>2. LeaseInv => OneHolder
  BY DEF LeaseInv
<1> QED BY <1>1, <1>2, InitLeases, TypeInvariant, PTL DEF Spec

-----------------------------------------------------------------------------
\* Who writes to a claimed entry.  It needs no assumption on the leases.

\* A run claims with a time that is not in the future.
ClaimsInPast == \A p \in Workers : run[p].pc = "claiming" => run[p].now <= clock

LEMMA NextInPast ==
  ASSUME TypeOK, ClaimsInPast, [Next]_vars
  PROVE  ClaimsInPast'
<1> SUFFICES ASSUME NEW q \in Workers, run'[q].pc = "claiming" PROVE run'[q].now <= clock'
  BY DEF ClaimsInPast
<1>1. clock \in Nat /\ run[q].now \in Nat
  BY ConstantsAssumption DEF TypeOK, Run, Times, ConstantsAssumption
<1>2. CASE run'[q] = run[q] /\ (clock' = clock \/ Tick)
  BY <1>1, <1>2 DEF ClaimsInPast, Tick
<1>3. ASSUME NEW p \in Workers, Drain(p) PROVE run'[q].now <= clock'
  <2>1. PICK lease \in Leases : run' = [run EXCEPT ![p] = Round(lease)]
    BY <1>3 DEF Drain
  <2>2. clock' = clock
    BY <1>3 DEF Drain
  <2>3. run'[q] = run[q] \/ run'[q] = Round(lease)
    BY <2>1 DEF TypeOK
  <2>4. CASE run'[q] = Round(lease)
    BY <1>1, <2>2, <2>4 DEF Round
  <2> QED BY <1>2, <2>2, <2>3, <2>4
<1>4. ASSUME NEW p \in Workers, Claim(p) \/ Commit(p) \/ CommitFails(p) \/ Release(p) \/ Stops(p)
      PROVE  run'[q].now <= clock'
  <2>1. q # p => run'[q] = run[q]
    BY <1>4 DEF Claim, Commit, CommitFails, Release, Stops, TypeOK
  <2>2. run'[p].pc # "claiming"
    <3>1. run'[p] = Idle \/ (\E batch : run'[p] = [run[p] EXCEPT !.pc = "claimed", !.batch = batch])
            \/ run'[p] = [run[p] EXCEPT !.pc = "failed"]
      BY <1>4 DEF Claim, Commit, CommitFails, Release, Stops, TypeOK
    <3>2. run[p] \in Run
      BY DEF TypeOK
    <3>3. \A batch : [run[p] EXCEPT !.pc = "claimed", !.batch = batch].pc = "claimed"
      BY <3>2 DEF Run
    <3>4. [run[p] EXCEPT !.pc = "failed"].pc = "failed"
      BY <3>2 DEF Run
    <3>5. Idle.pc = "idle"
      BY DEF Idle
    <3> QED BY <3>1, <3>3, <3>4, <3>5
  <2>3. clock' = clock
    BY <1>4 DEF Claim, Commit, CommitFails, Release, Stops
  <2> QED BY <1>2, <2>1, <2>2, <2>3
<1> QED BY <1>2, <1>3, <1>4 DEF Next, Tick, Enqueue, vars

LEMMA NextHolderWrites ==
  ASSUME TypeOK, ClaimsInPast, [Next]_vars, NEW e \in Entries,
         state[e] = "claimed", <<state[e], token[e]>>' # <<state[e], token[e]>>
  PROVE  \/ token[e] <= clock
         \/ \E p \in Workers :
              e \in run[p].batch /\ token[e] = LeaseUntil(p) /\ run'[p] = Idle
<1>1. ASSUME NEW x \in Entries, Enqueue(x) PROVE FALSE
  <2>1. state'[e] = state[e] /\ token' = token
    <3>1. e = x \/ state'[e] = state[e]
      BY <1>1 DEF Enqueue, TypeOK
    <3>2. x \notin Canonical
      BY <1>1, ConstantsAssumption DEF Enqueue, ConstantsAssumption, Entries
    <3> QED BY <1>1, <3>1, <3>2 DEF Canonical, Enqueue
  <2> QED BY <2>1
<1>2. ASSUME NEW p \in Workers, Claim(p) PROVE token[e] <= clock
  <2>1. run[p].now <= clock /\ run[p].now \in Nat /\ clock \in Nat /\ token[e] \in Int
    BY <1>2, ConstantsAssumption DEF Claim, ClaimsInPast, TypeOK, Run, Times, NoLease, ConstantsAssumption
  <2>2. e \in Batch(run[p].now) \/ Expired(e, run[p].now)
    BY <1>2 DEF Claim
  <2>3. token[e] <= run[p].now
    BY <2>2 DEF Batch, Due, Expired
  <2> QED BY <2>1, <2>3
<1>3. ASSUME NEW p \in Workers, Commit(p)
      PROVE  e \in run[p].batch /\ token[e] = LeaseUntil(p) /\ run'[p] = Idle
  BY <1>3 DEF Commit, Mine, TypeOK
<1>4. ASSUME NEW p \in Workers, Release(p)
      PROVE  e \in run[p].batch /\ token[e] = LeaseUntil(p) /\ run'[p] = Idle
  BY <1>4 DEF Release, Mine, TypeOK
<1>5. CASE UNCHANGED outbox
  BY <1>5 DEF outbox
<1> QED BY <1>1, <1>2, <1>3, <1>4, <1>5 DEF Next, Tick, Drain, CommitFails, Stops, vars, outbox

\* Whatever the leases, a claimed entry is completed, released or claimed again
\* only by the run that holds its token, or after its lease has ended.
THEOREM HoldersWrite == Spec => OnlyHolderWrites
<1>1. Init => ClaimsInPast
  BY DEF Init, ClaimsInPast, Idle
<1>2. TypeOK /\ ClaimsInPast /\ [Next]_vars => ClaimsInPast'
  BY NextInPast
<1>3. TypeOK /\ ClaimsInPast /\ [Next]_vars =>
        [\A e \in Entries :
           state[e] = "claimed" /\ <<state[e], token[e]>>' # <<state[e], token[e]>> =>
             \/ token[e] <= clock
             \/ \E p \in Workers :
                  e \in run[p].batch /\ token[e] = LeaseUntil(p) /\ run'[p] = Idle]_vars
  BY NextHolderWrites
<1> QED BY <1>1, <1>2, <1>3, TypeInvariant, PTL DEF Spec, OnlyHolderWrites

-----------------------------------------------------------------------------
\* Governance of history ranking.

Tickets == [decision : Nat, evaluation : Nat, revision : Nat]
PlanRows == [phase : {"none", "gated", "saved"}, scope : Scopes \cup {NoPlan.scope},
             history : {"none", "keeps", "moves"}, ticket : Tickets]
RankingRows == [mode : {"none", "suggest", "fallback", "shadow"}, moves : BOOLEAN, forgotten : BOOLEAN]
ReviewRows == [usage : Usages, ranking : RankingRows, preferred : Preferences]
EvaluationRows == [outcome : {"inconclusive", "passed", "failed"}, reviews : SUBSET ReviewRows,
                   scope : SUBSET (Scopes \cup {NoPlan.scope})]

GovernanceTypes ==
  /\ plans \in [Usages -> PlanRows]
  /\ rankings \in [Usages -> RankingRows]
  /\ reviews \subseteq ReviewRows /\ IsFiniteSet(reviews)
  /\ evaluations \in Seq(EvaluationRows)
  /\ capability \in [level : Levels, scope : SUBSET (Scopes \cup {NoPlan.scope}), revision : Nat,
                     evaluation : Nat, decision : Nat]
  /\ decisions \in Seq([promotes : BOOLEAN, evaluation : Nat])
  /\ applies \subseteq [usage : Usages, decision : Nat, evaluation : Nat, revision : Nat]
  /\ IsFiniteSet(applies)

\* The applications under a decision, and what an evaluation found.
Under(d) == {a \in applies : a.decision = d}
Applied(u) == \E a \in applies : a.usage = u
Moving(rs, order) == {r \in rs : r.ranking.moves /\ r.preferred = order}
Sufficient(rs) ==
  /\ Cardinality({r.usage : r \in rs}) >= MinimumCoverage
  /\ Cardinality(Moving(rs, "baseline")) > 0
  /\ Cardinality(Moving(rs, "proposed")) * Ratio[2]
       >= Ratio[1] * (Cardinality(Moving(rs, "proposed")) + Cardinality(Moving(rs, "baseline")))

\* What was compared is a plan that is saved, and was not reordered.
LabelsKept ==
  /\ \A u \in Usages : rankings[u].mode = "shadow" => plans[u].phase = "saved" /\ ~Applied(u)
  /\ \A r \in reviews : plans[r.usage].phase = "saved" /\ ~Applied(r.usage)
\* An evaluation keeps what it found, since the plans that were reviewed are saved.
EvaluationsHold ==
  \A e \in DOMAIN evaluations :
    /\ \A r \in evaluations[e].reviews : plans[r.usage].phase = "saved"
    /\ evaluations[e].scope = ScopesOf(evaluations[e].reviews)
    /\ evaluations[e].outcome = "passed" =>
         Sufficient(evaluations[e].reviews) /\ Cardinality(evaluations[e].scope) = 1
DecisionsHold ==
  \A d \in DOMAIN decisions : decisions[d].promotes =>
    /\ decisions[d].evaluation \in DOMAIN evaluations
    /\ evaluations[decisions[d].evaluation].outcome = "passed"
\* The level the gate reads is the one of the last decision.
CapabilityHolds ==
  capability.level = "suggest" =>
    /\ capability.decision = Len(decisions) /\ capability.decision \in DOMAIN decisions
    /\ decisions[capability.decision].promotes
    /\ capability.scope = evaluations[decisions[capability.decision].evaluation].scope
AppliesHold ==
  /\ \A a \in applies :
       /\ plans[a.usage].phase = "saved"
       /\ a.decision \in DOMAIN decisions /\ decisions[a.decision].promotes
       /\ {plans[a.usage].scope} = evaluations[decisions[a.decision].evaluation].scope
  /\ \A d \in DOMAIN decisions : Cardinality(Under(d)) <= RolloutLimit

GovernanceInv ==
  /\ GovernanceTypes /\ LabelsKept /\ EvaluationsHold
  /\ DecisionsHold /\ CapabilityHolds /\ AppliesHold

LEMMA GovernanceInitInv == GovernanceInit => GovernanceInv
<1> SUFFICES ASSUME GovernanceInit PROVE GovernanceInv
  OBVIOUS
<1>1. NoTicket \in Tickets
  BY DEF NoTicket, Tickets
<1>2. NoPlan \in PlanRows
  <2>1. NoPlan.scope \in Scopes \cup {NoPlan.scope}
    OBVIOUS
  <2> QED BY <1>1, <2>1 DEF NoPlan, PlanRows
<1>3. NoRow \in RankingRows
  BY DEF NoRow, RankingRows
<1>4. IsFiniteSet(reviews) /\ IsFiniteSet(applies)
  BY FS_EmptySet DEF GovernanceInit
<1>5. GovernanceTypes
  BY <1>2, <1>3, <1>4 DEF GovernanceInit, GovernanceTypes, Levels
<1>6. LabelsKept
  BY DEF GovernanceInit, LabelsKept, NoRow
<1> QED BY <1>5, <1>6 DEF GovernanceInit, GovernanceInv, EvaluationsHold, DecisionsHold, CapabilityHolds, AppliesHold

\* Saved plans are neither changed nor reordered later, so an evaluation keeps its scope.
LEMMA EvaluationsStay ==
  ASSUME GovernanceTypes, EvaluationsHold, evaluations' = evaluations,
         \A u \in Usages : plans[u].phase = "saved" => plans'[u] = plans[u]
  PROVE  EvaluationsHold'
<1> SUFFICES ASSUME NEW e \in DOMAIN evaluations
             PROVE  /\ \A r \in evaluations[e].reviews : plans'[r.usage].phase = "saved"
                    /\ evaluations[e].scope = ScopesOf(evaluations[e].reviews)'
                    /\ evaluations[e].outcome = "passed" =>
                         Sufficient(evaluations[e].reviews) /\ Cardinality(evaluations[e].scope) = 1
  BY DEF EvaluationsHold, Sufficient, Moving
<1>1. evaluations[e] \in EvaluationRows
  BY DEF GovernanceTypes
<1>2. \A r \in evaluations[e].reviews : r.usage \in Usages
  BY <1>1 DEF EvaluationRows, ReviewRows
<1>3. \A r \in evaluations[e].reviews : plans[r.usage].phase = "saved"
  BY DEF EvaluationsHold
<1>4. /\ ScopesOf(evaluations[e].reviews)' = ScopesOf(evaluations[e].reviews)
      /\ \A r \in evaluations[e].reviews : plans'[r.usage].phase = "saved"
  <2> DEFINE rs == evaluations[e].reviews
  <2>1. rs' = rs
    OBVIOUS
  <2> QED BY <1>2, <1>3, <2>1 DEF ScopesOf
<1> QED BY <1>3, <1>4 DEF EvaluationsHold

LEMMA ProjectRankingsInv ==
  ASSUME GovernanceInv, ProjectRankings
  PROVE  GovernanceInv'
<1> USE DEF GovernanceInv, ProjectRankings, learned, policy
<1>1. \A u \in Usages : Ranking(u) \in RankingRows
  <2> SUFFICES ASSUME NEW u \in Usages PROVE Ranking(u) \in RankingRows
    OBVIOUS
  <2> QED BY DEF Ranking, RankingRows, NoRow
<1>2. GovernanceTypes'
  BY <1>1 DEF GovernanceTypes
<1>3. \A u \in Usages : Ranking(u).mode = "shadow" => plans[u].phase = "saved" /\ ~Applied(u)
  BY DEF Ranking, NoRow, Applied
<1>4. LabelsKept'
  BY <1>3 DEF LabelsKept, Applied
<1>5. EvaluationsHold'
  BY EvaluationsStay
<1> QED BY <1>2, <1>4, <1>5 DEF DecisionsHold, CapabilityHolds, AppliesHold, Under

LEMMA ForgetComparedInv ==
  ASSUME GovernanceInv, NEW u \in Usages, ForgetCompared(u)
  PROVE  GovernanceInv'
<1> USE DEF GovernanceInv, ForgetCompared, learned, policy
<1>1. EvaluationsHold'
  BY EvaluationsStay
<1> QED BY <1>1 DEF GovernanceTypes, LabelsKept, Applied, DecisionsHold, CapabilityHolds, AppliesHold, Under

LEMMA ReviewInv ==
  ASSUME GovernanceInv, NEW u \in Usages, NEW preferred \in Preferences, Review(u, preferred)
  PROVE  GovernanceInv'
<1> USE DEF GovernanceInv, Review, policy
<1>1. EvaluationsHold'
  BY EvaluationsStay
<1> DEFINE new == [usage |-> u, ranking |-> rankings[u], preferred |-> preferred]
<1>2. new \in ReviewRows
  BY DEF GovernanceTypes, ReviewRows
<1>3. IsFiniteSet(reviews')
  BY FS_AddElement DEF GovernanceTypes
<1>4. GovernanceTypes'
  BY <1>2, <1>3 DEF GovernanceTypes
<1>5. LabelsKept'
  BY <1>2 DEF LabelsKept, Applied, Reviewable
<1> QED BY <1>1, <1>4, <1>5 DEF DecisionsHold, CapabilityHolds, AppliesHold, Under

LEMMA ImageIsFinite ==
  ASSUME NEW S, IsFiniteSet(S), NEW T, NEW f \in [S -> T], \A t \in T : \E x \in S : f[x] = t
  PROVE  IsFiniteSet(T)
<1>1. f \in Surjection(S, T)
  BY DEF Surjection
<1> QED BY <1>1, FS_Surjection

\* An evaluation that passes rests on enough usages, in one scope.
LEMMA PassedIsSufficient ==
  ASSUME GovernanceTypes, Outcome = "passed"
  PROVE  Sufficient(reviews) /\ Cardinality(ScopesOf(reviews)) = 1
<1> DEFINE valid == {r \in reviews : r.ranking.moves}
<1>1. IsFiniteSet(reviews) /\ IsFiniteSet(valid)
  BY FS_Subset DEF GovernanceTypes
<1>2. /\ Cardinality(ScopesOf(reviews)) <= 1 \/ ~(Cardinality(ScopesOf(reviews)) > 1)
      /\ Cardinality({r.usage : r \in valid}) >= MinimumCoverage
      /\ Cardinality(Preferring(valid, "baseline")) >= 1
      /\ Won(valid) * Ratio[2] >= Ratio[1] * (Won(valid) + Cardinality(Preferring(valid, "baseline")))
  BY DEF Outcome
<1>3. /\ Preferring(valid, "baseline") = Moving(reviews, "baseline")
      /\ Won(valid) = Cardinality(Moving(reviews, "proposed"))
  <2>1. Preferring(valid, "proposed") = Moving(reviews, "proposed")
    BY DEF Preferring, Moving
  <2> QED BY <2>1 DEF Preferring, Moving, Won
<1>4. /\ IsFiniteSet({r.usage : r \in reviews}) /\ IsFiniteSet({r.usage : r \in valid})
      /\ IsFiniteSet(ScopesOf(reviews))
  <2> DEFINE usage == [r \in reviews |-> r.usage]
             used == [r \in valid |-> r.usage]
             scope == [r \in reviews |-> plans[r.usage].scope]
             usages1 == {r.usage : r \in reviews}
             usages2 == {r.usage : r \in valid}
  <2>1. usage \in [reviews -> usages1] /\ \A t \in usages1 : \E x \in reviews : usage[x] = t
    OBVIOUS
  <2>2. used \in [valid -> usages2] /\ \A t \in usages2 : \E x \in valid : used[x] = t
    OBVIOUS
  <2>3. scope \in [reviews -> ScopesOf(reviews)] /\ \A t \in ScopesOf(reviews) : \E x \in reviews : scope[x] = t
    BY DEF ScopesOf
  <2>4. IsFiniteSet(usages1) /\ IsFiniteSet(usages2) /\ IsFiniteSet(ScopesOf(reviews))
    <3> HIDE DEF usage, used, scope, valid, usages1, usages2
    <3>1. IsFiniteSet(usages1)
      BY <1>1, <2>1, ImageIsFinite
    <3>2. IsFiniteSet(usages2)
      BY <1>1, <2>2, ImageIsFinite
    <3>3. IsFiniteSet(ScopesOf(reviews))
      BY <1>1, <2>3, ImageIsFinite
    <3> QED BY <3>1, <3>2, <3>3
  <2> QED BY <2>4
<1>5. Cardinality({r.usage : r \in valid}) <= Cardinality({r.usage : r \in reviews})
  BY <1>4, FS_Subset
<1>6. Cardinality({r.usage : r \in reviews}) >= MinimumCoverage
  BY <1>2, <1>4, <1>5, FS_CardinalityType, GovernanceAssumption DEF GovernanceAssumption
<1>7. Cardinality(ScopesOf(reviews)) = 1
  <2>1. Cardinality(ScopesOf(reviews)) \in Nat
    BY <1>4, FS_CardinalityType
  <2>2. Preferring(valid, "baseline") # {}
    <3>1. Cardinality({}) = 0
      BY FS_EmptySet
    <3> HIDE DEF valid
    <3> QED BY <1>2, <3>1
  <2>3. ScopesOf(reviews) # {}
    BY <2>2 DEF Preferring, ScopesOf
  <2>4. Cardinality(ScopesOf(reviews)) # 0
    BY <2>3, <1>4, FS_EmptySet
  <2> QED BY <2>1, <2>4, <1>2
<1>8. Cardinality(Moving(reviews, "baseline")) \in Nat
  BY <1>1, FS_Subset, FS_CardinalityType DEF Moving
<1> QED BY <1>2, <1>3, <1>6, <1>7, <1>8 DEF Sufficient

LEMMA EvaluateInv ==
  ASSUME GovernanceInv, Evaluate
  PROVE  GovernanceInv'
<1> USE DEF GovernanceInv, Evaluate
<1> DEFINE new == [outcome |-> Outcome, reviews |-> reviews, scope |-> ScopesOf(reviews)]
<1>1. \A r \in reviews : r.usage \in Usages /\ plans[r.usage] \in PlanRows
  BY DEF GovernanceTypes, ReviewRows
<1>2. ScopesOf(reviews) \subseteq Scopes \cup {NoPlan.scope}
  BY <1>1 DEF ScopesOf, PlanRows
<1>3. new \in EvaluationRows
  BY <1>2 DEF Outcome, EvaluationRows, GovernanceTypes
<1>4. evaluations' \in Seq(EvaluationRows) /\ Len(evaluations) \in Nat
  BY <1>3 DEF GovernanceTypes
<1>5. GovernanceTypes'
  <2>1. capability' \in [level : Levels, scope : SUBSET (Scopes \cup {NoPlan.scope}), revision : Nat,
                         evaluation : Nat, decision : Nat]
    <3> DEFINE S == SUBSET (Scopes \cup {NoPlan.scope})
               n == Len(evaluations) + 1
    <3>1. capability \in [level : Levels, scope : S, revision : Nat, evaluation : Nat, decision : Nat] /\ n \in Nat
      BY <1>4 DEF GovernanceTypes
    <3>2. capability' = [capability EXCEPT !.evaluation = n]
      OBVIOUS
    <3> HIDE DEF S, n
    <3>3. [capability EXCEPT !.evaluation = n] \in
            [level : Levels, scope : S, revision : Nat, evaluation : Nat, decision : Nat]
      BY <3>1
    <3> QED BY <3>2, <3>3 DEF S
  <2> QED BY <1>4, <2>1 DEF GovernanceTypes
<1>6. \A e \in DOMAIN evaluations : evaluations'[e] = evaluations[e] /\ e \in DOMAIN evaluations'
  BY DEF GovernanceTypes
<1>7. \A e \in DOMAIN evaluations' : e \in DOMAIN evaluations \/ evaluations'[e] = new
  BY DEF GovernanceTypes
<1>8. EvaluationsHold'
  <2>1. ASSUME NEW e \in DOMAIN evaluations'
        PROVE  /\ \A r \in evaluations'[e].reviews : plans[r.usage].phase = "saved"
               /\ evaluations'[e].scope = ScopesOf(evaluations'[e].reviews)
               /\ evaluations'[e].outcome = "passed" =>
                    Sufficient(evaluations'[e].reviews) /\ Cardinality(evaluations'[e].scope) = 1
    <3>1. CASE e \in DOMAIN evaluations
      BY <3>1, <1>6 DEF EvaluationsHold
    <3>2. CASE evaluations'[e] = new
      BY <3>2, PassedIsSufficient DEF LabelsKept
    <3> QED BY <3>1, <3>2, <1>7
  <2>2. plans' = plans
    OBVIOUS
  <2> HIDE DEF Evaluate
  <2> QED BY ONLY <2>1, <2>2 DEF EvaluationsHold, Sufficient, Moving, ScopesOf
<1>9. DecisionsHold'
  BY <1>6 DEF DecisionsHold
<1>10. CapabilityHolds'
  BY <1>6 DEF CapabilityHolds, DecisionsHold, GovernanceTypes
<1>11. AppliesHold'
  BY <1>6 DEF AppliesHold, Under, DecisionsHold
<1>12. LabelsKept'
  BY DEF LabelsKept, Applied
<1> QED BY <1>5, <1>8, <1>9, <1>10, <1>11, <1>12

\* A decision that is appended leaves the earlier ones, and nothing applies under it yet.
LEMMA DecideLevelInv ==
  ASSUME GovernanceInv, NEW decision, NEW level, NEW scope, NEW evaluation,
         DecideLevel(decision, level, scope, evaluation),
         decision \in [promotes : BOOLEAN, evaluation : Nat], level \in Levels, evaluation \in Nat,
         scope \in SUBSET (Scopes \cup {NoPlan.scope}),
         decision.promotes => /\ decision.evaluation \in DOMAIN evaluations
                              /\ evaluations[decision.evaluation].outcome = "passed",
         level = "suggest" => decision.promotes /\ scope = evaluations[decision.evaluation].scope
  PROVE  GovernanceInv'
<1> USE DEF GovernanceInv, DecideLevel, learned
<1>1. EvaluationsHold'
  BY EvaluationsStay
<1>2. Len(decisions) \in Nat /\ DOMAIN decisions = 1..Len(decisions)
  BY DEF GovernanceTypes
<1>3. /\ decisions' \in Seq([promotes : BOOLEAN, evaluation : Nat])
      /\ DOMAIN decisions' = 1..(Len(decisions) + 1) /\ Len(decisions') = Len(decisions) + 1
      /\ \A d \in DOMAIN decisions : decisions'[d] = decisions[d]
      /\ decisions'[Len(decisions) + 1] = decision
  BY DEF GovernanceTypes
<1>4. GovernanceTypes'
  BY <1>2, <1>3 DEF GovernanceTypes
<1>5. \A d \in DOMAIN decisions' : d \in DOMAIN decisions \/ d = Len(decisions) + 1
  BY <1>2, <1>3
<1>6. DecisionsHold'
  BY <1>3, <1>5 DEF DecisionsHold
<1>7. CapabilityHolds'
  BY <1>2, <1>3 DEF CapabilityHolds
<1>8. AppliesHold'
  <2>1. \A a \in applies : a.decision \in DOMAIN decisions /\ a.decision # Len(decisions) + 1 /\ a.decision \in DOMAIN decisions'
    BY <1>2, <1>3 DEF AppliesHold
  <2>2. Under(Len(decisions) + 1) = {}
    BY <2>1 DEF Under
  <2>3. Cardinality(Under(Len(decisions) + 1)) <= RolloutLimit
    <3>1. Cardinality({}) = 0
      BY FS_EmptySet
    <3>2. 0 <= RolloutLimit
      BY GovernanceAssumption DEF GovernanceAssumption
    <3> QED BY <2>2, <3>1, <3>2
  <2>4. \A d \in DOMAIN decisions' : Cardinality(Under(d)) <= RolloutLimit
    BY <2>3, <1>5 DEF AppliesHold
  <2> QED BY <2>1, <2>4, <1>3 DEF AppliesHold, Under
<1>9. LabelsKept'
  BY DEF LabelsKept, Applied
<1> QED BY <1>1, <1>4, <1>6, <1>7, <1>8, <1>9

LEMMA PromoteInv ==
  ASSUME GovernanceInv, NEW e \in DOMAIN evaluations, Promote(e)
  PROVE  GovernanceInv'
<1>1. evaluations[e] \in EvaluationRows /\ e \in Nat
  BY DEF GovernanceInv, GovernanceTypes
<1>2. evaluations[e].scope \in SUBSET (Scopes \cup {NoPlan.scope})
  BY <1>1 DEF EvaluationRows
<1>3. /\ evaluations[e].outcome = "passed"
      /\ DecideLevel([promotes |-> TRUE, evaluation |-> e], "suggest", evaluations[e].scope, e)
  BY DEF Promote
<1>4. [promotes |-> TRUE, evaluation |-> e] \in [promotes : BOOLEAN, evaluation : Nat]
  BY <1>1
<1> QED BY <1>1, <1>2, <1>3, <1>4, DecideLevelInv DEF Levels

LEMMA DemoteInv ==
  ASSUME GovernanceInv, NEW level \in Levels, Demote(level)
  PROVE  GovernanceInv'
<1>1. level # "suggest"
  BY DEF Demote
<1>2. capability.evaluation \in Nat
  BY DEF GovernanceInv, GovernanceTypes
<1> DEFINE decision == [promotes |-> FALSE, evaluation |-> 0]
<1>3. DecideLevel(decision, level, {}, capability.evaluation)
  BY DEF Demote
<1>4. decision \in [promotes : BOOLEAN, evaluation : Nat] /\ ~decision.promotes
  OBVIOUS
<1>5. {} \in SUBSET (Scopes \cup {NoPlan.scope})
  OBVIOUS
<1> HIDE DEF decision
<1> QED BY <1>1, <1>2, <1>3, <1>4, <1>5, DecideLevelInv

\* A plan that is not saved may change: nothing was compared of it, and it was not reordered.
LEMMA PlanChangesInv ==
  ASSUME GovernanceInv, NEW u \in Usages, NEW row \in PlanRows, plans[u].phase # "saved",
         plans' = [plans EXCEPT ![u] = row], UNCHANGED <<forgottenUsages, learned, policy, applies>>
  PROVE  GovernanceInv'
<1> USE DEF GovernanceInv, learned, policy
<1>1. GovernanceTypes'
  BY DEF GovernanceTypes
<1>2. \A x \in Usages : plans[x].phase = "saved" => plans'[x] = plans[x]
  BY DEF GovernanceTypes
<1>3. EvaluationsHold'
  BY <1>2, EvaluationsStay
<1>4. LabelsKept'
  BY <1>2 DEF LabelsKept, Applied, GovernanceTypes, ReviewRows
<1>5. AppliesHold'
  <2>1. \A a \in applies : a.usage \in Usages
    BY DEF GovernanceTypes
  <2>2. \A a \in applies : plans'[a.usage] = plans[a.usage]
    BY <2>1, <1>2 DEF AppliesHold
  <2> QED BY <2>2 DEF AppliesHold, Under
<1> QED BY <1>1, <1>3, <1>4, <1>5 DEF DecisionsHold, CapabilityHolds

LEMMA GateInv ==
  ASSUME GovernanceInv, NEW u \in Usages, NEW scope \in Scopes, NEW history \in {"none", "keeps", "moves"},
         Gate(u, scope, history)
  PROVE  GovernanceInv'
<1> DEFINE ticket == IF Authorized(scope) THEN Ticket ELSE NoTicket
           row == [phase |-> "gated", scope |-> scope, history |-> history, ticket |-> ticket]
<1>1. ticket \in Tickets
  BY DEF Ticket, NoTicket, Tickets, GovernanceInv, GovernanceTypes
<1>2. row \in PlanRows
  BY <1>1 DEF PlanRows
<1>3. /\ plans' = [plans EXCEPT ![u] = row] /\ plans[u].phase # "saved"
      /\ UNCHANGED <<forgottenUsages, learned, policy, applies>>
  BY DEF Gate
<1> QED BY <1>2, <1>3, PlanChangesInv

LEMMA SaveFailsInv ==
  ASSUME GovernanceInv, NEW u \in Usages, SaveFails(u)
  PROVE  GovernanceInv'
<1>1. NoPlan \in PlanRows
  <2>1. NoPlan.scope \in Scopes \cup {NoPlan.scope}
    OBVIOUS
  <2> QED BY <2>1 DEF NoPlan, PlanRows, NoTicket, Tickets
<1>2. /\ plans' = [plans EXCEPT ![u] = NoPlan] /\ plans[u].phase # "saved"
      /\ UNCHANGED <<forgottenUsages, learned, policy, applies>>
  BY DEF SaveFails
<1> QED BY <1>1, <1>2, PlanChangesInv

\* What a claim finds in the transaction that saves the plan: the promotion its
\* gate read is the last decision, it admits the plan and has a place left.
LEMMA ClaimIsInForce ==
  ASSUME GovernanceInv, NEW u \in Usages, Claimable(u)
  PROVE  /\ plans[u].ticket = Ticket
         /\ capability.decision = Len(decisions) /\ capability.decision \in DOMAIN decisions
         /\ decisions[capability.decision].promotes
         /\ {plans[u].scope} = evaluations[decisions[capability.decision].evaluation].scope
         /\ Cardinality(Under(capability.decision)) < RolloutLimit
         /\ LastIsFresh
<1>1. plans[u].ticket = Ticket /\ capability.level = "suggest" /\ LastIsFresh
  BY DEF Claimable, SamePolicy
<1>2. capability.scope = {plans[u].scope}
  BY DEF Claimable, ScopeAdmitted
<1>3. ~Exhausted(capability.decision)
  BY <1>1 DEF Claimable, Spent, Ticket
<1>4. ~(Cardinality(Under(capability.decision)) >= RolloutLimit)
  BY <1>3 DEF Exhausted, Under
<1>5. IsFiniteSet(Under(capability.decision))
  BY FS_Subset DEF Under, GovernanceInv, GovernanceTypes
<1>6. Cardinality(Under(capability.decision)) < RolloutLimit
  BY <1>4, <1>5, FS_CardinalityType, GovernanceAssumption DEF GovernanceAssumption
<1> QED BY <1>1, <1>2, <1>6 DEF GovernanceInv, CapabilityHolds

LEMMA SaveInv ==
  ASSUME GovernanceInv, NEW u \in Usages, Save(u)
  PROVE  GovernanceInv'
<1> DEFINE t == plans[u].ticket
           row == [plans[u] EXCEPT !.phase = "saved", !.ticket = NoTicket]
           new == [usage |-> u, decision |-> t.decision, evaluation |-> capability.evaluation, revision |-> capability.revision]
<1>1. /\ plans[u].phase = "gated" /\ plans[u] \in PlanRows /\ plans[u].ticket \in Tickets
      /\ plans' = [plans EXCEPT ![u] = row]
      /\ UNCHANGED <<forgottenUsages, learned, policy>>
  BY DEF Save, GovernanceInv, GovernanceTypes, PlanRows
<1>2. row \in PlanRows /\ row.phase = "saved" /\ row.scope = plans[u].scope
  BY <1>1 DEF PlanRows, NoTicket, Tickets
<1>3. /\ plans'[u] = row /\ \A x \in Usages \ {u} : plans'[x] = plans[x]
      /\ plans' \in [Usages -> PlanRows]
  BY <1>1, <1>2 DEF GovernanceInv, GovernanceTypes
<1>4. \A x \in Usages : plans[x].phase = "saved" => plans'[x] = plans[x] /\ x # u
  BY <1>1, <1>3
<1>5. EvaluationsHold' /\ DecisionsHold' /\ CapabilityHolds'
  <2>1. evaluations' = evaluations
    BY <1>1 DEF learned
  <2>2. EvaluationsHold'
    BY <2>1, <1>4, EvaluationsStay DEF GovernanceInv
  <2> QED BY <2>1, <2>2, <1>1 DEF GovernanceInv, DecisionsHold, CapabilityHolds, policy
<1>6. \A a \in applies : a.usage \in Usages /\ a.usage # u
  BY <1>1 DEF GovernanceInv, GovernanceTypes, AppliesHold
<1>7. CASE t = NoTicket
  <2>1. applies' = applies
    BY <1>7 DEF Save
  <2>2. GovernanceTypes'
    BY <2>1, <1>1, <1>3 DEF GovernanceInv, GovernanceTypes, learned, policy
  <2>3. LabelsKept'
    BY <2>1, <1>1, <1>4 DEF GovernanceInv, GovernanceTypes, LabelsKept, Applied, ReviewRows, learned
  <2>4. AppliesHold'
    BY <2>1, <1>1, <1>3, <1>6 DEF GovernanceInv, AppliesHold, Under, learned, policy
  <2> QED BY <2>2, <2>3, <2>4, <1>5 DEF GovernanceInv
<1>8. CASE t # NoTicket
  <2>1. applies' = applies \cup {new} /\ Claimable(u)
    BY <1>8 DEF Save
  <2>2. /\ t.decision = capability.decision /\ capability.decision \in DOMAIN decisions
        /\ decisions[capability.decision].promotes
        /\ {plans[u].scope} = evaluations[decisions[capability.decision].evaluation].scope
        /\ Cardinality(Under(capability.decision)) < RolloutLimit
    BY <2>1, ClaimIsInForce DEF Ticket
  <2>3. new \in [usage : Usages, decision : Nat, evaluation : Nat, revision : Nat]
    BY <1>1 DEF GovernanceInv, GovernanceTypes, Tickets
  <2>4. IsFiniteSet(applies')
    BY <2>1, FS_AddElement DEF GovernanceInv, GovernanceTypes
  <2>5. GovernanceTypes'
    BY <2>1, <2>3, <2>4, <1>1, <1>3 DEF GovernanceInv, GovernanceTypes, learned, policy
  <2>6. LabelsKept'
    BY <2>1, <1>1, <1>4 DEF GovernanceInv, GovernanceTypes, LabelsKept, Applied, ReviewRows, learned
  <2>7. \A d \in DOMAIN decisions : Cardinality(Under(d)') <= RolloutLimit
    <3> SUFFICES ASSUME NEW d \in DOMAIN decisions PROVE Cardinality(Under(d)') <= RolloutLimit
      OBVIOUS
    <3>1. CASE d = capability.decision
      <4>1. Under(d)' = Under(d) \cup {new}
        BY <3>1, <2>1, <2>2 DEF Under
      <4>2. IsFiniteSet(Under(d)) /\ Cardinality(Under(d)) \in Nat
        BY FS_Subset, FS_CardinalityType DEF Under, GovernanceInv, GovernanceTypes
      <4> HIDE DEF new
      <4>5. /\ IsFiniteSet(Under(d) \cup {new})
            /\ \/ Cardinality(Under(d) \cup {new}) = Cardinality(Under(d))
               \/ Cardinality(Under(d) \cup {new}) = Cardinality(Under(d)) + 1
        BY <4>2, FS_AddElement
      <4>3. Cardinality(Under(d) \cup {new}) <= Cardinality(Under(d)) + 1
        BY <4>2, <4>5
      <4>4. Cardinality(Under(d) \cup {new}) \in Nat
        BY <4>2, <4>5
      <4> QED BY <3>1, <4>1, <4>2, <4>3, <4>4, <2>2, GovernanceAssumption DEF GovernanceAssumption
    <3>2. CASE d # capability.decision
      <4>1. Under(d)' = Under(d)
        BY <3>2, <2>1, <2>2 DEF Under
      <4> QED BY <4>1 DEF GovernanceInv, AppliesHold
    <3> QED BY <3>1, <3>2
  <2>8. AppliesHold'
    <3>1. decisions' = decisions /\ evaluations' = evaluations
      BY <1>1 DEF learned, policy
    <3>2. \A a \in applies' :
            /\ plans'[a.usage].phase = "saved"
            /\ a.decision \in DOMAIN decisions /\ decisions[a.decision].promotes
            /\ {plans'[a.usage].scope} = evaluations[decisions[a.decision].evaluation].scope
      <4> SUFFICES ASSUME NEW a \in applies'
          PROVE  /\ plans'[a.usage].phase = "saved"
                 /\ a.decision \in DOMAIN decisions /\ decisions[a.decision].promotes
                 /\ {plans'[a.usage].scope} = evaluations[decisions[a.decision].evaluation].scope
        OBVIOUS
      <4>1. CASE a \in applies
        <5>1. plans'[a.usage] = plans[a.usage]
          BY <4>1, <1>3, <1>6
        <5> QED BY <4>1, <5>1 DEF GovernanceInv, AppliesHold
      <4>2. CASE a = new
        <5>1. a.usage = u /\ a.decision = capability.decision
          BY <4>2, <2>2
        <5> HIDE DEF new, row
        <5>2. plans'[a.usage].phase = "saved" /\ plans'[a.usage].scope = plans[u].scope
          BY <5>1, <1>2, <1>3
        <5> QED BY <5>1, <5>2, <2>2
      <4> QED BY <4>1, <4>2, <2>1
    <3> QED BY <3>1, <3>2, <2>7 DEF AppliesHold
  <2> QED BY <2>5, <2>6, <2>8, <1>5 DEF GovernanceInv
<1> QED BY <1>7, <1>8

LEMMA GovernanceStepInv ==
  ASSUME GovernanceInv, [GovernanceNext]_governance
  PROVE  GovernanceInv'
<1>1. CASE UNCHANGED governance
  <2> USE <1>1 DEF GovernanceInv, governance, learned, policy
  <2>1. EvaluationsHold'
    BY EvaluationsStay
  <2> QED BY <2>1 DEF GovernanceTypes, LabelsKept, Applied, DecisionsHold, CapabilityHolds, AppliesHold, Under
<1>2. CASE GovernanceNext
  BY <1>2, ProjectRankingsInv, EvaluateInv, DemoteInv, PromoteInv, ForgetComparedInv, SaveInv, SaveFailsInv,
     ReviewInv, GateInv DEF GovernanceNext
<1> QED BY <1>1, <1>2

LEMMA GovernanceInvImplies ==
  ASSUME GovernanceInv
  PROVE  RankingSound
<1> USE DEF GovernanceInv
<1>1. RolloutKept
  <2>1. \A d : {a \in applies : a.decision = d} = Under(d)
    BY DEF Under
  <2> QED BY <2>1 DEF AppliesHold, RolloutKept, Promotion, Under
<1>2. \A r \in reviews : ~\E a \in applies : a.usage = r.usage
  BY DEF LabelsKept, Applied
<1>3. ASSUME NEW d \in DOMAIN decisions, decisions[d].promotes
      PROVE  /\ Sufficient(evaluations[decisions[d].evaluation].reviews)
             /\ Cardinality(ScopesOf(evaluations[decisions[d].evaluation].reviews)) = 1
  BY <1>3 DEF DecisionsHold, EvaluationsHold
<1> QED BY <1>1, <1>2, <1>3 DEF RankingSound, PromotionsEarned, Sufficient, Moving

\* However many tickets race for the last places, a promotion reorders at most
\* RolloutLimit plans, all in its scope; no reordered plan is a label of the
\* ranking; and every promotion rests on a sufficient evaluation in one scope.
THEOREM RankingStaysSound == GovernanceSpec => []RankingSound
<1>1. GovernanceInv => RankingSound
  BY GovernanceInvImplies
<1>2. GovernanceInv /\ [GovernanceNext]_governance => GovernanceInv'
  BY GovernanceStepInv
<1> QED BY <1>1, <1>2, GovernanceInitInv, PTL DEF GovernanceSpec

\* Only a plan that is saved is reordered, under the policy its gate read.
LEMMA AppliesAreClaimed ==
  ASSUME GovernanceInv, [GovernanceNext]_governance, NEW a \in applies' \ applies
  PROVE  /\ a.decision = Len(decisions) /\ Promotion(a.decision)
         /\ a.evaluation = plans[a.usage].ticket.evaluation
         /\ \A r \in evaluations[a.evaluation].reviews : ReviewIsFresh(r)
<1>1. PICK u \in Usages : Save(u)
  BY DEF GovernanceNext, governance, ProjectRankings, Evaluate, Demote, Promote, DecideLevel,
     ForgetCompared, SaveFails, Review, Gate
<1>2. /\ Claimable(u) /\ a.usage = u /\ a.decision = plans[u].ticket.decision
      /\ a.evaluation = capability.evaluation
  BY <1>1 DEF Save
<1>3. EvaluationIsFresh(evaluations[capability.evaluation])
  BY <1>2, ClaimIsInForce DEF LastIsFresh
<1> QED BY <1>2, <1>3, ClaimIsInForce DEF Ticket, Promotion, EvaluationIsFresh

\* No ticket outlives the promotion, the evaluation or the rows it was read with.
THEOREM AppliesAreAuthorized == GovernanceSpec => AppliesAuthorized
<1>1. GovernanceInv /\ [GovernanceNext]_governance => GovernanceInv'
  BY GovernanceStepInv
<1>2. GovernanceInv /\ [GovernanceNext]_governance =>
        [\A a \in applies' \ applies :
           /\ a.decision = Len(decisions) /\ Promotion(a.decision)
           /\ a.evaluation = plans[a.usage].ticket.evaluation
           /\ \A r \in evaluations[a.evaluation].reviews : ReviewIsFresh(r)]_governance
  BY AppliesAreClaimed
<1> QED BY <1>1, <1>2, GovernanceInitInv, PTL DEF GovernanceSpec, AppliesAuthorized

-----------------------------------------------------------------------------
(* The projection of what was learned.  A usage that was settled entered a *)
(* request of an approved plan, and nothing but an abort changes it any    *)
(* more; what is settled later is settled at or after the date of every    *)
(* plan, and only a plan that is pending is dated anew.                    *)

UsageRows ==
  [query : Queries, at : Nat, decision : {"pending", "approved", "denied", "withdrawn"},
   delivery : {"none", "prepared", "appended", "failed", "included"},
   aborted : BOOLEAN, settled : [outcome : Outcomes \cup {"none"}, at : Nat]]

HistoryTypes == usages \in Seq(UsageRows) /\ learningClock \in Nat

\* A row of the history.
RowHolds(n) ==
  /\ usages[n].at <= learningClock
  /\ Settled(usages[n]) => usages[n].delivery = "included" /\ usages[n].settled.outcome \in Outcomes
  /\ usages[n].delivery # "none" => usages[n].decision = "approved"

HistoryInv == HistoryTypes /\ \A n \in DOMAIN usages : RowHolds(n)

\* What a step may do to a usage.
Advances(n) ==
  /\ usages'[n].query = usages[n].query
  /\ usages'[n].at = usages[n].at \/ (usages[n].decision = "pending" /\ usages'[n].at = learningClock)
  /\ Settled(usages[n]) => /\ usages'[n].settled = usages[n].settled
                           /\ usages'[n].decision = usages[n].decision
                           /\ usages'[n].delivery = usages[n].delivery
  /\ ~Settled(usages[n]) => ~Settled(usages'[n]) \/ usages'[n].settled.at = learningClock

-----------------------------------------------------------------------------
\* A step that rewrites one usage.
LEMMA ChangeInv ==
  ASSUME HistoryInv, NEW i \in DOMAIN usages, NEW u \in UsageRows, Change(i, u),
         u.at = usages[i].at \/ (usages[i].decision = "pending" /\ u.at = learningClock),
         u.query = usages[i].query,
         Settled(u) => u.delivery = "included" /\ u.settled.outcome \in Outcomes,
         u.delivery # "none" => u.decision = "approved",
         Settled(usages[i]) => /\ u.settled = usages[i].settled /\ u.decision = usages[i].decision
                               /\ u.delivery = usages[i].delivery,
         ~Settled(usages[i]) => ~Settled(u) \/ u.settled.at = learningClock
  PROVE  HistoryInv' /\ \A n \in DOMAIN usages : n \in DOMAIN usages' /\ Advances(n)
<1>1. /\ usages \in Seq(UsageRows) /\ learningClock \in Nat /\ usages' = [usages EXCEPT ![i] = u]
      /\ learningClock' = learningClock
  BY DEF HistoryInv, HistoryTypes, Change
<1>2. /\ usages' \in Seq(UsageRows) /\ DOMAIN usages' = DOMAIN usages /\ usages'[i] = u
      /\ \A n \in DOMAIN usages : n # i => usages'[n] = usages[n]
  BY <1>1
<1>3. ASSUME NEW n \in DOMAIN usages PROVE RowHolds(n)' /\ Advances(n)
  <2>1. RowHolds(n)
    BY DEF HistoryInv
  <2>2. CASE n = i
    BY <1>1, <1>2, <2>1, <2>2 DEF RowHolds, Advances, Settled
  <2>3. CASE n # i
    <3>1. usages'[n] = usages[n]
      BY <1>2, <2>3
    <3> QED BY <1>1, <2>1, <3>1 DEF RowHolds, Advances, Settled
  <2> QED BY <2>2, <2>3
<1> QED BY <1>1, <1>2, <1>3 DEF HistoryInv, HistoryTypes

\* A step that leaves the usages, while time may pass.
LEMMA LeavesInv ==
  ASSUME HistoryInv, usages' = usages, learningClock' \in Nat, learningClock <= learningClock'
  PROVE  HistoryInv' /\ \A n \in DOMAIN usages : n \in DOMAIN usages' /\ Advances(n)
<1>1. \A n \in DOMAIN usages : usages[n] \in UsageRows
  BY DEF HistoryInv, HistoryTypes
<1>2. \A n \in DOMAIN usages : usages[n].at \in Nat
  BY <1>1 DEF UsageRows
<1> QED BY <1>2 DEF HistoryInv, HistoryTypes, RowHolds, Advances, Settled

LEMMA PlanInv ==
  ASSUME HistoryInv, NEW q \in Queries, Plan(q)
  PROVE  HistoryInv' /\ \A n \in DOMAIN usages : n \in DOMAIN usages' /\ Advances(n)
<1> DEFINE new == [query |-> q, at |-> learningClock, decision |-> "pending", delivery |-> "none",
                   aborted |-> FALSE, settled |-> NotSettled]
<1>1. /\ usages \in Seq(UsageRows) /\ learningClock \in Nat /\ usages' = Append(usages, new)
      /\ learningClock' = learningClock + 1 /\ DOMAIN usages = 1..Len(usages) /\ Len(usages) \in Nat
  BY DEF HistoryInv, HistoryTypes, Plan
<1>2. new \in UsageRows /\ new.at = learningClock /\ ~Settled(new) /\ new.delivery = "none"
  BY <1>1 DEF UsageRows, NotSettled, Settled
<1> HIDE DEF new
<1>3. /\ usages' \in Seq(UsageRows) /\ DOMAIN usages' = 1..Len(usages) + 1 /\ usages'[Len(usages) + 1] = new
      /\ \A n \in DOMAIN usages : usages'[n] = usages[n]
  BY <1>1, <1>2
<1>4. \A n \in DOMAIN usages : usages[n] \in UsageRows /\ RowHolds(n)
  BY <1>1 DEF HistoryInv
<1>5. \A n \in DOMAIN usages : usages[n].at \in Nat
  BY <1>4 DEF UsageRows
<1>6. ASSUME NEW n \in DOMAIN usages' PROVE RowHolds(n)'
  <2>1. CASE n = Len(usages) + 1
    BY <1>1, <1>2, <1>3, <2>1 DEF RowHolds
  <2>2. CASE n \in DOMAIN usages
    <3>1. usages'[n] = usages[n] /\ RowHolds(n) /\ usages[n].at \in Nat
      BY <2>2, <1>3, <1>4, <1>5
    <3> QED BY <1>1, <3>1 DEF RowHolds
  <2> QED BY <2>1, <2>2, <1>1, <1>3
<1>7. \A n \in DOMAIN usages : n \in DOMAIN usages' /\ Advances(n)
  BY <1>1, <1>3 DEF Advances
<1> QED BY <1>1, <1>3, <1>6, <1>7 DEF HistoryInv, HistoryTypes

LEMMA HistoryInvStep ==
  ASSUME HistoryInv, HistoryNext \/ UNCHANGED learning
  PROVE  HistoryInv' /\ \A n \in DOMAIN usages : n \in DOMAIN usages' /\ Advances(n)
<1> DEFINE Goal == HistoryInv' /\ \A n \in DOMAIN usages : n \in DOMAIN usages' /\ Advances(n)
<1>1. learningClock \in Nat /\ \A n \in DOMAIN usages : usages[n] \in UsageRows /\ RowHolds(n)
  BY DEF HistoryInv, HistoryTypes
<1> HIDE DEF Goal
<1>2. CASE HistoryTick \/ ProjectHistory \/ UNCHANGED learning
  <2>1. usages' = usages /\ learningClock' \in Nat /\ learningClock <= learningClock'
    BY <1>1, <1>2 DEF HistoryTick, ProjectHistory, learning
  <2> QED BY <2>1, LeavesInv DEF Goal
<1>3. ASSUME NEW v \in Versions, ForgetVersion(v) PROVE Goal
  <2>1. usages' = usages /\ learningClock' \in Nat /\ learningClock <= learningClock'
    BY <1>1, <1>3 DEF ForgetVersion
  <2> QED BY <2>1, LeavesInv DEF Goal
<1>4. ASSUME NEW q \in Queries, Plan(q) PROVE Goal
  BY <1>4, PlanInv DEF Goal
<1>5. ASSUME NEW i \in DOMAIN usages, Abort(i) PROVE Goal
  <2> DEFINE u == [usages[i] EXCEPT !.aborted = TRUE]
  <2>1. usages[i] \in UsageRows /\ RowHolds(i) /\ Change(i, u)
    BY <1>1, <1>5 DEF Abort
  <2>2. /\ u \in UsageRows /\ u.at = usages[i].at /\ u.query = usages[i].query /\ u.settled = usages[i].settled
        /\ u.decision = usages[i].decision /\ u.delivery = usages[i].delivery
    BY <2>1 DEF UsageRows
  <2> HIDE DEF u
  <2> QED BY <2>1, <2>2, ChangeInv DEF Goal, RowHolds, Settled
<1>6. ASSUME NEW i \in DOMAIN usages, NEW decision \in {"approved", "denied", "withdrawn"}, DecidePlan(i, decision)
      PROVE  Goal
  <2> DEFINE u == [usages[i] EXCEPT !.decision = decision]
  <2>1. usages[i] \in UsageRows /\ RowHolds(i) /\ Change(i, u) /\ usages[i].decision = "pending"
    BY <1>1, <1>6 DEF DecidePlan
  <2>2. /\ u \in UsageRows /\ u.at = usages[i].at /\ u.query = usages[i].query /\ u.settled = usages[i].settled
        /\ u.delivery = usages[i].delivery
    BY <2>1 DEF UsageRows
  <2>3. ~Settled(usages[i]) /\ usages[i].delivery = "none"
    BY <2>1 DEF RowHolds
  <2> HIDE DEF u
  <2> QED BY <2>1, <2>2, <2>3, ChangeInv DEF Goal, Settled
<1>9. ASSUME NEW i \in DOMAIN usages, AdaptPlan(i) PROVE Goal
  <2> DEFINE u == [usages[i] EXCEPT !.at = learningClock]
  <2>1. usages[i] \in UsageRows /\ RowHolds(i) /\ Change(i, u) /\ usages[i].decision = "pending"
    BY <1>1, <1>9 DEF AdaptPlan
  <2>2. /\ u \in UsageRows /\ u.at = learningClock /\ u.query = usages[i].query /\ u.settled = usages[i].settled
        /\ u.decision = usages[i].decision /\ u.delivery = usages[i].delivery
    BY <1>1, <2>1 DEF UsageRows
  <2> HIDE DEF u
  <2> QED BY <2>1, <2>2, ChangeInv DEF Goal, RowHolds, Settled
<1>7. ASSUME NEW i \in DOMAIN usages, NEW status \in {"prepared", "appended", "failed", "included"}, Deliver(i, status)
      PROVE  Goal
  <2> DEFINE u == [usages[i] EXCEPT !.delivery = status]
  <2>1. /\ usages[i] \in UsageRows /\ RowHolds(i) /\ Change(i, u) /\ usages[i].decision = "approved"
        /\ usages[i].delivery # "included"
    BY <1>1, <1>7 DEF Deliver
  <2>2. /\ u \in UsageRows /\ u.at = usages[i].at /\ u.query = usages[i].query /\ u.settled = usages[i].settled
        /\ u.decision = usages[i].decision
    BY <2>1 DEF UsageRows
  <2>3. ~Settled(usages[i])
    BY <2>1 DEF RowHolds
  <2> HIDE DEF u
  <2> QED BY <2>1, <2>2, <2>3, ChangeInv DEF Goal, Settled
<1>8. ASSUME NEW i \in DOMAIN usages, NEW outcome \in Outcomes, Settle(i, outcome) PROVE Goal
  <2> DEFINE s == [outcome |-> outcome, at |-> learningClock]
             u == [usages[i] EXCEPT !.settled = s]
  <2>1. /\ usages[i] \in UsageRows /\ RowHolds(i) /\ Change(i, u) /\ usages[i].settled = NotSettled
        /\ usages[i].delivery = "included"
    BY <1>1, <1>8 DEF Settle
  <2>2. s \in [outcome : Outcomes \cup {"none"}, at : Nat] /\ s.outcome = outcome /\ s.at = learningClock
    BY <1>1
  <2> HIDE DEF s
  <2>3. /\ u \in UsageRows /\ u.at = usages[i].at /\ u.query = usages[i].query /\ u.settled = s
        /\ u.delivery = usages[i].delivery /\ u.decision = usages[i].decision
    BY <2>1, <2>2 DEF UsageRows
  <2> HIDE DEF u
  <2>4. ~Settled(usages[i])
    BY <2>1 DEF Settled
  <2> QED BY <2>1, <2>2, <2>3, <2>4, ChangeInv DEF Goal, RowHolds
<1> QED
  <2>1. CASE HistoryNext
    BY <2>1, <1>2, <1>3, <1>4, <1>5, <1>6, <1>7, <1>8, <1>9 DEF HistoryNext, Goal
  <2> QED BY <2>1, <1>2 DEF Goal

-----------------------------------------------------------------------------
\* What was settled when a plan was made is what it was.
LEMMA SettledStays ==
  ASSUME HistoryInv, HistoryInv', \A n \in DOMAIN usages : n \in DOMAIN usages' /\ Advances(n),
         NEW i \in DOMAIN usages, usages'[i].aborted = usages[i].aborted,
         NEW at \in Nat, at < learningClock
  PROVE  /\ SettledBy(i, at)' <=> SettledBy(i, at)
         /\ SettledBy(i, at) => usages'[i] = usages[i]
<1>1. /\ usages[i] \in UsageRows /\ usages'[i] \in UsageRows /\ Advances(i) /\ learningClock \in Nat
  BY DEF HistoryInv, HistoryTypes
<1>2. Settled(usages[i]) => usages'[i] = usages[i]
  <2>1. RowHolds(i)
    BY DEF HistoryInv
  <2>2. Settled(usages[i]) => usages'[i].at = usages[i].at
    BY <1>1, <2>1 DEF RowHolds, Advances
  <2> QED BY <1>1, <2>2 DEF UsageRows, Advances
<1>3. ~Settled(usages[i]) /\ Settled(usages'[i]) => ~(usages'[i].settled.at <= at)
  BY <1>1 DEF Advances
<1> QED BY <1>2, <1>3 DEF SettledBy

LEMMA SamplesStay ==
  ASSUME HistoryInv, HistoryInv', \A n \in DOMAIN usages : n \in DOMAIN usages' /\ Advances(n),
         \A i \in DOMAIN usages : usages'[i].aborted = usages[i].aborted,
         NEW n \in Nat, n <= Len(usages), NEW at \in Nat, at < learningClock, NEW v
  PROVE  Samples(v, n, at)' = Samples(v, n, at) /\ Counts(v, n, at)' = Counts(v, n, at)
<1>1. \A i \in 1..n : i \in DOMAIN usages
  BY DEF HistoryInv, HistoryTypes
<1>2. \A i \in 1..n : (SettledBy(i, at)' <=> SettledBy(i, at)) /\ (SettledBy(i, at) => usages'[i] = usages[i])
  BY <1>1, SettledStays
<1>3. Samples(v, n, at)' = Samples(v, n, at)
  <2>1. ASSUME NEW i \in 1..n PROVE i \in Samples(v, n, at)' <=> i \in Samples(v, n, at)
    <3>1. CASE SettledBy(i, at)
      BY <3>1, <1>2 DEF Samples
    <3>2. CASE ~SettledBy(i, at)
      BY <3>2, <1>2 DEF Samples
    <3> QED BY <3>1, <3>2
  <2>2. Samples(v, n, at) \subseteq 1..n /\ Samples(v, n, at)' \subseteq 1..n
    BY DEF Samples
  <2> QED BY <2>1, <2>2
<1>4. \A i \in Samples(v, n, at) : usages'[i] = usages[i]
  BY <1>2 DEF Samples
<1>5. {i \in Samples(v, n, at)' : TaskOutcome(usages'[i]) = "success"}
        = {i \in Samples(v, n, at) : TaskOutcome(usages[i]) = "success"}
  BY <1>3, <1>4
<1> QED BY <1>3, <1>5 DEF Counts

\* What is counted once does not change any more.
LEMMA SampleStays ==
  ASSUME HistoryInv, HistoryInv', \A n \in DOMAIN usages : n \in DOMAIN usages' /\ Advances(n),
         \A i \in DOMAIN usages : usages'[i].aborted = usages[i].aborted,
         NEW n \in Nat, n <= Len(usages), NEW at, NEW v, NEW i \in Samples(v, n, at)
  PROVE  /\ i \in 1..n /\ usages'[i] = usages[i]
         /\ Settled(usages[i]) /\ usages[i].settled.at \in Nat /\ usages[i].settled.at <= at
<1>1. i \in 1..n /\ i \in DOMAIN usages /\ SettledBy(i, at)
  BY DEF Samples, HistoryInv, HistoryTypes
<1>2. /\ usages[i] \in UsageRows /\ usages'[i] \in UsageRows /\ Advances(i) /\ RowHolds(i)
  BY <1>1 DEF HistoryInv, HistoryTypes
<1>3. Settled(usages[i]) /\ usages[i].settled.at <= at
  BY <1>1 DEF SettledBy
<1>4. usages'[i].at = usages[i].at
  BY <1>2, <1>3 DEF RowHolds, Advances
<1>5. usages'[i] = usages[i]
  BY <1>1, <1>2, <1>3, <1>4 DEF UsageRows, Advances
<1>6. usages[i].settled.at \in Nat
  BY <1>2 DEF UsageRows
<1> QED BY <1>1, <1>3, <1>5, <1>6

\* The candidates of a comparison, from what its query found and what is forgotten.
PlacesOf(query, gone) == {i \in DOMAIN query.baseline : query.baseline[i].version \notin gone}
KeptOf(query, gone) ==
  [n \in 1..Cardinality(PlacesOf(query, gone)) |-> query.baseline[Nth(PlacesOf(query, gone), n)]]

LEMMA ComparisonStays ==
  ASSUME HistoryInv, HistoryInv', \A n \in DOMAIN usages : n \in DOMAIN usages' /\ Advances(n),
         \A i \in DOMAIN usages : usages'[i].aborted = usages[i].aborted,
         forgottenVersions' = forgottenVersions, NEW n \in DOMAIN usages,
         usages'[n].at = usages[n].at, usages[n].at < learningClock
  PROVE  Comparison(n)' = Comparison(n)
<1> DEFINE cs == Kept(usages[n])
           at == usages[n].at
<1>1. usages'[n].query = usages[n].query /\ usages'[n].at = usages[n].at
  BY DEF Advances
<1>2. Kept(usages[n]) = KeptOf(usages[n].query, forgottenVersions)
  BY DEF Kept, KeptPlaces, KeptOf, PlacesOf
<1>3. Kept(usages[n])' = KeptOf(usages'[n].query, forgottenVersions')
  BY DEF Kept, KeptPlaces, KeptOf, PlacesOf
<1>4. Kept(usages[n])' = Kept(usages[n])
  BY <1>1, <1>2, <1>3
<1>5. n - 1 \in Nat /\ n - 1 <= Len(usages) /\ at \in Nat /\ at < learningClock
  <2>1. usages[n] \in UsageRows /\ RowHolds(n) /\ n \in 1..Len(usages)
    BY DEF HistoryInv, HistoryTypes
  <2> QED BY <2>1 DEF RowHolds, UsageRows
<1>6. \A v : /\ Samples(v, n - 1, usages[n].at)' = Samples(v, n - 1, usages[n].at)
             /\ Counts(v, n - 1, usages[n].at)' = Counts(v, n - 1, usages[n].at)
  BY <1>1, <1>5, SamplesStay
<1>7. KeptCounts(n)' = KeptCounts(n)
  <2>1. KeptCounts(n) = [i \in DOMAIN cs |-> Counts(cs[i].version, n - 1, usages[n].at)]
    BY DEF KeptCounts
  <2>2. KeptCounts(n)' = [i \in DOMAIN cs' |-> Counts(cs[i].version, n - 1, usages[n].at)']
    BY DEF KeptCounts
  <2>3. \A i \in DOMAIN cs : Counts(cs[i].version, n - 1, usages[n].at)' = Counts(cs[i].version, n - 1, usages[n].at)
    BY <1>4, <1>6
  <2> QED BY <1>4, <2>1, <2>2, <2>3
<1>8. UNION {Samples(cs[i].version, n - 1, usages[n].at) : i \in DOMAIN cs}'
        = UNION {Samples(cs[i].version, n - 1, usages[n].at) : i \in DOMAIN cs}
  <2>1. \A i \in DOMAIN cs : Samples(cs[i].version, n - 1, usages[n].at)' = Samples(cs[i].version, n - 1, usages[n].at)
    BY <1>4, <1>6
  <2> QED BY <1>4, <2>1
<1> QED BY <1>4, <1>7, <1>8 DEF Comparison

\* A comparison that is dated at or after its date, with the same candidates, only gains samples.
LEMMA ComparisonGrows ==
  ASSUME HistoryInv, HistoryInv', \A n \in DOMAIN usages : n \in DOMAIN usages' /\ Advances(n),
         \A i \in DOMAIN usages : usages'[i].aborted = usages[i].aborted,
         forgottenVersions' = forgottenVersions, NEW n \in DOMAIN usages,
         usages'[n].at = learningClock
  PROVE  Comparison(n).sources \subseteq Comparison(n)'.sources
<1>1. usages'[n].query = usages[n].query
  BY DEF Advances
<1>2. Kept(usages[n]) = KeptOf(usages[n].query, forgottenVersions)
  BY DEF Kept, KeptPlaces, KeptOf, PlacesOf
<1>3. Kept(usages[n])' = KeptOf(usages'[n].query, forgottenVersions')
  BY DEF Kept, KeptPlaces, KeptOf, PlacesOf
<1>4. Kept(usages[n])' = Kept(usages[n])
  BY <1>1, <1>2, <1>3
<1>5. /\ n - 1 \in Nat /\ n - 1 <= Len(usages)
      /\ usages[n].at \in Nat /\ learningClock \in Nat /\ usages[n].at <= learningClock
  <2>1. usages[n] \in UsageRows /\ RowHolds(n) /\ n \in 1..Len(usages) /\ learningClock \in Nat
    BY DEF HistoryInv, HistoryTypes
  <2> QED BY <2>1 DEF RowHolds, UsageRows
<1>6. ASSUME NEW v PROVE Samples(v, n - 1, usages[n].at) \subseteq Samples(v, n - 1, usages[n].at)'
  <2> SUFFICES ASSUME NEW i \in Samples(v, n - 1, usages[n].at) PROVE i \in Samples(v, n - 1, usages[n].at)'
    OBVIOUS
  <2>1. /\ i \in 1..n - 1 /\ usages'[i] = usages[i]
        /\ Settled(usages[i]) /\ usages[i].settled.at \in Nat /\ usages[i].settled.at <= usages[n].at
    BY <1>5, SampleStays
  <2>2. usages[i].settled.at <= usages'[n].at
    BY <1>5, <2>1
  <2> QED BY <2>1, <2>2 DEF Samples, SettledBy, Participation
<1>7. PICK ks : ks = Kept(usages[n])
  OBVIOUS
<1>8. Comparison(n).sources = UNION {Samples(ks[i].version, n - 1, usages[n].at) : i \in DOMAIN ks}
  BY <1>7 DEF Comparison
<1>9. Comparison(n)'.sources = UNION {Samples(ks[i].version, n - 1, usages[n].at)' : i \in DOMAIN ks}
  <2>1. Kept(usages[n])' = ks
    BY <1>4, <1>7
  <2> QED BY <2>1 DEF Comparison
<1> SUFFICES ASSUME NEW k \in Comparison(n).sources PROVE k \in Comparison(n)'.sources
  OBVIOUS
<1>10. PICK i \in DOMAIN ks : k \in Samples(ks[i].version, n - 1, usages[n].at)
  BY <1>8
<1>11. k \in Samples(ks[i].version, n - 1, usages[n].at)'
  BY <1>6, <1>10
<1> QED BY <1>9, <1>10, <1>11

-----------------------------------------------------------------------------
(* Ranks.  In a finite set that is strictly ordered, each number below its *)
(* size is that of the elements before one of its own.                     *)

\* The elements that come before one.
Earlier(S, R, b) == {k \in S : <<k, b>> \in R}
Rank(S, R, b) == Cardinality(Earlier(S, R, b))
Ordered(S, R) ==
  /\ \A a \in S : <<a, a>> \notin R
  /\ \A a, b \in S : a # b => <<a, b>> \in R \/ <<b, a>> \in R
  /\ \A a, b, c \in S : <<a, b>> \in R /\ <<b, c>> \in R => <<a, c>> \in R

LEMMA Ranks ==
  ASSUME NEW S, IsFiniteSet(S), NEW R, Ordered(S, R)
  PROVE  /\ Cardinality(S) \in Nat
         /\ \A a \in S : Rank(S, R, a) \in 0..Cardinality(S) - 1
         /\ \A a, b \in S : <<a, b>> \in R => Rank(S, R, a) < Rank(S, R, b)
         /\ \A m \in 0..Cardinality(S) - 1 : \E a \in S : Rank(S, R, a) = m
<1>1. Cardinality(S) \in Nat
  BY FS_CardinalityType
<1>2. ASSUME NEW a \in S
      PROVE  /\ IsFiniteSet(Earlier(S, R, a)) /\ Rank(S, R, a) \in Nat
             /\ Rank(S, R, a) < Cardinality(S)
  <2>1. Earlier(S, R, a) \in SUBSET S /\ a \notin Earlier(S, R, a)
    BY DEF Earlier, Ordered
  <2>2. /\ IsFiniteSet(Earlier(S, R, a)) /\ Cardinality(Earlier(S, R, a)) <= Cardinality(S)
        /\ Cardinality(S) = Cardinality(Earlier(S, R, a)) => S = Earlier(S, R, a)
    BY <2>1, FS_Subset
  <2>3. Cardinality(Earlier(S, R, a)) \in Nat
    BY <2>2, FS_CardinalityType
  <2>4. Cardinality(S) # Cardinality(Earlier(S, R, a))
    BY <2>1, <2>2
  <2> QED BY <1>1, <2>2, <2>3, <2>4 DEF Rank
<1>3. ASSUME NEW a \in S, NEW b \in S, <<a, b>> \in R
      PROVE  Rank(S, R, a) < Rank(S, R, b)
  <2>1. Earlier(S, R, a) \in SUBSET Earlier(S, R, b) /\ a \in Earlier(S, R, b) /\ a \notin Earlier(S, R, a)
    BY <1>3 DEF Earlier, Ordered
  <2>2. /\ Cardinality(Earlier(S, R, a)) <= Cardinality(Earlier(S, R, b))
        /\ Cardinality(Earlier(S, R, b)) = Cardinality(Earlier(S, R, a)) => Earlier(S, R, b) = Earlier(S, R, a)
    BY <1>2, <2>1, FS_Subset
  <2>3. Cardinality(Earlier(S, R, b)) # Cardinality(Earlier(S, R, a))
    BY <2>1, <2>2
  <2> QED BY <1>2, <2>2, <2>3 DEF Rank
<1>4. ASSUME NEW m \in 0..Cardinality(S) - 1 PROVE \E a \in S : Rank(S, R, a) = m
  <2> DEFINE f == [a \in S |-> Rank(S, R, a)]
             T == 0..Cardinality(S) - 1
  <2>1. \A a \in S : f[a] \in T /\ f[a] = Rank(S, R, a)
    BY <1>1, <1>2
  <2>2. \A a, b \in S : f[a] = f[b] => a = b
    <3> SUFFICES ASSUME NEW a \in S, NEW b \in S, f[a] = f[b], a # b PROVE FALSE
      OBVIOUS
    <3>1. CASE <<a, b>> \in R
      <4>1. Rank(S, R, a) < Rank(S, R, b) /\ Rank(S, R, a) \in Nat /\ Rank(S, R, b) \in Nat
        BY <3>1, <1>2, <1>3
      <4> QED BY <4>1, <2>1
    <3>2. CASE <<b, a>> \in R
      <4>1. Rank(S, R, b) < Rank(S, R, a) /\ Rank(S, R, a) \in Nat /\ Rank(S, R, b) \in Nat
        BY <3>2, <1>2, <1>3
      <4> QED BY <4>1, <2>1
    <3> QED BY <3>1, <3>2 DEF Ordered
  <2>3. IsFiniteSet(T) /\ Cardinality(T) = Cardinality(S)
    <3>1. 0 \in Int /\ Cardinality(S) - 1 \in Int
      BY <1>1
    <3>2. IsFiniteSet(T) /\ Cardinality(T) = IF 0 > Cardinality(S) - 1 THEN 0 ELSE Cardinality(S) - 1 - 0 + 1
      BY <3>1, FS_Interval
    <3> QED BY <1>1, <3>2
  <2>4. f = [a \in DOMAIN f |-> f[a]] /\ DOMAIN f = S
    OBVIOUS
  <2>5. f \in [S -> T]
    <3> HIDE DEF f, T
    <3> QED BY <2>1, <2>4
  <2> HIDE DEF f, T
  <2>6. f \in Injection(S, T)
    BY <2>2, <2>5 DEF Injection, IsInjective
  <2>7. Cardinality(S) = Cardinality(T) <=> f \in Surjection(S, T)
    BY <2>3, <2>6, FS_Injection
  <2>8. f \in Surjection(S, T)
    BY <2>3, <2>7
  <2>9. m \in T
    BY DEF T
  <2>10. \E a \in S : f[a] = m
    BY <2>8, <2>9 DEF Surjection
  <2> QED BY <2>1, <2>10
<1> QED BY <1>1, <1>2, <1>3, <1>4

\* The numbers of a finite set, by size.
Below(S) == {p \in S \X S : p[1] < p[2]}

LEMMA NumbersRanked ==
  ASSUME NEW S \in SUBSET Nat, IsFiniteSet(S)
  PROVE  /\ Ordered(S, Below(S))
         /\ \A b \in S : Rank(S, Below(S), b) = Cardinality({j \in S : j < b})
<1>1. \A a, b \in S : <<a, b>> \in Below(S) <=> a < b
  BY DEF Below
<1>2. Ordered(S, Below(S))
  <2>1. \A a \in S : a \in Nat
    OBVIOUS
  <2>2. \A a, b, c \in S : a < b /\ b < c => a < c
    BY <2>1
  <2>3. \A a, b \in S : a # b => a < b \/ b < a
    BY <2>1
  <2>4. \A a \in S : ~(a < a)
    BY <2>1
  <2> QED BY <1>1, <2>2, <2>3, <2>4 DEF Ordered
<1>3. \A b \in S : Earlier(S, Below(S), b) = {j \in S : j < b}
  BY <1>1 DEF Earlier
<1> QED BY <1>2, <1>3 DEF Rank

\* The nth number of a set, in order.
LEMMA NthIs ==
  ASSUME NEW S \in SUBSET Nat, IsFiniteSet(S)
  PROVE  /\ Cardinality(S) \in Nat
         /\ \A n \in 1..Cardinality(S) : Nth(S, n) \in S
         /\ \A m, n \in 1..Cardinality(S) : Nth(S, m) = Nth(S, n) => m = n
<1>1. /\ Cardinality(S) \in Nat
      /\ \A m \in 0..Cardinality(S) - 1 : \E a \in S : Rank(S, Below(S), a) = m
      /\ \A b \in S : Rank(S, Below(S), b) = Cardinality({j \in S : j < b})
  BY NumbersRanked, Ranks
<1>2. ASSUME NEW n \in 1..Cardinality(S)
      PROVE  Nth(S, n) \in S /\ Cardinality({j \in S : j < Nth(S, n)}) = n - 1
  <2>1. n - 1 \in 0..Cardinality(S) - 1
    BY <1>1
  <2>2. \E i \in S : Cardinality({j \in S : j < i}) = n - 1
    BY <1>1, <2>1
  <2> QED BY <2>2 DEF Nth
<1>3. ASSUME NEW m \in 1..Cardinality(S), NEW n \in 1..Cardinality(S), Nth(S, m) = Nth(S, n)
      PROVE  m = n
  <2>1. m - 1 = n - 1
    BY <1>2, <1>3
  <2> QED BY <1>1, <2>1
<1> QED BY <1>1, <1>2, <1>3

-----------------------------------------------------------------------------
(* The order that history proposes.  Success rates are compared without    *)
(* division, so they are ordered as fractions are; with the places to      *)
(* break ties, every group of equally relevant candidates is strictly      *)
(* ordered, and its places are filled by rank.                             *)

LEMMA Scaled ==
  ASSUME NEW x \in Nat, NEW y \in Nat, NEW z \in Nat, z > 0
  PROVE  x <= y <=> x * z <= y * z
<1>1. CASE x <= y
  <2>1. y - x \in Nat /\ (y - x) * z \in Nat /\ (y - x) * z = y * z - x * z
    BY <1>1
  <2> QED BY <1>1, <2>1
<1>2. CASE ~(x <= y)
  <2>1. x - y \in Nat /\ x - y >= 1
    BY <1>2
  <2>2. (x - y) * z = x * z - y * z /\ (x - y) * z > 0
    BY <2>1
  <2> QED BY <1>2, <2>2
<1> QED BY <1>1, <1>2

\* What is at most a fraction is at most every fraction above it.
LEMMA Fractions ==
  ASSUME NEW p \in Nat, NEW q \in Nat, NEW r \in Nat, NEW s \in Nat, NEW t \in Nat, NEW u \in Nat,
         q > 0, s > 0, u > 0, r * q <= p * s, t * s <= r * u
  PROVE  t * q <= p * u
<1>1. (t * s) * q <= (r * u) * q
  BY Scaled
<1>2. (r * q) * u <= (p * s) * u
  BY Scaled
<1>3. (t * q) * s <= (p * u) * s
  BY <1>1, <1>2
<1>4. t * q \in Nat /\ p * u \in Nat
  OBVIOUS
<1> QED BY <1>3, <1>4, Scaled

Tally(c) == c.success \in Nat /\ c.all \in Nat

LEMMA RatesOrdered ==
  ASSUME NEW a, NEW b, NEW c, Tally(a), Tally(b), Tally(c)
  PROVE  /\ ~Better(a, a)
         /\ Better(a, b) => ~Better(b, a)
         /\ ~Better(b, a) /\ ~Better(c, b) => ~Better(c, a)
<1> DEFINE p == a.success + 1
           q == a.all + 2
           r == b.success + 1
           s == b.all + 2
           t == c.success + 1
           u == c.all + 2
<1>1. p \in Nat /\ q \in Nat /\ r \in Nat /\ s \in Nat /\ t \in Nat /\ u \in Nat /\ q > 0 /\ s > 0 /\ u > 0
  BY DEF Tally
<1>2. /\ Better(a, b) <=> p * s > r * q
      /\ Better(b, a) <=> r * q > p * s
      /\ Better(c, b) <=> t * s > r * u
      /\ Better(c, a) <=> t * q > p * u
      /\ Better(a, a) <=> p * q > p * q
  BY DEF Better
<1> HIDE DEF p, q, r, s, t, u
<1>3. p * s \in Nat /\ r * q \in Nat /\ t * s \in Nat /\ r * u \in Nat /\ t * q \in Nat /\ p * u \in Nat /\ p * q \in Nat
  BY <1>1
<1>4. ASSUME ~Better(b, a), ~Better(c, b) PROVE ~Better(c, a)
  <2>1. r * q <= p * s /\ t * s <= r * u
    BY <1>2, <1>3, <1>4
  <2>2. t * q <= p * u
    BY <1>1, <2>1, Fractions
  <2> QED BY <1>2, <1>3, <2>2
<1>5. ~Better(a, a) /\ (Better(a, b) => ~Better(b, a))
  BY <1>2, <1>3
<1> QED BY <1>4, <1>5

\* The candidates that one may change places with, and who goes first.
GroupOf(cs, counts, i) == {j \in Scored(cs, counts) : cs[j].relevance = cs[i].relevance}
Precedes(counts, j, i) == Better(counts[j], counts[i]) \/ (~Better(counts[i], counts[j]) /\ j < i)
Precedence(counts, G) == {p \in G \X G : Precedes(counts, p[1], p[2])}
\* The candidate that comes to a place.
Placed(cs, counts, i) ==
  CHOOSE j \in GroupOf(cs, counts, i) :
    Cardinality({k \in GroupOf(cs, counts, i) : Precedes(counts, k, j)})
      = Cardinality({k \in GroupOf(cs, counts, i) : k < i})
Moved(cs, counts, i) == IF i \notin Scored(cs, counts) THEN i ELSE Placed(cs, counts, i)

LEMMA OrderIsMoved ==
  ASSUME NEW cs, NEW counts, NEW i \in DOMAIN cs
  PROVE  /\ DOMAIN HistoryOrder(cs, counts) = DOMAIN cs
         /\ HistoryOrder(cs, counts)[i] = cs[Moved(cs, counts, i)].version
<1>1. HistoryOrder(cs, counts) =
        [k \in DOMAIN cs |-> IF k \notin Scored(cs, counts) THEN cs[k].version ELSE cs[Placed(cs, counts, k)].version]
  BY DEF HistoryOrder, Placed, GroupOf, Precedes
<1> QED BY <1>1 DEF Moved

\* Candidates as they are compared.
Candidates(cs, counts, n) ==
  /\ DOMAIN cs = 1..n
  /\ \A i, j \in 1..n : cs[i].version = cs[j].version => i = j
  /\ \A i \in 1..n : Tally(counts[i])

LEMMA PlacedInOrder ==
  ASSUME NEW cs, NEW counts, NEW n \in Nat, Candidates(cs, counts, n), NEW i \in Scored(cs, counts)
  PROVE  /\ Placed(cs, counts, i) \in GroupOf(cs, counts, i)
         /\ \A j \in GroupOf(cs, counts, i) :
              i < j => Precedes(counts, Placed(cs, counts, i), Placed(cs, counts, j))
<1> DEFINE G == GroupOf(cs, counts, i)
           R == Precedence(counts, G)
<1>1. G \in SUBSET (1..n) /\ i \in G
  BY DEF GroupOf, Scored, Candidates
<1>2. IsFiniteSet(G) /\ G \in SUBSET Nat /\ \A a \in G : a \in Nat /\ Tally(counts[a])
  <2>1. IsFiniteSet(1..n)
    BY FS_Interval
  <2>2. IsFiniteSet(G)
    BY <1>1, <2>1, FS_Subset
  <2> QED BY <1>1, <2>2 DEF Candidates
<1>3. \A j \in G : GroupOf(cs, counts, j) = G
  BY DEF GroupOf
<1> HIDE DEF G
<1>4. \A a, b \in G : <<a, b>> \in R <=> Precedes(counts, a, b)
  BY DEF Precedence
<1>5. Ordered(G, R)
  <2>1. ASSUME NEW a \in G PROVE ~Precedes(counts, a, a)
    BY <1>2, RatesOrdered DEF Precedes
  <2>2. ASSUME NEW a \in G, NEW b \in G, a # b PROVE Precedes(counts, a, b) \/ Precedes(counts, b, a)
    BY <1>2, <2>2 DEF Precedes
  <2>3. ASSUME NEW a \in G, NEW b \in G, NEW c \in G, Precedes(counts, a, b), Precedes(counts, b, c)
        PROVE  Precedes(counts, a, c)
    <3> DEFINE x == counts[a]
               y == counts[b]
               z == counts[c]
    <3>1. Tally(x) /\ Tally(y) /\ Tally(z) /\ a \in Nat /\ b \in Nat /\ c \in Nat
      BY <1>2
    <3>2. /\ Better(x, y) \/ (~Better(y, x) /\ a < b)
          /\ Better(y, z) \/ (~Better(z, y) /\ b < c)
      BY <2>3 DEF Precedes
    <3> HIDE DEF x, y, z
    <3>3. /\ Better(x, y) => ~Better(y, x)
          /\ Better(y, z) => ~Better(z, y)
          /\ ~Better(y, x) /\ ~Better(z, y) => ~Better(z, x)
          /\ ~Better(z, y) /\ ~Better(x, z) => ~Better(x, y)
          /\ ~Better(x, z) /\ ~Better(y, x) => ~Better(y, z)
      BY <3>1, RatesOrdered
    <3>4. Better(x, z) \/ (~Better(z, x) /\ a < c)
      BY <3>1, <3>2, <3>3
    <3> QED BY <3>4 DEF Precedes, x, z
  <2> QED BY <1>4, <2>1, <2>2, <2>3 DEF Ordered
<1>6. \A b \in G : Rank(G, R, b) = Cardinality({k \in G : Precedes(counts, k, b)})
  <2>1. \A b \in G : Earlier(G, R, b) = {k \in G : Precedes(counts, k, b)}
    BY <1>4 DEF Earlier
  <2> QED BY <2>1 DEF Rank
<1>7. \A b \in G : Rank(G, Below(G), b) = Cardinality({k \in G : k < b})
  BY <1>2, NumbersRanked
<1> HIDE DEF R
<1>8. ASSUME NEW j \in G
      PROVE  /\ Placed(cs, counts, j) \in G
             /\ Rank(G, R, Placed(cs, counts, j)) = Rank(G, Below(G), j)
  <2>1. Rank(G, Below(G), j) \in 0..Cardinality(G) - 1
    BY <1>2, NumbersRanked, Ranks
  <2>2. \E a \in G : Rank(G, R, a) = Rank(G, Below(G), j)
    BY <1>2, <1>5, <2>1, Ranks
  <2>3. \E a \in G : Cardinality({k \in G : Precedes(counts, k, a)}) = Cardinality({k \in G : k < j})
    BY <1>6, <1>7, <2>2
  <2>4. Placed(cs, counts, j) = CHOOSE a \in G : Cardinality({k \in G : Precedes(counts, k, a)}) = Cardinality({k \in G : k < j})
    BY <1>3 DEF Placed
  <2>5. /\ Placed(cs, counts, j) \in G
        /\ Cardinality({k \in G : Precedes(counts, k, Placed(cs, counts, j))}) = Cardinality({k \in G : k < j})
    BY <2>3, <2>4
  <2> QED BY <1>6, <1>7, <2>5
<1>9. ASSUME NEW j \in G, i < j PROVE Precedes(counts, Placed(cs, counts, i), Placed(cs, counts, j))
  <2> DEFINE a == Placed(cs, counts, i)
             b == Placed(cs, counts, j)
  <2>1. a \in G /\ b \in G /\ Rank(G, R, a) = Rank(G, Below(G), i) /\ Rank(G, R, b) = Rank(G, Below(G), j)
    BY <1>1, <1>8
  <2>2. <<i, j>> \in Below(G)
    BY <1>1, <1>9 DEF Below
  <2>3. Rank(G, Below(G), i) < Rank(G, Below(G), j)
    BY <1>1, <1>2, <2>2, NumbersRanked, Ranks
  <2> HIDE DEF a, b
  <2>4. /\ Rank(G, R, a) \in 0..Cardinality(G) - 1 /\ Rank(G, R, b) \in 0..Cardinality(G) - 1
        /\ Cardinality(G) \in Nat
        /\ <<b, a>> \in R => Rank(G, R, b) < Rank(G, R, a)
    BY <1>2, <1>5, <2>1, Ranks
  <2>5. a # b /\ <<b, a>> \notin R
    BY <2>1, <2>3, <2>4
  <2>6. <<a, b>> \in R
    BY <1>5, <2>1, <2>5 DEF Ordered
  <2> QED BY <1>4, <2>1, <2>6 DEF a, b
<1> QED BY <1>1, <1>8, <1>9 DEF G

\* Candidates are permuted, each within its group and in order.
LEMMA MovedIs ==
  ASSUME NEW cs, NEW counts, NEW n \in Nat, Candidates(cs, counts, n)
  PROVE  /\ \A i \in 1..n : /\ Moved(cs, counts, i) \in 1..n
                            /\ cs[Moved(cs, counts, i)].relevance = cs[i].relevance
                            /\ i \in Scored(cs, counts) <=> Moved(cs, counts, i) \in Scored(cs, counts)
                            /\ i \notin Scored(cs, counts) => Moved(cs, counts, i) = i
         /\ \A i, j \in Scored(cs, counts) :
              i < j /\ cs[i].relevance = cs[j].relevance =>
                Precedes(counts, Moved(cs, counts, i), Moved(cs, counts, j))
         /\ \A i, j \in 1..n : Moved(cs, counts, i) = Moved(cs, counts, j) => i = j
<1> DEFINE S == Scored(cs, counts)
           M(i) == Moved(cs, counts, i)
<1>1. S \subseteq 1..n
  BY DEF Scored, Candidates
<1>2. ASSUME NEW i \in S
      PROVE  M(i) \in S /\ cs[M(i)].relevance = cs[i].relevance /\ M(i) = Placed(cs, counts, i)
  <2>1. M(i) = Placed(cs, counts, i)
    BY DEF Moved
  <2>2. Placed(cs, counts, i) \in GroupOf(cs, counts, i)
    BY PlacedInOrder
  <2> QED BY <2>1, <2>2 DEF GroupOf
<1>3. \A i \in 1..n : i \notin S => M(i) = i
  BY DEF Moved
<1>4. ASSUME NEW i \in S, NEW j \in S, i < j, cs[i].relevance = cs[j].relevance
      PROVE  Precedes(counts, M(i), M(j))
  <2>1. j \in GroupOf(cs, counts, i)
    BY <1>4 DEF GroupOf
  <2>2. Precedes(counts, Placed(cs, counts, i), Placed(cs, counts, j))
    BY <1>4, <2>1, PlacedInOrder
  <2>3. M(i) = Placed(cs, counts, i) /\ M(j) = Placed(cs, counts, j)
    BY <1>2
  <2> QED BY <2>2, <2>3
<1> HIDE DEF S, M
<1>5. ASSUME NEW i \in 1..n, NEW j \in 1..n, M(i) = M(j) PROVE i = j
  <2>1. i \in S <=> j \in S
    BY <1>2, <1>3, <1>5
  <2>2. CASE i \in S /\ i # j
    <3>1. cs[i].relevance = cs[j].relevance /\ j \in S
      BY <1>2, <1>5, <2>1, <2>2
    <3>2. Precedes(counts, M(i), M(j)) \/ Precedes(counts, M(j), M(i))
      <4>1. i < j \/ j < i
        BY <2>2
      <4> QED BY <1>4, <2>2, <3>1, <4>1
    <3>3. M(i) \in 1..n /\ Tally(counts[M(i)])
      <4>1. M(i) \in 1..n
        BY <1>1, <1>2, <2>2
      <4> QED BY <4>1 DEF Candidates
    <3>4. ~Precedes(counts, M(i), M(i))
      BY <3>3, RatesOrdered DEF Precedes
    <3> QED BY <1>5, <3>2, <3>4
  <2>3. CASE i \notin S
    BY <1>3, <1>5, <2>1, <2>3
  <2> QED BY <2>2, <2>3
<1>6. ASSUME NEW i \in 1..n
      PROVE  M(i) \in 1..n /\ cs[M(i)].relevance = cs[i].relevance /\ (i \in S <=> M(i) \in S)
  BY <1>1, <1>2, <1>3
<1> QED BY <1>3, <1>4, <1>5, <1>6 DEF S, M

LEMMA OrdersAreLegal ==
  ASSUME NEW cs, NEW counts, NEW n \in Nat, Candidates(cs, counts, n)
  PROVE  OrderLegal(cs, counts)
<1> DEFINE order == HistoryOrder(cs, counts)
           came(i) == CHOOSE j \in DOMAIN cs : cs[j].version = order[i]
           movable(j) == cs[j].eligible /\ counts[j].all >= MinSamples
           rate(i, j) == (counts[came(i)].success + 1) * (counts[came(j)].all + 2)
           M(i) == Moved(cs, counts, i)
           S == Scored(cs, counts)
<1>1. DOMAIN cs = 1..n /\ \A i, j \in 1..n : cs[i].version = cs[j].version => i = j
  BY DEF Candidates
<1>2. /\ \A i \in 1..n : M(i) \in 1..n /\ cs[M(i)].relevance = cs[i].relevance /\ (i \notin S => M(i) = i)
      /\ \A i, j \in S : i < j /\ cs[i].relevance = cs[j].relevance => Precedes(counts, M(i), M(j))
      /\ \A i, j \in 1..n : M(i) = M(j) => i = j
  BY MovedIs
<1>3. \A i \in 1..n : order[i] = cs[M(i)].version
  BY <1>1, OrderIsMoved
<1>4. \A i \in 1..n : movable(i) <=> i \in S
  BY <1>1 DEF Scored, Enough
<1> HIDE DEF M, order, S
<1>5. ASSUME NEW i \in 1..n PROVE came(i) = M(i)
  <2>1. M(i) \in 1..n /\ cs[M(i)].version = order[i]
    BY <1>2, <1>3
  <2>2. \A j \in 1..n : cs[j].version = order[i] => j = M(i)
    BY <1>1, <2>1
  <2>3. came(i) \in 1..n /\ cs[came(i)].version = order[i]
    BY <1>1, <2>1
  <2> QED BY <2>2, <2>3
<1>6. ASSUME NEW i \in 1..n, NEW j \in 1..n, order[i] = order[j] PROVE i = j
  <2>1. M(i) \in 1..n /\ M(j) \in 1..n
    BY <1>2
  <2>2. cs[M(i)].version = cs[M(j)].version
    BY <1>3, <1>6
  <2>3. M(i) = M(j)
    BY <1>1, <2>1, <2>2
  <2> QED BY <1>2, <2>3
<1>7. \A i \in 1..n : cs[came(i)].relevance = cs[i].relevance /\ (~movable(i) => came(i) = i)
  BY <1>2, <1>4, <1>5
<1>8. ASSUME NEW i \in 1..n, NEW j \in 1..n, i < j, movable(i), movable(j), cs[i].relevance = cs[j].relevance
      PROVE  rate(i, j) > rate(j, i) \/ (rate(i, j) = rate(j, i) /\ came(i) < came(j))
  <2>1. Precedes(counts, M(i), M(j)) /\ came(i) = M(i) /\ came(j) = M(j)
    BY <1>2, <1>4, <1>5, <1>8
  <2>2. Tally(counts[M(i)]) /\ Tally(counts[M(j)])
    BY <1>2 DEF Candidates
  <2> DEFINE x == counts[M(i)]
             y == counts[M(j)]
  <2>3. /\ rate(i, j) = (x.success + 1) * (y.all + 2)
        /\ rate(j, i) = (y.success + 1) * (x.all + 2)
    BY <2>1
  <2>4. /\ Better(x, y) <=> (x.success + 1) * (y.all + 2) > (y.success + 1) * (x.all + 2)
        /\ Better(y, x) <=> (y.success + 1) * (x.all + 2) > (x.success + 1) * (y.all + 2)
    BY DEF Better
  <2>5. rate(i, j) \in Nat /\ rate(j, i) \in Nat
    BY <2>2, <2>3 DEF Tally
  <2>6. Better(x, y) \/ (~Better(y, x) /\ M(i) < M(j))
    BY <2>1 DEF Precedes
  <2> HIDE DEF rate, came, x, y
  <2> QED BY <2>1, <2>3, <2>4, <2>5, <2>6
<1> QED BY <1>1, <1>6, <1>7, <1>8 DEF OrderLegal, order

\* What history proposes is what the baseline holds.
LEMMA OrderPermutes ==
  ASSUME NEW cs, NEW counts, NEW n \in Nat, Candidates(cs, counts, n)
  PROVE  /\ DOMAIN HistoryOrder(cs, counts) = 1..n
         /\ \A i \in 1..n : \E j \in 1..n : HistoryOrder(cs, counts)[i] = cs[j].version
         /\ \A j \in 1..n : \E i \in 1..n : HistoryOrder(cs, counts)[i] = cs[j].version
<1> DEFINE f == [i \in 1..n |-> Moved(cs, counts, i)]
           S == 1..n
<1>1. /\ \A i \in S : f[i] \in S /\ f[i] = Moved(cs, counts, i)
      /\ \A i, j \in S : f[i] = f[j] => i = j
  BY MovedIs
<1>2. IsFiniteSet(S)
  BY FS_Interval
<1>3. DOMAIN cs = S
  BY DEF Candidates
<1>4. \A i \in S : HistoryOrder(cs, counts)[i] = cs[f[i]].version
  BY <1>1, <1>3, OrderIsMoved
<1>5. f = [i \in DOMAIN f |-> f[i]] /\ DOMAIN f = S
  OBVIOUS
<1> HIDE DEF f, S
<1>6. f \in [S -> S]
  BY <1>1, <1>5
<1>7. f \in Injection(S, S)
  BY <1>1, <1>6 DEF Injection, IsInjective
<1>8. f \in Surjection(S, S)
  BY <1>2, <1>7, FS_Injection
<1>9. \A j \in S : \E i \in S : f[i] = j
  BY <1>8 DEF Surjection
<1>10. /\ \A i \in S : \E j \in S : HistoryOrder(cs, counts)[i] = cs[j].version
       /\ \A j \in S : \E i \in S : HistoryOrder(cs, counts)[i] = cs[j].version
  BY <1>1, <1>4, <1>9
<1>11. DOMAIN HistoryOrder(cs, counts) = S
  <2>1. CASE S = {}
    <3>1. HistoryOrder(cs, counts) =
            [k \in DOMAIN cs |-> IF k \notin Scored(cs, counts) THEN cs[k].version ELSE cs[Placed(cs, counts, k)].version]
      BY DEF HistoryOrder, Placed, GroupOf, Precedes
    <3> QED BY <1>3, <3>1
  <2>2. CASE S # {}
    BY <1>3, <2>2, OrderIsMoved
  <2> QED BY <2>1, <2>2
<1> QED BY <1>10, <1>11 DEF S

-----------------------------------------------------------------------------
\* The candidates of a usage are compared as they should be.
LEMMA KeptIs ==
  ASSUME HistoryInv, NEW n \in DOMAIN usages
  PROVE  \E m \in Nat : /\ Candidates(Kept(usages[n]), KeptCounts(n), m)
                        /\ \A i \in 1..m : \E j \in DOMAIN usages[n].query.baseline :
                             Kept(usages[n])[i] = usages[n].query.baseline[j]
<1> DEFINE q == usages[n].query
           S == KeptPlaces(usages[n])
           m == Cardinality(S)
           cs == Kept(usages[n])
<1>1. usages[n] \in UsageRows /\ n \in 1..Len(usages) /\ usages \in Seq(UsageRows)
  BY DEF HistoryInv, HistoryTypes
<1>2. q \in Queries /\ usages[n].at \in Nat /\ n - 1 \in Nat /\ n - 1 <= Len(usages)
  BY <1>1 DEF UsageRows
<1>3. /\ q.baseline \in Seq([version : Versions, relevance : Nat, eligible : BOOLEAN])
      /\ \A i, j \in DOMAIN q.baseline : q.baseline[i].version = q.baseline[j].version => i = j
  BY <1>2, LearningAssumption
<1>4. S \in SUBSET (1..Len(q.baseline)) /\ DOMAIN q.baseline = 1..Len(q.baseline) /\ Len(q.baseline) \in Nat
  BY <1>3 DEF KeptPlaces
<1>5. IsFiniteSet(S) /\ S \in SUBSET Nat
  <2>1. IsFiniteSet(1..Len(q.baseline))
    <3>1. 1 \in Int /\ Len(q.baseline) \in Int
      BY <1>4
    <3> QED BY <3>1, FS_Interval
  <2>2. IsFiniteSet(S)
    BY <1>4, <2>1, FS_Subset
  <2> QED BY <1>4, <2>2
<1>6. cs = [k \in 1..m |-> q.baseline[Nth(S, k)]]
  BY DEF Kept
<1> HIDE DEF S, cs
<1>7. /\ m \in Nat /\ \A k \in 1..m : Nth(S, k) \in S
      /\ \A k, l \in 1..m : Nth(S, k) = Nth(S, l) => k = l
  BY <1>5, NthIs
<1> HIDE DEF m
<1>8. DOMAIN cs = 1..m /\ \A k \in 1..m : cs[k] = q.baseline[Nth(S, k)] /\ Nth(S, k) \in DOMAIN q.baseline
  BY <1>4, <1>6, <1>7
<1>9. ASSUME NEW k \in 1..m, NEW l \in 1..m, cs[k].version = cs[l].version PROVE k = l
  <2>1. q.baseline[Nth(S, k)].version = q.baseline[Nth(S, l)].version
    BY <1>8, <1>9
  <2>2. Nth(S, k) = Nth(S, l)
    BY <1>3, <1>8, <2>1
  <2> QED BY <1>7, <2>2
<1>10. ASSUME NEW v, NEW l \in Nat, NEW at PROVE Tally(Counts(v, l, at))
  <2> DEFINE is == Samples(v, l, at)
             won == {i \in is : TaskOutcome(usages[i]) = "success"}
  <2>1. is \in SUBSET (1..l) /\ won \in SUBSET (1..l)
    BY DEF Samples
  <2>2. Counts(v, l, at) = [success |-> Cardinality(won), all |-> Cardinality(is)]
    BY DEF Counts
  <2> HIDE DEF is, won
  <2>3. IsFiniteSet(1..l)
    BY FS_Interval
  <2>4. IsFiniteSet(is) /\ IsFiniteSet(won)
    BY <2>1, <2>3, FS_Subset
  <2>5. Cardinality(is) \in Nat /\ Cardinality(won) \in Nat
    BY <2>4, FS_CardinalityType
  <2> QED BY <2>2, <2>5 DEF Tally
<1>11. \A k \in 1..m : Tally(KeptCounts(n)[k])
  <2>1. KeptCounts(n) = [i \in DOMAIN cs |-> Counts(cs[i].version, n - 1, usages[n].at)]
    BY DEF KeptCounts, cs
  <2> QED BY <1>2, <1>8, <1>10, <2>1
<1>12. Candidates(cs, KeptCounts(n), m)
  BY <1>8, <1>9, <1>11 DEF Candidates
<1> QED BY <1>7, <1>8, <1>12 DEF cs

\* A stored comparison.
LegalRow(c) ==
  /\ c.usage \in DOMAIN usages
  /\ {c.proposed[i] : i \in DOMAIN c.proposed} = {c.baseline[i] : i \in DOMAIN c.baseline}
  /\ \A i \in DOMAIN c.baseline : \E j \in DOMAIN usages[c.usage].query.baseline :
       c.baseline[i] = usages[c.usage].query.baseline[j].version
  /\ \A n \in c.sources :
       /\ n \in DOMAIN usages /\ n < c.usage
       /\ usages[n].decision = "approved" /\ usages[n].delivery = "included"
       /\ usages[n].settled.outcome \in {"success", "partial", "failure"}
       /\ usages[n].settled.at <= usages[c.usage].at

LearnedInv == HistoryInv /\ \A c \in learningRows.comparisons : LegalRow(c)

\* A sample is a usage that was approved, entered a request and was settled.
LEMMA SampleIs ==
  ASSUME HistoryInv, NEW v, NEW l \in Nat, l <= Len(usages), NEW at, NEW i \in Samples(v, l, at)
  PROVE  /\ i \in 1..l /\ i \in DOMAIN usages
         /\ usages[i].decision = "approved" /\ usages[i].delivery = "included"
         /\ usages[i].settled.outcome \in {"success", "partial", "failure"}
         /\ usages[i].settled.at <= at
<1>1. i \in 1..l /\ SettledBy(i, at) /\ TaskOutcome(usages[i]) \in {"success", "failure"}
  BY DEF Samples
<1>2. i \in DOMAIN usages /\ RowHolds(i)
  BY <1>1 DEF HistoryInv, HistoryTypes
<1> QED BY <1>1, <1>2 DEF SettledBy, RowHolds, TaskOutcome

LEMMA ComparisonLegal ==
  ASSUME HistoryInv, NEW n \in DOMAIN usages
  PROVE  LegalRow(Comparison(n))
<1> DEFINE cs == Kept(usages[n])
           counts == KeptCounts(n)
           c == Comparison(n)
<1>1. PICK m \in Nat : /\ Candidates(cs, counts, m)
                       /\ \A i \in 1..m : \E j \in DOMAIN usages[n].query.baseline : cs[i] = usages[n].query.baseline[j]
  BY KeptIs
<1>2. /\ c.usage = n /\ c.baseline = [i \in DOMAIN cs |-> cs[i].version]
      /\ c.proposed = HistoryOrder(cs, counts)
      /\ c.sources = UNION {Samples(cs[i].version, n - 1, usages[n].at) : i \in DOMAIN cs}
  BY DEF Comparison
<1> HIDE DEF cs, counts, c
<1>3. DOMAIN cs = 1..m
  BY <1>1 DEF Candidates
<1>6. {c.proposed[i] : i \in DOMAIN c.proposed} = {c.baseline[i] : i \in DOMAIN c.baseline}
  <2>7. Candidates(cs, counts, m)
    BY <1>1
  <2>8. /\ DOMAIN HistoryOrder(cs, counts) = 1..m
        /\ \A i \in 1..m : \E j \in 1..m : HistoryOrder(cs, counts)[i] = cs[j].version
        /\ \A j \in 1..m : \E i \in 1..m : HistoryOrder(cs, counts)[i] = cs[j].version
    BY <2>7, OrderPermutes
  <2> DEFINE S == 1..m
             order == HistoryOrder(cs, counts)
             base == c.baseline
  <2>1. /\ DOMAIN order = S
        /\ \A i \in S : \E j \in S : order[i] = cs[j].version
        /\ \A j \in S : \E i \in S : order[i] = cs[j].version
    BY <2>8
  <2>2. DOMAIN base = S /\ \A i \in S : base[i] = cs[i].version
    BY <1>2, <1>3
  <2>3. c.proposed = order
    BY <1>2
  <2> HIDE DEF S, order, base
  <2>4. \A i \in S : \E j \in S : order[i] = base[j]
    BY <2>1, <2>2
  <2>5. \A j \in S : \E i \in S : order[i] = base[j]
    BY <2>1, <2>2
  <2>6. {order[i] : i \in DOMAIN order} = {base[i] : i \in DOMAIN base}
    BY <2>1, <2>2, <2>4, <2>5
  <2> QED BY <2>3, <2>6 DEF base
<1>7. \A i \in DOMAIN c.baseline : \E j \in DOMAIN usages[n].query.baseline :
        c.baseline[i] = usages[n].query.baseline[j].version
  BY <1>1, <1>2, <1>3
<1>8. ASSUME NEW k \in c.sources
      PROVE  /\ k \in DOMAIN usages /\ k < n
             /\ usages[k].decision = "approved" /\ usages[k].delivery = "included"
             /\ usages[k].settled.outcome \in {"success", "partial", "failure"}
             /\ usages[k].settled.at <= usages[n].at
  <2>1. PICK i \in DOMAIN cs : k \in Samples(cs[i].version, n - 1, usages[n].at)
    BY <1>2
  <2>2. n \in 1..Len(usages) /\ n - 1 \in Nat /\ n - 1 <= Len(usages)
    BY DEF HistoryInv, HistoryTypes
  <2>3. /\ k \in 1..n - 1 /\ k \in DOMAIN usages
        /\ usages[k].decision = "approved" /\ usages[k].delivery = "included"
        /\ usages[k].settled.outcome \in {"success", "partial", "failure"}
        /\ usages[k].settled.at <= usages[n].at
    BY <2>1, <2>2, SampleIs
  <2> QED BY <2>2, <2>3
<1>9. LegalRow(c)
  <2>1. c.usage = n /\ n \in DOMAIN usages
    BY <1>2
  <2>2. \A i \in DOMAIN c.baseline : \E j \in DOMAIN usages[c.usage].query.baseline :
          c.baseline[i] = usages[c.usage].query.baseline[j].version
    BY <1>7, <2>1
  <2>3. ASSUME NEW k \in c.sources
        PROVE  /\ k \in DOMAIN usages /\ k < c.usage
               /\ usages[k].decision = "approved" /\ usages[k].delivery = "included"
               /\ usages[k].settled.outcome \in {"success", "partial", "failure"}
               /\ usages[k].settled.at <= usages[c.usage].at
    BY <1>8, <2>1
  <2> QED BY <1>6, <2>1, <2>2, <2>3 DEF LegalRow
<1> QED BY <1>9 DEF c

LEMMA LearnedInvStep == LearnedInv /\ [HistoryNext]_learning => LearnedInv'
<1> SUFFICES ASSUME LearnedInv, HistoryNext \/ UNCHANGED learning PROVE LearnedInv'
  OBVIOUS
<1>1. HistoryInv /\ HistoryInv' /\ \A n \in DOMAIN usages : n \in DOMAIN usages' /\ Advances(n)
  BY HistoryInvStep DEF LearnedInv
<1>2. ASSUME NEW c \in learningRows.comparisons PROVE LegalRow(c)'
  <2>1. LegalRow(c)
    BY DEF LearnedInv
  <2>2. ASSUME NEW n \in c.sources
        PROVE  /\ usages'[n].decision = usages[n].decision /\ usages'[n].delivery = usages[n].delivery
               /\ usages'[n].settled = usages[n].settled /\ n \in DOMAIN usages'
    <3>1. n \in DOMAIN usages /\ Settled(usages[n])
      BY <2>1 DEF LegalRow, Settled, NotSettled
    <3> QED BY <1>1, <3>1 DEF Advances
  <2>3. /\ c.usage \in DOMAIN usages' /\ usages'[c.usage].query = usages[c.usage].query
        /\ usages[c.usage].at \in Nat /\ usages'[c.usage].at \in Nat /\ usages[c.usage].at <= usages'[c.usage].at
    <3>1. /\ c.usage \in DOMAIN usages /\ c.usage \in DOMAIN usages' /\ Advances(c.usage)
          /\ usages[c.usage] \in UsageRows /\ usages'[c.usage] \in UsageRows /\ RowHolds(c.usage)
      BY <1>1, <2>1 DEF LegalRow, HistoryInv, HistoryTypes
    <3> QED BY <3>1 DEF Advances, RowHolds, UsageRows
  <2>4. \A n \in c.sources : usages[n].settled.at \in Nat
    <3>1. \A n \in c.sources : usages[n] \in UsageRows
      BY <1>1, <2>1 DEF LegalRow, HistoryInv, HistoryTypes
    <3> QED BY <3>1 DEF UsageRows
  <2> QED BY <2>1, <2>2, <2>3, <2>4 DEF LegalRow
<1>3. learningRows' = learningRows \/ (usages' = usages /\ learningRows'.comparisons \subseteq {Comparison(n) : n \in DOMAIN usages})
  <2>1. CASE ProjectHistory
    BY <2>1 DEF ProjectHistory, Comparisons
  <2>2. CASE ~ProjectHistory
    BY <2>2 DEF HistoryNext, HistoryTick, Plan, AdaptPlan, ForgetVersion, Abort, DecidePlan, Deliver, Settle, Change, learning
  <2> QED BY <2>1, <2>2
<1>4. CASE learningRows' = learningRows
  BY <1>1, <1>2, <1>4 DEF LearnedInv
<1>5. CASE usages' = usages /\ learningRows'.comparisons \subseteq {Comparison(n) : n \in DOMAIN usages}
  <2>1. ASSUME NEW c \in learningRows'.comparisons PROVE LegalRow(c)'
    <3>1. LegalRow(c)
      BY <1>1, <1>5, ComparisonLegal
    <3> QED BY <1>5, <3>1 DEF LegalRow
  <2> QED BY <1>1, <2>1 DEF LearnedInv
<1> QED BY <1>3, <1>4, <1>5

LEMMA LearnedInvInit == HistoryInit => LearnedInv
BY DEF HistoryInit, LearnedInv, HistoryInv, HistoryTypes

LEMMA LearnedInvSound == LearnedInv => LearningSound
<1> SUFFICES ASSUME LearnedInv PROVE LearningSound
  OBVIOUS
<1>1. ComparisonsLegal
  BY DEF LearnedInv, LegalRow, ComparisonsLegal
<1>2. ASSUME NEW n \in DOMAIN usages PROVE OrderLegal(Kept(usages[n]), KeptCounts(n))
  <2>1. PICK m \in Nat : Candidates(Kept(usages[n]), KeptCounts(n), m)
    BY KeptIs DEF LearnedInv
  <2> QED BY <2>1, OrdersAreLegal
<1> QED BY <1>1, <1>2 DEF LearningSound, OrdersLegal

\* Every comparison that is stored counts only usages that were approved, entered
\* a request and were settled before its plan was made, and every order that
\* history proposes permutes equally relevant candidates by success.
THEOREM LearningStaysSound == HistorySpec => []LearningSound
BY LearnedInvInit, LearnedInvStep, LearnedInvSound, PTL DEF HistorySpec

\* A comparison that the owner reviewed stays what it was for as long as nothing
\* in it is forgotten and no usage is aborted, except while its plan is pending and
\* may be adapted, or at the very time of its plan: then it only gains samples.
THEOREM ComparisonsStayStable == HistorySpec => ComparisonsStable
<1> DEFINE Gains(n) == /\ usages'[n].at = learningClock
                       /\ usages[n].decision = "pending" \/ usages[n].at = learningClock
                       /\ Comparison(n).sources \subseteq Comparison(n)'.sources
           Stays == forgottenVersions' = forgottenVersions
                      /\ (\A i \in DOMAIN usages : usages'[i].aborted = usages[i].aborted) =>
                    \A n \in DOMAIN usages : Comparison(n)' = Comparison(n) \/ Gains(n)
<1>1. LearnedInv /\ [HistoryNext]_learning => [Stays]_learning
  <2> SUFFICES ASSUME LearnedInv, HistoryNext, forgottenVersions' = forgottenVersions,
                      \A i \in DOMAIN usages : usages'[i].aborted = usages[i].aborted,
                      NEW n \in DOMAIN usages
               PROVE  Comparison(n)' = Comparison(n) \/ Gains(n)
    OBVIOUS
  <2>1. HistoryInv /\ HistoryInv' /\ \A k \in DOMAIN usages : k \in DOMAIN usages' /\ Advances(k)
    BY HistoryInvStep DEF LearnedInv
  <2>2. Advances(n) /\ RowHolds(n) /\ usages[n].at \in Nat /\ learningClock \in Nat
    <3>1. Advances(n) /\ RowHolds(n) /\ usages[n] \in UsageRows /\ learningClock \in Nat
      BY <2>1 DEF HistoryInv, HistoryTypes
    <3> QED BY <3>1 DEF UsageRows
  <2>3. CASE usages'[n].at = usages[n].at /\ usages[n].at < learningClock
    <3>1. Comparison(n)' = Comparison(n)
      BY <2>1, <2>3, ComparisonStays
    <3> QED BY <3>1
  <2>4. CASE ~(usages'[n].at = usages[n].at /\ usages[n].at < learningClock)
    <3>1. usages'[n].at = learningClock /\ (usages[n].decision = "pending" \/ usages[n].at = learningClock)
      BY <2>2, <2>4 DEF Advances, RowHolds
    <3>2. Comparison(n).sources \subseteq Comparison(n)'.sources
      BY <2>1, <3>1, ComparisonGrows
    <3> QED BY <3>1, <3>2
  <2> QED BY <2>3, <2>4
<1>2. [Stays]_learning => [forgottenVersions' = forgottenVersions /\ (\A i \in DOMAIN usages : usages'[i].aborted = usages[i].aborted) =>
       \A n \in DOMAIN usages :
         \/ Comparison(n)' = Comparison(n)
         \/ /\ usages'[n].at = learningClock
            /\ usages[n].decision = "pending" \/ usages[n].at = learningClock
            /\ Comparison(n).sources \subseteq Comparison(n)'.sources]_learning
  OBVIOUS
<1> QED BY <1>1, <1>2, LearnedInvInit, LearnedInvStep, PTL DEF HistorySpec, ComparisonsStable
=============================================================================
