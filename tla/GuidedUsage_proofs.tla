------------------------- MODULE GuidedUsage_proofs -------------------------
(***************************************************************************)
(* What GuidedUsage keeps for every number of launches, steps, cursor      *)
(* revisions and verification commands: its types, that a success rests on *)
(* evidence of its own time, that what is settled stays settled and, with  *)
(* one verification at a time, that the guard knows of every owned job     *)
(* that still listens.                                                     *)
(***************************************************************************)
EXTENDS GuidedUsage, TLAPS, WellFoundedInduction

\* A bounded set of numbers that is not empty has a least element.
LEMMA Least ==
  ASSUME NEW S \in SUBSET Nat, S # {}
  PROVE  \E o \in S : \A x \in S : o <= x
<1>1. PICK o \in S : \A x \in S : <<x, o>> \notin OpToRel(<, Nat)
  BY NatLessThanWellFounded, WFMin
<1>2. \A x \in S : ~ (x < o)
  BY <1>1 DEF OpToRel
<1> QED BY <1>2

\* And a greatest one.
LEMMA Greatest ==
  ASSUME NEW N \in Nat, NEW S \in SUBSET (0..N), S # {}
  PROVE  \E o \in S : \A x \in S : x <= o
<1> DEFINE T == {N - x : x \in S}
<1>1. T \in SUBSET Nat /\ T # {}
  <2>1. \A x \in S : x \in 0..N /\ N - x \in Nat /\ N - x \in T
    OBVIOUS
  <2> QED BY <2>1
<1>2. PICK t \in T : \A u \in T : t <= u
  <2> HIDE DEF T
  <2> QED BY <1>1, Least
<1>3. PICK o \in S : t = N - o
  OBVIOUS
<1>4. ASSUME NEW x \in S PROVE x <= o
  <2>1. t <= N - x
    BY <1>2
  <2>2. x \in 0..N /\ o \in 0..N
    OBVIOUS
  <2> QED BY <1>3, <2>1, <2>2
<1> QED BY <1>4

-----------------------------------------------------------------------------
\* Types.

LEMMA Blanks ==
  /\ NoCursor \in [rev: Revs, step: Steps, state: CursorState]
  /\ Unknown \in Results
  /\ NoRun \in [rev: Revs, results: Results]
  /\ NoSettlement \in [outcome: Outcome, passed: SUBSET Criteria]
  /\ Idle \in Verification
<1>1. 0 \in Revs /\ 1 \in Steps /\ 0 \in 0..MaxLaunches
  BY ConstantsAssumption DEF Revs, Steps
<1>2. Unknown \in Results
  BY <1>1 DEF Unknown, Results, Result, Verdict
<1> QED
  BY <1>1, <1>2 DEF NoCursor, CursorState, NoRun, NoSettlement, Outcome, Idle, Verification

LEMMA InitTypes == Init => TypeOK
<1> SUFFICES ASSUME Init PROVE TypeOK
  OBVIOUS
<1>1. 1 \in Revs /\ 1 \in Steps
  BY ConstantsAssumption DEF Revs, Steps
<1>2. tail \in Seq(Reports) /\ owned \subseteq Launches /\ targets \subseteq Launches
  BY DEF Init
<1>3. cursor \in [rev: Revs, step: Steps, state: CursorState]
  BY <1>1, Blanks DEF Init, CursorState
<1>4. verify \in [Verifiers -> Verification]
  BY Blanks DEF Init
<1>5. /\ rows \in [Launches -> {"none", "unknown", "possible", "confirmed"}]
      /\ jobs \in [Launches -> {"none", "running", "orphan", "gone"}]
  BY DEF Init
<1> QED
  BY <1>2, <1>3, <1>4, <1>5, Blanks DEF Init, TypeOK, Outcome

LEMMA MovesTypes ==
  ASSUME TypeOK, NEW step \in Steps, NEW state \in CursorState, NEW here \in BOOLEAN,
         Moves(step, state, here)
  PROVE  TypeOK'
<1>1. cursor.rev + 1 \in Revs
  BY ConstantsAssumption DEF Moves, Revs
<1> QED
  BY <1>1 DEF TypeOK, Moves, Finish, Keep

\* A verdict is a result.
LEMMA VerdictTypes ==
  ASSUME NEW is \in {"pass", "fail", "unknown", "not_evaluated"}, NEW at \in Revs
  PROVE  Verdict(is, at) \in Result
BY DEF Verdict, Result

\* The job a verification looks at.
JobOf(seen) ==
  IF Refs # {} THEN CHOOSE c \in Refs : \A x \in Refs : x <= c
  ELSE IF seen /\ owned # {} THEN CHOOSE c \in owned : \A x \in owned : c <= x
  ELSE 0

LEMMA JobOfIs ==
  ASSUME TypeOK, NEW seen \in BOOLEAN
  PROVE  /\ JobOf(seen) \in 0..MaxLaunches
         /\ Refs # {} => JobOf(seen) \in Refs /\ \A x \in Refs : x <= JobOf(seen)
         /\ Refs = {} /\ JobOf(seen) # 0 => JobOf(seen) \in owned
<1>1. Refs \in SUBSET (0..MaxLaunches) /\ owned \in SUBSET Nat /\ MaxLaunches \in Nat
      /\ owned \subseteq 0..MaxLaunches
  BY ConstantsAssumption DEF Refs, Launches, TypeOK
<1>2. CASE Refs # {}
  <2>1. \E c \in Refs : \A x \in Refs : x <= c
    BY <1>1, <1>2, Greatest
  <2> QED
    BY <1>1, <1>2, <2>1 DEF JobOf
<1>3. CASE Refs = {} /\ seen /\ owned # {}
  <2>1. \E c \in owned : \A x \in owned : c <= x
    BY <1>1, <1>3, Least
  <2> QED
    BY <1>1, <1>3, <2>1 DEF JobOf
<1>4. CASE Refs = {} /\ ~(seen /\ owned # {})
  BY <1>1, <1>4 DEF JobOf
<1> QED
  BY <1>2, <1>3, <1>4

\* What a verification holds after its snapshot.
Snapped(v, here) ==
  LET seen == here /\ entry # "none"
  IN [Idle EXCEPT !.pc = "snapped", !.rev = cursor.rev, !.job = JobOf(seen),
                  !.launcher = (Refs # {}), !.here = seen,
                  !.target = (seen /\ JobOf(seen) \in targets),
                  !.results = [c \in Criteria |->
                     IF c \in Observed /\ Preserved(c) THEN run.results[c]
                     ELSE Unknown[c]]]

LEMMA SnapshotSnaps ==
  ASSUME NEW v \in Verifiers, NEW here \in BOOLEAN, Snapshot(v, here)
  PROVE  verify' = [verify EXCEPT ![v] = Snapped(v, here)]
BY DEF Snapshot, Snapped, JobOf

LEMMA SnappedIs ==
  ASSUME TypeOK, NEW v \in Verifiers, NEW here \in BOOLEAN
  PROVE  LET seen == here /\ entry # "none"
             me == Snapped(v, here)
         IN /\ me \in Verification
            /\ me.pc = "snapped" /\ me.rev = cursor.rev /\ me.job = JobOf(seen)
            /\ me.launcher = (Refs # {}) /\ me.here = seen
            /\ me.target = (seen /\ JobOf(seen) \in targets)
            /\ me.listens = FALSE /\ me.clean = {}
            /\ me.results = [c \in Criteria |->
                     IF c \in Observed /\ Preserved(c) THEN run.results[c]
                     ELSE Unknown[c]]
<1> DEFINE seen == here /\ entry # "none"
           results == [c \in Criteria |-> IF c \in Observed /\ Preserved(c) THEN run.results[c]
                                          ELSE Unknown[c]]
<1>1. seen \in BOOLEAN /\ JobOf(seen) \in 0..MaxLaunches
  BY JobOfIs
<1>2. results \in Results
  BY Blanks DEF TypeOK, Results
<1>3. cursor.rev \in Revs
  BY DEF TypeOK
<1> HIDE DEF seen, results
<1> DEFINE me == [Idle EXCEPT !.pc = "snapped", !.rev = cursor.rev, !.job = JobOf(seen),
                  !.launcher = (Refs # {}), !.here = seen,
                  !.target = (seen /\ JobOf(seen) \in targets), !.results = results]
<1>4. /\ me \in Verification
      /\ me.pc = "snapped" /\ me.rev = cursor.rev /\ me.job = JobOf(seen)
      /\ me.launcher = (Refs # {}) /\ me.here = seen
      /\ me.target = (seen /\ JobOf(seen) \in targets)
      /\ me.listens = FALSE /\ me.clean = {} /\ me.results = results
  <2>1. Idle \in Verification
    BY Blanks
  <2> QED
    BY <1>1, <1>2, <1>3, <2>1 DEF Verification, Idle
<1> QED
  BY <1>4 DEF Snapped, seen, results

\* The cleanup passes only on a closed socket and known listeners.
LEMMA CleanResultsIs ==
  ASSUME NEW job, NEW status, NEW socket, NEW base
  PROVE  /\ CleanResults(job, status, socket, base) \in
              SUBSET {"pass", "fail", "unknown", "not_evaluated"}
         /\ "pass" \in CleanResults(job, status, socket, base) =>
              job # 0 /\ socket = "closed" /\ base
<1>1. CASE job = 0 \/ status = "none"
  BY <1>1 DEF CleanResults
<1>2. CASE ~(job = 0 \/ status = "none")
  BY <1>2 DEF CleanResults
<1> QED
  BY <1>1, <1>2

\* What a verification me holds as w after its readbacks.
ObservedFrom(me, w) ==
  /\ w \in Verification
  /\ w.pc = "observed" /\ w.rev = me.rev
  /\ w.listens => me.launcher /\ me.target /\ w.job = me.job
  /\ \A c \in Criteria : w.results[c].is = "pass" =>
       \/ me.results[c].is = "pass" /\ w.results[c] = me.results[c]
       \/ w.results[c].at = cursor.rev
  /\ "pass" \in w.clean =>
       /\ me.launcher /\ me.target /\ me.job # 0 /\ baseline'
       /\ jobs[me.job] \notin {"running", "orphan"}
  /\ baseline' \in BOOLEAN
  /\ baseline /\ ~baseline' => FALSE
  /\ baseline' /\ ~baseline => me.target /\ me.job # 0 /\ jobs[me.job] = "running"

LEMMA ObserveIs ==
  ASSUME TypeOK, NEW v \in Verifiers, Observe(v)
  PROVE  \E w : ObservedFrom(verify[v], w) /\ verify' = [verify EXCEPT ![v] = w]
<1> DEFINE me == verify[v]
           alive == me.target /\ jobs[me.job] \in {"running", "orphan"}
           status == IF ~me.here \/ me.job = 0 THEN "none"
                     ELSE IF jobs[me.job] = "running" THEN "running" ELSE "ended"
<1>1. me \in Verification /\ baseline \in BOOLEAN /\ cursor.rev \in Revs
  BY DEF TypeOK
<1>2. PICK socket \in {"unknown"} \cup (IF alive THEN {"listening"} ELSE {})
                                 \cup (IF me.target /\ ~alive THEN {"closed"} ELSE {}),
           bad \in {"fail", "unknown"}, listed \in BOOLEAN :
        \E passes \in SUBSET {c \in Observed :
             CASE c = "ready" -> status = "running" /\ socket = "listening"
               [] c = "scope" -> socket = "listening"
               [] c = "auth"  -> alive} :
        LET base == baseline \/ (status = "running" /\ socket = "listening" /\ listed)
            listens == me.launcher /\ socket = "listening"
        IN /\ baseline' = base
           /\ verify' = [verify EXCEPT ![v] =
                [Idle EXCEPT !.pc = "observed", !.rev = me.rev, !.listens = listens,
                   !.job = IF listens THEN me.job ELSE 0,
                   !.clean = CleanResults(IF me.launcher THEN me.job ELSE 0,
                                          status, socket, base),
                   !.results = [c \in Criteria |->
                      IF me.results[c].is = "pass" THEN me.results[c]
                      ELSE IF c \in passes \/ (c = "launch" /\ me.launcher /\ me.here)
                        THEN Verdict("pass", cursor.rev)
                      ELSE IF c \in Observed THEN Verdict(bad, 0)
                      ELSE Unknown[c]]]]
  BY Zenon DEF Observe
<1>2a. PICK passes \in SUBSET {c \in Observed :
             CASE c = "ready" -> status = "running" /\ socket = "listening"
               [] c = "scope" -> socket = "listening"
               [] c = "auth"  -> alive} :
        LET base == baseline \/ (status = "running" /\ socket = "listening" /\ listed)
            listens == me.launcher /\ socket = "listening"
        IN /\ baseline' = base
           /\ verify' = [verify EXCEPT ![v] =
                [Idle EXCEPT !.pc = "observed", !.rev = me.rev, !.listens = listens,
                   !.job = IF listens THEN me.job ELSE 0,
                   !.clean = CleanResults(IF me.launcher THEN me.job ELSE 0,
                                          status, socket, base),
                   !.results = [c \in Criteria |->
                      IF me.results[c].is = "pass" THEN me.results[c]
                      ELSE IF c \in passes \/ (c = "launch" /\ me.launcher /\ me.here)
                        THEN Verdict("pass", cursor.rev)
                      ELSE IF c \in Observed THEN Verdict(bad, 0)
                      ELSE Unknown[c]]]]
  BY <1>2, Zenon
<1> DEFINE base == baseline \/ (status = "running" /\ socket = "listening" /\ listed)
           listens == me.launcher /\ socket = "listening"
           job == IF listens THEN me.job ELSE 0
           looked == IF me.launcher THEN me.job ELSE 0
           clean == CleanResults(looked, status, socket, base)
           results == [c \in Criteria |->
                      IF me.results[c].is = "pass" THEN me.results[c]
                      ELSE IF c \in passes \/ (c = "launch" /\ me.launcher /\ me.here)
                        THEN Verdict("pass", cursor.rev)
                      ELSE IF c \in Observed THEN Verdict(bad, 0)
                      ELSE Unknown[c]]
           w == [Idle EXCEPT !.pc = "observed", !.rev = me.rev, !.listens = listens,
                   !.job = job, !.clean = clean, !.results = results]
<1>3. base \in BOOLEAN /\ baseline' = base /\ verify' = [verify EXCEPT ![v] = w]
  BY <1>1, <1>2a
<1>4. listens => me.launcher /\ me.target
  BY <1>2
<1>5. /\ clean \in SUBSET {"pass", "fail", "unknown", "not_evaluated"}
      /\ "pass" \in clean =>
           me.launcher /\ me.target /\ me.job # 0 /\ base /\ jobs[me.job] \notin {"running", "orphan"}
  <2>1. /\ clean \in SUBSET {"pass", "fail", "unknown", "not_evaluated"}
        /\ "pass" \in clean => looked # 0 /\ socket = "closed" /\ base
    <3> HIDE DEF looked, base, status
    <3> QED
      BY CleanResultsIs
  <2>2. socket = "closed" => me.target /\ ~alive
    BY <1>2
  <2> HIDE DEF clean, base
  <2> QED
    BY <2>1, <2>2
<1>6. /\ base /\ ~baseline => me.target /\ me.job # 0 /\ jobs[me.job] = "running"
      /\ baseline => base
  BY <1>2
<1>7. results \in Results
  <2>1. 0 \in Revs
    BY ConstantsAssumption DEF Revs
  <2>2. \A c \in Criteria : me.results[c] \in Result /\ Unknown[c] \in Result
    BY <1>1, Blanks DEF Verification, Results
  <2> QED
    BY <1>1, <2>1, <2>2, VerdictTypes DEF Results
<1>8. \A c \in Criteria : results[c].is = "pass" =>
        \/ me.results[c].is = "pass" /\ results[c] = me.results[c]
        \/ results[c].at = cursor.rev
  BY DEF Verdict, Unknown
<1>9. job \in 0..MaxLaunches /\ me.rev \in Revs /\ listens \in BOOLEAN
  <2>1. me.job \in 0..MaxLaunches /\ me.launcher \in BOOLEAN /\ me.rev \in Revs /\ 0 \in 0..MaxLaunches
    BY <1>1, ConstantsAssumption DEF Verification
  <2> QED
    BY <2>1
<1> HIDE DEF me, base, listens, clean, results
<1>10. /\ w \in Verification /\ w.pc = "observed" /\ w.rev = me.rev /\ w.listens = listens
       /\ w.job = job /\ w.clean = clean /\ w.results = results
  <2>1. Idle \in Verification
    BY Blanks
  <2> HIDE DEF job
  <2> QED
    BY <1>5, <1>7, <1>9, <2>1 DEF Verification, Idle
<1>11. listens => job = me.job
  OBVIOUS
<1> HIDE DEF job, w
<1>12. ObservedFrom(me, w)
  BY <1>1, <1>3, <1>4, <1>5, <1>6, <1>8, <1>10, <1>11 DEF ObservedFrom
<1> QED
  BY <1>3, <1>12 DEF me

\* What a verification me holds as w after its cleanup was judged as clean.
JudgedFrom(me, w, clean) ==
  /\ w \in Verification
  /\ w.pc = "cleaned" /\ w.rev = me.rev
  /\ w.listens = FALSE /\ w.clean = {}
  /\ \A c \in Criteria : w.results[c].is = "pass" =>
       \/ me.results[c].is = "pass" /\ w.results[c] = me.results[c]
       \/ w.results[c].at = cursor.rev

LEMMA JudgeIs ==
  ASSUME TypeOK, NEW v \in Verifiers, Judge(v)
  PROVE  \E clean \in verify[v].clean : \E w :
           /\ JudgedFrom(verify[v], w, clean)
           /\ verify' = [verify EXCEPT ![v] = w]
           /\ baseline' = (baseline /\ clean # "pass")
           /\ effect' = IF entry = "none" THEN effect ELSE EffectVerified(verify[v], clean)
<1> DEFINE me == verify[v]
<1>1. me \in Verification /\ cursor.rev \in Revs
  BY DEF TypeOK
<1>2. PICK clean \in me.clean :
          /\ baseline' = (baseline /\ clean # "pass")
          /\ effect' = IF entry = "none" THEN effect ELSE EffectVerified(me, clean)
          /\ verify' = [verify EXCEPT ![v] =
               [me EXCEPT !.pc = "cleaned", !.listens = FALSE, !.job = 0, !.clean = {},
                  !.results["clean"] = Verdict(clean, IF clean = "pass" THEN cursor.rev ELSE 0)]]
  BY DEF Judge
<1> DEFINE verdict == Verdict(clean, IF clean = "pass" THEN cursor.rev ELSE 0)
           w == [me EXCEPT !.pc = "cleaned", !.listens = FALSE, !.job = 0, !.clean = {},
                  !.results["clean"] = verdict]
           results == [me.results EXCEPT !["clean"] = verdict]
<1>3. verdict \in Result
  <2>1. 0 \in Revs /\ clean \in {"pass", "fail", "unknown", "not_evaluated"}
    BY <1>1, ConstantsAssumption DEF Revs, Verification
  <2> QED
    BY <1>1, <2>1, VerdictTypes
<1>4. verdict.is = "pass" => verdict.at = cursor.rev
  BY DEF Verdict
<1> HIDE DEF verdict
<1>5. "clean" \in Criteria /\ me.results \in Results
  BY <1>1 DEF Criteria, Verification
<1>6. /\ results \in Results
      /\ \A c \in Criteria : results[c] = IF c = "clean" THEN verdict ELSE me.results[c]
  BY <1>3, <1>5 DEF Results
<1>7. /\ w \in Verification /\ w.pc = "cleaned" /\ w.rev = me.rev
      /\ w.listens = FALSE /\ w.clean = {} /\ w.results = results
  <2>1. 0 \in 0..MaxLaunches
    BY ConstantsAssumption
  <2>2. results \in Results
    BY <1>6
  <2>4. w = [me EXCEPT !.pc = "cleaned", !.listens = FALSE, !.job = 0, !.clean = {},
                       !.results = results]
    OBVIOUS
  <2> HIDE DEF me, w, results
  <2>3. w = [pc |-> "cleaned", rev |-> me.rev, job |-> 0, launcher |-> me.launcher, here |-> me.here,
             target |-> me.target, listens |-> FALSE, clean |-> {}, results |-> results]
    BY <1>1, <2>4 DEF Verification
  <2> HIDE DEF w, results
  <2> QED
    BY <1>1, <2>1, <2>2, <2>3 DEF Verification
<1>8. JudgedFrom(me, w, clean)
  <2> HIDE DEF w, results, me
  <2> QED
    BY <1>4, <1>6, <1>7 DEF JudgedFrom
<1>9. verify' = [verify EXCEPT ![v] = w]
  BY <1>2 DEF verdict
<1> HIDE DEF w
<1> QED
  BY <1>2, <1>8, <1>9

LEMMA RecordResultTypes ==
  ASSUME TypeOK, RecordResult
  PROVE  TypeOK'
<1> DEFINE is == Head(tail)[1]
           c == Head(tail)[2]
<1>1. Head(tail) \in Reports /\ Tail(tail) \in Seq(Reports)
  BY DEF RecordResult, TypeOK
<1>2. is \in {"started", "lost", "denied", "url"} /\ c \in Launches
  BY <1>1 DEF Reports
<1>3. EffectAfter(is) \in {"unknown", "possible"}
  BY DEF EffectAfter
<1> HIDE DEF is, c
<1>4. CASE is = "url"
  <2>1. targets' \subseteq Launches /\ effect' \in {"none", "unknown", "possible", "confirmed"}
        /\ UNCHANGED <<rows, owned>>
    BY <1>2, <1>4 DEF RecordResult, TypeOK, is, c
  <2> QED
    BY <1>1, <2>1 DEF RecordResult, TypeOK
<1>5. CASE is # "url"
  <2>1. /\ owned' \subseteq Launches
        /\ rows' \in [Launches -> {"none", "unknown", "possible", "confirmed"}]
        /\ effect' \in {"none", "unknown", "possible", "confirmed"}
        /\ UNCHANGED targets
    BY <1>2, <1>3, <1>5 DEF RecordResult, TypeOK, is, c
  <2> QED
    BY <1>1, <2>1 DEF RecordResult, TypeOK
<1> QED
  BY <1>4, <1>5

\* The verdict on a run.
LEMMA OutcomeTypes ==
  ASSUME NEW results, NEW state
  PROVE  SettlementOutcome(results, state) \in Outcome \ {"none"}
BY DEF SettlementOutcome, Outcome

LEMMA StepTypes == TypeOK /\ [Next]_vars => TypeOK'
<1> SUFFICES ASSUME TypeOK, [Next]_vars PROVE TypeOK'
  OBVIOUS
<1>1. ASSUME NEW here \in BOOLEAN, Pause(here) \/ Resume(here) \/ Abort(here) \/ Deviate(here)
                                   \/ Advance(here)
      PROVE  TypeOK'
  <2>1. cursor.step \in Steps /\ (cursor.step # StepCount => cursor.step + 1 \in Steps)
    BY ConstantsAssumption DEF TypeOK, Steps
  <2>2. {"paused", "running", "aborted", "completed"} \subseteq CursorState
    BY DEF CursorState
  <2> QED
    BY <1>1, <2>1, <2>2, MovesTypes DEF Pause, Resume, Abort, Deviate, Advance
<1>2. ASSUME NEW here \in BOOLEAN, Settle(here) PROVE TypeOK'
  <2>1. usageState' \in Outcome \ {"none"} /\ settlement' \in [outcome: Outcome, passed: SUBSET Criteria]
    BY <1>2, OutcomeTypes DEF Settle, Settles
  <2> QED
    BY <1>2, <2>1 DEF Settle, TypeOK, Finish, Keep
<1>3. ASSUME NEW v \in Verifiers, NEW here \in BOOLEAN, Snapshot(v, here) PROVE TypeOK'
  <2>1. verify' = [verify EXCEPT ![v] = Snapped(v, here)]
    BY <1>3, SnapshotSnaps
  <2>2. Snapped(v, here) \in Verification
    BY SnappedIs
  <2>3. verify' \in [Verifiers -> Verification]
    BY <2>1, <2>2 DEF TypeOK
  <2>4. UNCHANGED <<database, entry, effect, owned, targets, tail, baseline, closing, jobs>>
    BY <1>3 DEF Snapshot
  <2> QED
    BY <2>3, <2>4 DEF TypeOK, database
<1>4. ASSUME NEW v \in Verifiers, Observe(v) PROVE TypeOK'
  <2>1. verify' \in [Verifiers -> Verification] /\ baseline' \in BOOLEAN
    BY <1>4, ObserveIs DEF ObservedFrom, TypeOK
  <2>2. UNCHANGED <<database, entry, effect, owned, targets, tail, closing, jobs>>
    BY <1>4 DEF Observe
  <2> QED
    BY <2>1, <2>2 DEF TypeOK, database
<1>5. ASSUME NEW v \in Verifiers, Judge(v) PROVE TypeOK'
  <2>1. rows' \in [Launches -> {"none", "unknown", "possible", "confirmed"}]
    BY <1>5 DEF Judge, TypeOK
  <2>2. baseline' \in BOOLEAN /\ effect' \in {"none", "unknown", "possible", "confirmed"}
    BY <1>5, JudgeIs DEF EffectVerified, TypeOK
  <2>3. verify' \in [Verifiers -> Verification]
    BY <1>5, JudgeIs DEF JudgedFrom, TypeOK
  <2> QED
    BY <1>5, <2>1, <2>2, <2>3 DEF Judge, TypeOK
<1>6. ASSUME NEW v \in Verifiers, RecordVerification(v) PROVE TypeOK'
  <2>1. verify[v].rev \in Revs /\ verify[v].results \in Results
    BY DEF TypeOK, Verification
  <2> QED
    BY <1>6, <2>1, Blanks DEF RecordVerification, TypeOK
<1>7. ASSUME NEW v \in Verifiers, VerifyFails(v) PROVE TypeOK'
  BY <1>7, Blanks DEF VerifyFails, TypeOK, database
<1>8. ASSUME NEW c \in Launches, Launch(c) PROVE TypeOK'
  <2>1. PICK is \in {"started", "lost", "denied"} : tail' = Append(tail, <<is, c>>)
    BY <1>8 DEF Launch
  <2>2. <<is, c>> \in Reports
    BY DEF Reports
  <2>3. tail' \in Seq(Reports)
    BY <2>1, <2>2 DEF TypeOK
  <2>4. jobs' \in [Launches -> {"none", "running", "orphan", "gone"}]
    BY <1>8 DEF Launch, TypeOK
  <2> QED
    BY <1>8, <2>3, <2>4 DEF Launch, TypeOK, database
<1>9. ASSUME NEW c \in Launches, ReadOutput(c) PROVE TypeOK'
  <2>1. <<"url", c>> \in Reports
    BY DEF Reports
  <2>2. tail' \in Seq(Reports)
    BY <1>9, <2>1 DEF TypeOK, ReadOutput
  <2> QED
    BY <1>9, <2>2 DEF ReadOutput, TypeOK, database
<1>10. ASSUME NEW c \in Launches, JobEnds(c) PROVE TypeOK'
  BY <1>10 DEF JobEnds, TypeOK, database, memory
<1>11. CASE TurnAborted \/ CloseBegins \/ CloseFails
  BY <1>11 DEF TurnAborted, CloseBegins, CloseFails, TypeOK, database
<1>12. CASE CloseStarts
  <2>1. 1 \in Revs /\ 1 \in Steps /\ "ready" \in CursorState
    BY ConstantsAssumption DEF Revs, Steps, CursorState
  <2> QED
    BY <1>12, <2>1 DEF CloseStarts, TypeOK, memory
<1>13. CASE CloseSettles
  <2>1. run' \in [rev: Revs, results: Results]
    BY <1>13, Blanks DEF CloseSettles, TypeOK
  <2>2. /\ usageState' \in {"context_prepared", "in_progress", "settling"} \cup (Outcome \ {"none"})
        /\ settlement' \in [outcome: Outcome, passed: SUBSET Criteria]
    BY <1>13 DEF CloseSettles, Settles, TypeOK, Outcome
  <2> QED
    BY <1>13, <2>1, <2>2 DEF CloseSettles, TypeOK, Finish
<1>14. CASE HostRestarts
  <2>1. tail' \in Seq(Reports)
    BY <1>14 DEF HostRestarts
  <2>2. verify' \in [Verifiers -> Verification]
    BY <1>14, Blanks DEF HostRestarts
  <2> QED
    BY <1>14, <2>1, <2>2 DEF HostRestarts, TypeOK, database
<1>15. CASE UNCHANGED vars
  BY <1>15 DEF vars, database, memory, TypeOK
<1> QED
  BY <1>1, <1>2, <1>3, <1>4, <1>5, <1>6, <1>7, <1>8, <1>9, <1>10, <1>11, <1>12, <1>13, <1>14,
     <1>15, RecordResultTypes DEF Next, OwnerStep, VerifyStep, ToolStep, SessionStep

\* Every reachable state is typed: no interleaving of commands, verifications
\* and restarts stores a cursor, run, settlement or memory the code cannot read.
THEOREM TypeInvariant == Spec => []TypeOK
BY InitTypes, StepTypes, PTL DEF Spec

-----------------------------------------------------------------------------
\* Evidence.

\* A pass is not older than what holds it, nor younger than the cursor.
PassesBetween(results, rev) ==
  \A c \in Criteria : results[c].is = "pass" => rev <= results[c].at /\ results[c].at <= cursor.rev

EvidenceInv ==
  /\ run.rev <= cursor.rev
  /\ FreshPasses
  /\ \A v \in Verifiers : verify[v].rev <= cursor.rev /\ PassesBetween(verify[v].results, verify[v].rev)
  /\ SuccessIsEarned

LEMMA InitEvidence == Init => EvidenceInv
BY DEF Init, NoCursor, NoRun, NoSettlement, Idle, Unknown, Verdict, EvidenceInv, FreshPasses,
   PassesBetween, SuccessIsEarned

\* The revisions that are compared are numbers.
LEMMA RevTypes ==
  ASSUME TypeOK
  PROVE  /\ cursor.rev \in Nat /\ run.rev \in Nat
         /\ \A v \in Verifiers : verify[v].rev \in Nat
         /\ \A v \in Verifiers, c \in Criteria : verify[v].results[c].at \in Nat
         /\ \A c \in Criteria : run.results[c] \in Result
<1>1. \A x \in Revs : x \in Nat
  BY ConstantsAssumption DEF Revs
<1>2. \A v \in Verifiers : verify[v].rev \in Revs /\ verify[v].results \in Results
  BY DEF TypeOK, Verification
<1>3. \A r \in Results, c \in Criteria : r[c] \in Result /\ r[c].at \in Revs
  BY DEF Results, Result
<1> QED
  BY <1>1, <1>2, <1>3 DEF TypeOK

\* The cursor moves on; nothing is recorded or settled.
LEMMA EvidenceKept ==
  ASSUME TypeOK, TypeOK', EvidenceInv, cursor.rev <= cursor'.rev, run' = run,
         \A v \in Verifiers : verify'[v] \in {verify[v], Idle},
         settlement' = settlement, settlement.outcome = "success" => cursor' = cursor
  PROVE  EvidenceInv'
<1>1. cursor'.rev \in Nat
  BY ConstantsAssumption DEF TypeOK, Revs
<1>2. run.rev <= cursor'.rev
  BY <1>1, RevTypes DEF EvidenceInv
<1>3. FreshPasses'
  BY DEF EvidenceInv, FreshPasses
<1>4. ASSUME NEW v \in Verifiers
      PROVE  verify'[v].rev <= cursor'.rev /\ PassesBetween(verify[v].results, verify[v].rev)'
  <2>1. CASE verify'[v] = verify[v]
    BY <1>1, <2>1, RevTypes DEF EvidenceInv, PassesBetween
  <2>2. CASE verify'[v] = Idle
    BY <1>1, <2>2 DEF Idle, PassesBetween, Unknown, Verdict
  <2> QED
    BY <1>4, <2>1, <2>2
<1>5. SuccessIsEarned'
  BY DEF EvidenceInv, SuccessIsEarned
<1> QED
  BY <1>2, <1>3, <1>4, <1>5 DEF EvidenceInv

\* A verification goes on, and what it newly passes it saw just now.
LEMMA EvidenceSeen ==
  ASSUME TypeOK, TypeOK', EvidenceInv, UNCHANGED <<cursor, run, settlement>>,
         NEW v \in Verifiers, NEW w, verify' = [verify EXCEPT ![v] = w],
         w.rev = verify[v].rev,
         \A c \in Criteria : w.results[c].is = "pass" =>
           \/ verify[v].results[c].is = "pass" /\ w.results[c] = verify[v].results[c]
           \/ w.results[c].at = cursor.rev
  PROVE  EvidenceInv'
<1>1. \A x \in Verifiers : verify'[x] = IF x = v THEN w ELSE verify[x]
  BY DEF TypeOK
<1>2. PassesBetween(w.results, w.rev)
  BY RevTypes DEF EvidenceInv, PassesBetween
<1>3. ASSUME NEW x \in Verifiers
      PROVE  verify'[x].rev <= cursor'.rev /\ PassesBetween(verify[x].results, verify[x].rev)'
  BY <1>1, <1>2 DEF EvidenceInv, PassesBetween
<1>4. FreshPasses' /\ SuccessIsEarned'
  BY DEF EvidenceInv, FreshPasses, SuccessIsEarned
<1> QED
  BY <1>3, <1>4 DEF EvidenceInv

LEMMA StepEvidence == TypeOK /\ EvidenceInv /\ [Next]_vars => EvidenceInv'
<1> SUFFICES ASSUME TypeOK, EvidenceInv, [Next]_vars PROVE EvidenceInv'
  OBVIOUS
<1>0. TypeOK' /\ cursor.rev \in Nat /\ cursor.rev <= cursor.rev
  BY StepTypes, RevTypes
<1>1. ASSUME NEW here \in BOOLEAN, Pause(here) \/ Resume(here) \/ Abort(here) \/ Deviate(here)
                                   \/ Advance(here)
      PROVE  EvidenceInv'
  <2>1. /\ cursor.state \notin Terminal /\ cursor'.rev = cursor.rev + 1
        /\ UNCHANGED <<run, settlement, verify>>
    BY <1>1 DEF Pause, Resume, Abort, Deviate, Advance, Moves
  <2>2. settlement.outcome # "success"
    BY <2>1 DEF EvidenceInv, SuccessIsEarned, Terminal
  <2> QED
    BY <1>0, <2>1, <2>2, EvidenceKept
<1>2. ASSUME NEW here \in BOOLEAN, Settle(here) PROVE EvidenceInv'
  <2>1. /\ settlement'.outcome = SettlementOutcome(run.results, cursor.state)
        /\ settlement'.passed = {c \in Criteria : run.results[c] = Verdict("pass", cursor.rev)}
        /\ run.rev = cursor.rev
        /\ UNCHANGED <<cursor, run, verify>>
    BY <1>2 DEF Settle, Settles, RunMatchesCursor
  <2>2. ASSUME settlement'.outcome = "success"
        PROVE  cursor.state = "completed" /\ settlement'.passed = Criteria
    <3>1. cursor.state = "completed" /\ \A c \in Criteria : run.results[c].is = "pass"
      BY <2>1, <2>2 DEF SettlementOutcome
    <3>2. \A c \in Criteria : run.results[c] = Verdict("pass", cursor.rev)
      BY <2>1, <3>1, RevTypes DEF EvidenceInv, FreshPasses, Result, Verdict
    <3> QED
      BY <2>1, <3>1, <3>2
  <2>3. SuccessIsEarned'
    BY <2>1, <2>2 DEF SuccessIsEarned
  <2> QED
    BY <2>1, <2>3 DEF EvidenceInv, FreshPasses, PassesBetween
<1>3. ASSUME NEW v \in Verifiers, NEW here \in BOOLEAN, Snapshot(v, here) PROVE EvidenceInv'
  <2> DEFINE me == Snapped(v, here)
  <2>1. /\ UNCHANGED <<cursor, run, settlement>> /\ verify' = [verify EXCEPT ![v] = me]
        /\ \A x \in Verifiers : verify'[x] = IF x = v THEN me ELSE verify[x]
    <3>1. UNCHANGED <<cursor, run, settlement>>
      BY <1>3 DEF Snapshot, database
    <3>2. verify' = [verify EXCEPT ![v] = me]
      BY <1>3, SnapshotSnaps
    <3> HIDE DEF me
    <3> QED
      BY <3>1, <3>2 DEF TypeOK
  <2>2. me.rev = cursor.rev /\ \A c \in Criteria : me.results[c] =
                     IF c \in Observed /\ Preserved(c) THEN run.results[c] ELSE Unknown[c]
    BY SnappedIs
  <2> HIDE DEF me
  <2>3. PassesBetween(me.results, me.rev)
    BY <1>0, <2>2 DEF PassesBetween, Preserved, EvidenceInv, FreshPasses, Unknown, Verdict
  <2>4. ASSUME NEW x \in Verifiers
        PROVE  verify'[x].rev <= cursor'.rev /\ PassesBetween(verify[x].results, verify[x].rev)'
    BY <1>0, <2>1, <2>2, <2>3 DEF EvidenceInv, PassesBetween
  <2> QED
    BY <2>1, <2>4 DEF EvidenceInv, FreshPasses, SuccessIsEarned
<1>4. ASSUME NEW v \in Verifiers, Observe(v) PROVE EvidenceInv'
  <2>1. PICK w : ObservedFrom(verify[v], w) /\ verify' = [verify EXCEPT ![v] = w]
    BY <1>4, ObserveIs
  <2>2. UNCHANGED <<cursor, run, settlement>>
    BY <1>4 DEF Observe, database
  <2>3. /\ w.rev = verify[v].rev
        /\ \A c \in Criteria : w.results[c].is = "pass" =>
             \/ verify[v].results[c].is = "pass" /\ w.results[c] = verify[v].results[c]
             \/ w.results[c].at = cursor.rev
    BY <2>1 DEF ObservedFrom
  <2> QED
    BY <1>0, <2>1, <2>2, <2>3, EvidenceSeen
<1>5. ASSUME NEW v \in Verifiers, Judge(v) PROVE EvidenceInv'
  <2>1. PICK clean, w : JudgedFrom(verify[v], w, clean) /\ verify' = [verify EXCEPT ![v] = w]
    BY <1>5, JudgeIs
  <2>2. UNCHANGED <<cursor, run, settlement>>
    BY <1>5 DEF Judge
  <2> QED
    BY <1>0, <2>1, <2>2, EvidenceSeen DEF JudgedFrom
<1>6. ASSUME NEW v \in Verifiers, RecordVerification(v) PROVE EvidenceInv'
  <2>1. \A x \in Verifiers : verify'[x] \in {verify[x], Idle}
    BY <1>6 DEF RecordVerification, TypeOK
  <2>2. UNCHANGED <<cursor, settlement>>
    BY <1>6 DEF RecordVerification
  <2>3. CASE run' = run
    BY <1>0, <2>1, <2>2, <2>3, EvidenceKept
  <2>4. CASE run' # run
    <3>1. cursor.rev = verify[v].rev
          /\ run' = [rev |-> verify[v].rev, results |-> verify[v].results]
      BY <1>6, <2>4 DEF RecordVerification, RunIsCurrent
    <3>2. run'.rev = cursor.rev /\ FreshPasses'
      BY <3>1, RevTypes DEF EvidenceInv, PassesBetween, FreshPasses
    <3>3. ASSUME NEW x \in Verifiers
          PROVE  verify'[x].rev <= cursor'.rev /\ PassesBetween(verify[x].results, verify[x].rev)'
      BY <1>0, <2>1, <2>2 DEF EvidenceInv, PassesBetween, Idle, Unknown, Verdict
    <3> QED
      BY <1>0, <2>2, <3>2, <3>3 DEF EvidenceInv, SuccessIsEarned
  <2> QED
    BY <2>3, <2>4
<1>7. ASSUME NEW v \in Verifiers, VerifyFails(v) PROVE EvidenceInv'
  BY <1>0, <1>7, EvidenceKept DEF VerifyFails, database, TypeOK
<1>8. ASSUME NEW c \in Launches, ToolStep(c) PROVE EvidenceInv'
  BY <1>0, <1>8, EvidenceKept DEF ToolStep, Launch, ReadOutput, JobEnds, database, memory
<1>9. CASE RecordResult \/ TurnAborted \/ CloseBegins \/ CloseFails
  BY <1>0, <1>9, EvidenceKept DEF RecordResult, TurnAborted, CloseBegins, CloseFails, database
<1>10. CASE CloseStarts
  <2>1. cursor.rev = 0 /\ cursor.state # "completed" /\ cursor'.rev = 1
        /\ UNCHANGED <<run, settlement, verify>>
    BY <1>10 DEF CloseStarts, NoCursor, memory
  <2> QED
    BY <1>0, <2>1, EvidenceKept DEF EvidenceInv, SuccessIsEarned
<1>11. CASE CloseSettles
  <2>1. UNCHANGED <<cursor, verify>>
    BY <1>11 DEF CloseSettles
  <2>2. CASE UNCHANGED <<run, settlement>>
    BY <1>0, <2>1, <2>2, EvidenceKept
  <2>3. CASE ~UNCHANGED <<run, settlement>>
    <3>1. run' = [rev |-> cursor.rev, results |-> Unknown] /\ settlement'.outcome # "success"
      BY <1>11, <2>3 DEF CloseSettles, Settles
    <3> QED
      BY <1>0, <2>1, <3>1 DEF EvidenceInv, FreshPasses, SuccessIsEarned, PassesBetween, Unknown, Verdict
  <2> QED
    BY <2>2, <2>3
<1>12. CASE HostRestarts
  BY <1>0, <1>12, EvidenceKept DEF HostRestarts, database, TypeOK
<1>13. CASE UNCHANGED vars
  BY <1>0, <1>13, EvidenceKept DEF vars, database, memory
<1> QED
  BY <1>1, <1>2, <1>3, <1>4, <1>5, <1>6, <1>7, <1>8, <1>9, <1>10, <1>11, <1>12, <1>13
  DEF Next, OwnerStep, VerifyStep, SessionStep

\* Whatever is kept from earlier runs and however long readbacks take, every
\* pass of a stored run was seen at the run's revision of the cursor, and a
\* usage settles as a success only completed, with every criterion passed at
\* that revision; nothing moves its cursor later.
THEOREM SuccessIsEarnedAlways == Spec => []SuccessEarned
<1>1. EvidenceInv => SuccessEarned
  BY DEF EvidenceInv, SuccessEarned
<1> QED
  BY <1>1, InitEvidence, StepEvidence, TypeInvariant, PTL DEF Spec

-----------------------------------------------------------------------------
\* What is settled.

\* A settlement is written once and a cursor that ended stays where it ended,
\* whichever process settles, moves or closes the usage, and across restarts.
THEOREM SettledForGood == Spec => Finality
<1> DEFINE Final == /\ settlement # NoSettlement => settlement' = settlement
                    /\ cursor.state \in Terminal => cursor' = cursor
<1>1. [Next]_vars => [Final]_vars
  <2> SUFFICES ASSUME [Next]_vars PROVE Final
    OBVIOUS
  <2>1. ASSUME NEW here \in BOOLEAN, OwnerStep(here) PROVE Final
    BY <2>1 DEF OwnerStep, Pause, Resume, Abort, Deviate, Advance, Moves, Settle, NotSettled,
                Snapshot, database
  <2>2. ASSUME NEW v \in Verifiers, VerifyStep(v) PROVE Final
    BY <2>2 DEF VerifyStep, Observe, Judge, RecordVerification, VerifyFails, database
  <2>3. ASSUME NEW c \in Launches, ToolStep(c) PROVE Final
    BY <2>3 DEF ToolStep, Launch, ReadOutput, JobEnds, database
  <2>4. CASE SessionStep
    <3>1. NoCursor.state \notin Terminal
      BY DEF NoCursor, Terminal
    <3> QED
      BY <2>4, <3>1 DEF SessionStep, RecordResult, TurnAborted, CloseBegins, CloseStarts,
         CloseSettles, NotSettled, CloseFails, HostRestarts, database
  <2>5. CASE UNCHANGED vars
    BY <2>5 DEF vars, database
  <2> QED
    BY <2>1, <2>2, <2>3, <2>4, <2>5 DEF Next
<1> QED
  BY <1>1, PTL DEF Spec, Finality

-----------------------------------------------------------------------------
\* What the Host remembers of the agent's launches.

Alive(c) == jobs[c] \in {"running", "orphan"}
AllDead == \A c \in owned : ~Alive(c)

\* The job that a verification takes for the launcher's.
Latest(c) == c \in Refs /\ \A x \in Refs : x <= c

\* A launch has succeeded and the memory does not know of it yet.
Starting == \E c \in Launches : tail = <<<<"started", c>>>>

\* The agent waits for the record of its last call: the queue holds one result
\* at most, and the launch of it is in no memory.
OneQueued ==
  /\ tail # <<>> => \E r \in Reports : tail = <<r>>
  /\ \A c \in Launches, is \in {"started", "lost", "denied"} : tail = <<<<is, c>>>> =>
       c \notin owned /\ rows[c] = "none" /\ (is = "started" => jobs[c] # "none")

\* A verification that took its job from the correlation finds it there still.
JobKnown(me) ==
  /\ me.pc = "snapped" /\ me.launcher => me.job \in Refs
  /\ me.pc = "observed" /\ me.listens => me.job \in Refs

MemoryInv ==
  /\ targets \subseteq owned
  /\ \A c \in owned : jobs[c] # "none"
  /\ OneQueued
  /\ \A v \in Verifiers : JobKnown(verify[v])

LEMMA OneResult ==
  ASSUME NEW r \in Reports
  PROVE  /\ Append(<<>>, r) = <<r>> /\ <<r>> # <<>> /\ Head(<<r>>) = r /\ Tail(<<r>>) = <<>>
         /\ \A s \in Reports : <<r>> = <<s>> => r = s
<1>1. <<r>> # <<>> /\ Head(<<r>>) = r /\ Tail(<<r>>) = <<>>
  OBVIOUS
<1>2. Append(<<>>, r) = <<r>>
  OBVIOUS
<1>3. ASSUME NEW s \in Reports, <<r>> = <<s>> PROVE r = s
  <2>1. <<r>>[1] = <<s>>[1]
    BY <1>3
  <2> QED BY <2>1
<1> QED BY <1>1, <1>2, <1>3

LEMMA InitMemory == Init => MemoryInv
BY DEF Init, MemoryInv, OneQueued, JobKnown, Idle

\* No result is queued or recorded, and verifications only end.
LEMMA MemoryKept ==
  ASSUME MemoryInv, rows' = rows, tail' \in {tail, <<>>},
         \/ UNCHANGED <<owned, targets>>
         \/ owned' = {} /\ targets' = {},
         \A c \in Launches : jobs[c] # "none" => jobs'[c] # "none",
         owned \subseteq Launches,
         \A v \in Verifiers : verify'[v] = verify[v] \/ verify'[v].pc \in {"idle", "cleaned"}
  PROVE  MemoryInv'
<1>1. targets' \subseteq owned' /\ \A c \in owned' : jobs'[c] # "none"
  BY DEF MemoryInv
<1>2. OneQueued'
  <2>1. CASE tail' = <<>>
    <3>1. \A r : <<r>> # <<>>
      OBVIOUS
    <3> QED
      BY <2>1, <3>1 DEF OneQueued
  <2>2. CASE tail' = tail
    BY <2>2 DEF MemoryInv, OneQueued
  <2> QED
    BY <2>1, <2>2
<1>3. Refs' = Refs
  BY DEF Refs
<1>4. \A v \in Verifiers : JobKnown(verify[v])'
  BY <1>3 DEF MemoryInv, JobKnown
<1> QED
  BY <1>1, <1>2, <1>4 DEF MemoryInv

\* One call of the agent's goes through the queue at a time.
LEMMA Queues ==
  ASSUME TypeOK, NEW is \in {"started", "lost", "denied", "url"}, NEW c \in Launches,
         tail = <<>>, tail' = Append(tail, <<is, c>>)
  PROVE  /\ tail' = <<<<is, c>>>> /\ tail' # <<>>
         /\ \A k \in {"started", "lost", "denied", "url"}, d \in Launches :
              tail' = <<<<k, d>>>> => k = is /\ d = c
<1>1. <<is, c>> \in Reports
  BY DEF Reports
<1>2. tail' = <<<<is, c>>>> /\ tail' # <<>>
  BY <1>1, OneResult
<1>3. ASSUME NEW k \in {"started", "lost", "denied", "url"}, NEW d \in Launches,
             tail' = <<<<k, d>>>>
      PROVE  k = is /\ d = c
  <2>1. <<k, d>> \in Reports
    BY DEF Reports
  <2>2. <<is, c>> = <<k, d>>
    BY <1>1, <1>2, <1>3, <2>1, OneResult
  <2> QED
    BY <2>2
<1> QED
  BY <1>2, <1>3

\* The recorded result was the only one.
LEMMA Dequeues ==
  ASSUME TypeOK, OneQueued, RecordResult
  PROVE  \E is \in {"started", "lost", "denied", "url"}, c \in Launches :
           tail = <<<<is, c>>>> /\ Head(tail)[1] = is /\ Head(tail)[2] = c /\ tail' = <<>>
<1>1. PICK r \in Reports : tail = <<r>>
  BY DEF RecordResult, OneQueued
<1>2. Head(tail) = r /\ tail' = <<>>
  BY <1>1, OneResult DEF RecordResult
<1>3. PICK is \in {"started", "lost", "denied", "url"}, c \in Launches : r = <<is, c>>
  BY DEF Reports
<1> QED
  BY <1>1, <1>2, <1>3

LEMMA StepMemory == TypeOK /\ MemoryInv /\ [Next]_vars => MemoryInv'
<1> SUFFICES ASSUME TypeOK, MemoryInv, [Next]_vars PROVE MemoryInv'
  OBVIOUS
<1>0. owned \subseteq Launches
  BY DEF TypeOK
<1>1. ASSUME NEW here \in BOOLEAN, Pause(here) \/ Resume(here) \/ Abort(here) \/ Deviate(here)
                                   \/ Advance(here) \/ Settle(here)
      PROVE  MemoryInv'
  <2>1. /\ UNCHANGED <<rows, tail, jobs, verify>>
        /\ UNCHANGED <<owned, targets>> \/ (owned' = {} /\ targets' = {})
    BY <1>1 DEF Pause, Resume, Abort, Deviate, Advance, Moves, Settle, Finish, Keep
  <2> QED
    BY <1>0, <2>1, MemoryKept
<1>2. ASSUME NEW v \in Verifiers, NEW here \in BOOLEAN, Snapshot(v, here) PROVE MemoryInv'
  <2>1. UNCHANGED <<rows, owned, targets, tail, jobs>>
    BY <1>2 DEF Snapshot, database
  <2>2. Refs' = Refs
    BY <2>1 DEF Refs
  <2> DEFINE me == Snapped(v, here)
  <2>3. me.pc = "snapped" /\ (me.launcher => me.job \in Refs)
    BY SnappedIs, JobOfIs
  <2>4. verify' = [verify EXCEPT ![v] = me]
    BY <1>2, SnapshotSnaps
  <2> HIDE DEF me
  <2>5. \A x \in Verifiers : verify'[x] = IF x = v THEN me ELSE verify[x]
    BY <2>4 DEF TypeOK
  <2>6. \A x \in Verifiers : JobKnown(verify[x])'
    BY <2>2, <2>3, <2>5 DEF MemoryInv, JobKnown
  <2> QED
    BY <2>1, <2>6 DEF MemoryInv, OneQueued
<1>3. ASSUME NEW v \in Verifiers, Observe(v) PROVE MemoryInv'
  <2>1. UNCHANGED <<rows, owned, targets, tail, jobs>>
    BY <1>3 DEF Observe, database
  <2>2. Refs' = Refs
    BY <2>1 DEF Refs
  <2>3. PICK w : ObservedFrom(verify[v], w) /\ verify' = [verify EXCEPT ![v] = w]
    BY <1>3, ObserveIs
  <2>4. /\ w.pc = "observed"
        /\ w.listens => verify[v].launcher /\ w.job = verify[v].job
    BY <2>3 DEF ObservedFrom
  <2>5. \A x \in Verifiers : verify'[x] = IF x = v THEN w ELSE verify[x]
    BY <2>3 DEF TypeOK
  <2>6. verify[v].pc = "snapped"
    BY <1>3 DEF Observe
  <2>7. \A x \in Verifiers : JobKnown(verify[x])'
    BY <2>2, <2>4, <2>5, <2>6 DEF MemoryInv, JobKnown
  <2> QED
    BY <2>1, <2>7 DEF MemoryInv, OneQueued
<1>4. ASSUME NEW v \in Verifiers, Judge(v) PROVE MemoryInv'
  <2>1. /\ UNCHANGED <<owned, targets, tail, jobs>>
        /\ verify[v].pc = "observed"
        /\ rows' = IF verify[v].listens THEN [rows EXCEPT ![verify[v].job] = "confirmed"] ELSE rows
    BY <1>4 DEF Judge
  <2>2. verify[v].listens => verify[v].job \in Refs
    BY <2>1 DEF MemoryInv, JobKnown
  <2>3. Refs' = Refs /\ \A c \in Launches : rows[c] = "none" => rows'[c] = "none"
    BY <2>1, <2>2 DEF Refs, TypeOK
  <2>4. PICK clean, w : JudgedFrom(verify[v], w, clean) /\ verify' = [verify EXCEPT ![v] = w]
    BY <1>4, JudgeIs
  <2>5. \A x \in Verifiers : verify'[x] = IF x = v THEN w ELSE verify[x]
    BY <2>4 DEF TypeOK
  <2>6. w.pc = "cleaned"
    BY <2>4 DEF JudgedFrom
  <2>7. \A x \in Verifiers : JobKnown(verify[x])'
    BY <2>3, <2>5, <2>6 DEF MemoryInv, JobKnown
  <2> QED
    BY <2>1, <2>3, <2>7 DEF MemoryInv, OneQueued
<1>5. ASSUME NEW v \in Verifiers, RecordVerification(v) \/ VerifyFails(v) PROVE MemoryInv'
  <2>1. UNCHANGED <<rows, owned, targets, tail, jobs>>
    BY <1>5 DEF RecordVerification, VerifyFails, database
  <2>2. \A x \in Verifiers : verify'[x] = verify[x] \/ verify'[x].pc \in {"idle", "cleaned"}
    BY <1>5 DEF RecordVerification, VerifyFails, TypeOK, Idle
  <2> QED
    BY <1>0, <2>1, <2>2, MemoryKept
<1>6. ASSUME NEW c \in Launches, Launch(c) PROVE MemoryInv'
  <2>1. PICK is \in {"started", "lost", "denied"} :
          /\ tail' = Append(tail, <<is, c>>)
          /\ jobs' = IF is = "denied" THEN jobs ELSE [jobs EXCEPT ![c] = "running"]
    BY <1>6 DEF Launch
  <2>2. /\ UNCHANGED <<rows, owned, targets, verify>> /\ tail = <<>>
        /\ Launched = 1..c - 1
    BY <1>6 DEF Launch, database, Quiet
  <2>3. jobs[c] = "none" /\ rows[c] = "none"
    <3>1. c \notin Launched
      BY <2>2 DEF Launches
    <3> QED
      BY <3>1 DEF Launched
  <2>4. c \notin owned
    BY <2>3 DEF MemoryInv
  <2>5. /\ tail' = <<<<is, c>>>>
        /\ \A k \in {"started", "lost", "denied", "url"}, d \in Launches :
             tail' = <<<<k, d>>>> => k = is /\ d = c
    BY <2>1, <2>2, Queues
  <2>6. OneQueued'
    <3>1. <<is, c>> \in Reports
      BY DEF Reports
    <3>2. is = "started" => jobs'[c] # "none"
      BY <2>1 DEF TypeOK
    <3> QED
      BY <2>2, <2>3, <2>4, <2>5, <3>1, <3>2 DEF OneQueued
  <2>7. Refs' = Refs /\ \A d \in owned : jobs'[d] # "none"
    BY <1>0, <2>1, <2>2 DEF Refs, MemoryInv, TypeOK
  <2> QED
    BY <2>2, <2>6, <2>7 DEF MemoryInv, JobKnown
<1>7. ASSUME NEW c \in Launches, ReadOutput(c) PROVE MemoryInv'
  <2>1. /\ tail' = Append(tail, <<"url", c>>) /\ tail = <<>>
        /\ UNCHANGED <<rows, owned, targets, verify, jobs>>
    BY <1>7 DEF ReadOutput, database, Quiet
  <2>2. /\ tail' = <<<<"url", c>>>>
        /\ \A k \in {"started", "lost", "denied", "url"}, d \in Launches :
             tail' = <<<<k, d>>>> => k = "url" /\ d = c
    BY <2>1, Queues
  <2>3. OneQueued'
    <3>1. <<"url", c>> \in Reports
      BY DEF Reports
    <3> QED
      BY <2>2, <3>1 DEF OneQueued
  <2>4. Refs' = Refs
    BY <2>1 DEF Refs
  <2> QED
    BY <2>1, <2>3, <2>4 DEF MemoryInv, JobKnown
<1>8. ASSUME NEW c \in Launches, JobEnds(c) PROVE MemoryInv'
  <2>1. UNCHANGED <<rows, owned, targets, tail, verify>>
    BY <1>8 DEF JobEnds, database, memory
  <2>2. \A d \in Launches : jobs[d] # "none" => jobs'[d] # "none"
    BY <1>8 DEF JobEnds, TypeOK
  <2> QED
    BY <1>0, <2>1, <2>2, MemoryKept
<1>9. CASE RecordResult
  <2>1. PICK is \in {"started", "lost", "denied", "url"}, c \in Launches :
          tail = <<<<is, c>>>> /\ Head(tail)[1] = is /\ Head(tail)[2] = c /\ tail' = <<>>
    BY <1>9, Dequeues DEF MemoryInv
  <2>2. UNCHANGED <<verify, jobs>>
    BY <1>9 DEF RecordResult
  <2>3. OneQueued'
    <3>1. \A r : <<r>> # <<>>
      OBVIOUS
    <3> QED
      BY <2>1, <3>1 DEF OneQueued
  <2>4. /\ targets' \subseteq owned' /\ owned' \subseteq owned \cup {c}
        /\ owned' # owned => is = "started"
        /\ targets' \subseteq targets \cup owned
        /\ owned \subseteq owned'
    BY <1>9, <2>1 DEF RecordResult, MemoryInv
  <2>5. \A d \in owned' : jobs'[d] # "none"
    BY <2>1, <2>2, <2>4 DEF MemoryInv, OneQueued
  <2>6. Refs \subseteq Refs'
    <3>1. is # "url" => rows[c] = "none"
      BY <2>1 DEF MemoryInv, OneQueued
    <3>2. rows' = rows \/ (is # "url" /\ \E x : rows' = [rows EXCEPT ![c] = x])
      BY <1>9, <2>1 DEF RecordResult
    <3> QED
      BY <3>1, <3>2 DEF Refs, TypeOK
  <2> QED
    BY <2>2, <2>3, <2>4, <2>5, <2>6 DEF MemoryInv, JobKnown
<1>10. CASE TurnAborted \/ CloseBegins \/ CloseFails
  BY <1>0, <1>10, MemoryKept DEF TurnAborted, CloseBegins, CloseFails, database
<1>11. CASE CloseStarts \/ CloseSettles
  BY <1>0, <1>11, MemoryKept DEF CloseStarts, CloseSettles, Finish, memory
<1>12. CASE HostRestarts
  BY <1>0, <1>12, MemoryKept DEF HostRestarts, database, Idle
<1>13. CASE UNCHANGED vars
  BY <1>0, <1>13, MemoryKept DEF vars, database, memory
<1> QED
  BY <1>1, <1>2, <1>3, <1>4, <1>5, <1>6, <1>7, <1>8, <1>9, <1>10, <1>11, <1>12, <1>13
  DEF Next, OwnerStep, VerifyStep, ToolStep, SessionStep

-----------------------------------------------------------------------------
\* The guard.

\* The assumption under which it knows: one verification at a time, as when no
\* second command is given before the first has answered.
OneAtATime == \A v, w \in Verifiers : v = w

\* A verification that looks at a job of the memory looks at the one that may
\* still listen: no launch can succeed until that one is known to be closed.
JobCurrent(me) ==
  /\ me.job \in owned
  /\ Alive(me.job) => ~Starting /\ IF me.launcher THEN Latest(me.job) ELSE Refs = {}
  /\ baseline /\ me.launcher => Latest(me.job)

\* While the guard is installed: without an effect nothing owned listens; a
\* launch that is not recorded yet found none that does; the listeners to
\* preserve are known only of the latest launch, which is the only owned one that
\* may listen; and a verification that may pass the cleanup saw it closed.
GuardInv ==
  entry = "guarded" =>
    /\ effect = "none" => AllDead
    /\ Starting => ~baseline /\ AllDead
    /\ baseline => effect # "none" /\ \A c \in owned : Alive(c) => Refs = {} \/ Latest(c)
    /\ \A c, d \in owned : Alive(c) /\ Alive(d) => c = d
    /\ \A v \in Verifiers : verify[v].pc = "snapped" /\ verify[v].target => JobCurrent(verify[v])
    /\ \A v \in Verifiers : verify[v].pc = "observed" /\ "pass" \in verify[v].clean =>
         baseline /\ AllDead

LEMMA InitGuard == Init => GuardInv
BY DEF Init, GuardInv, AllDead, Alive, Starting, JobCurrent, Idle

\* The guard's part of the state stays, jobs only end and verifications too.
LEMMA GuardKept ==
  ASSUME GuardInv,
         entry' = "guarded" =>
           /\ UNCHANGED <<entry, effect, owned, tail, rows, baseline>>
           /\ \A c \in owned : Alive(c)' => Alive(c)
           /\ \A v \in Verifiers : verify'[v] = verify[v] \/ verify'[v].pc \in {"idle", "cleaned"}
  PROVE  GuardInv'
<1> SUFFICES ASSUME entry' = "guarded" PROVE GuardInv'
  BY DEF GuardInv
<1>1. /\ entry = "guarded" /\ UNCHANGED <<effect, owned, tail, rows, baseline>>
      /\ \A c \in owned : Alive(c)' => Alive(c)
  OBVIOUS
<1>2. Refs' = Refs /\ Starting' = Starting /\ (AllDead => AllDead')
  BY <1>1 DEF Refs, Starting, AllDead
<1>3. \A c : Latest(c)' = Latest(c)
  BY <1>2 DEF Latest
<1>4. \A v \in Verifiers : verify'[v].pc = "snapped" /\ verify'[v].target => JobCurrent(verify[v])'
  BY <1>1, <1>2, <1>3 DEF GuardInv, JobCurrent
<1>5. \A v \in Verifiers : verify'[v].pc = "observed" /\ "pass" \in verify'[v].clean =>
         baseline' /\ AllDead'
  BY <1>1, <1>2 DEF GuardInv
<1>6. /\ effect' = "none" => AllDead'
      /\ Starting' => ~baseline' /\ AllDead'
      /\ baseline' => effect' # "none" /\ \A c \in owned' : Alive(c)' => Refs' = {} \/ Latest(c)'
      /\ \A c, d \in owned' : Alive(c)' /\ Alive(d)' => c = d
  BY <1>1, <1>2, <1>3 DEF GuardInv
<1> QED
  BY <1>4, <1>5, <1>6 DEF GuardInv

LEMMA StepGuard ==
  ASSUME OneAtATime
  PROVE  TypeOK /\ MemoryInv /\ GuardInv /\ [Next]_vars => GuardInv'
<1> SUFFICES ASSUME TypeOK, MemoryInv, GuardInv, [Next]_vars PROVE GuardInv'
  OBVIOUS
<1>0. owned \subseteq Launches
  BY DEF TypeOK
<1>1. ASSUME NEW here \in BOOLEAN, Pause(here) \/ Resume(here) \/ Abort(here) \/ Deviate(here)
                                   \/ Advance(here) \/ Settle(here)
      PROVE  GuardInv'
  BY <1>1, GuardKept DEF Pause, Resume, Abort, Deviate, Advance, Moves, Settle, Finish, Keep, Alive
<1>2. ASSUME NEW v \in Verifiers, NEW here \in BOOLEAN, Snapshot(v, here) PROVE GuardInv'
  <2> SUFFICES ASSUME entry = "guarded" PROVE GuardInv'
    BY <1>2 DEF Snapshot, GuardInv
  <2> DEFINE me == Snapped(v, here)
  <2>1. /\ UNCHANGED <<entry, effect, owned, tail, rows, baseline, jobs>>
        /\ here => tail = <<>>
    BY <1>2 DEF Snapshot, database
  <2>2. /\ me.pc = "snapped" /\ me.job = JobOf(here) /\ me.launcher = (Refs # {})
        /\ me.target => here /\ JobOf(here) \in targets
    BY SnappedIs
  <2>3. verify' = [verify EXCEPT ![v] = me]
    BY <1>2, SnapshotSnaps
  <2> HIDE DEF me
  <2>4. \A x \in Verifiers : verify'[x] = IF x = v THEN me ELSE verify[x]
    BY <2>3 DEF TypeOK
  <2>5. ASSUME me.target PROVE JobCurrent(me)
    <3>1. ~Starting
      <4>1. \A r : <<r>> # <<>>
        OBVIOUS
      <4> QED
        BY <2>1, <2>2, <2>5, <4>1 DEF Starting
    <3>2. me.job \in owned
      BY <2>2, <2>5 DEF MemoryInv
    <3>3. me.launcher => Latest(me.job)
      BY <2>2, JobOfIs DEF Latest
    <3> QED
      BY <2>2, <3>1, <3>2, <3>3 DEF JobCurrent
  <2>6. /\ Refs' = Refs /\ Starting' = Starting /\ AllDead' = AllDead
        /\ \A c : Alive(c)' = Alive(c)
    BY <2>1 DEF Refs, Starting, AllDead, Alive
  <2>7. \A c : Latest(c)' = Latest(c)
    BY <2>6 DEF Latest
  <2>8. \A x \in Verifiers : verify'[x].pc = "snapped" /\ verify'[x].target => JobCurrent(verify[x])'
    BY <2>1, <2>4, <2>5, <2>6, <2>7 DEF GuardInv, JobCurrent
  <2>9. \A x \in Verifiers : verify'[x].pc = "observed" /\ "pass" \in verify'[x].clean =>
          baseline' /\ AllDead'
    BY <2>1, <2>2, <2>4, <2>6 DEF GuardInv
  <2> QED
    BY <2>1, <2>6, <2>7, <2>8, <2>9 DEF GuardInv
<1>3. ASSUME NEW v \in Verifiers, Observe(v) PROVE GuardInv'
  <2> SUFFICES ASSUME entry = "guarded" PROVE GuardInv'
    BY <1>3 DEF Observe, GuardInv
  <2> DEFINE me == verify[v]
  <2>1. UNCHANGED <<entry, effect, owned, tail, rows, jobs>> /\ me.pc = "snapped"
    BY <1>3 DEF Observe, database
  <2>2. PICK w : ObservedFrom(me, w) /\ verify' = [verify EXCEPT ![v] = w]
    BY <1>3, ObserveIs
  <2>3. \A x \in Verifiers : x = v /\ verify'[x] = w
    BY <2>2, OneAtATime DEF TypeOK, OneAtATime
  <2>4. /\ w.pc = "observed"
        /\ "pass" \in w.clean =>
             me.launcher /\ me.target /\ baseline' /\ jobs[me.job] \notin {"running", "orphan"}
        /\ baseline => baseline'
        /\ baseline' /\ ~baseline => me.target /\ jobs[me.job] = "running"
    BY <2>2 DEF ObservedFrom
  <2>5. me.target => JobCurrent(me)
    BY <2>1 DEF GuardInv
  <2>6. /\ Refs' = Refs /\ Starting' = Starting /\ AllDead' = AllDead
        /\ \A c : Alive(c)' = Alive(c)
    BY <2>1 DEF Refs, Starting, AllDead, Alive
  <2>7. \A c : Latest(c)' = Latest(c)
    BY <2>6 DEF Latest
  <2>8. CASE baseline' /\ ~baseline
    <3>1. Alive(me.job) /\ me.job \in owned /\ ~Starting /\ (Refs = {} \/ Latest(me.job))
      BY <2>4, <2>5, <2>8 DEF JobCurrent, Alive
    <3>2. \A c \in owned : Alive(c) => c = me.job
      BY <3>1 DEF GuardInv
    <3>3. effect # "none"
      BY <3>1 DEF GuardInv, AllDead
    <3>4. "pass" \notin w.clean
      BY <2>4, <2>8
    <3> QED
      BY <2>1, <2>3, <2>4, <2>6, <2>7, <3>1, <3>2, <3>3, <3>4 DEF GuardInv
  <2>9. CASE baseline' = baseline
    <3>1. ASSUME "pass" \in w.clean PROVE baseline /\ AllDead
      <4>1. baseline /\ me.launcher /\ JobCurrent(me) /\ ~Alive(me.job)
        BY <2>4, <2>5, <2>9, <3>1 DEF Alive
      <4>2. Latest(me.job)
        BY <4>1 DEF JobCurrent
      <4>3. ASSUME NEW c \in owned, Alive(c) PROVE FALSE
        <5>1. Latest(c)
          BY <4>1, <4>2, <4>3 DEF GuardInv, Latest
        <5>2. c = me.job
          BY <4>2, <5>1 DEF Latest, Refs, Launches
        <5> QED
          BY <4>1, <4>3, <5>2
      <4> QED
        BY <4>1, <4>3 DEF AllDead
    <3> QED
      BY <2>1, <2>3, <2>4, <2>6, <2>7, <2>9, <3>1 DEF GuardInv
  <2>10. baseline' = baseline \/ (baseline' /\ ~baseline)
    BY <2>2, <2>4 DEF ObservedFrom, TypeOK
  <2> QED
    BY <2>8, <2>9, <2>10
<1>4. ASSUME NEW v \in Verifiers, Judge(v) PROVE GuardInv'
  <2> SUFFICES ASSUME entry = "guarded" PROVE GuardInv'
    BY <1>4 DEF Judge, GuardInv
  <2> DEFINE me == verify[v]
  <2>1. /\ UNCHANGED <<entry, owned, tail, jobs>> /\ me.pc = "observed"
        /\ rows' = IF me.listens THEN [rows EXCEPT ![me.job] = "confirmed"] ELSE rows
    BY <1>4 DEF Judge
  <2>2a. PICK clean \in me.clean : \E w :
          /\ JudgedFrom(me, w, clean)
          /\ verify' = [verify EXCEPT ![v] = w]
          /\ baseline' = (baseline /\ clean # "pass")
          /\ effect' = EffectVerified(me, clean)
    BY <1>4, JudgeIs
  <2>2. PICK w :
          /\ JudgedFrom(me, w, clean)
          /\ verify' = [verify EXCEPT ![v] = w]
          /\ baseline' = (baseline /\ clean # "pass")
          /\ effect' = EffectVerified(me, clean)
    BY <2>2a
  <2>3. \A x \in Verifiers : verify'[x].pc = "cleaned"
    BY <2>2, OneAtATime DEF TypeOK, OneAtATime, JudgedFrom
  <2>4. Refs' = Refs
    BY <2>1 DEF MemoryInv, JobKnown, Refs, TypeOK
  <2>5. Starting' = Starting /\ AllDead' = AllDead /\ \A c : Alive(c)' = Alive(c)
    BY <2>1 DEF Starting, AllDead, Alive
  <2>6. \A c : Latest(c)' = Latest(c)
    BY <2>4 DEF Latest
  <2>7. CASE clean = "pass"
    <3>1. baseline /\ AllDead
      BY <2>1, <2>2, <2>7 DEF GuardInv
    <3> QED
      BY <2>1, <2>2, <2>3, <2>5, <2>7, <3>1 DEF GuardInv, AllDead
  <2>8. CASE clean # "pass"
    <3>1. (effect' = "none" => effect = "none") /\ baseline' = baseline
      BY <2>2, <2>8 DEF EffectVerified, TypeOK
    <3> QED
      BY <2>1, <2>3, <2>4, <2>5, <2>6, <3>1 DEF GuardInv
  <2> QED
    BY <2>7, <2>8
<1>5. ASSUME NEW v \in Verifiers, RecordVerification(v) \/ VerifyFails(v) PROVE GuardInv'
  <2>1. UNCHANGED <<entry, effect, owned, tail, rows, baseline, jobs>>
    BY <1>5 DEF RecordVerification, VerifyFails, database
  <2>2. \A x \in Verifiers : verify'[x] = verify[x] \/ verify'[x].pc \in {"idle", "cleaned"}
    BY <1>5 DEF RecordVerification, VerifyFails, TypeOK, Idle
  <2> QED
    BY <2>1, <2>2, GuardKept DEF Alive
<1>6. ASSUME NEW c \in Launches, Launch(c) PROVE GuardInv'
  <2> SUFFICES ASSUME entry = "guarded" PROVE GuardInv'
    BY <1>6 DEF Launch, GuardInv
  <2>1. PICK is \in {"started", "lost", "denied"} :
          /\ tail' = Append(tail, <<is, c>>)
          /\ jobs' = IF is = "denied" THEN jobs ELSE [jobs EXCEPT ![c] = "running"]
          /\ is # "denied" => effect = "none"
    BY <1>6 DEF Launch, GuardAllows
  <2>2. /\ UNCHANGED <<entry, effect, rows, owned, baseline, verify>> /\ tail = <<>>
        /\ Launched = 1..c - 1
    BY <1>6 DEF Launch, database, Quiet
  <2>3. c \notin owned
    <3>1. c \notin Launched
      BY <2>2 DEF Launches
    <3> QED
      BY <3>1 DEF Launched, MemoryInv
  <2>4. \A d \in owned : Alive(d)' = Alive(d)
    BY <1>0, <2>1, <2>3 DEF Alive, TypeOK
  <2>5. Refs' = Refs /\ AllDead' = AllDead /\ \A d : Latest(d)' = Latest(d)
    <3>1. Refs' = Refs
      BY <2>2 DEF Refs
    <3> QED
      BY <2>2, <2>4, <3>1 DEF AllDead, Latest
  <2>6. Starting' => is = "started"
    BY <2>1, <2>2, Queues DEF Starting
  <2>7. Starting' => ~baseline /\ AllDead
    BY <2>1, <2>6 DEF GuardInv
  <2>8. ASSUME NEW v \in Verifiers, verify[v].pc = "snapped", verify[v].target
        PROVE  JobCurrent(verify[v])'
    <3>1. JobCurrent(verify[v])
      BY <2>8 DEF GuardInv
    <3>2. Alive(verify[v].job) => ~Starting'
      BY <2>7, <3>1 DEF JobCurrent, AllDead
    <3> QED
      BY <2>2, <2>4, <2>5, <3>1, <3>2 DEF JobCurrent
  <2> QED
    BY <2>2, <2>4, <2>5, <2>7, <2>8 DEF GuardInv
<1>7. ASSUME NEW c \in Launches, ReadOutput(c) PROVE GuardInv'
  <2> SUFFICES ASSUME entry = "guarded" PROVE GuardInv'
    BY <1>7 DEF ReadOutput, GuardInv
  <2>1. /\ tail' = Append(tail, <<"url", c>>) /\ tail = <<>>
        /\ UNCHANGED <<entry, effect, rows, owned, baseline, verify, jobs>>
    BY <1>7 DEF ReadOutput, database, Quiet
  <2>2. ~Starting'
    BY <2>1, Queues DEF Starting
  <2>3. /\ Refs' = Refs /\ AllDead' = AllDead
        /\ \A d : Alive(d)' = Alive(d)
    BY <2>1 DEF Refs, AllDead, Alive
  <2>4. \A d : Latest(d)' = Latest(d)
    BY <2>3 DEF Latest
  <2>5. \A v \in Verifiers : verify'[v].pc = "snapped" /\ verify'[v].target => JobCurrent(verify[v])'
    BY <2>1, <2>2, <2>3, <2>4 DEF GuardInv, JobCurrent
  <2> QED
    BY <2>1, <2>2, <2>3, <2>4, <2>5 DEF GuardInv
<1>8. ASSUME NEW c \in Launches, JobEnds(c) PROVE GuardInv'
  <2>1. UNCHANGED <<entry, effect, owned, tail, rows, baseline, verify>>
    BY <1>8 DEF JobEnds, database, memory
  <2>2. \A d \in owned : Alive(d)' => Alive(d)
    BY <1>0, <1>8 DEF JobEnds, TypeOK, Alive
  <2> QED
    BY <2>1, <2>2, GuardKept
<1>9. CASE RecordResult
  <2> SUFFICES ASSUME entry = "guarded" PROVE GuardInv'
    BY <1>9 DEF RecordResult, GuardInv
  <2>1. PICK is \in {"started", "lost", "denied", "url"}, c \in Launches :
          tail = <<<<is, c>>>> /\ Head(tail)[1] = is /\ Head(tail)[2] = c /\ tail' = <<>>
    BY <1>9, Dequeues DEF MemoryInv
  <2>2. UNCHANGED <<entry, baseline, verify, jobs>>
    BY <1>9 DEF RecordResult
  <2>3. ~Starting'
    <3>1. \A r : <<r>> # <<>>
      OBVIOUS
    <3> QED
      BY <2>1, <3>1 DEF Starting
  <2>4. \A d : Alive(d)' = Alive(d)
    BY <2>2 DEF Alive
  <2>5. CASE is = "started"
    <3>1. owned' = owned \cup {c} /\ effect' # "none"
      BY <1>9, <2>1, <2>5 DEF RecordResult, EffectAfter
    <3>2. ~baseline /\ AllDead
      BY <2>1, <2>5 DEF GuardInv, Starting
    <3>3. \A d, e \in owned' : Alive(d)' /\ Alive(e)' => d = e
      BY <2>4, <3>1, <3>2 DEF AllDead
    <3>4. ASSUME NEW v \in Verifiers, verify[v].pc = "snapped", verify[v].target
          PROVE  JobCurrent(verify[v])'
      <4>1. verify[v].job \in owned /\ ~Alive(verify[v].job)
        BY <3>2, <3>4 DEF GuardInv, JobCurrent, AllDead
      <4> QED
        BY <2>2, <2>4, <3>1, <3>2, <4>1 DEF JobCurrent
    <3> QED
      BY <2>2, <2>3, <3>1, <3>2, <3>3, <3>4 DEF GuardInv
  <2>6. CASE is # "started"
    <3>1. owned' = owned /\ (effect' = "none" => effect = "none")
      BY <1>9, <2>1, <2>6 DEF RecordResult, EffectAfter
    <3>2. Refs' = Refs
      <4>1. CASE is = "url"
        BY <1>9, <2>1, <4>1 DEF RecordResult, Refs
      <4>2. CASE is # "url"
        <5>1. rows[c] = "none"
          BY <2>1, <4>2 DEF MemoryInv, OneQueued
        <5>2. rows' = rows \/ rows' = [rows EXCEPT ![c] = "unknown"]
          BY <1>9, <2>1, <2>6, <4>2 DEF RecordResult, EffectAfter
        <5> QED
          BY <5>1, <5>2 DEF Refs, TypeOK
      <4> QED
        BY <4>1, <4>2
    <3>3. AllDead' = AllDead /\ \A d : Latest(d)' = Latest(d)
      BY <2>4, <3>1, <3>2 DEF AllDead, Latest
    <3>4. \A v \in Verifiers : verify'[v].pc = "snapped" /\ verify'[v].target => JobCurrent(verify[v])'
      BY <2>2, <2>3, <2>4, <3>1, <3>2, <3>3 DEF GuardInv, JobCurrent
    <3> QED
      BY <2>2, <2>3, <2>4, <3>1, <3>2, <3>3, <3>4 DEF GuardInv
  <2> QED
    BY <2>5, <2>6
<1>10. CASE TurnAborted \/ CloseBegins \/ CloseFails
  BY <1>10, GuardKept DEF TurnAborted, CloseBegins, CloseFails, database, Alive
<1>11. CASE CloseStarts \/ CloseSettles
  BY <1>11, GuardKept DEF CloseStarts, CloseSettles, Finish, memory, Alive
<1>12. CASE HostRestarts
  BY <1>12 DEF HostRestarts, GuardInv
<1>13. CASE UNCHANGED vars
  BY <1>13, GuardKept DEF vars, database, memory, Alive
<1> QED
  BY <1>1, <1>2, <1>3, <1>4, <1>5, <1>6, <1>7, <1>8, <1>9, <1>10, <1>11, <1>12, <1>13
  DEF Next, OwnerStep, VerifyStep, ToolStep, SessionStep

\* With one verification at a time, an installed guard that has seen the results
\* of the agent's tools knows an effect while any job it owns may listen, so a
\* second launch is denied: for every number of launches and restarts.
THEOREM GuardKnows ==
  ASSUME OneAtATime
  PROVE  Spec => []EffectKnown
<1>1. TypeOK /\ MemoryInv /\ [Next]_vars => MemoryInv'
  BY StepMemory
<1>2. TypeOK /\ MemoryInv /\ GuardInv /\ [Next]_vars => GuardInv'
  BY OneAtATime, StepGuard
<1>3. GuardInv => EffectKnown
  BY DEF GuardInv, EffectKnown, AllDead, Alive
<1> QED
  BY <1>1, <1>2, <1>3, InitMemory, InitGuard, TypeInvariant, PTL DEF Spec
=============================================================================
