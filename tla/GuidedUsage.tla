---------------------------- MODULE GuidedUsage ----------------------------
(***************************************************************************)
(* The guided use of one approved plan in one session: the cursor over its *)
(* steps (progressUsage), the Host's memory of the running session         *)
(* (ExperienceExecutionService) with the tool guard that depends on it,    *)
(* the verification of the five Web criteria (WebUsageVerifier) and the    *)
(* settlement, by an owner's command or by the session's next trigger.     *)
(*                                                                         *)
(* Commands reach the database from the Host and from the management CLI,  *)
(* which is another process; only the Host has the memory.  A verification *)
(* awaits readbacks of the jobs and sockets of the machine between reading *)
(* the database and writing to it, and several run at a time.              *)
(*                                                                         *)
(* The launches are the supported Web launcher calls of the agent, in the  *)
(* order of their calls; each stands for the job it starts.  Criterion     *)
(* results carry the cursor revision at which they were observed, for      *)
(* their observedAt.                                                       *)
(***************************************************************************)
EXTENDS Integers, Sequences, FiniteSets

CONSTANTS
  Verifiers,      \* the verification commands that may run at a time
  MaxLaunches,    \* bound: launcher calls of the agent
  StepCount,      \* the ordered steps of the plan
  MaxRev,         \* bound: controller revisions of the cursor
  Observed        \* the criteria seen while the target serves, or some of them

ASSUME ConstantsAssumption ==
  /\ MaxLaunches \in Nat \ {0} /\ StepCount \in Nat \ {0} /\ MaxRev \in Nat \ {0}
  /\ Observed \subseteq {"ready", "auth", "scope"}

VARIABLES
  \* the database
  cursor,       \* the latest step_progress row
  usageState,   \* the state column of the usage
  rows,         \* the execution correlation of each launch
  run,          \* the latest verification run
  settlement,   \* the settlement and the run it names
  \* the memory of the Host
  entry,        \* the entry of activeBySession, and whether its guard is installed
  effect,       \* its externalEffectState, which the guard reads
  owned,        \* its ownedJobIds
  targets,      \* the jobs whose readiness URL it knows
  tail,         \* its queue of tool results that are not recorded yet
  baseline,     \* the verifier has the listeners the cleanup must preserve
  closing,      \* a pre-step found the usage unsettled and closes it
  verify,       \* each running verification command
  \* the machine
  jobs

database == <<cursor, usageState, rows, run, settlement>>
memory == <<entry, effect, owned, targets, tail, baseline, closing, verify>>
vars == <<database, memory, jobs>>

Launches == 1..MaxLaunches
Steps == 1..StepCount
Revs == 0..MaxRev
Criteria == Observed \cup {"launch", "clean"}

CursorState == {"none", "ready", "running", "paused", "completed", "aborted"}
Terminal == {"completed", "aborted"}
Outcome == {"none", "success", "failure", "unknown", "partial", "aborted"}
Result == [is: {"pass", "fail", "unknown", "not_evaluated"}, at: Revs]
Results == [Criteria -> Result]
Verdict(is, at) == [is |-> is, at |-> at]
Unknown == [c \in Criteria |-> Verdict("unknown", 0)]

\* What the results of the agent's calls say of a launch.
Reports == {"started", "lost", "denied", "url"} \X Launches

\* A verification command between two of its awaits.
Verification ==
  [pc: {"idle", "snapped", "observed", "cleaned"}, rev: Revs, job: 0..MaxLaunches,
   launcher: BOOLEAN, here: BOOLEAN, target: BOOLEAN, listens: BOOLEAN,
   clean: SUBSET {"pass", "fail", "unknown", "not_evaluated"}, results: Results]

NoCursor == [rev |-> 0, step |-> 1, state |-> "none"]
NoRun == [rev |-> 0, results |-> Unknown]
NoSettlement == [outcome |-> "none", passed |-> {}]
Idle == [pc |-> "idle", rev |-> 0, job |-> 0, launcher |-> FALSE, here |-> FALSE,
         target |-> FALSE, listens |-> FALSE, clean |-> {}, results |-> Unknown]

TypeOK ==
  /\ cursor \in [rev: Revs, step: Steps, state: CursorState]
  /\ usageState \in {"context_prepared", "in_progress", "settling"} \cup (Outcome \ {"none"})
  /\ rows \in [Launches -> {"none", "unknown", "possible", "confirmed"}]
  /\ run \in [rev: Revs, results: Results]
  /\ settlement \in [outcome: Outcome, passed: SUBSET Criteria]
  /\ entry \in {"none", "guarded", "retained"}
  /\ effect \in {"none", "unknown", "possible", "confirmed"}
  /\ owned \subseteq Launches
  /\ targets \subseteq Launches
  /\ tail \in Seq(Reports)
  /\ baseline \in BOOLEAN /\ closing \in BOOLEAN
  /\ verify \in [Verifiers -> Verification]
  /\ jobs \in [Launches -> {"none", "running", "orphan", "gone"}]

\* The pre-step that delivered the context has activated the usage (startUsage
\* and the guard), or its activation failed and left nothing behind.
Init ==
  /\ \/ /\ cursor = [rev |-> 1, step |-> 1, state |-> "ready"]
        /\ usageState = "in_progress"
        /\ entry = "guarded"
     \/ /\ cursor = NoCursor
        /\ usageState = "context_prepared"
        /\ entry = "none"
  /\ rows = [c \in Launches |-> "none"]
  /\ run = NoRun
  /\ settlement = NoSettlement
  /\ effect = "none"
  /\ owned = {}
  /\ targets = {}
  /\ tail = <<>>
  /\ baseline = FALSE
  /\ closing = FALSE
  /\ verify = [v \in Verifiers |-> Idle]
  /\ jobs = [c \in Launches |-> "none"]

-----------------------------------------------------------------------------
\* The cursor.

\* finish: the Host drops the entry, and its guard with it, when the command
\* that ended the usage returns.
Finish == entry' = "none" /\ effect' = "none" /\ owned' = {} /\ targets' = {}
Keep == UNCHANGED <<entry, effect, owned, targets>>

\* The part of progressUsage every transition shares: the command names the
\* revision it was made for, and here is whether it reached the Host.
Moves(step, state, here) ==
  /\ cursor.rev \in 1..MaxRev - 1
  /\ cursor.state \notin Terminal
  /\ cursor' = [rev |-> cursor.rev + 1, step |-> step, state |-> state]
  /\ usageState' = IF state = "aborted" THEN "settling" ELSE usageState
  /\ IF here /\ state = "aborted" THEN Finish ELSE Keep
  /\ UNCHANGED <<rows, run, settlement, tail, baseline, closing, verify, jobs>>

Pause(here) == cursor.state # "paused" /\ Moves(cursor.step, "paused", here)
Resume(here) == cursor.state = "paused" /\ Moves(cursor.step, "running", here)
Abort(here) == Moves(cursor.step, "aborted", here)
Deviate(here) == \E step \in Steps : Moves(step, "running", here)

Advance(here) ==
  /\ cursor.state # "paused"
  /\ IF cursor.step = StepCount THEN Moves(cursor.step, "completed", here)
                                ELSE Moves(cursor.step + 1, "running", here)

-----------------------------------------------------------------------------
\* The agent's tools, the guard and the queue of their results.

Launched == {c \in Launches : jobs[c] # "none" \/ rows[c] # "none"
                              \/ \E i \in DOMAIN tail : tail[i][2] = c}
GuardAllows == entry = "guarded" => effect = "none"

\* The agent has seen the result of its last call, and the queue recorded it.
Quiet == tail = <<>>

\* The agent calls the launcher.  It is denied, or the job starts and the call
\* reports it or fails.  A denied call has a failed result, too.
Launch(c) ==
  /\ entry # "none" /\ Quiet
  /\ Launched = 1..c - 1
  /\ \E is \in IF GuardAllows THEN {"started", "lost"} ELSE {"denied"} :
       /\ tail' = Append(tail, <<is, c>>)
       /\ jobs' = IF is = "denied" THEN jobs
                  ELSE [jobs EXCEPT ![c] = "running"]
  /\ UNCHANGED <<database, entry, effect, owned, targets, baseline, closing, verify>>

\* The agent reads a job's output, which shows its readiness URL.
ReadOutput(c) ==
  /\ entry # "none" /\ Quiet
  /\ jobs[c] = "running" /\ c \notin targets /\ <<"url", c>> \notin {tail[i] : i \in DOMAIN tail}
  /\ tail' = Append(tail, <<"url", c>>)
  /\ UNCHANGED <<database, entry, effect, owned, targets, baseline, closing, verify, jobs>>

\* job_kill, or the job ends by itself: its socket closes with it or later.
JobEnds(c) ==
  /\ jobs[c] \in {"running", "orphan"}
  /\ \E after \in {"orphan", "gone"} \ {jobs[c]} : jobs' = [jobs EXCEPT ![c] = after]
  /\ UNCHANGED <<database, memory>>

\* What the result of a launcher call makes of the effect the guard reads.
EffectAfter(is) == IF is = "started" THEN "possible" ELSE "unknown"

\* One result leaves the queue: the memory is updated and the correlation row
\* written.  If the write fails the effect becomes unknown.
RecordResult ==
  /\ tail # <<>>
  /\ tail' = Tail(tail)
  /\ LET is == Head(tail)[1]
         c == Head(tail)[2]
     IN \/ /\ is = "url"
           /\ targets' = IF entry # "none" /\ c \in owned THEN targets \cup {c} ELSE targets
           /\ effect' \in {effect} \cup (IF entry = "none" THEN {} ELSE {"unknown"})
           /\ UNCHANGED <<rows, owned>>
        \/ /\ is # "url"
           /\ owned' = IF is = "started" /\ entry # "none" THEN owned \cup {c} ELSE owned
           /\ \E written \in BOOLEAN :
                /\ rows' = IF written THEN [rows EXCEPT ![c] = EffectAfter(is)] ELSE rows
                /\ effect' = IF entry = "none" THEN effect
                             ELSE IF written THEN EffectAfter(is) ELSE "unknown"
           /\ UNCHANGED targets
  /\ UNCHANGED <<cursor, usageState, run, settlement, entry, baseline, closing,
                 verify, jobs>>

\* An aborted or interrupted turn, or a disposed agent, releases the guard; the
\* entry is retained for verification and settlement.
TurnAborted ==
  /\ entry = "guarded"
  /\ entry' = "retained"
  /\ UNCHANGED <<database, effect, owned, targets, tail, baseline, closing, verify, jobs>>

-----------------------------------------------------------------------------
\* Verification of the five criteria.

Refs == {c \in Launches : rows[c] \in {"possible", "confirmed"}}

\* preservePass: of the latest run, if it is of the cursor's revision.
Preserved(c) == run.rev = cursor.rev /\ run.results[c].is = "pass"

\* The command flushes the results, then reads the cursor, the latest run, the
\* launcher's correlation and the Host's memory.  Here is false for the
\* management CLI, which has no memory of the session.
Snapshot(v, here) ==
  LET seen == here /\ entry # "none"
      job == IF Refs # {} THEN CHOOSE c \in Refs : \A x \in Refs : x <= c
             ELSE IF seen /\ owned # {} THEN CHOOSE c \in owned : \A x \in owned : c <= x
             ELSE 0
  IN /\ verify[v].pc = "idle"
     /\ cursor.rev # 0
     /\ seen => tail = <<>>
     /\ verify' = [verify EXCEPT ![v] =
          [Idle EXCEPT !.pc = "snapped", !.rev = cursor.rev, !.job = job,
                       !.launcher = (Refs # {}), !.here = seen,
                       !.target = (seen /\ job \in targets),
                       !.results = [c \in Criteria |->
                          IF c \in Observed /\ Preserved(c) THEN run.results[c]
                          ELSE Unknown[c]]]]
     /\ UNCHANGED <<database, entry, effect, owned, targets, tail, baseline, closing, jobs>>

\* verifyCleanup: what it may say of the launcher's job, given the job's status,
\* its socket and whether the listeners of the others are known.
CleanResults(job, status, socket, base) ==
  IF job = 0 \/ status = "none" THEN {"unknown"}
  ELSE IF status = "running" THEN {"not_evaluated"}
  ELSE IF socket = "listening" THEN {"fail", "unknown"}
  ELSE IF socket = "closed" /\ base THEN {"pass", "fail", "unknown"}
  ELSE {"unknown"}

\* The job's status, its listener and the authenticated readback are read, and
\* the baseline of the other listeners is taken while the job serves.
Observe(v) ==
  LET me == verify[v]
      alive == me.target /\ jobs[me.job] \in {"running", "orphan"}
      status == IF ~me.here \/ me.job = 0 THEN "none"
                ELSE IF jobs[me.job] = "running" THEN "running" ELSE "ended"
  IN /\ me.pc = "snapped"
     /\ \E socket \in {"unknown"} \cup (IF alive THEN {"listening"} ELSE {})
                                  \cup (IF me.target /\ ~alive THEN {"closed"} ELSE {}),
           bad \in {"fail", "unknown"}, listed \in BOOLEAN :
        \E passes \in SUBSET {c \in Observed :
             CASE c = "ready" -> status = "running" /\ socket = "listening"
               [] c = "scope" -> socket = "listening"
               [] c = "auth"  -> alive} :
          LET base == baseline \/ (status = "running" /\ socket = "listening" /\ listed)
              listens == me.launcher /\ socket = "listening"
          IN /\ baseline' = base
             /\ verify' = [verify EXCEPT ![v] =
                  [Idle EXCEPT !.pc = "observed", !.rev = me.rev, !.listens = listens,
                     !.job = IF listens THEN me.job ELSE 0,
                     !.clean = CleanResults(IF me.launcher THEN me.job ELSE 0,
                                            status, socket, base),
                     !.results = [c \in Criteria |->
                        IF me.results[c].is = "pass" THEN me.results[c]
                        ELSE IF c \in passes \/ (c = "launch" /\ me.launcher /\ me.here)
                          THEN Verdict("pass", cursor.rev)
                        ELSE IF c \in Observed THEN Verdict(bad, 0)
                        ELSE Unknown[c]]]]
     /\ UNCHANGED <<database, entry, effect, owned, targets, tail, closing, jobs>>

\* (mutant) Every verification clears the effect.
EffectCleared(me, clean) == "none"

\* What a verification makes of the effect the guard reads.
EffectVerified(me, clean) ==
  IF clean = "pass" THEN "none"
  ELSE IF me.listens THEN "confirmed"
  ELSE effect

\* The cleanup is judged, the effect confirmed and the guard told.
Judge(v) ==
  LET me == verify[v]
  IN /\ me.pc = "observed"
     /\ \E clean \in me.clean :
          /\ baseline' = (baseline /\ clean # "pass")
          /\ rows' = IF me.listens THEN [rows EXCEPT ![me.job] = "confirmed"] ELSE rows
          /\ effect' = IF entry = "none" THEN effect ELSE EffectVerified(me, clean)
          /\ verify' = [verify EXCEPT ![v] =
               [me EXCEPT !.pc = "cleaned", !.listens = FALSE, !.job = 0, !.clean = {},
                  !.results["clean"] = Verdict(clean, IF clean = "pass" THEN cursor.rev ELSE 0)]]
  /\ UNCHANGED <<cursor, usageState, run, settlement, entry, owned, targets, tail, closing, jobs>>

\* (mutant) The run is stored whatever the cursor did meanwhile.
RunOfThePast(me) == TRUE

\* recordVerification stores the run only for the revision it was made at.
RunIsCurrent(me) == cursor.rev = me.rev

RecordVerification(v) ==
  LET me == verify[v]
  IN /\ me.pc = "cleaned"
     /\ run' = IF RunIsCurrent(me) THEN [rev |-> me.rev, results |-> me.results] ELSE run
     /\ verify' = [verify EXCEPT ![v] = Idle]
  /\ UNCHANGED <<cursor, usageState, rows, settlement, entry, effect, owned, targets, tail,
                 baseline, closing, jobs>>

\* A readback throws, a write is refused or the command is cancelled.
VerifyFails(v) ==
  /\ verify[v].pc # "idle"
  /\ verify' = [verify EXCEPT ![v] = Idle]
  /\ UNCHANGED <<database, entry, effect, owned, targets, tail, baseline, closing, jobs>>

-----------------------------------------------------------------------------
\* Settlement.

SettlementOutcome(results, state) ==
  CASE state = "aborted" -> "aborted"
    [] state = "completed" /\ \A c \in Criteria : results[c].is = "pass" -> "success"
    [] OTHER ->
         IF \E c \in Criteria \ {"clean"} : results[c].is = "fail" THEN "failure"
         ELSE IF \E c \in Criteria : results[c].is = "unknown" THEN "unknown"
         ELSE IF \E c \in Criteria : results[c].is = "pass" THEN "partial" ELSE "unknown"

\* The run the command names is the latest and of the cursor's revision.
RunMatchesCursor == run.rev # 0 /\ run.rev = cursor.rev

\* (mutant) The settlement is not looked up before it is written.
Always == TRUE

\* A usage has one settlement.
NotSettled == settlement = NoSettlement

Settles(outcome, results) ==
  /\ settlement' = [outcome |-> outcome,
                    passed |-> {c \in Criteria : results[c] = Verdict("pass", cursor.rev)}]
  /\ usageState' = outcome

\* settleUsage, by the Host, which then finishes the entry, or by the CLI.
Settle(here) ==
  /\ NotSettled
  /\ RunMatchesCursor
  /\ Settles(SettlementOutcome(run.results, cursor.state), run.results)
  /\ IF here THEN Finish ELSE Keep
  /\ UNCHANGED <<cursor, rows, run, tail, baseline, closing, verify, jobs>>

\* closePriorUsages: the session's next trigger finds the usage unsettled and
\* its context retired, flushes it, starts its cursor if nothing did, settles
\* it unless it is settled by then, and finishes it.
CloseBegins ==
  /\ settlement = NoSettlement /\ ~closing
  /\ entry # "none" => tail = <<>>
  /\ closing' = TRUE
  /\ UNCHANGED <<database, entry, effect, owned, targets, tail, baseline,  verify, jobs>>

CloseStarts ==
  /\ closing /\ cursor = NoCursor
  /\ cursor' = [rev |-> 1, step |-> 1, state |-> "ready"]
  /\ usageState' = "in_progress"
  /\ UNCHANGED <<rows, run, settlement, memory, jobs>>

CloseSettles ==
  /\ closing /\ cursor # NoCursor
  /\ IF NotSettled
       THEN /\ run' = [rev |-> cursor.rev, results |-> Unknown]
            /\ \E outcome \in {"failure", "unknown"} : Settles(outcome, Unknown)
       ELSE UNCHANGED <<run, settlement, usageState>>
  /\ closing' = FALSE
  /\ Finish
  /\ UNCHANGED <<cursor, rows, tail, baseline, verify, jobs>>

CloseFails ==
  /\ closing
  /\ closing' = FALSE
  /\ UNCHANGED <<database, entry, effect, owned, targets, tail, baseline,  verify, jobs>>

\* The Host ends and starts again: its memory is lost, jobs may outlive it.
HostRestarts ==
  /\ entry' = "none" /\ effect' = "none" /\ owned' = {} /\ targets' = {} /\ tail' = <<>>
  /\ baseline' = FALSE /\ closing' = FALSE
  /\ verify' = [v \in Verifiers |-> Idle]
  /\ UNCHANGED <<database, jobs>>

-----------------------------------------------------------------------------
OwnerStep(here) ==
  \/ Pause(here)
  \/ Resume(here)
  \/ Abort(here)
  \/ Deviate(here)
  \/ Advance(here)
  \/ Settle(here)
  \/ \E v \in Verifiers : Snapshot(v, here)

VerifyStep(v) ==
  \/ Observe(v)
  \/ Judge(v)
  \/ RecordVerification(v)
  \/ VerifyFails(v)

ToolStep(c) ==
  \/ Launch(c)
  \/ ReadOutput(c)
  \/ JobEnds(c)

SessionStep ==
  \/ RecordResult
  \/ TurnAborted
  \/ CloseBegins
  \/ CloseStarts
  \/ CloseSettles
  \/ CloseFails
  \/ HostRestarts

Next ==
  \/ \E here \in BOOLEAN : OwnerStep(here)
  \/ \E v \in Verifiers : VerifyStep(v)
  \/ \E c \in Launches : ToolStep(c)
  \/ SessionStep

Spec == Init /\ [][Next]_vars

-----------------------------------------------------------------------------
\* Every pass of the stored run was observed while the cursor stood at the
\* revision of the run, whatever was kept from earlier runs and however long the
\* readbacks took: no evidence from before the last move of the cursor counts.
FreshPasses ==
  \A c \in Criteria : run.results[c].is = "pass" => run.results[c].at = run.rev

\* A usage is settled as a success only if its plan was completed and all five
\* criteria passed after its completion, and nothing moves the cursor later.
SuccessIsEarned ==
  settlement.outcome = "success" =>
    /\ cursor.state = "completed"
    /\ settlement.passed = Criteria

\* A success rests on evidence of its own time: whatever is kept from earlier
\* runs and however long the readbacks take, every pass of a stored run was seen
\* at the run's revision of the cursor, and a usage succeeds only completed, with
\* all its criteria passed after its completion (repository.ts
\* saveUsageVerification, settleUsage).
SuccessEarned == FreshPasses /\ SuccessIsEarned

\* A settlement is written once, whoever else settles, closes or restarts, and
\* a cursor that ended does not move again.
Finality ==
  [][/\ settlement # NoSettlement => settlement' = settlement
     /\ cursor.state \in Terminal => cursor' = cursor]_vars

\* While the guard is installed and the results of the tools are recorded, it
\* knows of every owned job that still listens, so that it denies a retry.
EffectKnown ==
  entry = "guarded" /\ tail = <<>> /\ (\E c \in owned : jobs[c] \in {"running", "orphan"}) =>
    effect # "none"
=============================================================================
