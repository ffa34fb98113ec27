-------------------------- MODULE SuggestionInbox --------------------------
(***************************************************************************)
(* The inbox of automatic suggestions: a sidecar database that one worker  *)
(* fills from the turns it was told of, and the owner's decisions on what  *)
(* it shows.  A save is committed in the canonical store first and then    *)
(* projected to the sidecar; the worker repairs the projection from the    *)
(* canonical receipts.  The worker waits for the retrieval rebuild, for    *)
(* the read of a Session and for the semantic comparison: turns end, the   *)
(* owner decides and Experiences change in between, and the Host may stop. *)
(*                                                                         *)
(* A suggestion group is identified by the kernels it covers: one for an   *)
(* exact group, several for a semantic composite.  Left out: the retention *)
(* window (nothing expires), the reuse of a comparison whose inputs did    *)
(* not change, and groups that only a dismissal may close.  All groups     *)
(* have one kind and one hard scope.                                       *)
(***************************************************************************)
EXTENDS Naturals, Sequences, FiniteSets

CONSTANTS
  Sessions, Commands,
  Groups,        \* kernels of suggestions, as numbers: the first leads a composite
  MaxTurns,      \* [Sessions -> Nat] bound: turns of a Session
  Kernel,        \* [<<session, turn>> -> Groups, or 0 for a turn that suggests nothing]
  Oversized,     \* turns <<session, turn>> whose evidence makes no packet within the limits
  MaxVersions,   \* bound: Versions published
  MaxRestarts    \* bound: restarts of the Host

ASSUME ConstantsAssumption ==
  /\ Groups \subseteq Nat \ {0}
  /\ \A s \in Sessions : /\ MaxTurns[s] \in Nat
                         /\ \A n \in 1..MaxTurns[s] : Kernel[<<s, n>>] \in Groups \cup {0}

VARIABLES
  log,           \* turns that ended in each Session
  progress,      \* the row of each Session: what was notified, what was analysed
  inbox,         \* the groups of the active generation
  dispositions,  \* the decision on each group
  worker,        \* the drain in progress, and what it was asked meanwhile
  receipts,      \* canonical receipts of saves, in commit order
  active,        \* the active Version of each kernel, 0 for none
  published,     \* Versions ever published
  indexed,       \* Versions of the active retrieval generation
  calls,         \* the owner's saves in progress
  restarts

sidecar == <<progress, inbox, dispositions, indexed>>
canonical == <<receipts, active, published>>
vars == <<log, sidecar, worker, canonical, calls, restarts>>

None == [decision |-> "none", command |-> "none", target |-> 0]
Ids == (SUBSET Groups) \ {{}}
ActiveVersions == {active[g] : g \in Groups} \ {0}

NoRow == [row |-> 0, pending |-> FALSE, retry |-> "none", ends |-> {}, seq |-> 0,
          version |-> 0, turns |-> {}]
NoCall == [phase |-> "none"]
NoJob == [session |-> "none"]
Idle == [phase |-> "idle", requested |-> FALSE, retrieval |-> FALSE, timer |-> FALSE,
         versions |-> {}, job |-> NoJob, captured |-> 0, from |-> [turns |-> {}, decided |-> {}, versions |-> {}]]

Init ==
  /\ log = [s \in Sessions |-> 0]
  /\ progress = [s \in Sessions |-> NoRow]
  /\ inbox = {}
  /\ dispositions = [id \in Ids |-> None]
  /\ worker = Idle
  /\ receipts = <<>>
  /\ active = [g \in Groups |-> 0]
  /\ published = 0
  /\ indexed = {}
  /\ calls = [c \in Commands |-> NoCall]
  /\ restarts = 0

(***************************************************************************)
(* Groups and decisions.                                                   *)
(***************************************************************************)
Leader(sources) == CHOOSE g \in sources : \A h \in sources : g <= h

\* The groups a decision on one closes: a composite closes its sources.
Bindings(sources) == {sources} \cup {{g} : g \in sources}

Decided(ds) == {id \in Ids : ds[id] # None}

Saved(r) == [decision |-> r.outcome, command |-> r.command, target |-> r.target]

(***************************************************************************)
(* reconcileSaved: the receipts in commit order, in one transaction that   *)
(* fails when a saved decision contradicts a receipt.                      *)
(***************************************************************************)
Contradicts(d, r) ==
  d.decision \notin {"none", "dismissed"} /\ (d.decision # r.outcome \/ d.target # r.target)

RepairNone(ds) == [ok |-> TRUE, ds |-> ds]                          \* (mutant)

Applied(p, r) ==
  IF ~p.ok \/ \E id \in Bindings(r.sources) : Contradicts(p.ds[id], r)
  THEN [p EXCEPT !.ok = FALSE]
  ELSE [p EXCEPT !.ds = [id \in Ids |->
          IF id \in Bindings(r.sources) /\ p.ds[id].decision \in {"none", "dismissed"}
          THEN Saved(r) ELSE p.ds[id]]]

Repair(ds) ==
  LET upTo[n \in 0..Len(receipts)] ==
        IF n = 0 THEN [ok |-> TRUE, ds |-> ds] ELSE Applied(upTo[n - 1], receipts[n])
  IN upTo[Len(receipts)]

(***************************************************************************)
(* The worker.  A kick asks for one more round; a round that starts at     *)
(* once runs to its first wait in the step that asked.                     *)
(***************************************************************************)
\* nextSessionJob: new requests before retries, unread Sessions before read ones.
NewRequests(rows) == {s \in Sessions : rows[s].pending /\ rows[s].retry = "none"}  \* (mutant)
Ready(rows) == {s \in Sessions : rows[s].pending /\ rows[s].retry # "waiting"}

Precedence(row) ==
  <<IF row.retry = "none" THEN 0 ELSE 1, IF row.turns = {} THEN 0 ELSE 1, row.row>>

Before(a, b) == \E i \in DOMAIN a : a[i] < b[i] /\ \A j \in 1..(i - 1) : a[j] = b[j]

NextJob(rows) ==
  IF Ready(rows) = {} THEN NoJob
  ELSE LET s == CHOOSE t \in Ready(rows) :
                  \A u \in Ready(rows) \ {t} : Before(Precedence(rows[t]), Precedence(rows[u]))
       IN [session |-> s, row |-> rows[s]]

\* detectSuggestionSeed: a turn whose evidence supports no kind of Experience has no kernel.
Seeded(t) == Kernel[t] # 0

\* What the groups of a round are made from: the seeds, the decisions, the Versions that
\* the retrieval generation has and that are still active.
From(rows, ds, generation) ==
  [turns |-> {t \in UNION {{<<s, n>> : n \in rows[s].turns} : s \in Sessions} : Seeded(t)},
   decided |-> Decided(ds), versions |-> ActiveVersions \cap generation]

\* What a commit adds to the turns of a Session: those asked for that the read captured.
Analysed(job, captured) == job.row.turns \cup {n \in job.row.ends : n <= captured}

RowsWith(rows, job, captured) ==
  IF job = NoJob THEN rows ELSE [rows EXCEPT ![job.session].turns = Analysed(job, captured)]

Enter(w, phase) ==
  [Idle EXCEPT !.phase = phase, !.requested = w.requested, !.retrieval = w.retrieval, !.timer = w.timer]

\* From the read of a job, or from its absence, to the comparison.
Compare(w, rows, ds, generation, job, captured) ==
  [Enter(w, "comparing") EXCEPT !.job = job, !.captured = captured,
    !.from = From(RowsWith(rows, job, captured), ds, generation)]

Pick(w, rows, ds, generation) ==
  IF NextJob(rows) # NoJob THEN [Enter(w, "reading") EXCEPT !.job = NextJob(rows)]
  ELSE Compare(w, rows, ds, generation, NoJob, 0)

\* The end of a run: scheduleBackground looks for a job that is ready.
Finished(w, rows) ==
  [Enter(w, "idle") EXCEPT !.timer = NextJob(rows) # NoJob]

\* drainLoop, from the top of a round to its first wait.
Round(w, rows, ds) ==
  IF ~w.requested THEN [worker |-> Finished(w, rows), ds |-> ds]
  ELSE IF ~w.retrieval THEN [worker |-> Pick([w EXCEPT !.requested = FALSE], rows, ds, indexed), ds |-> ds]
  ELSE IF ~Repair(ds).ok
       THEN [worker |-> Finished([w EXCEPT !.requested = FALSE, !.retrieval = FALSE], rows), ds |-> ds]
  ELSE [worker |-> [Enter(w, "retrieval") EXCEPT !.requested = FALSE, !.retrieval = FALSE,
                                                !.versions = ActiveVersions],
        ds |-> Repair(ds).ds]

Kick(w, rows, ds) ==
  IF w.phase # "idle" THEN [worker |-> [w EXCEPT !.requested = TRUE], ds |-> ds]
  ELSE Round([w EXCEPT !.requested = TRUE], rows, ds)

Kicked(w, rows, ds) ==
  LET r == Kick(w, rows, ds) IN worker' = r.worker /\ dispositions' = r.ds

(***************************************************************************)
(* Notifications and timers.                                               *)
(***************************************************************************)
\* requestSession
Requested(row, n) ==
  [row EXCEPT !.row = IF @ = 0 THEN 1 + Cardinality({s \in Sessions : progress[s].row # 0}) ELSE @,
              !.pending = TRUE, !.retry = "none", !.ends = @ \cup {n},
              !.seq = IF n > @ THEN n ELSE @, !.version = @ + 1]

TurnEnds(s) ==
  /\ log[s] < MaxTurns[s]
  /\ log' = [log EXCEPT ![s] = @ + 1]
  /\ progress' = [progress EXCEPT ![s] = Requested(@, log[s] + 1)]
  /\ Kicked([worker EXCEPT !.retrieval = TRUE], progress', dispositions)
  /\ UNCHANGED <<inbox, indexed, canonical, calls, restarts>>

\* The poll asks for a reconciliation; it starts one unless one is running.
Poll ==
  /\ IF worker.phase = "idle" THEN Kicked([worker EXCEPT !.retrieval = TRUE], progress, dispositions)
     ELSE worker' = [worker EXCEPT !.retrieval = TRUE] /\ UNCHANGED dispositions
  /\ UNCHANGED <<log, progress, inbox, indexed, canonical, calls, restarts>>

BackgroundTimer ==
  /\ worker.timer
  /\ Kicked([worker EXCEPT !.timer = FALSE], progress, dispositions)
  /\ UNCHANGED <<log, progress, inbox, indexed, canonical, calls, restarts>>

RetryDue(s) ==
  /\ progress[s].retry = "waiting"
  /\ progress' = [progress EXCEPT ![s].retry = "due"]
  /\ UNCHANGED <<log, inbox, dispositions, indexed, worker, canonical, calls, restarts>>

(***************************************************************************)
(* The waits of a round.                                                   *)
(***************************************************************************)
\* The retrieval generation covers the Versions that were active when it was begun.
RetrievalBuilt ==
  /\ worker.phase = "retrieval"
  /\ indexed' = worker.versions
  /\ worker' = Pick(worker, progress, dispositions, worker.versions)
  /\ UNCHANGED <<log, progress, inbox, dispositions, canonical, calls, restarts>>

RetrievalFails ==
  /\ worker.phase = "retrieval"
  /\ worker' = Finished(worker, progress)
  /\ UNCHANGED <<log, sidecar, canonical, calls, restarts>>

\* analyze throws source_unresolvable on a turn that it was asked for and has read.
Unanalysable(job, captured) == \E n \in job.row.ends : n <= captured /\ <<job.session, n>> \in Oversized

\* The read captures the Session as it is, or lags behind the notification.  It is analysed
\* outside of what retries a failed read: an analysis that throws ends the run, and the
\* request stays as it is.
Captures(n) ==
  /\ worker.phase = "reading"
  /\ worker' = IF Unanalysable(worker.job, n) THEN Finished(worker, progress)
               ELSE Compare(worker, progress, dispositions, indexed, worker.job, n)
  /\ UNCHANGED <<log, sidecar, canonical, calls, restarts>>

Read == Captures(log[worker.job.session])
ReadLags == Captures(log[worker.job.session] - 1)

\* retrySessionJob, only of the request that was read; the round goes on without a commit.
ReadFails ==
  /\ worker.phase = "reading"
  /\ LET s == worker.job.session IN
       progress' = IF progress[s].version = worker.job.row.version
                   THEN [progress EXCEPT ![s].retry = "waiting"] ELSE progress
  /\ worker' = Compare(worker, progress', dispositions, indexed, NoJob, 0)
  /\ UNCHANGED <<log, inbox, dispositions, indexed, canonical, calls, restarts>>

(***************************************************************************)
(* The groups of a round: exact groups by kernel, without those decided    *)
(* when the round read the decisions.  The comparison merges groups and    *)
(* relates each to the Versions it saw; when it fails they stay exact.     *)
(***************************************************************************)
View(sources, from, how, match) ==
  [sources |-> sources, turns |-> {t \in from.turns : Kernel[t] \in sources}, how |-> how,
   compared |-> IF how = "plain" THEN {} ELSE from.versions, match |-> match]

Suggested(from) == {g \in {Kernel[t] : t \in from.turns} : {g} \notin from.decided}

Exact(from) == {View({g}, from, "plain", 0) : g \in Suggested(from)}

\* Each group alone, or some of them as one composite.
Merges(kernels) ==
  {{{g} : g \in kernels \ m} \cup (IF m = {} THEN {} ELSE {m}) :
     m \in {n \in SUBSET kernels : Cardinality(n) # 1}}

\* compareComponents: the verdicts that name a Version.  Different and ambiguous ones do not.
Matching == {"same", "specialization"}

Related(sources, from) ==
  {View(sources, from, "distinct", 0)}
    \cup {View(sources, from, how, v) : how \in Matching, v \in from.versions}

Comparisons(from) ==
  {Exact(from)} \cup
  UNION {{vs \in SUBSET UNION {Related(ids, from) : ids \in merge} :
            /\ {v.sources : v \in vs} = merge
            /\ Cardinality(vs) = Cardinality(merge)} : merge \in Merges(Suggested(from))}

\* The row of the Session that was read: a newer request is never cleared by an older read.
AnyRequest(row, job) == TRUE                                       \* (mutant)
CurrentRequest(row, job) == row.version = job.row.version

Committed(row, job, captured) ==
  LET caughtUp == captured >= job.row.seq
      turns == Analysed(job, captured)
  IN IF CurrentRequest(row, job) /\ caughtUp
     THEN [row EXCEPT !.turns = turns, !.pending = FALSE, !.retry = "none", !.ends = {}]
     ELSE [row EXCEPT !.turns = turns, !.pending = TRUE,
                      !.retry = IF CurrentRequest(row, job) THEN "waiting" ELSE "none"]

\* rebuild: the row and the new generation in one transaction; then the next round.
Rebuild ==
  /\ worker.phase = "comparing"
  /\ \E groups \in Comparisons(worker.from) : inbox' = groups
  /\ progress' = IF worker.job = NoJob THEN progress
                 ELSE [progress EXCEPT ![worker.job.session] = Committed(@, worker.job, worker.captured)]
  /\ LET foreground == \E s \in Sessions : progress'[s].pending /\ progress'[s].retry = "none"
         next == Round([worker EXCEPT !.requested = @ \/ foreground], progress', dispositions)
     IN worker' = next.worker /\ dispositions' = next.ds
  /\ UNCHANGED <<log, indexed, canonical, calls, restarts>>

(***************************************************************************)
(* The owner's decisions, on a group as the inbox shows it.                *)
(***************************************************************************)
AnyDecision(id) == TRUE                                            \* (mutant)
Undecided(id) == dispositions[id] = None

Decide(ids, decision) == [id \in Ids |-> IF id \in ids THEN decision ELSE dispositions[id]]

\* dismiss
Dismiss(c, v) ==
  /\ calls[c].phase = "none" /\ v \in inbox
  /\ \A id \in Bindings(v.sources) : Undecided(id)
  /\ dispositions' = Decide(Bindings(v.sources), [decision |-> "dismissed", command |-> c, target |-> 0])
  /\ calls' = [calls EXCEPT ![c] = [phase |-> "dismissed"]]
  /\ UNCHANGED <<log, progress, inbox, indexed, worker, canonical, restarts>>

\* resolveForSave reads the decision on the group, not those on its sources.
Resolve(c, v) ==
  /\ calls[c].phase = "none" \/ (calls[c].phase = "lost" /\ calls[c].view = v)
  /\ v \in inbox
  /\ dispositions[v.sources] = None \/ dispositions[v.sources].command = c
  /\ calls' = [calls EXCEPT ![c] = [phase |-> "resolved", view |-> v]]
  /\ UNCHANGED <<log, sidecar, worker, canonical, restarts>>

Fails(c) == calls' = [calls EXCEPT ![c].phase = "failed"]

Recorded(c) == \E i \in DOMAIN receipts : receipts[i].command = c
ReceiptOf(c) == receipts[CHOOSE i \in DOMAIN receipts : receipts[i].command = c]

\* The canonical save: the group is a new Experience, or evidence for one that is active.
Commit(c) ==
  LET v == calls[c].view
      exact == active[Leader(v.sources)]
      refused == \/ v.how # "plain" /\ v.compared # ActiveVersions
                 \/ v.how = "same" /\ (v.match \notin ActiveVersions \/ exact \notin {0, v.match})
                 \/ v.how = "specialization" /\ exact # 0
      target == IF v.how = "same" THEN v.match ELSE exact
      receipt(outcome, version) ==
        [command |-> c, sources |-> v.sources, outcome |-> outcome, target |-> version]
  IN
  /\ calls[c].phase = "resolved"
  /\ IF Recorded(c) THEN calls' = [calls EXCEPT ![c].phase = "saved"] /\ UNCHANGED canonical
     ELSE IF refused THEN Fails(c) /\ UNCHANGED canonical
     ELSE /\ calls' = [calls EXCEPT ![c].phase = "saved"]
          /\ IF target # 0
             THEN /\ receipts' = Append(receipts, receipt("attached_as_evidence", target))
                  /\ UNCHANGED <<active, published>>
             ELSE /\ published < MaxVersions
                  /\ published' = published + 1
                  /\ active' = [active EXCEPT ![Leader(v.sources)] = published']
                  /\ receipts' = Append(receipts, receipt("saved_new_experience", published'))
  /\ UNCHANGED <<log, sidecar, worker, restarts>>

\* markSaved, whose failure is swallowed, and the drain that follows it.
MarkSaved(c) ==
  LET ids == Bindings(calls[c].view.sources)
      accepted == \A id \in ids : dispositions[id] = None \/ dispositions[id].command = c
      ds == IF accepted THEN Decide(ids, Saved(ReceiptOf(c))) ELSE dispositions
  IN
  /\ calls[c].phase = "saved"
  /\ Kicked([worker EXCEPT !.retrieval = TRUE], progress, ds)
  /\ calls' = [calls EXCEPT ![c].phase = "done"]
  /\ UNCHANGED <<log, progress, inbox, indexed, canonical, restarts>>

(***************************************************************************)
(* The canonical library, and the Host.                                    *)
(***************************************************************************)
Publish(g) ==
  /\ published < MaxVersions
  /\ published' = published + 1
  /\ active' = [active EXCEPT ![g] = published']
  /\ UNCHANGED <<log, sidecar, worker, receipts, calls, restarts>>

Forget(g) ==
  /\ active[g] # 0
  /\ active' = [active EXCEPT ![g] = 0]
  /\ UNCHANGED <<log, sidecar, worker, receipts, published, calls, restarts>>

\* The drain of the start, after the databases were opened again.
Restart ==
  /\ restarts < MaxRestarts
  /\ restarts' = restarts + 1
  /\ calls' = [c \in Commands |-> IF calls[c].phase \in {"resolved", "saved"}
                                  THEN [calls[c] EXCEPT !.phase = "lost"] ELSE calls[c]]
  /\ Kicked([Idle EXCEPT !.retrieval = TRUE], progress, dispositions)
  /\ UNCHANGED <<log, progress, inbox, indexed, canonical>>

Next ==
  \/ \E s \in Sessions : TurnEnds(s) \/ RetryDue(s)
  \/ Poll \/ BackgroundTimer
  \/ RetrievalBuilt \/ RetrievalFails
  \/ Read \/ ReadLags \/ ReadFails
  \/ Rebuild
  \/ \E c \in Commands : (\E v \in inbox : Dismiss(c, v) \/ Resolve(c, v)) \/ Commit(c) \/ MarkSaved(c)
  \/ \E g \in Groups : Publish(g) \/ Forget(g)
  \/ Restart

\* Timers fire, each Session's own when its time has come, and a wait ends; the retrieval rebuild, which does without embeddings when it
\* has to, does not fail for ever, and every Session can at last be read to its end.  That it can
\* be analysed is not assumed.
Fairness ==
  /\ WF_vars(Poll) /\ WF_vars(BackgroundTimer)
  /\ \A s \in Sessions : WF_vars(RetryDue(s)) /\ SF_vars(Read /\ worker.job.session = s)
  /\ WF_vars(RetrievalBuilt \/ RetrievalFails) /\ SF_vars(RetrievalBuilt) /\ WF_vars(Rebuild)
  /\ WF_vars(Read \/ ReadLags \/ ReadFails)

Spec == Init /\ [][Next]_vars
FairSpec == Spec /\ Fairness

(***************************************************************************)
(* Properties.                                                             *)
(***************************************************************************)
TypeOK ==
  /\ \A s \in Sessions : progress[s].turns \cup progress[s].ends \subseteq 1..log[s]
  /\ worker.phase \in {"idle", "retrieval", "reading", "comparing"}
  /\ \A v \in inbox : v.sources \in Ids
  /\ indexed \subseteq 1..published

\* No turn the worker was told of is lost: it was analysed, or a request for it is pending,
\* although turns end while an older read of their Session is under way.
TurnsKept ==
  \A s \in Sessions : \A n \in 1..log[s] :
    n \in progress[s].turns \/ (n \in progress[s].ends /\ progress[s].pending)

\* A Session that asks for a turn whose analysis throws: the run that reads it ends, and the
\* timer starts the next one with it.
Stuck(s) == \E n \in progress[s].ends : <<s, n>> \in Oversized

\* Every turn the worker was told of is analysed at last, through lagging and failed reads,
\* failed rebuilds and restarts, and while other Sessions ask for their turns; only a Session
\* that is stuck keeps its own turns waiting, and those of the Sessions the worker takes
\* after it.
TurnsLearned ==
  \A s \in Sessions :
    []<>(\/ 1..log[s] \subseteq progress[s].turns
         \/ \E t \in Sessions :
              Stuck(t) /\ (t = s \/ Before(Precedence(progress[t]), Precedence(progress[s]))))

\* A decision stands: a saved group stays saved to the same Version, and a dismissed one
\* changes only because a save of it was committed.
SavedStays ==
  [][\A id \in Ids : dispositions[id] # None /\ dispositions'[id] # dispositions[id] =>
       /\ dispositions[id].decision = "dismissed"
       /\ \E i \in DOMAIN receipts : dispositions'[id] = Saved(receipts[i])]_vars

\* A committed save closes its group in the inbox at last, and the sources of the group,
\* through crashes between the two databases, unless two receipts contradict each other.
Projected(c) ==
  \A i \in DOMAIN receipts : receipts[i].command = c =>
    \A id \in Bindings(receipts[i].sources) :
      dispositions[id].decision = receipts[i].outcome /\ dispositions[id].target = receipts[i].target

SavesProjected == []<>((\A c \in Commands : Projected(c)) \/ ~Repair(dispositions).ok)

\* The inbox can always be repaired from the receipts of the canonical store: "disposable
\* inbox reconciliation will retry".
ReceiptsReconcile == Repair(dispositions).ok
=============================================================================
