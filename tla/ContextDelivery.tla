-------------------------- MODULE ContextDelivery --------------------------
(***************************************************************************)
(* The life of delivered Experience contexts in sessions: preparation,     *)
(* append to the Session log, inclusion in a model request, retirement     *)
(* from the Session surface, and the Forget protocol that retires them     *)
(* from outside the session.                                               *)
(*                                                                         *)
(* Two stores are never updated together: the Experience database (one     *)
(* action per transaction) and the Session log of the Harness with its     *)
(* surface.  A session's pre-step reconciles them, closes what earlier     *)
(* usages left, and only then prepares a new context; a Forget runs the    *)
(* same retirement protocol at the same time; the host may die anywhere.   *)
(*                                                                         *)
(* Which usage is admitted is PlanAdmission's subject: preparing a context *)
(* is here the whole of claim and consume.  Each usage has one delivery    *)
(* (OneDelivery there), so a delivery also stands for its usage.           *)
(***************************************************************************)
EXTENDS Naturals, Sequences, FiniteSets

CONSTANTS
  Sessions,        \* Harness sessions, each with one root agent
  Deliveries,      \* identities of context deliveries
  SessionOf,       \* the session a delivery is prepared for
  Forgetter,       \* the Forget command as a user of the retirement protocol
  ForgetPlaces,    \* where it may run: the sessions' host, the CLI's own process
  NoDelivery,      \* no message was returned by the pre-step
  NoJob,           \* no retirement under way
  MaxRetirements   \* bound: retirement rows of a delivery

Workers == Sessions \cup {Forgetter}

ASSUME ConstantsAssumption ==
  /\ SessionOf \in [Deliveries -> Sessions]
  /\ Forgetter \notin Sessions
  /\ ForgetPlaces \subseteq {"host", "cli"}
  /\ NoDelivery \notin Deliveries
  /\ MaxRetirements \in Nat \ {0}

VARIABLES
  delivery,      \* context_deliveries: status, and whether the log event is known
  drawsOn,       \* deliveries whose snapshot refers to the Experience in question
  started,       \* usages that have step progress
  settlement,    \* usage_settlements, by who settled
  retirements,   \* context_retirements of a delivery, oldest first
  forget,        \* the forget request and its two deferred steps
  target,        \* forget_context_targets
  surface,       \* the delivery's message on the Session surface
  after,         \* what the Session log holds first after the message
  sent,          \* messages that went out in a model request (history)
  phase,         \* where the agent of a session is
  todo,          \* the part of its list a worker has not handled yet
  batch,         \* the usages a pre-step settles, the messages a request carries
  fresh,         \* the delivery whose message the pre-step returns
  job,           \* the retirement a worker is carrying out
  forgetting     \* where the Forget command is running, if it is

database == <<delivery, drawsOn, started, settlement, retirements, forget, target>>
log == <<surface, after, sent>>
host == <<phase, todo, batch, fresh, job, forgetting>>
vars == <<database, log, host>>

Of(s) == {d \in Deliveries : SessionOf[d] = s}
Rows == 1..MaxRetirements

DeliveryStatus == {"none", "prepared", "appended_to_session", "included_in_request",
                   "failed_before_send", "interrupted_before_request"}
RetirementStatus == {"pending", "replaced_on_surface", "failed"}
TargetState == {"none", "pending", "retired", "unknown", "failed"}
StepStatus == {"none", "not_applicable", "pending", "completed", "partial", "unknown", "failed"}
RequestStates == {"none", "processing", "partial", "completed"}
Phases == {"off", "idle", "reconcile", "close", "settle", "admit", "activate",
           "append", "request", "sent", "rejected"}
Job == [delivery: Deliveries, row: Rows, seen: {"pending", "replaced_on_surface"},
        step: {"link", "complete", "replaced", "failed", "defer", "unlink"}]

TypeOK ==
  /\ delivery \in [Deliveries -> [status: DeliveryStatus, logged: BOOLEAN]]
  /\ drawsOn \subseteq Deliveries
  /\ started \in [Deliveries -> BOOLEAN]
  /\ settlement \in [Deliveries -> {"none", "recall", "owner"}]
  /\ retirements \in [Deliveries -> Seq(RetirementStatus)]
  /\ \A d \in Deliveries : Len(retirements[d]) <= MaxRetirements
  /\ forget \in [state: RequestStates, context: StepStatus, projection: StepStatus]
  /\ target \in [Deliveries -> [state: TargetState, row: 0..MaxRetirements]]
  /\ surface \in [Deliveries -> {"absent", "current", "replaced"}]
  /\ after \in [Deliveries -> {"nothing", "response", "end"}]
  /\ sent \subseteq Deliveries
  /\ phase \in [Sessions -> Phases]
  /\ todo \in [Workers -> SUBSET Deliveries]
  /\ batch \in [Sessions -> SUBSET Deliveries]
  /\ fresh \in [Sessions -> Deliveries \cup {NoDelivery}]
  /\ job \in [Workers -> Job \cup {NoJob}]
  /\ forgetting \in {"host", "cli", "no"}

Init ==
  /\ delivery = [d \in Deliveries |-> [status |-> "none", logged |-> FALSE]]
  /\ drawsOn = {}
  /\ started = [d \in Deliveries |-> FALSE]
  /\ settlement = [d \in Deliveries |-> "none"]
  /\ retirements = [d \in Deliveries |-> <<>>]
  /\ forget = [state |-> "none", context |-> "none", projection |-> "none"]
  /\ target = [d \in Deliveries |-> [state |-> "none", row |-> 0]]
  /\ surface = [d \in Deliveries |-> "absent"]
  /\ after = [d \in Deliveries |-> "nothing"]
  /\ sent = {}
  /\ phase = [s \in Sessions |-> "off"]
  /\ todo = [w \in Workers |-> {}]
  /\ batch = [s \in Sessions |-> {}]
  /\ fresh = [s \in Sessions |-> NoDelivery]
  /\ job = [w \in Workers |-> NoJob]
  /\ forgetting = "no"

-----------------------------------------------------------------------------
\* What the database says of a delivery.

Status(d) == delivery[d].status

RetirementCompleted(d) ==
  \E r \in DOMAIN retirements[d] : retirements[d][r] = "replaced_on_surface"

ActiveStatus == {"appended_to_session", "included_in_request", "interrupted_before_request"}

\* (mutant) A context whose step ended before it was sent is taken for harmless.
ActiveWithoutInterrupted(s) ==
  {d \in Of(s) : /\ Status(d) \in ActiveStatus \ {"interrupted_before_request"}
                 /\ ~RetirementCompleted(d)}

\* listActiveContextDeliveries
Active(s) == {d \in Of(s) : Status(d) \in ActiveStatus /\ ~RetirementCompleted(d)}

\* listUnsettledSessionContextDeliveries
Unsettled(s) == {d \in Of(s) : Status(d) # "none" /\ settlement[d] = "none"}

\* (mutant) A context that never reached the log needs a retirement, too.
SurfaceRetired(d) == RetirementCompleted(d)

\* settleUsageForRecall demands that the context is off the surface.
SurfaceClosed(d) ==
  IF delivery[d].logged THEN RetirementCompleted(d) ELSE Status(d) = "failed_before_send"

\* reconcileForgetContextStep: the context step, from the states of the targets.
ContextStep(t) ==
  LET states == {t[d].state : d \in {e \in Deliveries : t[e].state # "none"}}
      orPartial(status) == IF "retired" \in states THEN "partial" ELSE status
  IN IF states = {} THEN "not_applicable"
     ELSE IF states = {"retired"} THEN "completed"
     ELSE IF "failed" \in states THEN orPartial("failed")
     ELSE IF "unknown" \in states THEN orPartial("unknown")
     ELSE "pending"

\* reconcileForgetRequestState: the other steps are completed by the commit.
RequestState(steps) ==
  IF "pending" \in steps THEN "processing"
  ELSE IF steps \cap {"failed", "unknown", "partial"} # {} THEN "partial"
  ELSE "completed"

Reconciled(t) ==
  [forget EXCEPT !.context = ContextStep(t),
                 !.state = RequestState({ContextStep(t), forget.projection})]

Mark(d, status) == delivery' = [delivery EXCEPT ![d].status = status]

\* recordContextAppended
MarkAppended(d) ==
  delivery' = [delivery EXCEPT ![d] =
    IF @.status = "included_in_request" THEN @
    ELSE [status |-> "appended_to_session", logged |-> TRUE]]

-----------------------------------------------------------------------------
\* The agent of a session and the reconciliation at the start of a pre-step.

Resume(s) ==
  /\ phase[s] = "off"
  /\ phase' = [phase EXCEPT ![s] = "idle"]
  /\ UNCHANGED <<database, log, todo, batch, fresh, job, forgetting>>

\* The agent is disposed of between two steps.
Dispose(s) ==
  /\ phase[s] = "idle"
  /\ phase' = [phase EXCEPT ![s] = "off"]
  /\ UNCHANGED <<database, log, todo, batch, fresh, job, forgetting>>

\* (mutant) A delivery that was only prepared is not reconciled.
AppendedOnly(s) == {d \in Of(s) : Status(d) = "appended_to_session"}

\* The deliveries whose outcome is open.
OpenOutcomes(s) == {d \in Of(s) : Status(d) \in {"prepared", "appended_to_session"}}

\* reconcileSession reads them, and then the log.
BeginStep(s) ==
  /\ phase[s] = "idle"
  /\ phase' = [phase EXCEPT ![s] = "reconcile"]
  /\ todo' = [todo EXCEPT ![s] = OpenOutcomes(s)]
  /\ UNCHANGED <<database, log, batch, fresh, job, forgetting>>

Handled(w, d) == todo' = [todo EXCEPT ![w] = @ \ {d}]

\* The message never reached the log.
ReconcileAbsent(s, d) ==
  /\ phase[s] = "reconcile" /\ d \in todo[s]
  /\ surface[d] = "absent"
  /\ Mark(d, "failed_before_send")
  /\ Handled(s, d)
  /\ UNCHANGED <<drawsOn, started, settlement, retirements, forget, target, log,
                 phase, batch, fresh, job, forgetting>>

\* The message is in the log: first the append is recorded ...
ReconcileAppended(s, d) ==
  /\ phase[s] = "reconcile" /\ d \in todo[s]
  /\ surface[d] # "absent"
  /\ Status(d) = "prepared" \/ after[d] = "nothing"
  /\ MarkAppended(d)
  /\ IF after[d] = "nothing" THEN Handled(s, d) ELSE UNCHANGED todo
  /\ UNCHANGED <<drawsOn, started, settlement, retirements, forget, target, log,
                 phase, batch, fresh, job, forgetting>>

\* ... and then what the log proves: a response of the same step, or its end.
ReconcileOutcome(s, d) ==
  /\ phase[s] = "reconcile" /\ d \in todo[s]
  /\ surface[d] # "absent"
  /\ Status(d) = "appended_to_session" /\ after[d] # "nothing"
  /\ Mark(d, IF after[d] = "response" THEN "included_in_request"
                                      ELSE "interrupted_before_request")
  /\ Handled(s, d)
  /\ UNCHANGED <<drawsOn, started, settlement, retirements, forget, target, log,
                 phase, batch, fresh, job, forgetting>>

-----------------------------------------------------------------------------
\* The trigger, and closing what earlier usages left: closePriorUsages.

\* No trigger, or one whose recall decision was made before: the step goes on
\* with what is on the surface.
FollowUp(s) ==
  /\ phase[s] = "reconcile" /\ todo[s] = {}
  /\ phase' = [phase EXCEPT ![s] = "append"]
  /\ UNCHANGED <<database, log, todo, batch, fresh, job, forgetting>>

\* The two lists are read before the first await.
Trigger(s) ==
  /\ phase[s] = "reconcile" /\ todo[s] = {}
  /\ phase' = [phase EXCEPT ![s] = "close"]
  /\ todo' = [todo EXCEPT ![s] = Active(s) \cup Unsettled(s)]
  /\ batch' = [batch EXCEPT ![s] = Unsettled(s)]
  /\ UNCHANGED <<database, log, fresh, job, forgetting>>

\* An exception while a context still has to be closed rejects the step.
Rejected(s) ==
  /\ phase' = [phase EXCEPT ![s] = "rejected"]
  /\ todo' = [todo EXCEPT ![s] = {}]
  /\ batch' = [batch EXCEPT ![s] = {}]

\* A context without an event is passed over when it is proven absent.
CloseAbsent(s, d) ==
  /\ phase[s] = "close" /\ d \in todo[s] /\ job[s] = NoJob
  /\ ~delivery[d].logged
  /\ IF Status(d) = "failed_before_send"
       THEN Handled(s, d) /\ UNCHANGED <<phase, batch>>
       ELSE Rejected(s)
  /\ UNCHANGED <<database, log, fresh, job, forgetting>>

\* An existing retirement is shared unless it failed.
NeedsRow(d) == retirements[d] = <<>> \/ retirements[d][Len(retirements[d])] = "failed"

\* requestContextRetirement, by a session or by the Forget command.
RequestRetirement(w, d, step) ==
  /\ job[w] = NoJob
  /\ delivery[d].logged
  /\ LET rows == IF NeedsRow(d) THEN Append(retirements[d], "pending") ELSE retirements[d]
     IN /\ retirements' = [retirements EXCEPT ![d] = rows]
        /\ job' = [job EXCEPT ![w] = [delivery |-> d, row |-> Len(rows),
                                      seen |-> rows[Len(rows)], step |-> step]]
  /\ UNCHANGED <<delivery, drawsOn, started, settlement, forget, target, log,
                 phase, todo, batch, fresh, forgetting>>

CloseLogged(s, d) ==
  /\ phase[s] = "close" /\ d \in todo[s]
  /\ RequestRetirement(s, d, "complete")

\* execution.flush and startUsage; the cursor may exist already.
StartForSettlement(s, d) ==
  /\ phase[s] = "settle" /\ d \in batch[s]
  /\ ~started[d]
  /\ started' = [started EXCEPT ![d] = TRUE]
  /\ UNCHANGED <<delivery, drawsOn, settlement, retirements, forget, target, log, host>>

\* settleUsageForRecall; a settlement made meanwhile is returned as it is.
SettleForRecall(s, d) ==
  /\ phase[s] = "settle" /\ d \in batch[s]
  /\ started[d]
  /\ IF settlement[d] # "none" \/ SurfaceClosed(d)
       THEN /\ settlement' = [settlement EXCEPT ![d] = IF @ = "none" THEN "recall" ELSE @]
            /\ batch' = [batch EXCEPT ![s] = @ \ {d}]
            /\ UNCHANGED <<phase, todo>>
       ELSE Rejected(s) /\ UNCHANGED settlement
  /\ UNCHANGED <<delivery, drawsOn, started, retirements, forget, target, log,
                 fresh, job, forgetting>>

ContextsClosed(s) ==
  /\ phase[s] = "close" /\ todo[s] = {} /\ job[s] = NoJob
  /\ phase' = [phase EXCEPT ![s] = "settle"]
  /\ UNCHANGED <<database, log, todo, batch, fresh, job, forgetting>>

\* The check that ends closePriorUsages.
UsagesClosed(s) ==
  /\ phase[s] = "settle" /\ batch[s] = {}
  /\ LET closed == Unsettled(s) = {} /\ Active(s) = {}
     IN phase' = [phase EXCEPT ![s] = IF closed THEN "admit" ELSE "rejected"]
  /\ UNCHANGED <<database, log, todo, batch, fresh, job, forgetting>>

-----------------------------------------------------------------------------
\* ContextRetirementCoordinator.complete, after its request was committed.

Step(w, step) == job' = [job EXCEPT ![w].step = step]
Working(w, step) == job[w] # NoJob /\ job[w].step = step
SessionLive(w) ==
  /\ phase[SessionOf[job[w].delivery]] # "off"
  /\ w = Forgetter => forgetting = "host"

JobOver(w) ==
  /\ job' = [job EXCEPT ![w] = NoJob]
  /\ todo' = [todo EXCEPT ![w] = @ \ {job[w].delivery}]

FoundReplaced(w) ==
  /\ Working(w, "complete") /\ job[w].seen = "replaced_on_surface"
  /\ JobOver(w)
  /\ UNCHANGED <<database, log, phase, batch, fresh, forgetting>>

\* The session is not live where the Forget runs.
FoundOffline(w) ==
  /\ Working(w, "complete") /\ job[w].seen = "pending"
  /\ ~SessionLive(w)
  /\ Step(w, "defer")
  /\ UNCHANGED <<database, log, phase, todo, batch, fresh, forgetting>>

\* The message is on the surface: replacing it is one synchronous append.
Replace(w) ==
  /\ Working(w, "complete") /\ job[w].seen = "pending" /\ SessionLive(w)
  /\ surface[job[w].delivery] = "current"
  /\ surface' = [surface EXCEPT ![job[w].delivery] = "replaced"]
  /\ Step(w, "replaced")
  /\ UNCHANGED <<database, after, sent, phase, todo, batch, fresh, forgetting>>

\* The append throws (a bounded number of times).
ReplaceFails(w) ==
  /\ Working(w, "complete") /\ job[w].seen = "pending" /\ SessionLive(w)
  /\ surface[job[w].delivery] = "current"
  /\ job[w].row < MaxRetirements
  /\ Step(w, "failed")
  /\ UNCHANGED <<database, log, phase, todo, batch, fresh, forgetting>>

\* The message is not on the surface any more: its replacement is traced.
TraceReplacement(w) ==
  /\ Working(w, "complete") /\ job[w].seen = "pending" /\ SessionLive(w)
  /\ surface[job[w].delivery] = "replaced"
  /\ Step(w, "replaced")
  /\ UNCHANGED <<database, log, phase, todo, batch, fresh, forgetting>>

\* A retired target is never written again; the others only by their own row.
LinkedTarget(d, row) == target[d].state \notin {"none", "retired"} /\ target[d].row = row

\* (mutant) A failed append overwrites the row whatever it says by then.
FinishOverwrites(d, row, status) == TRUE

\* finishContextRetirement changes nothing once the row says replaced.
FinishChanges(d, row, status) == retirements[d][row] # "replaced_on_surface"

FinishRetirement(w, status, targetState) ==
  LET d == job[w].delivery
      row == job[w].row
      changes == FinishChanges(d, row, status)
      updated == [target EXCEPT ![d].state = targetState]
  IN /\ retirements' = IF changes THEN [retirements EXCEPT ![d][row] = status] ELSE retirements
     /\ IF changes /\ LinkedTarget(d, row)
          THEN target' = updated /\ forget' = Reconciled(updated)
          ELSE UNCHANGED <<target, forget>>

FinishReplaced(w) ==
  /\ Working(w, "replaced")
  /\ FinishRetirement(w, "replaced_on_surface", "retired")
  /\ JobOver(w)
  /\ UNCHANGED <<delivery, drawsOn, started, settlement, log, phase, batch, fresh, forgetting>>

\* A failure is recorded and thrown: the pre-step is rejected, because a
\* context still has to be closed; a Forget notes it on its target.
FinishFailed(w) ==
  /\ Working(w, "failed")
  /\ FinishRetirement(w, "failed", "failed")
  /\ IF w = Forgetter
       THEN Step(w, "unlink") /\ UNCHANGED <<phase, todo, batch>>
       ELSE Rejected(w) /\ job' = [job EXCEPT ![w] = NoJob]
  /\ UNCHANGED <<delivery, drawsOn, started, settlement, log, fresh, forgetting>>

-----------------------------------------------------------------------------
\* Admission of a new context, and the step itself.

\* consumeClaimAndPrepareContext: never a version of a forgotten Experience.
PrepareContext(s, d, draws) ==
  /\ phase[s] = "admit" /\ d \in Of(s) /\ Status(d) = "none"
  /\ draws => forget.state = "none"
  /\ Mark(d, "prepared")
  /\ drawsOn' = IF draws THEN drawsOn \cup {d} ELSE drawsOn
  /\ fresh' = [fresh EXCEPT ![s] = d]
  /\ phase' = [phase EXCEPT ![s] = "activate"]
  /\ UNCHANGED <<started, settlement, retirements, forget, target, log,
                 todo, batch, job, forgetting>>

\* execution.activate creates the cursor before the message is returned.
Activate(s) ==
  /\ phase[s] = "activate"
  /\ started' = [started EXCEPT ![fresh[s]] = TRUE]
  /\ phase' = [phase EXCEPT ![s] = "append"]
  /\ UNCHANGED <<delivery, drawsOn, settlement, retirements, forget, target, log,
                 todo, batch, fresh, job, forgetting>>

\* Nothing is admitted, or admitting throws: the step goes on without a
\* context, or is rejected where the plan says Experience must be used.
AdmitNothing(s) ==
  /\ phase[s] \in {"admit", "activate"}
  /\ fresh' = [fresh EXCEPT ![s] = NoDelivery]
  /\ \E p \in {"append", "rejected"} : phase' = [phase EXCEPT ![s] = p]
  /\ UNCHANGED <<database, log, todo, batch, job, forgetting>>

\* The Agent Loop appends the returned message.  The observer's transaction
\* follows in the queue, or is lost with a full queue.
AppendContext(s, observed) ==
  /\ phase[s] = "append" /\ fresh[s] # NoDelivery
  /\ surface' = [surface EXCEPT ![fresh[s]] = "current"]
  /\ IF observed THEN MarkAppended(fresh[s]) ELSE UNCHANGED delivery
  /\ fresh' = [fresh EXCEPT ![s] = NoDelivery]
  /\ UNCHANGED <<drawsOn, started, settlement, retirements, forget, target, after, sent,
                 phase, todo, batch, job, forgetting>>

\* observeRequest: the messages of the request are read off the surface.
BeginRequest(s) ==
  /\ phase[s] = "append" /\ fresh[s] = NoDelivery
  /\ LET messages == {d \in Of(s) : surface[d] = "current"}
     IN /\ todo' = [todo EXCEPT ![s] = messages]
        /\ batch' = [batch EXCEPT ![s] = messages]
  /\ phase' = [phase EXCEPT ![s] = "request"]
  /\ UNCHANGED <<database, log, fresh, job, forgetting>>

RequestAppended(s, d) ==
  /\ phase[s] = "request" /\ d \in todo[s]
  /\ Status(d) \notin {"appended_to_session", "included_in_request"}
  /\ MarkAppended(d)
  /\ UNCHANGED <<drawsOn, started, settlement, retirements, forget, target, log, host>>

\* (mutant) Inclusion is recorded only for a message that is still current.
InclusionIfCurrent(d) ==
  IF surface[d] = "current" THEN "included_in_request" ELSE delivery[d].status

\* recordContextIncluded
Inclusion(d) == "included_in_request"

RequestIncluded(s, d) ==
  /\ phase[s] = "request" /\ d \in todo[s]
  /\ Status(d) \in {"appended_to_session", "included_in_request"}
  /\ Mark(d, Inclusion(d))
  /\ Handled(s, d)
  /\ UNCHANGED <<drawsOn, started, settlement, retirements, forget, target, log,
                 phase, batch, fresh, job, forgetting>>

\* Only then is the request streamed to the model.
SendRequest(s) ==
  /\ phase[s] = "request" /\ todo[s] = {}
  /\ sent' = sent \cup batch[s]
  /\ batch' = [batch EXCEPT ![s] = {}]
  /\ phase' = [phase EXCEPT ![s] = "sent"]
  /\ UNCHANGED <<database, surface, after, todo, fresh, job, forgetting>>

\* The log records, after the messages it holds, a response or the step's end.
LogsAfter(s, event) ==
  after' = [d \in Deliveries |->
    IF d \in Of(s) /\ surface[d] # "absent" /\ after[d] = "nothing" THEN event ELSE after[d]]

Respond(s) ==
  /\ phase[s] = "sent"
  /\ LogsAfter(s, "response")
  /\ UNCHANGED <<database, surface, sent, host>>

\* The step ends, or is aborted anywhere after the pre-step.
EndStep(s) ==
  /\ phase[s] \in {"append", "request", "sent", "rejected"}
  /\ LogsAfter(s, "end")
  /\ phase' = [phase EXCEPT ![s] = "idle"]
  /\ todo' = [todo EXCEPT ![s] = {}]
  /\ batch' = [batch EXCEPT ![s] = {}]
  /\ fresh' = [fresh EXCEPT ![s] = NoDelivery]
  /\ UNCHANGED <<database, surface, sent, job, forgetting>>

\* settleUsage by the owner, whatever the context's state (GuidedUsage).
OwnerSettles(d) ==
  /\ started[d] /\ settlement[d] = "none"
  /\ settlement' = [settlement EXCEPT ![d] = "owner"]
  /\ UNCHANGED <<delivery, drawsOn, started, retirements, forget, target, log, host>>

-----------------------------------------------------------------------------
\* ExperienceForgetService.forget

\* listForgetContextDeliveries
OpenTargets(t) == {d \in Deliveries : t[d].state \notin {"none", "retired"}}

\* forgetExperience: recall stops, and the contexts on a surface are targets.
ForgetCommit ==
  /\ forget.state = "none"
  /\ LET targets == {d \in drawsOn : Status(d) \in ActiveStatus /\ ~RetirementCompleted(d)}
         initial == [d \in Deliveries |->
           [state |-> IF d \in targets THEN "pending" ELSE "none", row |-> 0]]
     IN /\ target' = initial
        /\ forget' = [state |-> "processing", context |-> ContextStep(initial),
                      projection |-> "pending"]
        /\ todo' = [todo EXCEPT ![Forgetter] = targets]
  /\ forgetting' \in ForgetPlaces
  /\ UNCHANGED <<delivery, drawsOn, started, settlement, retirements, log,
                 phase, batch, fresh, job>>

\* The same command sent once more resumes with the targets left open.
ForgetAgain ==
  /\ forgetting = "no" /\ forget.state \in {"processing", "partial"}
  /\ forgetting' \in ForgetPlaces
  /\ todo' = [todo EXCEPT ![Forgetter] = OpenTargets(target)]
  /\ UNCHANGED <<database, log, phase, batch, fresh, job>>

ForgetRequests(d) ==
  /\ d \in todo[Forgetter]
  /\ RequestRetirement(Forgetter, d, "link")

\* linkForgetContextRetirement
LinkTarget(d, state, row) ==
  LET t == IF target[d].state = "retired" THEN target
           ELSE [target EXCEPT ![d] = [state |-> state, row |-> row]]
  IN /\ target' = t
     /\ forget' = Reconciled(t)

ForgetLinks ==
  /\ Working(Forgetter, "link")
  /\ LET j == job[Forgetter]
     IN LinkTarget(j.delivery, IF j.seen = "pending" THEN "pending" ELSE "retired", j.row)
  /\ Step(Forgetter, "complete")
  /\ UNCHANGED <<delivery, drawsOn, started, settlement, retirements, log,
                 phase, todo, batch, fresh, forgetting>>

\* (mutant) The retirement of an offline session is taken for done.
OfflineRetired == "retired"

\* How a target is reported whose session is not live.
OfflineState == "unknown"

\* The retirement stays pending until the session is live again.
ForgetDefers ==
  /\ Working(Forgetter, "defer")
  /\ LinkTarget(job[Forgetter].delivery, OfflineState, job[Forgetter].row)
  /\ JobOver(Forgetter)
  /\ UNCHANGED <<delivery, drawsOn, started, settlement, retirements, log,
                 phase, batch, fresh, forgetting>>

\* The catch around one target drops its link.
ForgetUnlinks ==
  /\ Working(Forgetter, "unlink")
  /\ LinkTarget(job[Forgetter].delivery, "failed", 0)
  /\ JobOver(Forgetter)
  /\ UNCHANGED <<delivery, drawsOn, started, settlement, retirements, log,
                 phase, batch, fresh, forgetting>>

\* learning.drain, then finishForgetProjection with its outcome.
ForgetProjects(outcome) ==
  /\ forgetting # "no" /\ todo[Forgetter] = {} /\ job[Forgetter] = NoJob
  /\ forget' = [forget EXCEPT !.projection = outcome,
                              !.state = RequestState({forget.context, outcome})]
  /\ forgetting' = "no"
  /\ UNCHANGED <<delivery, drawsOn, started, settlement, retirements, target, log,
                 phase, todo, batch, fresh, job>>

-----------------------------------------------------------------------------
\* A process dies: what it holds outside the stores is gone.  The sessions'
\* host takes a Forget with it only if the command runs there.
HostDies ==
  LET dead == IF forgetting = "cli" THEN Sessions ELSE Workers
  IN /\ phase' = [s \in Sessions |-> "off"]
     /\ todo' = [w \in Workers |-> IF w \in dead THEN {} ELSE todo[w]]
     /\ batch' = [s \in Sessions |-> {}]
     /\ fresh' = [s \in Sessions |-> NoDelivery]
     /\ job' = [w \in Workers |-> IF w \in dead THEN NoJob ELSE job[w]]
     /\ forgetting' = IF forgetting = "cli" THEN "cli" ELSE "no"
     /\ UNCHANGED <<database, log>>

CommandDies ==
  /\ forgetting = "cli"
  /\ forgetting' = "no"
  /\ todo' = [todo EXCEPT ![Forgetter] = {}]
  /\ job' = [job EXCEPT ![Forgetter] = NoJob]
  /\ UNCHANGED <<database, log, phase, batch, fresh>>

\* The retirement protocol, for whoever runs it.
RetirementStep(w) ==
  \/ FoundReplaced(w)
  \/ FoundOffline(w)
  \/ Replace(w)
  \/ ReplaceFails(w)
  \/ TraceReplacement(w)
  \/ FinishReplaced(w)
  \/ FinishFailed(w)

\* What a session does by itself once its pre-step has begun.
PreStep(s) ==
  \/ \E d \in Deliveries :
       \/ ReconcileAbsent(s, d)
       \/ ReconcileAppended(s, d)
       \/ ReconcileOutcome(s, d)
       \/ CloseAbsent(s, d)
       \/ CloseLogged(s, d)
       \/ StartForSettlement(s, d)
       \/ SettleForRecall(s, d)
  \/ FollowUp(s)
  \/ Trigger(s)
  \/ ContextsClosed(s)
  \/ UsagesClosed(s)
  \/ \E d \in Deliveries, draws \in BOOLEAN : PrepareContext(s, d, draws)
  \/ Activate(s)
  \/ AdmitNothing(s)
  \/ RetirementStep(s)

StepItself(s) ==
  \/ \E observed \in BOOLEAN : AppendContext(s, observed)
  \/ BeginRequest(s)
  \/ \E d \in Deliveries : RequestAppended(s, d) \/ RequestIncluded(s, d)
  \/ SendRequest(s)
  \/ Respond(s)
  \/ EndStep(s)

ForgetStep ==
  \/ \E d \in Deliveries : ForgetRequests(d)
  \/ ForgetLinks
  \/ ForgetDefers
  \/ ForgetUnlinks
  \/ \E outcome \in {"completed", "failed"} : ForgetProjects(outcome)
  \/ RetirementStep(Forgetter)

Next ==
  \/ \E s \in Sessions :
       Resume(s) \/ Dispose(s) \/ BeginStep(s) \/ PreStep(s) \/ StepItself(s)
  \/ \E d \in Deliveries : OwnerSettles(d)
  \/ ForgetCommit
  \/ ForgetAgain
  \/ ForgetStep
  \/ HostDies
  \/ CommandDies

Spec == Init /\ [][Next]_vars
-----------------------------------------------------------------------------
\* Properties.

\* A session never carries two Experience contexts: however reconciliation,
\* retirement, Forget and crashes interleave, the message of an earlier usage
\* is off the surface before the next one is appended.
OneActiveContext ==
  \A d, e \in Deliveries :
    SessionOf[d] = SessionOf[e] /\ surface[d] = "current" /\ surface[e] = "current" => d = e

\* What is reported retired is off the surface: a retirement row that says
\* replaced, a usage settled because its context was superseded, and a Forget
\* target or request that says its contexts are retired.
RetiredIsOffSurface ==
  \A d \in Deliveries :
    \/ RetirementCompleted(d)
    \/ settlement[d] = "recall"
    \/ target[d].state = "retired"
    \/ target[d].state # "none" /\ forget.state = "completed"
    => surface[d] # "current"

\* The exceptions of closePriorUsages and settleUsageForRecall that would
\* block a session for good are never raised: a context without an event was
\* proven absent by the reconciliation before, every usage is settled after
\* its context was closed, and closing leaves nothing open.
ClosureProven ==
  \A s \in Sessions :
    /\ phase[s] = "close" =>
         \A d \in todo[s] : ~delivery[d].logged => Status(d) = "failed_before_send"
    /\ phase[s] = "settle" =>
         /\ \A d \in batch[s] : settlement[d] = "none" => SurfaceClosed(d)
         /\ Unsettled(s) \subseteq batch[s] /\ Active(s) = {}

\* What a model has been shown is on record: a message that went out in a
\* request is recorded included, for good, and one recorded as failed before
\* it was sent is not in the log and never went out.
SentIsRecorded ==
  /\ \A d \in sent : Status(d) = "included_in_request"
  /\ \A d \in Deliveries : Status(d) = "failed_before_send" =>
       surface[d] = "absent" /\ \A s \in Sessions : fresh[s] # d

\* Retirements are shared: while one is pending no second one is requested,
\* so a session and a Forget that close the same context agree on the row.
OnePendingRetirement ==
  \A d \in Deliveries : \A q, r \in DOMAIN retirements[d] :
    retirements[d][q] = "pending" /\ retirements[d][r] = "pending" => q = r

\* A retirement proven on the surface stays proven, whoever reports a failure
\* later, and so does the Forget target that was told of it.
ProofsAreFinal ==
  [][\A d \in Deliveries :
       /\ \A r \in DOMAIN retirements[d] :
            retirements[d][r] = "replaced_on_surface" =>
              retirements'[d][r] = "replaced_on_surface"
       /\ target[d].state = "retired" => target'[d].state = "retired"]_vars

\* Never first-deliver a plan whose Experience has been forgotten: a Forget
\* that reports completion leaves none of its contexts on a surface.
ForgottenIsNotDelivered ==
  forget.state = "completed" => \A d \in drawsOn : surface[d] # "current"

-----------------------------------------------------------------------------
\* Liveness.

Fairness == (\A s \in Sessions : WF_vars(PreStep(s))) /\ WF_vars(ForgetStep)
FairSpec == Spec /\ Fairness

InPreStep(s) == phase[s] \in {"reconcile", "close", "settle", "admit", "activate"}

\* A pre-step and a Forget always come to an end: neither waits for the other,
\* nor for a session that is not live.
WorkersFinish ==
  /\ \A s \in Sessions : []<>~InPreStep(s)
  /\ []<>(forgetting = "no")

\* A session is never wedged by what earlier usages left: if triggers keep
\* coming and the host stays up, closing succeeds again and again and does not
\* reject one step after the other.
SessionsAdmitAgain ==
  \A s \in Sessions :
    <>[](phase[s] # "off") /\ []<>(phase[s] = "close") => []<>(phase[s] = "admit")
=============================================================================
