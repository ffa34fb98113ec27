--------------------------- MODULE PlanAdmission ---------------------------
(***************************************************************************)
(* Plan approval and one-time admission of an Experience usage.            *)
(*                                                                         *)
(* A usage plan is stored with a pending approval request.  The owner      *)
(* decides it in the browser, or answers the question the host asks in the *)
(* live session.  An approval mints one retry binding; the pre-step of a   *)
(* session that runs the exact task claims that binding under a lease,     *)
(* and, after several awaits, consumes it: only then is one Experience     *)
(* context delivered.  Requests, attempts and bindings are rows of their   *)
(* own tables and are copied once more into the usage's stored projection. *)
(*                                                                         *)
(* Each action is one BEGIN IMMEDIATE transaction of repository.ts; what   *)
(* happens between two transactions (questions to the owner, observations, *)
(* a crash) is in the interleaving.  A transaction that throws is rolled   *)
(* back: it is a guard here, unless the thrower holds something it then    *)
(* forgets.  Command receipts, audit rows and learning outbox rows are     *)
(* left out, and so are the principal (there is one local owner) and the   *)
(* allowed use modes of a version, which never change.                     *)
(***************************************************************************)
EXTENDS Naturals, FiniteSets

CONSTANTS
  Usages,        \* identities of the usages the run may create
  Sessions,      \* live Harness sessions
  Headless,      \* stands for a plan without a session (sessionId = null)
  Tasks,         \* task input digests
  Scopes,        \* scope digests
  ScopeOf,       \* the scope a session's pre-step computes for its task
  RootOf,        \* the workspace root a scope digest contains
  Versions,      \* Experience versions
  Keys,          \* recall decision keys of pre-step triggers
  NoKey,         \* a plan made in the browser has no recall decision key
  NoPlan,        \* the usage does not exist yet
  NoClaim,       \* the session is not between claim and consume
  Ttl,           \* planApprovalTtlMs
  LeaseTime,     \* admissionClaimLeaseMs
  MaxRev,        \* bound: plan revisions of a usage
  MaxClaims,     \* bound: claims of one binding
  MaxTime        \* bound: the clock

ASSUME ConstantsAssumption ==
  /\ Headless \notin Sessions
  /\ ScopeOf \in [Sessions -> Scopes]
  /\ Ttl \in Nat \ {0} /\ LeaseTime \in Nat \ {0}
  /\ MaxRev \in Nat \ {0} /\ MaxClaims \in Nat \ {0} /\ MaxTime \in Nat

VARIABLES
  now,            \* Date.now()
  current,        \* versions that are the active current version of a series
  plan,           \* what was fixed when the usage was planned
  usage,          \* experience_usages: state column and the projection payload
  requests,       \* plan_approval_requests, by usage and plan revision
  planAttempts,   \* admission_attempts written with a plan revision
  claimAttempts,  \* admission_attempts written by the claims of the binding
  bindings,       \* admission_retry_bindings, one per approved usage
  deliveries,     \* context_deliveries of the usage
  asking,         \* the question the host is awaiting about the usage
  admission       \* the claim a session's pre-step holds across its awaits

tables == <<usage, requests, planAttempts, claimAttempts, bindings, deliveries>>
vars == <<now, current, plan, tables, asking, admission>>

Revs == 1..MaxRev
Claims == 1..MaxClaims

Plans == [session: Sessions \cup {Headless}, task: Tasks, scope: Scopes,
          versions: SUBSET Versions, key: Keys \cup {NoKey}]

ASSUME NoPlanAssumption == NoPlan \notin Plans

RequestStatus == {"none", "pending", "approved", "denied", "withdrawn",
                  "expired", "superseded"}
PlanAttemptState == {"none", "pending_external_decision", "approved", "denied",
                     "interaction_interrupted", "no_answerer_continue"}
ClaimAttemptState == {"none", "ready_to_enter", "entered", "rejected", "interrupted"}
BindingState == {"none", "active", "claimed", "consumed", "expired", "superseded"}
UsageStates == {"none", "awaiting_plan_approval", "approved_not_started",
                "rejected_before_use", "withdrawn_before_use", "no_match",
                "context_prepared", "approval_expired", "approval_superseded"}

\* The stored projection: the state column, and in the payload the plan
\* revision with the copies of its request, attempt and retry binding.
Projection == [state: UsageStates, rev: 0..MaxRev, request: RequestStatus,
               attempt: PlanAttemptState, binding: BindingState, claim: 0..MaxClaims]
Request == [status: RequestStatus, expires: Nat]
Binding == [state: BindingState, rev: 0..MaxRev, claim: 0..MaxClaims,
            lease: Nat, expires: Nat]
Question == [rev: 0..MaxRev, adaptable: BOOLEAN]

NoUsage == [state |-> "none", rev |-> 0, request |-> "none", attempt |-> "none",
            binding |-> "none", claim |-> 0]
NoBinding == [state |-> "none", rev |-> 0, claim |-> 0, lease |-> 0, expires |-> 0]
NoQuestion == [rev |-> 0, adaptable |-> FALSE]

TypeOK ==
  /\ now \in Nat
  /\ current \subseteq Versions
  /\ plan \in [Usages -> Plans \cup {NoPlan}]
  /\ usage \in [Usages -> Projection]
  /\ requests \in [Usages -> [Revs -> Request]]
  /\ planAttempts \in [Usages -> [Revs -> PlanAttemptState]]
  /\ claimAttempts \in [Usages -> [Claims -> ClaimAttemptState]]
  /\ bindings \in [Usages -> Binding]
  /\ deliveries \in [Usages -> SUBSET (Sessions \X Claims)]
  /\ asking \in [Usages -> Question]
  /\ admission \in [Sessions -> (Usages \X Claims) \cup {NoClaim}]

Init ==
  /\ now = 0
  /\ current = Versions
  /\ plan = [u \in Usages |-> NoPlan]
  /\ usage = [u \in Usages |-> NoUsage]
  /\ requests = [u \in Usages |-> [r \in Revs |-> [status |-> "none", expires |-> 0]]]
  /\ planAttempts = [u \in Usages |-> [r \in Revs |-> "none"]]
  /\ claimAttempts = [u \in Usages |-> [k \in Claims |-> "none"]]
  /\ bindings = [u \in Usages |-> NoBinding]
  /\ deliveries = [u \in Usages |-> {}]
  /\ asking = [u \in Usages |-> NoQuestion]
  /\ admission = [s \in Sessions |-> NoClaim]

-----------------------------------------------------------------------------
\* Rows and projections.

\* (mutant) The status is stored as it is when no state is named for it.
UsageStateUnnamed(request) ==
  CASE request = "approved" -> "approved_not_started"
    [] request = "denied"   -> "rejected_before_use"
    [] OTHER                -> request

\* The usage state a projection is given whenever it is rewritten.
UsageState(request) ==
  CASE request = "approved"  -> "approved_not_started"
    [] request = "denied"    -> "rejected_before_use"
    [] request = "withdrawn" -> "withdrawn_before_use"
    [] request = "none"      -> "no_match"
    [] OTHER                 -> "awaiting_plan_approval"

Rewritten(p) == [p EXCEPT !.state = UsageState(p.request)]

Live(u) == bindings[u].state \in {"active", "claimed"}
Expired(u) == bindings[u].expires <= now
Leased(u) == bindings[u].state = "claimed" /\ bindings[u].lease > now
VersionsUnchecked(u) == TRUE   \* (mutant) the versions are not checked again
VersionsCurrent(u) == plan[u].versions \subseteq current

\* finishClaimedAdmissionAttempt: only the latest claimant, and only while it
\* has not entered.
FinishedAttempts(u, outcome) ==
  LET k == bindings[u].claim
  IN IF k # 0 /\ claimAttempts[u][k] = "ready_to_enter"
       THEN [claimAttempts[u] EXCEPT ![k] = outcome]
       ELSE claimAttempts[u]

\* terminalApprovalRequest: an approved request ends with its binding.
EndedRequest(u, status) ==
  IF usage[u].request = "approved" /\ usage[u].rev = bindings[u].rev THEN status
  ELSE usage[u].request

EndedRequestRows(u, status) ==
  IF EndedRequest(u, status) = usage[u].request THEN requests[u]
  ELSE [requests[u] EXCEPT ![usage[u].rev].status = status]

EndedBinding(u, status) == [bindings[u] EXCEPT !.state = status, !.lease = 0]

EndedUsage(u, status, state) ==
  [usage[u] EXCEPT !.state = state, !.request = EndedRequest(u, status),
                   !.binding = status, !.claim = bindings[u].claim]

ExpiredUsage(u) == EndedUsage(u, "expired", "approval_expired")

-----------------------------------------------------------------------------
\* Planning and the owner's decision.

\* createPlanningResult, and the start of the question to the live session.
PlanTask(u, p, asks) ==
  /\ plan[u] = NoPlan
  /\ p.versions \subseteq current
  /\ p.key # NoKey => \A v \in Usages : plan[v] # NoPlan => plan[v].key # p.key
  /\ plan' = [plan EXCEPT ![u] = p]
  /\ LET matched == p.versions # {}
         request == IF matched THEN "pending" ELSE "none"
         attempt == IF matched THEN "pending_external_decision"
                               ELSE "no_answerer_continue"
     IN /\ usage' = [usage EXCEPT ![u] =
             [NoUsage EXCEPT !.state = UsageState(request), !.rev = 1,
                             !.request = request, !.attempt = attempt]]
        /\ requests' = IF matched
             THEN [requests EXCEPT ![u][1] = [status |-> "pending", expires |-> now + Ttl]]
             ELSE requests
        /\ planAttempts' = [planAttempts EXCEPT ![u][1] = attempt]
        /\ asking' = IF matched /\ asks
             THEN [asking EXCEPT ![u] = [rev |-> 1, adaptable |-> TRUE]]
             ELSE asking
  /\ UNCHANGED <<now, current, claimAttempts, bindings, deliveries, admission>>

\* (mutant) The request is not required to be pending any more.
DecidableAgain(u, r) == usage[u].rev = r /\ requests[u][r].expires > now

\* The part of decidePlan that every decision shares.
Decidable(u, r) ==
  /\ requests[u][r].status = "pending"
  /\ requests[u][r].expires > now
  /\ usage[u].rev = r

\* (mutant) Only unclaimed bindings are compared.
ActiveSameKey(u) == {v \in Usages : /\ bindings[v].state = "active"
                                    /\ plan[v].task = plan[u].task
                                    /\ plan[v].scope = plan[u].scope}

\* assertRetryBindingKeyAvailable: the live bindings with the same exact key.
SameKey(u) == {v \in Usages : /\ Live(v)
                              /\ plan[v].task = plan[u].task
                              /\ plan[v].scope = plan[u].scope}

Approve(u, r) ==
  /\ Decidable(u, r)
  /\ VersionsCurrent(u)
  /\ LET dead == SameKey(u)
     IN /\ \A v \in dead : Expired(v)
        /\ requests' = [v \in Usages |->
             IF v = u THEN [requests[u] EXCEPT ![r].status = "approved"]
             ELSE IF v \in dead THEN EndedRequestRows(v, "expired")
             ELSE requests[v]]
        /\ claimAttempts' = [v \in Usages |->
             IF v \in dead THEN FinishedAttempts(v, "interrupted") ELSE claimAttempts[v]]
        /\ bindings' = [v \in Usages |->
             IF v = u THEN [state |-> "active", rev |-> r, claim |-> 0, lease |-> 0,
                            expires |-> requests[u][r].expires]
             ELSE IF v \in dead THEN EndedBinding(v, "expired")
             ELSE bindings[v]]
        /\ usage' = [v \in Usages |->
             IF v = u
               THEN Rewritten([usage[u] EXCEPT !.request = "approved", !.attempt = "approved",
                                               !.binding = "active", !.claim = 0])
             ELSE IF v \in dead THEN ExpiredUsage(v)
             ELSE usage[v]]
        /\ planAttempts' = [planAttempts EXCEPT ![u][r] = "approved"]
  /\ UNCHANGED <<now, current, plan, deliveries, admission>>

\* Deny and withdraw differ in the request status they leave.
Refuse(u, r, status) ==
  /\ Decidable(u, r)
  /\ requests' = [requests EXCEPT ![u][r].status = status]
  /\ planAttempts' = [planAttempts EXCEPT ![u][r] = "denied"]
  /\ usage' = [usage EXCEPT ![u] =
       Rewritten([@ EXCEPT !.request = status, !.attempt = "denied", !.binding = "none"])]
  /\ UNCHANGED <<now, current, plan, claimAttempts, bindings, deliveries, admission>>

\* The owner decides in the browser or the CLI, at any time.
OwnerApproves(u) == \E r \in Revs : Approve(u, r) /\ UNCHANGED asking
OwnerRefuses(u) ==
  \E r \in Revs, status \in {"denied", "withdrawn"} :
    Refuse(u, r, status) /\ UNCHANGED asking

-----------------------------------------------------------------------------
\* The answer to the question asked in the session: applyInteractionAnswer.

Asked(u) == asking[u].rev # 0
QuestionShown(u) == Asked(u) /\ plan[u].session # Headless
QuestionOver(u) == asking' = [asking EXCEPT ![u] = NoQuestion]

AnswerApproves(u) == QuestionShown(u) /\ Approve(u, asking[u].rev) /\ QuestionOver(u)
AnswerRefuses(u) ==
  QuestionShown(u) /\ Refuse(u, asking[u].rev, "denied") /\ QuestionOver(u)

\* adaptPlan: the pending request is superseded by a new plan revision, which
\* is asked about once more without the choice to adapt.
AnswerAdapts(u) ==
  /\ QuestionShown(u)
  /\ asking[u].adaptable
  /\ usage[u].request = "pending"
  /\ usage[u].rev < MaxRev
  /\ LET r == usage[u].rev
     IN /\ requests[u][r].status = "pending"
        /\ requests' = [requests EXCEPT
             ![u][r].status = "superseded",
             ![u][r + 1] = [status |-> "pending", expires |-> now + Ttl]]
        /\ planAttempts' = [planAttempts EXCEPT ![u][r + 1] = "pending_external_decision"]
        /\ usage' = [usage EXCEPT ![u] =
             Rewritten([@ EXCEPT !.rev = r + 1, !.request = "pending",
                                 !.attempt = "pending_external_decision",
                                 !.binding = "none", !.claim = 0])]
        /\ asking' = [asking EXCEPT ![u] = [rev |-> r + 1, adaptable |-> FALSE]]
  /\ UNCHANGED <<now, current, plan, claimAttempts, bindings, deliveries, admission>>

\* recordPlanInteractionOutcome: no provider, a cancelled question or a second
\* request to adapt.  It rewrites the projection from what is stored by then,
\* whether or not the request is still pending.
AnswerRecorded(u) ==
  /\ Asked(u)
  /\ \E attempt \in IF QuestionShown(u)
                      THEN {"interaction_interrupted", "pending_external_decision",
                            "no_answerer_continue"}
                      ELSE {"pending_external_decision", "no_answerer_continue"} :
       /\ planAttempts' = [planAttempts EXCEPT ![u][usage[u].rev] = attempt]
       /\ usage' = [usage EXCEPT ![u] = Rewritten([@ EXCEPT !.attempt = attempt])]
  /\ QuestionOver(u)
  /\ UNCHANGED <<now, current, plan, requests, claimAttempts, bindings, deliveries, admission>>

\* The decision or the adaptation the answer asks for throws because the
\* request was decided meanwhile or has expired, or the process ends.
AnswerLost(u) ==
  /\ Asked(u)
  /\ QuestionOver(u)
  /\ UNCHANGED <<now, current, plan, tables, admission>>

-----------------------------------------------------------------------------
\* Admission by a session's pre-step.

\* The live bindings claimAdmissionRetryBinding considers for session s and
\* task t: a binding with a session belongs to it whatever its scope, one
\* without belongs to the exact scope.
Matching(s, t) ==
  {u \in Usages : /\ Live(u)
                  /\ plan[u].task = t
                  /\ IF plan[u].session = Headless THEN plan[u].scope = ScopeOf[s]
                                                   ELSE plan[u].session = s}

Dead(s, t) == {u \in Matching(s, t) : Expired(u)}
Unleased(s, t) == {u \in Matching(s, t) \ Dead(s, t) : ~Leased(u)}
Lapsed(s, t) == {u \in Unleased(s, t) : bindings[u].state = "claimed"}
Eligible(s, t) == {u \in Unleased(s, t) : RootOf[plan[u].scope] = RootOf[ScopeOf[s]]}

\* What every claim does to the bindings it passes over.
SweptRequests(s, t) ==
  [u \in Usages |-> IF u \in Dead(s, t) THEN EndedRequestRows(u, "expired") ELSE requests[u]]
SweptAttempts(s, t) ==
  [u \in Usages |-> IF u \in Dead(s, t) \cup Lapsed(s, t)
                      THEN FinishedAttempts(u, "interrupted") ELSE claimAttempts[u]]
SweptBindings(s, t) ==
  [u \in Usages |-> IF u \in Dead(s, t) THEN EndedBinding(u, "expired") ELSE bindings[u]]
SweptUsage(s, t) ==
  [u \in Usages |-> IF u \in Dead(s, t) THEN ExpiredUsage(u) ELSE usage[u]]

\* No eligible binding: the claim returns null and what it swept is committed.
ClaimNothing(s, t) ==
  /\ admission[s] = NoClaim
  /\ Eligible(s, t) = {}
  /\ requests' = SweptRequests(s, t)
  /\ claimAttempts' = SweptAttempts(s, t)
  /\ bindings' = SweptBindings(s, t)
  /\ usage' = SweptUsage(s, t)
  /\ UNCHANGED <<now, current, plan, planAttempts, deliveries, asking, admission>>

\* The claim revision that tells a claimant from the ones before it.
NextClaim(u) == bindings[u].claim + 1

\* Exactly one eligible binding: a new attempt takes it under a lease.  (With
\* two eligible bindings the claim throws and everything is rolled back.)
ClaimBinding(s, t, u) ==
  /\ admission[s] = NoClaim
  /\ Eligible(s, t) = {u}
  /\ bindings[u].claim < MaxClaims
  /\ LET k == NextClaim(u)
     IN /\ bindings' = [SweptBindings(s, t) EXCEPT
             ![u].state = "claimed", ![u].claim = k, ![u].lease = now + LeaseTime]
        /\ claimAttempts' = [SweptAttempts(s, t) EXCEPT ![u][k] = "ready_to_enter"]
        /\ usage' = [SweptUsage(s, t) EXCEPT ![u] =
             Rewritten([@ EXCEPT !.binding = "claimed", !.claim = k])]
        /\ admission' = [admission EXCEPT ![s] = <<u, k>>]
  /\ requests' = SweptRequests(s, t)
  /\ UNCHANGED <<now, current, plan, planAttempts, deliveries, asking>>

\* The claim the pre-step holds is still the claim of the row.
ClaimIsCurrent(u, k) == Leased(u) /\ bindings[u].claim = k

ApprovalIsCurrent(u) ==
  /\ usage[u].request = "approved"
  /\ usage[u].rev = bindings[u].rev
  /\ requests[u][usage[u].rev].expires > now

\* consumeClaimAndPrepareContext: the claim is no longer current, it throws.
ConsumeStale(s) ==
  /\ admission[s] # NoClaim
  /\ ~ClaimIsCurrent(admission[s][1], admission[s][2])
  /\ admission' = [admission EXCEPT ![s] = NoClaim]
  /\ UNCHANGED <<now, current, plan, tables, asking>>

\* The approval, the observations or a version changed: supersedeBinding is
\* committed and no context is delivered.
ConsumeSuperseded(s, sameFacts) ==
  /\ admission[s] # NoClaim
  /\ LET u == admission[s][1]
     IN /\ ClaimIsCurrent(u, admission[s][2])
        /\ ~(ApprovalIsCurrent(u) /\ sameFacts /\ VersionsCurrent(u))
        /\ requests' = [requests EXCEPT ![u] = EndedRequestRows(u, "superseded")]
        /\ claimAttempts' = [claimAttempts EXCEPT ![u] = FinishedAttempts(u, "rejected")]
        /\ bindings' = [bindings EXCEPT ![u] = EndedBinding(u, "superseded")]
        /\ usage' = [usage EXCEPT ![u] = EndedUsage(u, "superseded", "approval_superseded")]
  /\ admission' = [admission EXCEPT ![s] = NoClaim]
  /\ UNCHANGED <<now, current, plan, planAttempts, deliveries, asking>>

ConsumeDelivers(s, sameFacts) ==
  /\ admission[s] # NoClaim
  /\ LET u == admission[s][1]
         k == admission[s][2]
     IN /\ ClaimIsCurrent(u, k)
        /\ ApprovalIsCurrent(u)
        /\ sameFacts
        /\ VersionsCurrent(u)
        /\ deliveries' = [deliveries EXCEPT ![u] = @ \cup {<<s, k>>}]
        /\ bindings' = [bindings EXCEPT ![u] = EndedBinding(u, "consumed")]
        /\ claimAttempts' = [claimAttempts EXCEPT ![u][k] = "entered"]
        /\ usage' = [usage EXCEPT ![u].state = "context_prepared",
                                  ![u].binding = "consumed", ![u].claim = k]
  /\ admission' = [admission EXCEPT ![s] = NoClaim]
  /\ UNCHANGED <<now, current, plan, requests, planAttempts, asking>>

\* The pre-step throws between the two transactions (a prior usage cannot be
\* closed, the turn is aborted, observing fails), or its process ends.
AdmissionAbandoned(s) ==
  /\ admission[s] # NoClaim
  /\ admission' = [admission EXCEPT ![s] = NoClaim]
  /\ UNCHANGED <<now, current, plan, tables, asking>>

-----------------------------------------------------------------------------
\* A series forgets its current version or publishes another.
VersionReplaced(v) ==
  /\ v \in current
  /\ current' = current \ {v}
  /\ UNCHANGED <<now, plan, tables, asking, admission>>

Tick ==
  /\ now < MaxTime
  /\ now' = now + 1
  /\ UNCHANGED <<current, plan, tables, asking, admission>>

UsageStep(u) ==
  \/ \E p \in Plans, asks \in BOOLEAN : PlanTask(u, p, asks)
  \/ OwnerApproves(u)
  \/ OwnerRefuses(u)
  \/ AnswerApproves(u)
  \/ AnswerRefuses(u)
  \/ AnswerAdapts(u)
  \/ AnswerRecorded(u)
  \/ AnswerLost(u)

SessionStep(s) ==
  \/ \E t \in Tasks : ClaimNothing(s, t)
  \/ \E t \in Tasks, u \in Usages : ClaimBinding(s, t, u)
  \/ ConsumeStale(s)
  \/ \E sameFacts \in BOOLEAN : ConsumeSuperseded(s, sameFacts)
  \/ \E sameFacts \in BOOLEAN : ConsumeDelivers(s, sameFacts)
  \/ AdmissionAbandoned(s)

Next ==
  \/ \E u \in Usages : UsageStep(u)
  \/ \E s \in Sessions : SessionStep(s)
  \/ \E v \in Versions : VersionReplaced(v)
  \/ Tick

Spec == Init /\ [][Next]_vars

-----------------------------------------------------------------------------
\* Properties.

\* readPlanningResult refuses a stored projection whose request, attempt and
\* binding do not fit together (validatePlanningResult), and then every command
\* on the usage fails for good.  No order of decisions, adaptations, claims,
\* expiries and late answers stores such a projection, and the copies in it
\* never drift from the rows of the three tables.
ProjectionReadable ==
  \A u \in Usages : usage[u].state # "none" =>
    LET r == usage[u].rev
    IN /\ requests[u][r].status = usage[u].request
       /\ planAttempts[u][r] = usage[u].attempt
       /\ bindings[u].state = usage[u].binding
       /\ usage[u].binding # "none" =>
            /\ bindings[u].rev = r
            /\ bindings[u].claim = usage[u].claim
            /\ usage[u].request = IF usage[u].binding \in {"expired", "superseded"}
                                    THEN usage[u].binding ELSE "approved"

\* An approval always carries its binding: no interleaving leaves an approved
\* request that nobody can consume any more, or a binding without approval.
ApprovalHasBinding ==
  \A u \in Usages :
    usage[u].request = "approved" <=> bindings[u].state \in {"active", "claimed", "consumed"}

\* An attempt that may still enter is the present claimant of a claimed
\* binding, and one that entered is the claimant that consumed it: an attempt
\* whose lease lapsed, or that lost its claim, never enters.
AttemptsOwned ==
  \A u \in Usages, k \in Claims :
    /\ claimAttempts[u][k] = "ready_to_enter" =>
         bindings[u].state = "claimed" /\ bindings[u].claim = k
    /\ claimAttempts[u][k] = "entered" =>
         bindings[u].state = "consumed" /\ bindings[u].claim = k

\* One approval, one delivery: the context of a usage is delivered at most
\* once, to one session, by the attempt that entered, whatever crashes,
\* lapsed leases and concurrent sessions do.
OneDelivery ==
  \A u \in Usages :
    /\ \A d, e \in deliveries[u] : d = e
    /\ \A d \in deliveries[u] : claimAttempts[u][d[2]] = "entered"

\* Two sessions never hold the same claim, and a session holds only claims
\* that were made.
ClaimsExclusive ==
  \A s \in Sessions : admission[s] # NoClaim =>
    /\ claimAttempts[admission[s][1]][admission[s][2]] \notin {"none", "entered"}
    /\ \A t \in Sessions : admission[t] = admission[s] => t = s

\* For one actor, scope and task at most one binding is live.
OneAuthorizationPerKey ==
  \A u, v \in Usages :
    Live(u) /\ Live(v) /\ plan[u].task = plan[v].task /\ plan[u].scope = plan[v].scope => u = v

\* An authorization has one owner and one use, and can be read: its context is
\* delivered once.  An attempt
\* that may enter is the claimant of the binding it claimed, two sessions never
\* hold one claim, and the copies in the projection always agree with the rows,
\* or nothing could read the usage again; and among usages of one task,
\* whatever scopes and recall keys they were planned with, at most one binding
\* is live for an actor, scope and task, and no approved request has lost its
\* binding (repository.ts claimAdmissionRetryBinding, expireBinding,
\* supersedeBinding, updateUsageProjection).
AdmissionSound ==
  /\ OneDelivery
  /\ AttemptsOwned
  /\ ClaimsExclusive
  /\ ProjectionReadable
  /\ ApprovalHasBinding
  /\ OneAuthorizationPerKey

\* Decisions are final: a request that was refused, expired or superseded, a
\* binding that ended and a claim attempt that ended are never rewritten, and
\* an approval ends only by expiring or being superseded.
DecisionsFinal ==
  [][\A u \in Usages :
       /\ \A r \in Revs :
            /\ requests[u][r].status \in {"denied", "withdrawn", "expired", "superseded"} =>
                 requests'[u][r] = requests[u][r]
            /\ requests[u][r].status = "approved" =>
                 requests'[u][r].status \in {"approved", "expired", "superseded"}
       /\ bindings[u].state \in {"consumed", "expired", "superseded"} =>
            bindings'[u] = bindings[u]
       /\ \A k \in Claims : claimAttempts[u][k] \in {"entered", "rejected", "interrupted"} =>
            claimAttempts'[u][k] = claimAttempts[u][k]]_vars

\* Context is delivered only for the revision the owner approved, within the
\* approval's life, and while every version it draws on is current: neither
\* a Forget nor a revision published after the approval is overtaken.
DeliveryAuthorized ==
  [][\A u \in Usages : deliveries'[u] # deliveries[u] =>
       /\ plan[u].versions \subseteq current
       /\ requests[u][usage[u].rev].status = "approved"
       /\ requests[u][usage[u].rev].expires > now]_vars

-----------------------------------------------------------------------------
\* The inductive invariant behind the safety properties (PlanAdmission_proofs).

\* A usage that was not planned has no rows, and nobody is asked about it.
UnplannedIsBlank ==
  \A u \in Usages :
    /\ plan[u] = NoPlan => usage[u] = NoUsage
    /\ usage[u].state = "none" =>
         /\ usage[u] = NoUsage
         /\ bindings[u].state = "none"
         /\ asking[u].rev = 0
         /\ \A r \in Revs : requests[u][r].status = "none"
    /\ usage[u].state # "none" => usage[u].rev # 0

\* Requests past the plan's revision do not exist, and earlier ones were
\* superseded by the adaptation that made the next.
RequestsByRevision ==
  \A u \in Usages, r \in Revs :
    /\ r > usage[u].rev => requests[u][r].status = "none"
    /\ r < usage[u].rev => requests[u][r].status = "superseded"

\* Claims are numbered without gaps: there is no attempt past the last claim.
AttemptsNumbered ==
  \A u \in Usages :
    /\ bindings[u].state = "none" => bindings[u].claim = 0
    /\ \A k \in Claims : claimAttempts[u][k] # "none" => k <= bindings[u].claim

\* Only the claim that consumed the binding delivered.
DeliveriesOwned ==
  \A u \in Usages : \A d \in deliveries[u] :
    bindings[u].state = "consumed" /\ bindings[u].claim = d[2]

\* A claimant whose lease runs may still enter.
LeaseHeld ==
  \A u \in Usages : Leased(u) => claimAttempts[u][bindings[u].claim] = "ready_to_enter"

IInv ==
  /\ TypeOK
  /\ UnplannedIsBlank
  /\ RequestsByRevision
  /\ ProjectionReadable
  /\ ApprovalHasBinding
  /\ AttemptsNumbered
  /\ AttemptsOwned
  /\ DeliveriesOwned
  /\ OneDelivery
  /\ ClaimsExclusive
  /\ OneAuthorizationPerKey
=============================================================================
