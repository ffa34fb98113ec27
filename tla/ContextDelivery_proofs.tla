----------------------- MODULE ContextDelivery_proofs -----------------------
(***************************************************************************)
(* What ContextDelivery keeps for every number of sessions, deliveries and *)
(* retirement rows: its types, that retirements are shared and their       *)
(* proofs final, that what is reported retired is off the surface, that a  *)
(* session never carries two contexts, that closing never meets the        *)
(* exceptions that would wedge it, and that what was sent is on record.    *)
(***************************************************************************)
EXTENDS ContextDelivery, TLAPS, SequenceTheorems

\* While a retirement is pending it is the last of its delivery, a replacement
\* that failed leaves room for another, and a worker's row is there and says
\* what the worker saw if that is final.
RowsInv ==
  /\ \A d \in Deliveries : \A r \in DOMAIN retirements[d] :
       /\ retirements[d][r] = "pending" => r = Len(retirements[d])
       /\ retirements[d][r] = "failed" => r < MaxRetirements
  /\ \A w \in Workers : job[w] # NoJob =>
       /\ job[w].row \in DOMAIN retirements[job[w].delivery]
       /\ job[w].step = "failed" => job[w].row < MaxRetirements
       /\ job[w].seen = "replaced_on_surface" =>
            retirements[job[w].delivery][job[w].row] = "replaced_on_surface"

LEMMA InitTypes == Init => TypeOK /\ RowsInv
<1> SUFFICES ASSUME Init PROVE TypeOK /\ RowsInv
  OBVIOUS
<1>1. \A d \in Deliveries : retirements[d] = <<>> /\ DOMAIN retirements[d] = {} /\ Len(retirements[d]) = 0
  BY DEF Init
<1>2. retirements \in [Deliveries -> Seq(RetirementStatus)]
  BY DEF Init
<1>3. /\ delivery \in [Deliveries -> [status: DeliveryStatus, logged: BOOLEAN]]
      /\ forget \in [state: RequestStates, context: StepStatus, projection: StepStatus]
      /\ target \in [Deliveries -> [state: TargetState, row: 0..MaxRetirements]]
      /\ phase \in [Sessions -> Phases]
  BY ConstantsAssumption DEF Init, DeliveryStatus, RequestStates, StepStatus, TargetState, Phases
<1>4. MaxRetirements \in Nat /\ 0 <= MaxRetirements
  BY ConstantsAssumption
<1> QED
  BY <1>1, <1>2, <1>3, <1>4 DEF Init, TypeOK, RowsInv

\* The rows of a delivery.
LEMMA RowsAre ==
  ASSUME TypeOK, NEW d \in Deliveries
  PROVE  /\ retirements[d] \in Seq(RetirementStatus) /\ Len(retirements[d]) \in Nat
         /\ DOMAIN retirements[d] = 1..Len(retirements[d])
         /\ Len(retirements[d]) <= MaxRetirements /\ MaxRetirements \in Nat
         /\ \A r \in DOMAIN retirements[d] : retirements[d][r] \in RetirementStatus
<1>1. retirements[d] \in Seq(RetirementStatus) /\ Len(retirements[d]) <= MaxRetirements
  BY DEF TypeOK
<1> QED
  BY <1>1, LenProperties, ElementOfSeq, ConstantsAssumption

\* A worker's next step.
LEMMA StepIs ==
  ASSUME TypeOK, NEW w \in Workers, NEW step \in {"link", "complete", "replaced", "failed", "defer", "unlink"},
         job[w] # NoJob, Step(w, step)
  PROVE  /\ job' \in [Workers -> Job \cup {NoJob}]
         /\ \A v \in Workers : v # w => job'[v] = job[v]
         /\ job[w] \in Job /\ job'[w] \in Job /\ job'[w].step = step
         /\ job'[w].delivery = job[w].delivery /\ job'[w].row = job[w].row
         /\ job'[w].seen = job[w].seen
<1>1. job[w] \in Job
  BY DEF TypeOK
<1>2. [job[w] EXCEPT !.step = step] \in Job
  BY <1>1 DEF Job
<1>3. job' = [job EXCEPT ![w] = [job[w] EXCEPT !.step = step]]
  BY DEF Step
<1> QED
  BY <1>1, <1>2, <1>3 DEF TypeOK, Job

\* The rows that a request leaves.
Requested(d) == IF NeedsRow(d) THEN Append(retirements[d], "pending") ELSE retirements[d]

LEMMA RequestedIs ==
  ASSUME TypeOK, RowsInv, NEW d \in Deliveries
  PROVE  /\ Requested(d) \in Seq(RetirementStatus)
         /\ Len(Requested(d)) \in 1..MaxRetirements
         /\ Requested(d)[Len(Requested(d))] \in {"pending", "replaced_on_surface"}
         /\ DOMAIN Requested(d) = 1..Len(Requested(d))
         /\ \A r \in DOMAIN retirements[d] :
              r \in DOMAIN Requested(d) /\ Requested(d)[r] = retirements[d][r]
         /\ \A r \in DOMAIN Requested(d) :
              /\ Requested(d)[r] = "pending" => r = Len(Requested(d))
              /\ Requested(d)[r] = "failed" => r < MaxRetirements
<1> DEFINE rows == retirements[d]
           last == rows[Len(rows)]
<1>1. /\ rows \in Seq(RetirementStatus) /\ Len(rows) \in Nat /\ DOMAIN rows = 1..Len(rows)
      /\ Len(rows) <= MaxRetirements /\ MaxRetirements \in Nat \ {0}
      /\ \A r \in DOMAIN rows : rows[r] \in RetirementStatus
  BY RowsAre, ConstantsAssumption
<1>2. rows # <<>> => Len(rows) \in DOMAIN rows
  BY <1>1
<1>3. \A r \in DOMAIN rows :
        (rows[r] = "pending" => r = Len(rows)) /\ (rows[r] = "failed" => r < MaxRetirements)
  BY DEF RowsInv
<1>4. CASE NeedsRow(d)
  <2> DEFINE new == Append(rows, "pending")
  <2>1. rows = <<>> \/ rows[Len(rows)] = "failed"
    BY <1>4 DEF NeedsRow
  <2>2. Len(rows) < MaxRetirements
    <3>1. CASE rows = <<>>
      BY <1>1, <3>1
    <3>2. CASE rows # <<>>
      BY <1>1, <1>2, <1>3, <2>1, <3>2
    <3> QED
      BY <3>1, <3>2
  <2>3. \A r \in DOMAIN rows : rows[r] # "pending"
    BY <1>1, <1>2, <1>3, <2>1
  <2>4. /\ new \in Seq(RetirementStatus) /\ Len(new) = Len(rows) + 1
        /\ \A r \in 1..Len(rows) : new[r] = rows[r]
        /\ new[Len(rows) + 1] = "pending"
    BY <1>1, AppendProperties DEF RetirementStatus
  <2>5. DOMAIN new = 1..Len(rows) + 1
    BY <2>4, LenProperties
  <2>6. Requested(d) = new
    BY <1>4 DEF Requested
  <2> HIDE DEF new
  <2> QED
    BY <1>1, <1>3, <2>2, <2>3, <2>4, <2>5, <2>6
<1>5. CASE ~NeedsRow(d)
  <2>1. Requested(d) = rows /\ rows # <<>> /\ last # "failed"
    BY <1>5 DEF Requested, NeedsRow
  <2> QED
    BY <1>1, <1>2, <1>3, <2>1 DEF RetirementStatus
<1> QED
  BY <1>4, <1>5

\* A request shares or appends a row and begins a job on it.
LEMMA RequestIs ==
  ASSUME TypeOK, RowsInv, NEW w \in Workers, NEW d \in Deliveries,
         NEW step \in {"link", "complete"}, RequestRetirement(w, d, step)
  PROVE  /\ retirements' = [retirements EXCEPT ![d] = Requested(d)]
         /\ job' \in [Workers -> Job \cup {NoJob}]
         /\ \A v \in Workers : v # w => job'[v] = job[v]
         /\ job'[w] \in Job
         /\ job'[w].delivery = d /\ job'[w].row = Len(Requested(d))
         /\ job'[w].seen = Requested(d)[Len(Requested(d))] /\ job'[w].step = step
<1> DEFINE new == Requested(d)
           j == [delivery |-> d, row |-> Len(new), seen |-> new[Len(new)], step |-> step]
<1>1. retirements' = [retirements EXCEPT ![d] = new] /\ job' = [job EXCEPT ![w] = j]
  BY DEF RequestRetirement, Requested
<1>2. Len(new) \in Rows /\ new[Len(new)] \in {"pending", "replaced_on_surface"}
  BY RequestedIs DEF Rows
<1> HIDE DEF new
<1>3. j \in Job
  BY <1>2 DEF Job
<1> QED
  BY <1>1, <1>3 DEF TypeOK, new

\* The row of a job is written unless it is final.
LEMMA FinishIs ==
  ASSUME TypeOK, RowsInv, NEW w \in Workers, job[w] # NoJob,
         NEW status \in {"replaced_on_surface", "failed"}, NEW targetState,
         FinishRetirement(w, status, targetState)
  PROVE  LET d == job[w].delivery
             row == job[w].row
         IN /\ d \in Deliveries /\ row \in DOMAIN retirements[d]
            /\ retirements' \in [Deliveries -> Seq(RetirementStatus)]
            /\ \A e \in Deliveries :
                 Len(retirements'[e]) = Len(retirements[e]) /\ DOMAIN retirements'[e] = DOMAIN retirements[e]
            /\ \A e \in Deliveries : \A r \in DOMAIN retirements[e] :
                 retirements'[e][r] =
                   IF e = d /\ r = row /\ retirements[e][r] # "replaced_on_surface"
                     THEN status ELSE retirements[e][r]
<1> DEFINE d == job[w].delivery
           row == job[w].row
           new == [retirements[d] EXCEPT ![row] = status]
<1>1. job[w] \in Job /\ d \in Deliveries /\ row \in DOMAIN retirements[d]
  BY DEF TypeOK, RowsInv, Job
<1>2. row \in 1..Len(retirements[d]) /\ retirements[d] \in Seq(RetirementStatus)
      /\ status \in RetirementStatus /\ Len(retirements[d]) \in Nat
      /\ DOMAIN retirements[d] = 1..Len(retirements[d])
  BY <1>1, RowsAre DEF RetirementStatus
<1>3. /\ new \in Seq(RetirementStatus) /\ Len(new) = Len(retirements[d])
      /\ \A r \in 1..Len(retirements[d]) : new[r] = IF r = row THEN status ELSE retirements[d][r]
  BY <1>2, ExceptSeq
<1>4. DOMAIN new = DOMAIN retirements[d]
  OBVIOUS
<1>5. CASE retirements[d][row] = "replaced_on_surface"
  <2>1. retirements' = retirements
    BY <1>5 DEF FinishRetirement, FinishChanges
  <2> QED
    BY <1>1, <1>5, <2>1 DEF TypeOK
<1>6. CASE retirements[d][row] # "replaced_on_surface"
  <2>1. retirements' = [retirements EXCEPT ![d] = new]
    BY <1>6 DEF FinishRetirement, FinishChanges
  <2> HIDE DEF new
  <2>2. retirements' \in [Deliveries -> Seq(RetirementStatus)]
    BY <1>1, <1>3, <2>1 DEF TypeOK
  <2>3. \A e \in Deliveries : retirements'[e] = IF e = d THEN new ELSE retirements[e]
    BY <2>1 DEF TypeOK
  <2>4. \A e \in Deliveries :
                 Len(retirements'[e]) = Len(retirements[e]) /\ DOMAIN retirements'[e] = DOMAIN retirements[e]
    BY <1>3, <1>4, <2>3
  <2>5. ASSUME NEW e \in Deliveries, NEW r \in DOMAIN retirements[e]
        PROVE  retirements'[e][r] =
                 IF e = d /\ r = row /\ retirements[e][r] # "replaced_on_surface"
                   THEN status ELSE retirements[e][r]
    <3>1. CASE e # d
      BY <2>3, <3>1
    <3>2. CASE e = d
      BY <1>2, <1>3, <1>6, <2>3, <3>2
    <3> QED
      BY <3>1, <3>2
  <2> QED
    BY <1>1, <2>2, <2>4, <2>5
<1> QED
  BY <1>5, <1>6

\* The forget request's types.
LEMMA ForgetTypes ==
  ASSUME TypeOK
  PROVE  /\ \A t : ContextStep(t) \in StepStatus
         /\ \A steps : RequestState(steps) \in {"processing", "partial", "completed"}
         /\ \A t : Reconciled(t) \in [state: RequestStates, context: StepStatus, projection: StepStatus]
<1>1. \A t : ContextStep(t) \in StepStatus
  BY DEF ContextStep, StepStatus
<1>2. \A steps : RequestState(steps) \in {"processing", "partial", "completed"}
  BY DEF RequestState
<1>3. ASSUME NEW t
      PROVE  Reconciled(t) \in [state: RequestStates, context: StepStatus, projection: StepStatus]
  <2>1. RequestState({ContextStep(t), forget.projection}) \in RequestStates
    BY <1>2 DEF RequestStates
  <2> HIDE DEF ContextStep
  <2> QED
    BY <1>1, <2>1 DEF Reconciled, TypeOK
<1> QED
  BY <1>1, <1>2, <1>3

LEMMA LinkTypes ==
  ASSUME TypeOK, NEW d \in Deliveries, NEW state \in TargetState, NEW row \in 0..MaxRetirements,
         LinkTarget(d, state, row)
  PROVE  /\ target' \in [Deliveries -> [state: TargetState, row: 0..MaxRetirements]]
         /\ forget' \in [state: RequestStates, context: StepStatus, projection: StepStatus]
BY ForgetTypes DEF LinkTarget, TypeOK

\* No retirement is requested or finished; jobs only end.
LEMMA RowsKept ==
  ASSUME RowsInv, retirements' = retirements,
         \A w \in Workers : job'[w] = job[w] \/ job'[w] = NoJob
  PROVE  RowsInv'
BY DEF RowsInv

\* A job goes on.
LEMMA RowsStepped ==
  ASSUME TypeOK, RowsInv, retirements' = retirements,
         NEW w \in Workers, NEW step \in {"link", "complete", "replaced", "failed", "defer", "unlink"},
         job[w] # NoJob, Step(w, step), step = "failed" => job[w].row < MaxRetirements
  PROVE  RowsInv'
<1>1. \A v \in Workers : v # w => job'[v] = job[v]
  BY StepIs
<1>2. /\ job'[w].step = step /\ job'[w].delivery = job[w].delivery
      /\ job'[w].row = job[w].row /\ job'[w].seen = job[w].seen
  BY StepIs
<1> QED
  BY <1>1, <1>2 DEF RowsInv

LEMMA RowsRequested ==
  ASSUME TypeOK, RowsInv, NEW w \in Workers, NEW d \in Deliveries,
         NEW step \in {"link", "complete"}, RequestRetirement(w, d, step)
  PROVE  RowsInv'
<1>1. \A e \in Deliveries : retirements'[e] = IF e = d THEN Requested(d) ELSE retirements[e]
  BY RequestIs DEF TypeOK
<1>2. /\ \A v \in Workers : v # w => job'[v] = job[v]
      /\ job'[w].delivery = d /\ job'[w].row = Len(Requested(d))
      /\ job'[w].seen = Requested(d)[Len(Requested(d))] /\ job'[w].step = step
  BY RequestIs
<1>3. \A e \in Deliveries : \A r \in DOMAIN retirements[e] :
        r \in DOMAIN retirements'[e] /\ retirements'[e][r] = retirements[e][r]
  BY <1>1, RequestedIs
<1>4. \A e \in Deliveries : \A r \in DOMAIN retirements'[e] :
       /\ retirements'[e][r] = "pending" => r = Len(retirements'[e])
       /\ retirements'[e][r] = "failed" => r < MaxRetirements
  BY <1>1, RequestedIs DEF RowsInv
<1>5. ASSUME NEW v \in Workers, job'[v] # NoJob
      PROVE  /\ job'[v].row \in DOMAIN retirements'[job'[v].delivery]
             /\ job'[v].step = "failed" => job'[v].row < MaxRetirements
             /\ job'[v].seen = "replaced_on_surface" =>
                  retirements'[job'[v].delivery][job'[v].row] = "replaced_on_surface"
  <2>1. CASE v = w
    <3>1. Len(Requested(d)) \in DOMAIN Requested(d)
      BY RequestedIs
    <3> QED
      BY <1>1, <1>2, <2>1, <3>1
  <2>2. CASE v # w
    <3>1. job[v] \in Job /\ job[v].delivery \in Deliveries
      BY <1>2, <1>5, <2>2 DEF TypeOK, Job
    <3> QED
      BY <1>2, <1>3, <1>5, <2>2, <3>1 DEF RowsInv
  <2> QED
    BY <2>1, <2>2
<1> QED
  BY <1>4, <1>5 DEF RowsInv

LEMMA RowsFinished ==
  ASSUME TypeOK, RowsInv, NEW w \in Workers, job[w] # NoJob,
         NEW status \in {"replaced_on_surface", "failed"}, NEW targetState,
         status = "failed" => job[w].row < MaxRetirements,
         FinishRetirement(w, status, targetState),
         \A v \in Workers : \/ job'[v] = job[v] \/ job'[v] = NoJob
                            \/ /\ job'[v].delivery = job[v].delivery /\ job'[v].row = job[v].row
                               /\ job'[v].seen = job[v].seen /\ job'[v].step # "failed"
                               /\ job[v] # NoJob
  PROVE  RowsInv'
<1> DEFINE d == job[w].delivery
           row == job[w].row
<1>1. /\ \A e \in Deliveries :
           Len(retirements'[e]) = Len(retirements[e]) /\ DOMAIN retirements'[e] = DOMAIN retirements[e]
      /\ \A e \in Deliveries : \A r \in DOMAIN retirements[e] :
           retirements'[e][r] =
             IF e = d /\ r = row /\ retirements[e][r] # "replaced_on_surface"
               THEN status ELSE retirements[e][r]
  BY FinishIs
<1>2. \A v \in Workers : job[v] # NoJob => job[v].delivery \in Deliveries
  BY DEF TypeOK, Job
<1>3. \A e \in Deliveries : \A r \in DOMAIN retirements'[e] :
       /\ retirements'[e][r] = "pending" => r = Len(retirements'[e])
       /\ retirements'[e][r] = "failed" => r < MaxRetirements
  BY <1>1 DEF RowsInv
<1>4. ASSUME NEW v \in Workers, job'[v] # NoJob
      PROVE  /\ job'[v].row \in DOMAIN retirements'[job'[v].delivery]
             /\ job'[v].step = "failed" => job'[v].row < MaxRetirements
             /\ job'[v].seen = "replaced_on_surface" =>
                  retirements'[job'[v].delivery][job'[v].row] = "replaced_on_surface"
  BY <1>1, <1>2, <1>4 DEF RowsInv
<1> QED
  BY <1>3, <1>4 DEF RowsInv

\* What a transaction makes of a delivery.
LEMMA Marks ==
  ASSUME TypeOK, NEW d \in Deliveries, NEW status \in DeliveryStatus, Mark(d, status)
  PROVE  /\ delivery' \in [Deliveries -> [status: DeliveryStatus, logged: BOOLEAN]]
         /\ \A e \in Deliveries : e # d => delivery'[e] = delivery[e]
         /\ delivery'[d].status = status /\ delivery'[d].logged = delivery[d].logged
<1>1. delivery \in [Deliveries -> [status: DeliveryStatus, logged: BOOLEAN]]
  BY DEF TypeOK
<1> QED
  BY <1>1 DEF Mark

LEMMA Appends ==
  ASSUME TypeOK, NEW d \in Deliveries, MarkAppended(d)
  PROVE  /\ delivery' \in [Deliveries -> [status: DeliveryStatus, logged: BOOLEAN]]
         /\ \A e \in Deliveries : e # d => delivery'[e] = delivery[e]
         /\ IF Status(d) = "included_in_request" THEN delivery'[d] = delivery[d]
            ELSE delivery'[d].status = "appended_to_session" /\ delivery'[d].logged = TRUE
<1>1. delivery \in [Deliveries -> [status: DeliveryStatus, logged: BOOLEAN]]
  BY DEF TypeOK
<1>2. delivery' = [delivery EXCEPT ![d] =
        IF delivery[d].status = "included_in_request" THEN delivery[d]
        ELSE [status |-> "appended_to_session", logged |-> TRUE]]
  BY DEF MarkAppended
<1>3. [status |-> "appended_to_session", logged |-> TRUE] \in [status: DeliveryStatus, logged: BOOLEAN]
  BY DEF DeliveryStatus
<1>4. CASE delivery[d].status = "included_in_request"
  BY <1>1, <1>2, <1>4 DEF Status
<1>5. CASE delivery[d].status # "included_in_request"
  BY <1>1, <1>2, <1>3, <1>5 DEF Status
<1> QED
  BY <1>4, <1>5

LEMMA StepTypes == TypeOK /\ RowsInv /\ [Next]_vars => TypeOK' /\ RowsInv'
<1> DEFINE Goal == TypeOK' /\ RowsInv'
<1> SUFFICES ASSUME TypeOK, RowsInv, [Next]_vars PROVE Goal
  OBVIOUS
<1> USE DEF database, log, host
<1>0. \A s \in Sessions : s \in Workers
  BY DEF Workers
<1>0a. Forgetter \in Workers
  BY DEF Workers
<1>0b. \A s \in Sessions : Of(s) \subseteq Deliveries
  BY DEF Of
<1>0c. \A s \in Sessions : fresh[s] # NoDelivery => fresh[s] \in Deliveries
  BY DEF TypeOK
<1>0d. \A w \in Workers : job[w] # NoJob => job[w] \in Job /\ job[w].delivery \in Deliveries
  BY DEF TypeOK, Job
<1>0e. \A w \in Workers : job[w] # NoJob => job[w].row \in 0..MaxRetirements
  BY <1>0d, ConstantsAssumption DEF Job, Rows
<1>0f. /\ delivery \in [Deliveries -> [status: DeliveryStatus, logged: BOOLEAN]]
       /\ drawsOn \subseteq Deliveries /\ started \in [Deliveries -> BOOLEAN]
       /\ settlement \in [Deliveries -> {"none", "recall", "owner"}]
       /\ surface \in [Deliveries -> {"absent", "current", "replaced"}]
       /\ after \in [Deliveries -> {"nothing", "response", "end"}]
       /\ sent \subseteq Deliveries /\ phase \in [Sessions -> Phases]
       /\ todo \in [Workers -> SUBSET Deliveries] /\ batch \in [Sessions -> SUBSET Deliveries]
       /\ fresh \in [Sessions -> Deliveries \cup {NoDelivery}]
       /\ forgetting \in {"host", "cli", "no"}
  BY DEF TypeOK
<1>1. ASSUME NEW s \in Sessions, Resume(s) \/ Dispose(s) \/ FollowUp(s) \/ ContextsClosed(s)
                                 \/ UsagesClosed(s)
      PROVE  Goal
  <2>1. phase' \in [Sessions -> Phases]
    BY <1>1, <1>0f DEF Resume, Dispose, FollowUp, ContextsClosed, UsagesClosed, Phases
  <2>2. UNCHANGED <<database, log, todo, batch, fresh, job, forgetting>>
    BY <1>1 DEF Resume, Dispose, FollowUp, ContextsClosed, UsagesClosed
  <2> QED
    BY <2>1, <2>2, RowsKept DEF TypeOK
<1>2. ASSUME NEW s \in Sessions, BeginStep(s) \/ Trigger(s) \/ BeginRequest(s) PROVE Goal
  <2>1. /\ phase' \in [Sessions -> Phases]
        /\ todo' \in [Workers -> SUBSET Deliveries] /\ batch' \in [Sessions -> SUBSET Deliveries]
    <3>1. OpenOutcomes(s) \subseteq Deliveries /\ Active(s) \subseteq Deliveries /\ Unsettled(s) \subseteq Deliveries
      BY <1>0b DEF OpenOutcomes, Active, Unsettled
    <3>2. {d \in Of(s) : surface[d] = "current"} \subseteq Deliveries
      BY <1>0b
    <3>3. CASE BeginStep(s)
      BY <1>0, <1>0f, <3>1, <3>3 DEF BeginStep, Phases
    <3>4. CASE Trigger(s)
      BY <1>0, <1>0f, <3>1, <3>4 DEF Trigger, Phases
    <3>5. CASE BeginRequest(s)
      BY <1>0, <1>0f, <3>2, <3>5 DEF BeginRequest, Phases
    <3> QED
      BY <1>2, <3>3, <3>4, <3>5
  <2>2. UNCHANGED <<database, log, fresh, job, forgetting>>
    BY <1>2 DEF BeginStep, Trigger, BeginRequest
  <2> QED
    BY <2>1, <2>2, RowsKept DEF TypeOK
<1>3. ASSUME NEW s \in Sessions, NEW d \in Deliveries,
             ReconcileAbsent(s, d) \/ ReconcileAppended(s, d) \/ ReconcileOutcome(s, d)
             \/ RequestAppended(s, d) \/ RequestIncluded(s, d)
      PROVE  Goal
  <2>1. delivery' \in [Deliveries -> [status: DeliveryStatus, logged: BOOLEAN]]
    <3>1. \/ MarkAppended(d)
          \/ \E status \in DeliveryStatus : Mark(d, status)
      BY <1>3 DEF ReconcileAbsent, ReconcileAppended, ReconcileOutcome, RequestAppended,
                  RequestIncluded, Inclusion, DeliveryStatus
    <3> QED
      BY <3>1, Marks, Appends
  <2>2. todo' \in [Workers -> SUBSET Deliveries]
    BY <1>0, <1>0f, <1>3 DEF ReconcileAbsent, ReconcileAppended, ReconcileOutcome, RequestAppended, RequestIncluded,
                Handled
  <2>3. UNCHANGED <<drawsOn, started, settlement, retirements, forget, target, log,
                    phase, batch, fresh, job, forgetting>>
    BY <1>3 DEF ReconcileAbsent, ReconcileAppended, ReconcileOutcome, RequestAppended, RequestIncluded
  <2> QED
    BY <2>1, <2>2, <2>3, RowsKept DEF TypeOK
<1>4. ASSUME NEW s \in Sessions, NEW d \in Deliveries, CloseAbsent(s, d) PROVE Goal
  <2>1. /\ phase' \in [Sessions -> Phases]
        /\ todo' \in [Workers -> SUBSET Deliveries] /\ batch' \in [Sessions -> SUBSET Deliveries]
    <3>1. CASE UNCHANGED <<phase, batch>> /\ Handled(s, d)
      BY <1>0, <1>0f, <3>1 DEF Handled
    <3>2. CASE Rejected(s)
      BY <1>0, <1>0f, <3>2 DEF Rejected, Phases
    <3> QED
      BY <1>4, <3>1, <3>2 DEF CloseAbsent
  <2>2. UNCHANGED <<database, log, fresh, job, forgetting>>
    BY <1>4 DEF CloseAbsent
  <2> QED
    BY <2>1, <2>2, RowsKept DEF TypeOK
<1>5. ASSUME NEW w \in Workers, NEW d \in Deliveries, NEW step \in {"link", "complete"},
             RequestRetirement(w, d, step)
      PROVE  Goal
  <2>1. retirements' \in [Deliveries -> Seq(RetirementStatus)]
        /\ \A e \in Deliveries : Len(retirements'[e]) <= MaxRetirements
    <3>1. retirements' = [retirements EXCEPT ![d] = Requested(d)]
      BY <1>5, RequestIs
    <3>2. Requested(d) \in Seq(RetirementStatus) /\ Len(Requested(d)) <= MaxRetirements
      BY RequestedIs, ConstantsAssumption
    <3>3. \A e \in Deliveries : retirements'[e] = IF e = d THEN Requested(d) ELSE retirements[e]
      BY <3>1 DEF TypeOK
    <3> QED
      BY <3>1, <3>2, <3>3 DEF TypeOK
  <2>2. job' \in [Workers -> Job \cup {NoJob}]
    BY <1>5, RequestIs
  <2>3. UNCHANGED <<delivery, drawsOn, started, settlement, forget, target, log,
                    phase, todo, batch, fresh, forgetting>>
    BY <1>5 DEF RequestRetirement
  <2>4. TypeOK'
    BY <2>1, <2>2, <2>3 DEF TypeOK
  <2> QED
    BY <1>5, <2>4, RowsRequested
<1>6. ASSUME NEW s \in Sessions, NEW d \in Deliveries, StartForSettlement(s, d) \/ SettleForRecall(s, d)
      PROVE  Goal
  <2>1. started' \in [Deliveries -> BOOLEAN]
    BY <1>0f, <1>6 DEF StartForSettlement, SettleForRecall
  <2>1a. settlement' \in [Deliveries -> {"none", "recall", "owner"}]
    BY <1>0f, <1>6 DEF StartForSettlement, SettleForRecall
  <2>1b. /\ phase' \in [Sessions -> Phases] /\ todo' \in [Workers -> SUBSET Deliveries]
         /\ batch' \in [Sessions -> SUBSET Deliveries]
    <3>1. CASE Rejected(s)
      BY <1>0, <1>0f, <3>1 DEF Rejected, Phases
    <3>2. CASE UNCHANGED <<phase, todo>> /\ batch' \in {batch, [batch EXCEPT ![s] = batch[s] \ {d}]}
      BY <1>0f, <3>2
    <3> QED
      BY <1>6, <3>1, <3>2 DEF StartForSettlement, SettleForRecall
  <2>2. UNCHANGED <<delivery, drawsOn, retirements, forget, target, log, fresh, job, forgetting>>
    BY <1>6 DEF StartForSettlement, SettleForRecall
  <2> QED
    BY <2>1, <2>1a, <2>1b, <2>2, RowsKept DEF TypeOK
<1>7. ASSUME NEW s \in Sessions, NEW d \in Deliveries, NEW draws \in BOOLEAN, PrepareContext(s, d, draws)
      PROVE  Goal
  <2>1. /\ delivery' \in [Deliveries -> [status: DeliveryStatus, logged: BOOLEAN]]
        /\ drawsOn' \subseteq Deliveries /\ phase' \in [Sessions -> Phases]
        /\ fresh' \in [Sessions -> Deliveries \cup {NoDelivery}]
    BY <1>7, <1>0f DEF PrepareContext, Mark, DeliveryStatus, Phases
  <2>2. UNCHANGED <<started, settlement, retirements, forget, target, log, todo, batch, job, forgetting>>
    BY <1>7 DEF PrepareContext
  <2> QED
    BY <2>1, <2>2, RowsKept DEF TypeOK
<1>8. ASSUME NEW s \in Sessions, Activate(s) \/ AdmitNothing(s) PROVE Goal
  <2>1. /\ started' \in [Deliveries -> BOOLEAN] /\ phase' \in [Sessions -> Phases]
        /\ fresh' \in [Sessions -> Deliveries \cup {NoDelivery}]
    <3>1. CASE Activate(s)
      BY <1>0f, <3>1 DEF Activate, Phases
    <3>2. CASE AdmitNothing(s)
      BY <1>0f, <3>2 DEF AdmitNothing, Phases
    <3> QED
      BY <1>8, <3>1, <3>2
  <2>2. UNCHANGED <<delivery, drawsOn, settlement, retirements, forget, target, log, todo, batch, job, forgetting>>
    BY <1>8 DEF Activate, AdmitNothing
  <2> QED
    BY <2>1, <2>2, RowsKept DEF TypeOK
<1>9. ASSUME NEW s \in Sessions, NEW observed \in BOOLEAN, AppendContext(s, observed) PROVE Goal
  <2>1. /\ delivery' \in [Deliveries -> [status: DeliveryStatus, logged: BOOLEAN]]
        /\ surface' \in [Deliveries -> {"absent", "current", "replaced"}]
        /\ fresh' \in [Sessions -> Deliveries \cup {NoDelivery}]
    <3>1. fresh[s] \in Deliveries /\ (MarkAppended(fresh[s]) \/ delivery' = delivery)
      BY <1>0c, <1>9 DEF AppendContext
    <3>2. delivery' \in [Deliveries -> [status: DeliveryStatus, logged: BOOLEAN]]
      BY <1>0f, <3>1, Appends
    <3>3. surface' = [surface EXCEPT ![fresh[s]] = "current"] /\ fresh' = [fresh EXCEPT ![s] = NoDelivery]
      BY <1>9 DEF AppendContext
    <3> QED
      BY <1>0f, <3>2, <3>3
  <2>2. UNCHANGED <<drawsOn, started, settlement, retirements, forget, target, after, sent,
                    phase, todo, batch, job, forgetting>>
    BY <1>9 DEF AppendContext
  <2> QED
    BY <2>1, <2>2, RowsKept DEF TypeOK
<1>10. ASSUME NEW s \in Sessions, SendRequest(s) \/ Respond(s) \/ EndStep(s) PROVE Goal
  <2>1. sent' \subseteq Deliveries /\ phase' \in [Sessions -> Phases] /\ batch' \in [Sessions -> SUBSET Deliveries]
    BY <1>10 DEF SendRequest, Respond, EndStep, TypeOK, Phases
  <2>2. todo' \in [Workers -> SUBSET Deliveries] /\ fresh' \in [Sessions -> Deliveries \cup {NoDelivery}]
    BY <1>0, <1>10 DEF SendRequest, Respond, EndStep, TypeOK
  <2>3. after' \in [Deliveries -> {"nothing", "response", "end"}]
    BY <1>10 DEF SendRequest, Respond, EndStep, LogsAfter, TypeOK
  <2>4. UNCHANGED <<database, surface, job, forgetting>>
    BY <1>10 DEF SendRequest, Respond, EndStep
  <2> QED
    BY <2>1, <2>2, <2>3, <2>4, RowsKept DEF TypeOK
<1>11. ASSUME NEW d \in Deliveries, OwnerSettles(d) PROVE Goal
  BY <1>11, RowsKept DEF OwnerSettles, TypeOK
<1>12. ASSUME NEW w \in Workers, FoundReplaced(w) PROVE Goal
  <2>1. job' \in [Workers -> Job \cup {NoJob}] /\ todo' \in [Workers -> SUBSET Deliveries]
        /\ \A v \in Workers : job'[v] = job[v] \/ job'[v] = NoJob
    BY <1>12 DEF FoundReplaced, JobOver, TypeOK
  <2>2. UNCHANGED <<database, log, phase, batch, fresh, forgetting>>
    BY <1>12 DEF FoundReplaced
  <2> QED
    BY <2>1, <2>2, RowsKept DEF TypeOK
<1>13. ASSUME NEW w \in Workers, FoundOffline(w) \/ Replace(w) \/ ReplaceFails(w) \/ TraceReplacement(w)
       PROVE  Goal
  <2>1. PICK step \in {"link", "complete", "replaced", "failed", "defer", "unlink"} :
          Step(w, step) /\ (step = "failed" => job[w].row < MaxRetirements)
    BY <1>13 DEF FoundOffline, Replace, ReplaceFails, TraceReplacement
  <2>2. job[w] # NoJob
    BY <1>13 DEF FoundOffline, Replace, ReplaceFails, TraceReplacement, Working
  <2>3. job' \in [Workers -> Job \cup {NoJob}]
    BY <2>1, <2>2, StepIs
  <2>4. surface' \in [Deliveries -> {"absent", "current", "replaced"}]
    BY <1>13 DEF FoundOffline, Replace, ReplaceFails, TraceReplacement, TypeOK
  <2>5. UNCHANGED <<database, after, sent, phase, todo, batch, fresh, forgetting>>
    BY <1>13 DEF FoundOffline, Replace, ReplaceFails, TraceReplacement
  <2>6. TypeOK'
    BY <2>3, <2>4, <2>5 DEF TypeOK
  <2>7. RowsInv'
    BY <2>1, <2>2, <2>5, RowsStepped
  <2> QED
    BY <2>6, <2>7
<1>14. ASSUME NEW w \in Workers, FinishReplaced(w) \/ FinishFailed(w) PROVE Goal
  <2>1. job[w] # NoJob /\ job[w] \in Job
    BY <1>0d, <1>14 DEF FinishReplaced, FinishFailed, Working
  <2>2. PICK status \in {"replaced_on_surface", "failed"}, targetState \in {"retired", "failed"} :
          /\ FinishRetirement(w, status, targetState)
          /\ status = "failed" => job[w].step = "failed"
    BY <1>14 DEF FinishReplaced, FinishFailed, Working
  <2>3. /\ job' \in [Workers -> Job \cup {NoJob}]
        /\ \A v \in Workers : \/ job'[v] = job[v] \/ job'[v] = NoJob
                              \/ /\ job'[v].delivery = job[v].delivery /\ job'[v].row = job[v].row
                                 /\ job'[v].seen = job[v].seen /\ job'[v].step # "failed"
                                 /\ job[v] # NoJob
    <3>1. CASE job' = [job EXCEPT ![w] = NoJob]
      BY <3>1 DEF TypeOK
    <3>2. CASE Step(w, "unlink")
      BY <2>1, <3>2, StepIs
    <3> QED
      BY <1>14, <3>1, <3>2 DEF FinishReplaced, FinishFailed, JobOver
  <2>4. /\ retirements' \in [Deliveries -> Seq(RetirementStatus)]
        /\ \A e \in Deliveries : Len(retirements'[e]) <= MaxRetirements
    BY <2>1, <2>2, FinishIs DEF TypeOK
  <2>5. /\ target' \in [Deliveries -> [state: TargetState, row: 0..MaxRetirements]]
        /\ forget' \in [state: RequestStates, context: StepStatus, projection: StepStatus]
    <3>1. \/ UNCHANGED <<target, forget>>
          \/ /\ target' = [target EXCEPT ![job[w].delivery].state = targetState]
             /\ \E t : forget' = Reconciled(t)
      BY <2>2 DEF FinishRetirement
    <3>2. CASE UNCHANGED <<target, forget>>
      BY <3>2 DEF TypeOK
    <3>3. CASE /\ target' = [target EXCEPT ![job[w].delivery].state = targetState]
               /\ \E t : forget' = Reconciled(t)
      <4>1. target \in [Deliveries -> [state: TargetState, row: 0..MaxRetirements]]
        BY DEF TypeOK
      <4>2. target' \in [Deliveries -> [state: TargetState, row: 0..MaxRetirements]]
        BY <3>3, <4>1 DEF TargetState
      <4> QED
        BY <3>3, <4>2, ForgetTypes
    <3> QED
      BY <3>1, <3>2, <3>3
  <2>6. /\ phase' \in [Sessions -> Phases] /\ todo' \in [Workers -> SUBSET Deliveries]
        /\ batch' \in [Sessions -> SUBSET Deliveries]
    BY <1>14, <1>0f DEF FinishReplaced, FinishFailed, JobOver, Rejected, Phases
  <2>7. UNCHANGED <<delivery, drawsOn, started, settlement, log, fresh, forgetting>>
    BY <1>14 DEF FinishReplaced, FinishFailed
  <2>8. TypeOK'
    BY <2>3, <2>4, <2>5, <2>6, <2>7 DEF TypeOK
  <2>9. status = "failed" => job[w].row < MaxRetirements
    BY <2>1, <2>2 DEF RowsInv
  <2>10. RowsInv'
    BY <2>1, <2>2, <2>3, <2>9, RowsFinished
  <2> QED
    BY <2>8, <2>10
<1>15. CASE ForgetCommit
  <2>1. todo' \in [Workers -> SUBSET Deliveries] /\ forgetting' \in {"host", "cli", "no"}
    BY <1>0a, <1>15, ConstantsAssumption DEF ForgetCommit, TypeOK
  <2>2. target' \in [Deliveries -> [state: TargetState, row: 0..MaxRetirements]]
    BY <1>15, ConstantsAssumption DEF ForgetCommit, TargetState
  <2>3. forget' \in [state: RequestStates, context: StepStatus, projection: StepStatus]
    BY <1>15, ForgetTypes DEF ForgetCommit, RequestStates, StepStatus
  <2>4. UNCHANGED <<delivery, drawsOn, started, settlement, retirements, log, phase, batch, fresh, job>>
    BY <1>15 DEF ForgetCommit
  <2> QED
    BY <2>1, <2>2, <2>3, <2>4, RowsKept DEF TypeOK
<1>16. CASE ForgetAgain
  <2>1. todo' \in [Workers -> SUBSET Deliveries] /\ forgetting' \in {"host", "cli", "no"}
    BY <1>0a, <1>16, ConstantsAssumption DEF ForgetAgain, OpenTargets, TypeOK
  <2>2. UNCHANGED <<database, log, phase, batch, fresh, job>>
    BY <1>16 DEF ForgetAgain
  <2> QED
    BY <2>1, <2>2, RowsKept DEF TypeOK
<1>17. CASE ForgetLinks
  <2>1. job[Forgetter] # NoJob /\ job[Forgetter] \in Job /\ Step(Forgetter, "complete")
    BY <1>0a, <1>0d, <1>17 DEF ForgetLinks, Working
  <2>2. job' \in [Workers -> Job \cup {NoJob}]
    BY <1>0a, <2>1, StepIs
  <2>3. /\ target' \in [Deliveries -> [state: TargetState, row: 0..MaxRetirements]]
        /\ forget' \in [state: RequestStates, context: StepStatus, projection: StepStatus]
    BY <1>0a, <1>0d, <1>0e, <1>17, <2>1, LinkTypes DEF ForgetLinks, TargetState
  <2>4. UNCHANGED <<delivery, drawsOn, started, settlement, retirements, log, phase, todo, batch, fresh, forgetting>>
    BY <1>17 DEF ForgetLinks
  <2>5. RowsInv'
    BY <1>0a, <2>1, <2>4, RowsStepped
  <2> QED
    BY <2>2, <2>3, <2>4, <2>5 DEF TypeOK
<1>18. CASE ForgetDefers \/ ForgetUnlinks
  <2>1. job[Forgetter] # NoJob /\ job[Forgetter] \in Job
    BY <1>0a, <1>0d, <1>18 DEF ForgetDefers, ForgetUnlinks, Working
  <2>2. job' \in [Workers -> Job \cup {NoJob}] /\ todo' \in [Workers -> SUBSET Deliveries]
        /\ \A v \in Workers : job'[v] = job[v] \/ job'[v] = NoJob
    <3>1. JobOver(Forgetter)
      BY <1>18 DEF ForgetDefers, ForgetUnlinks
    <3>2. job \in [Workers -> Job \cup {NoJob}]
      BY DEF TypeOK
    <3> QED
      BY <1>0a, <1>0f, <3>1, <3>2 DEF JobOver
  <2>3. /\ target' \in [Deliveries -> [state: TargetState, row: 0..MaxRetirements]]
        /\ forget' \in [state: RequestStates, context: StepStatus, projection: StepStatus]
    <3>1. 0 \in 0..MaxRetirements
      BY ConstantsAssumption
    <3> QED
      BY <1>0a, <1>0d, <1>0e, <1>18, <2>1, <3>1, LinkTypes DEF ForgetDefers, ForgetUnlinks, OfflineState, TargetState
  <2>4. UNCHANGED <<delivery, drawsOn, started, settlement, retirements, log, phase, batch, fresh, forgetting>>
    BY <1>18 DEF ForgetDefers, ForgetUnlinks
  <2> QED
    BY <2>2, <2>3, <2>4, RowsKept DEF TypeOK
<1>19. ASSUME NEW outcome \in {"completed", "failed"}, ForgetProjects(outcome) PROVE Goal
  <2>1. forget' \in [state: RequestStates, context: StepStatus, projection: StepStatus]
    BY <1>19, ForgetTypes DEF ForgetProjects, TypeOK, RequestStates, StepStatus
  <2> QED
    BY <1>19, <2>1, RowsKept DEF ForgetProjects, TypeOK
<1>20. CASE HostDies \/ CommandDies
  <2>1. /\ phase' \in [Sessions -> Phases] /\ batch' \in [Sessions -> SUBSET Deliveries]
        /\ fresh' \in [Sessions -> Deliveries \cup {NoDelivery}] /\ forgetting' \in {"host", "cli", "no"}
    BY <1>20, <1>0f DEF HostDies, CommandDies, Phases
  <2>2. todo' \in [Workers -> SUBSET Deliveries]
    <3>1. CASE HostDies
      BY <1>0f, <3>1 DEF HostDies
    <3>2. CASE CommandDies
      BY <1>0f, <3>2 DEF CommandDies
    <3> QED
      BY <1>20, <3>1, <3>2
  <2>3. job' \in [Workers -> Job \cup {NoJob}] /\ \A v \in Workers : job'[v] = job[v] \/ job'[v] = NoJob
    <3>1. job \in [Workers -> Job \cup {NoJob}]
      BY DEF TypeOK
    <3>2. CASE HostDies
      BY <3>1, <3>2 DEF HostDies
    <3>3. CASE CommandDies
      BY <1>0a, <3>1, <3>3 DEF CommandDies
    <3> QED
      BY <1>20, <3>2, <3>3
  <2>4. UNCHANGED <<database, log>>
    BY <1>20 DEF HostDies, CommandDies
  <2> QED
    BY <2>1, <2>2, <2>3, <2>4, RowsKept DEF TypeOK
<1>21. CASE UNCHANGED vars
  BY <1>21, RowsKept DEF vars, TypeOK
<1>22. ASSUME NEW w \in Workers, RetirementStep(w) PROVE Goal
  BY <1>12, <1>13, <1>14, <1>22 DEF RetirementStep
<1>23. ASSUME NEW s \in Sessions, PreStep(s) PROVE Goal
  BY <1>0, <1>1, <1>2, <1>3, <1>4, <1>5, <1>6, <1>7, <1>8, <1>22, <1>23 DEF PreStep, CloseLogged
<1>24. ASSUME NEW s \in Sessions, StepItself(s) PROVE Goal
  BY <1>2, <1>3, <1>9, <1>10, <1>24 DEF StepItself
<1>25. CASE ForgetStep
  BY <1>0a, <1>5, <1>17, <1>18, <1>19, <1>22, <1>25 DEF ForgetStep, ForgetRequests
<1> QED
  BY <1>1, <1>2, <1>11, <1>15, <1>16, <1>20, <1>21, <1>23, <1>24, <1>25 DEF Next

\* Every reachable state is typed: no interleaving of sessions, retirements, a
\* Forget and crashes stores a status, row or target outside its domain, and a
\* failed replacement always leaves room for the next one.
THEOREM TypeInvariant == Spec => []TypeOK
<1>1. Spec => [](TypeOK /\ RowsInv)
  BY InitTypes, StepTypes, PTL DEF Spec
<1> QED
  BY <1>1, PTL

\* Retirements are shared, for every number of them: two workers that close the
\* same context at the same time never have two pending rows.
THEOREM RetirementsAreShared == Spec => []OnePendingRetirement
<1>1. Spec => [](TypeOK /\ RowsInv)
  BY InitTypes, StepTypes, PTL DEF Spec
<1>2. RowsInv => OnePendingRetirement
  BY DEF RowsInv, OnePendingRetirement
<1> QED
  BY <1>1, <1>2, PTL

-----------------------------------------------------------------------------
\* Forget targets and proofs.

\* The request agrees with its targets: there are none before the commit, and it
\* is completed only when its context step is; a Forget runs after the commit.
TargetsInv ==
  /\ forget.state = "none" => \A d \in Deliveries : target[d].state = "none"
  /\ forget.state # "none" => forget.context = ContextStep(target)
  /\ forget.state = "completed" => forget.context \in {"completed", "not_applicable"}
  /\ forgetting # "no" => forget.state # "none"

LEMMA InitTargets == Init => TargetsInv
BY DEF Init, TargetsInv

\* After its targets were written, the request is reconciled with them.
LEMMA ReconciledIs ==
  ASSUME TypeOK, NEW t, forget' = Reconciled(t), target' = t
  PROVE  TargetsInv'
<1>1. ContextStep(t) \in StepStatus /\ forget \in [state: RequestStates, context: StepStatus, projection: StepStatus]
  BY ForgetTypes DEF TypeOK
<1>2. /\ forget'.state = RequestState({ContextStep(t), forget.projection})
      /\ forget'.context = ContextStep(t)
  BY <1>1 DEF Reconciled
<1>3. forget'.state # "none"
  BY <1>2, ForgetTypes
<1>4. forget'.state = "completed" => ContextStep(t) \in {"completed", "not_applicable", "none"}
  BY <1>1, <1>2 DEF RequestState, StepStatus
<1>5. ContextStep(t) # "none"
  BY DEF ContextStep
<1>6. ContextStep(t) = ContextStep(target)'
  BY DEF ContextStep
<1> QED
  BY <1>2, <1>3, <1>4, <1>5, <1>6 DEF TargetsInv

\* What any step makes of the rows, the targets and the request.
ProofsKept ==
  /\ \A d \in Deliveries : \A r \in DOMAIN retirements[d] :
       /\ r \in DOMAIN retirements'[d]
       /\ retirements[d][r] = "replaced_on_surface" => retirements'[d][r] = "replaced_on_surface"
  /\ \A d \in Deliveries : target[d].state = "retired" => target'[d].state = "retired"

LEMMA LinkKeeps ==
  ASSUME TypeOK, NEW d \in Deliveries, NEW state, NEW row, LinkTarget(d, state, row)
  PROVE  /\ \A e \in Deliveries : target[e].state = "retired" => target'[e].state = "retired"
         /\ \A e \in Deliveries : e # d => target'[e] = target[e]
         /\ target'[d].state \in {target[d].state, state}
         /\ TargetsInv'
<1>1. target \in [Deliveries -> [state: TargetState, row: 0..MaxRetirements]]
  BY DEF TypeOK
<1>2. TargetsInv'
  BY ReconciledIs DEF LinkTarget
<1> QED
  BY <1>1, <1>2 DEF LinkTarget

LEMMA FinishKeeps ==
  ASSUME TypeOK, RowsInv, TargetsInv, NEW w \in Workers, job[w] # NoJob,
         NEW status \in {"replaced_on_surface", "failed"}, NEW targetState,
         FinishRetirement(w, status, targetState), forgetting' = forgetting
  PROVE  /\ ProofsKept /\ TargetsInv'
         /\ \A e \in Deliveries : e # job[w].delivery => target'[e] = target[e]
         /\ target'[job[w].delivery].state \in {target[job[w].delivery].state, targetState}
<1> DEFINE d == job[w].delivery
<1>1. d \in Deliveries
  BY DEF TypeOK, Job
<1>2. \/ UNCHANGED <<target, forget>>
      \/ /\ target[d].state # "retired"
         /\ target' = [target EXCEPT ![d].state = targetState]
         /\ forget' = Reconciled([target EXCEPT ![d].state = targetState])
  BY DEF FinishRetirement, LinkedTarget
<1>3. TargetsInv'
  <2>1. CASE UNCHANGED <<target, forget>>
    BY <2>1 DEF TargetsInv, ContextStep
  <2> QED
    BY <1>2, <2>1, ReconciledIs
<1>4. target \in [Deliveries -> [state: TargetState, row: 0..MaxRetirements]]
  BY DEF TypeOK
<1>5. /\ \A e \in Deliveries : e # d => target'[e] = target[e]
      /\ target'[d].state \in {target[d].state, targetState}
      /\ \A e \in Deliveries : target[e].state = "retired" => target'[e].state = "retired"
  BY <1>1, <1>2, <1>4
<1>6. \A e \in Deliveries : \A r \in DOMAIN retirements[e] :
       /\ r \in DOMAIN retirements'[e]
       /\ retirements[e][r] = "replaced_on_surface" => retirements'[e][r] = "replaced_on_surface"
  BY FinishIs
<1> QED
  BY <1>3, <1>5, <1>6 DEF ProofsKept

LEMMA RequestKeeps ==
  ASSUME TypeOK, RowsInv, TargetsInv, NEW w \in Workers, NEW d \in Deliveries,
         NEW step \in {"link", "complete"}, RequestRetirement(w, d, step)
  PROVE  ProofsKept /\ TargetsInv'
<1>1. retirements' = [retirements EXCEPT ![d] = Requested(d)]
  BY RequestIs
<1>2. \A e \in Deliveries : retirements'[e] = IF e = d THEN Requested(d) ELSE retirements[e]
  BY <1>1 DEF TypeOK
<1>3. \A r \in DOMAIN retirements[d] :
              r \in DOMAIN Requested(d) /\ Requested(d)[r] = retirements[d][r]
  BY RequestedIs
<1>4. UNCHANGED <<target, forget, forgetting>>
  BY DEF RequestRetirement
<1>5. TargetsInv'
  BY <1>4 DEF TargetsInv, ContextStep
<1> QED
  BY <1>2, <1>3, <1>4, <1>5 DEF ProofsKept

LEMMA StepProofs == TypeOK /\ RowsInv /\ TargetsInv /\ [Next]_vars => ProofsKept /\ TargetsInv'
<1> DEFINE Goal == ProofsKept /\ TargetsInv'
<1> SUFFICES ASSUME TypeOK, RowsInv, TargetsInv, [Next]_vars PROVE Goal
  OBVIOUS
<1> USE DEF database, log, host
<1>0. Forgetter \in Workers /\ \A s \in Sessions : s \in Workers
  BY DEF Workers
<1>1. \A w \in Workers : job[w] # NoJob => job[w].delivery \in Deliveries
  BY DEF TypeOK, Job
<1>2. ASSUME UNCHANGED <<retirements, target, forget>>, forgetting' \in {forgetting, "no"}
      PROVE  Goal
  <2>1. TargetsInv'
    BY <1>2 DEF TargetsInv, ContextStep
  <2> QED
    BY <1>2, <2>1 DEF ProofsKept
<1>3. ASSUME NEW w \in Workers, RetirementStep(w) PROVE Goal
  <2>1. CASE FinishReplaced(w)
    BY <2>1, FinishKeeps DEF FinishReplaced, Working
  <2>2. CASE FinishFailed(w)
    BY <2>2, FinishKeeps DEF FinishFailed, Working
  <2>3. CASE FoundReplaced(w) \/ FoundOffline(w) \/ Replace(w) \/ ReplaceFails(w) \/ TraceReplacement(w)
    BY <1>2, <2>3 DEF FoundReplaced, FoundOffline, Replace, ReplaceFails, TraceReplacement
  <2> QED
    BY <1>3, <2>1, <2>2, <2>3 DEF RetirementStep
<1>4. ASSUME NEW s \in Sessions, NEW d \in Deliveries, CloseLogged(s, d) PROVE Goal
  BY <1>0, <1>4, RequestKeeps DEF CloseLogged
<1>5. ASSUME NEW s \in Sessions, PreStep(s) PROVE Goal
  <2>1. ASSUME NEW d \in Deliveries, ReconcileAbsent(s, d) \/ ReconcileAppended(s, d)
               \/ ReconcileOutcome(s, d) \/ CloseAbsent(s, d) \/ StartForSettlement(s, d)
               \/ SettleForRecall(s, d)
        PROVE  UNCHANGED <<retirements, target, forget, forgetting>>
    BY <2>1 DEF ReconcileAbsent, ReconcileAppended, ReconcileOutcome, CloseAbsent,
                StartForSettlement, SettleForRecall
  <2>2. ASSUME FollowUp(s) \/ Trigger(s) \/ ContextsClosed(s) \/ UsagesClosed(s) \/ Activate(s)
               \/ AdmitNothing(s) \/ \E d \in Deliveries, draws \in BOOLEAN : PrepareContext(s, d, draws)
        PROVE  UNCHANGED <<retirements, target, forget, forgetting>>
    BY <2>2 DEF FollowUp, Trigger, ContextsClosed, UsagesClosed, Activate, AdmitNothing, PrepareContext
  <2> QED
    BY <1>0, <1>2, <1>3, <1>4, <1>5, <2>1, <2>2 DEF PreStep
<1>6. ASSUME NEW s \in Sessions, StepItself(s) \/ Resume(s) \/ Dispose(s) \/ BeginStep(s) PROVE Goal
  <2>1. UNCHANGED <<retirements, target, forget, forgetting>>
    BY <1>6 DEF StepItself, AppendContext, BeginRequest, RequestAppended, RequestIncluded, SendRequest,
                Respond, EndStep, Resume, Dispose, BeginStep
  <2> QED
    BY <1>2, <2>1
<1>7. CASE ForgetCommit
  <2>1. retirements' = retirements /\ forget.state = "none"
    BY <1>7 DEF ForgetCommit
  <2>2. \A d \in Deliveries : target[d].state # "retired"
    BY <2>1 DEF TargetsInv
  <2>3. forget'.state = "processing" /\ forget'.context = ContextStep(target')
    BY <1>7 DEF ForgetCommit
  <2>4. ContextStep(target') = ContextStep(target)'
    BY DEF ContextStep
  <2> QED
    BY <2>1, <2>2, <2>3, <2>4 DEF ProofsKept, TargetsInv
<1>8. CASE ForgetStep
  <2>1. ASSUME NEW d \in Deliveries, ForgetRequests(d) PROVE Goal
    BY <1>0, <2>1, RequestKeeps DEF ForgetRequests
  <2>2. ASSUME NEW d \in Deliveries, NEW state, NEW row, LinkTarget(d, state, row), retirements' = retirements
        PROVE  Goal
    BY <2>2, LinkKeeps DEF ProofsKept
  <2>3. CASE ForgetLinks
    BY <1>0, <1>1, <2>2, <2>3 DEF ForgetLinks, Working
  <2>4. CASE ForgetDefers \/ ForgetUnlinks
    BY <1>0, <1>1, <2>2, <2>4 DEF ForgetDefers, ForgetUnlinks, Working
  <2>5. ASSUME NEW outcome \in {"completed", "failed"}, ForgetProjects(outcome) PROVE Goal
    <3>1. UNCHANGED <<retirements, target>>
      BY <2>5 DEF ForgetProjects
    <3>2. forget \in [state: RequestStates, context: StepStatus, projection: StepStatus]
      BY DEF TypeOK
    <3>3. /\ forget'.context = forget.context
          /\ forget'.state = RequestState({forget.context, outcome})
      BY <2>5, <3>2 DEF ForgetProjects
    <3>4. forget.state # "none"
      BY <2>5 DEF ForgetProjects, TargetsInv
    <3>5. forget.context # "none"
      BY <3>4 DEF TargetsInv, ContextStep
    <3>6. forget'.state # "none" /\ (forget'.state = "completed" => forget.context \in {"completed", "not_applicable"})
      BY <3>2, <3>3, <3>5, ForgetTypes DEF RequestState, StepStatus
    <3>7. ContextStep(target)' = ContextStep(target)
      BY <3>1 DEF ContextStep
    <3> QED
      BY <3>1, <3>3, <3>4, <3>6, <3>7 DEF ProofsKept, TargetsInv
  <2> QED
    BY <1>0, <1>3, <1>8, <2>1, <2>3, <2>4, <2>5 DEF ForgetStep
<1>9. CASE \/ \E d \in Deliveries : OwnerSettles(d)
           \/ HostDies \/ CommandDies \/ UNCHANGED vars
  <2>1. UNCHANGED <<retirements, target, forget>> /\ forgetting' \in {forgetting, "no"}
    BY <1>9 DEF OwnerSettles, HostDies, CommandDies, vars
  <2> QED
    BY <1>2, <2>1
<1>10. CASE ForgetAgain
  <2>1. UNCHANGED <<retirements, target, forget>> /\ forget.state # "none"
    BY <1>10 DEF ForgetAgain
  <2> QED
    BY <2>1 DEF ProofsKept, TargetsInv, ContextStep
<1> QED
  BY <1>5, <1>6, <1>7, <1>8, <1>9, <1>10 DEF Next

\* A retirement that was proven on the surface stays proven, and so does the
\* Forget target that was told of it: across retries, failures that are reported
\* late, the command sent again and crashes.
THEOREM ProofsStayFinal == Spec => ProofsAreFinal
<1> DEFINE Final == \A d \in Deliveries :
       /\ \A r \in DOMAIN retirements[d] :
            retirements[d][r] = "replaced_on_surface" =>
              retirements'[d][r] = "replaced_on_surface"
       /\ target[d].state = "retired" => target'[d].state = "retired"
<1>1. TypeOK /\ RowsInv /\ TargetsInv /\ [Next]_vars => TargetsInv' /\ [Final]_vars
  BY StepProofs DEF ProofsKept
<1>2. TypeOK /\ RowsInv /\ [Next]_vars => TypeOK' /\ RowsInv'
  BY StepTypes
<1> QED
  BY <1>1, <1>2, InitTypes, InitTargets, PTL DEF Spec, ProofsAreFinal

-----------------------------------------------------------------------------
\* The database and the log.

\* The status of a delivery says whether its event is known, and is never ahead
\* of the log.
DeliveryOk(d) ==
  /\ delivery[d].logged <=> Status(d) \in ActiveStatus
  /\ surface[d] = "absent" => Status(d) \in {"none", "prepared", "failed_before_send"}
  /\ Status(d) \in {"none", "failed_before_send"} => surface[d] = "absent"

\* What a session knows at each place of its step: it retires only while it
\* closes; the message it returns is prepared and in no log; once the session
\* is reconciled no outcome of it is open; and a request carries messages of the
\* log, each recorded as included before it is sent.
SessionOk(s) ==
  /\ job[s] # NoJob => phase[s] = "close" /\ job[s].delivery \in Of(s)
  /\ fresh[s] # NoDelivery =>
       /\ phase[s] \in {"activate", "append"}
       /\ fresh[s] \in Of(s) /\ Status(fresh[s]) = "prepared" /\ surface[fresh[s]] = "absent"
  /\ phase[s] = "activate" => fresh[s] # NoDelivery
  /\ phase[s] = "reconcile" =>
       /\ todo[s] \subseteq Of(s)
       /\ \A d \in todo[s] : Status(d) \in {"prepared", "appended_to_session"}
       /\ \A d \in Of(s) : Status(d) = "prepared" => d \in todo[s]
  /\ phase[s] \in {"close", "settle", "admit"} => \A d \in Of(s) : Status(d) # "prepared"
  /\ phase[s] \in {"close", "settle", "request"} => batch[s] \subseteq Of(s)
  /\ phase[s] = "close" => todo[s] \subseteq Of(s) /\ \A d \in todo[s] : Status(d) # "none"
  /\ phase[s] = "request" =>
       /\ todo[s] \subseteq Of(s)
       /\ \A d \in todo[s] : surface[d] # "absent"
       /\ \A d \in batch[s] : d \in todo[s] \/ Status(d) = "included_in_request"

LogInv ==
  /\ \A d \in Deliveries : DeliveryOk(d)
  /\ \A s \in Sessions : SessionOk(s)
  /\ \A d \in sent : Status(d) = "included_in_request"

LEMMA InitLog == Init => LogInv
<1> SUFFICES ASSUME Init PROVE LogInv
  OBVIOUS
<1>1. \A d \in Deliveries : DeliveryOk(d)
  BY DEF Init, DeliveryOk, Status, ActiveStatus
<1>2. \A s \in Sessions : phase[s] = "off" /\ fresh[s] = NoDelivery /\ job[s] = NoJob /\ s \in Workers
  BY DEF Init, Workers
<1>3. \A s \in Sessions : SessionOk(s)
  BY <1>2 DEF SessionOk
<1> QED
  BY <1>1, <1>3 DEF Init, LogInv

\* A step of a session touches nothing of another, ...
OnlyItsOwn(s) ==
  /\ \A x \in Sessions : x # s =>
       /\ phase'[x] = phase[x] /\ todo'[x] = todo[x] /\ batch'[x] = batch[x]
       /\ fresh'[x] = fresh[x] /\ job'[x] = job[x]
  /\ \A d \in Deliveries : d \notin Of(s) =>
       /\ delivery'[d] = delivery[d] /\ surface'[d] = surface[d]
       /\ retirements'[d] = retirements[d] /\ settlement'[d] = settlement[d]

SessionMoves(s) == Resume(s) \/ Dispose(s) \/ BeginStep(s) \/ PreStep(s) \/ StepItself(s)

LEMMA SessionsAreApart ==
  ASSUME TypeOK, RowsInv, LogInv, NEW s \in Sessions, SessionMoves(s)
  PROVE  OnlyItsOwn(s)
<1> USE DEF database, log, host
<1>0. /\ \A x \in Sessions : x \in Workers
      /\ delivery \in [Deliveries -> [status: DeliveryStatus, logged: BOOLEAN]]
      /\ settlement \in [Deliveries -> {"none", "recall", "owner"}]
      /\ surface \in [Deliveries -> {"absent", "current", "replaced"}]
      /\ phase \in [Sessions -> Phases]
      /\ todo \in [Workers -> SUBSET Deliveries] /\ batch \in [Sessions -> SUBSET Deliveries]
      /\ fresh \in [Sessions -> Deliveries \cup {NoDelivery}]
      /\ job \in [Workers -> Job \cup {NoJob}]
  BY DEF TypeOK, Workers
<1>1. SessionOk(s)
  BY DEF LogInv
<1>2. CASE Resume(s) \/ Dispose(s) \/ BeginStep(s) \/ FollowUp(s) \/ Trigger(s) \/ ContextsClosed(s)
           \/ UsagesClosed(s) \/ BeginRequest(s) \/ SendRequest(s)
  BY <1>0, <1>2 DEF Resume, Dispose, BeginStep, FollowUp, Trigger, ContextsClosed, UsagesClosed,
                    BeginRequest, SendRequest, OnlyItsOwn
<1>3. CASE Respond(s) \/ EndStep(s) \/ AdmitNothing(s) \/ Activate(s)
  BY <1>0, <1>3 DEF Respond, EndStep, AdmitNothing, Activate, OnlyItsOwn
<1>4. ASSUME NEW d \in Deliveries, ReconcileAbsent(s, d) \/ ReconcileAppended(s, d) \/ ReconcileOutcome(s, d)
             \/ RequestAppended(s, d) \/ RequestIncluded(s, d)
      PROVE  OnlyItsOwn(s)
  <2>1. d \in Of(s)
    BY <1>1, <1>4 DEF SessionOk, ReconcileAbsent, ReconcileAppended, ReconcileOutcome,
                      RequestAppended, RequestIncluded
  <2>2. \/ MarkAppended(d)
        \/ \E status \in DeliveryStatus : Mark(d, status)
    BY <1>4 DEF ReconcileAbsent, ReconcileAppended, ReconcileOutcome, RequestAppended,
                RequestIncluded, Inclusion, DeliveryStatus
  <2>3. \A e \in Deliveries : e # d => delivery'[e] = delivery[e]
    BY <2>2, Marks, Appends
  <2>4. /\ todo' = todo \/ Handled(s, d)
        /\ UNCHANGED <<surface, retirements, settlement, phase, batch, fresh, job>>
    BY <1>4 DEF ReconcileAbsent, ReconcileAppended, ReconcileOutcome, RequestAppended, RequestIncluded
  <2> QED
    BY <1>0, <2>1, <2>3, <2>4 DEF OnlyItsOwn, Handled
<1>5. ASSUME NEW d \in Deliveries, CloseAbsent(s, d) PROVE OnlyItsOwn(s)
  <2>1. UNCHANGED <<delivery, surface, retirements, settlement, fresh, job>>
    BY <1>5 DEF CloseAbsent
  <2>2. \A x \in Sessions : x # s =>
       phase'[x] = phase[x] /\ todo'[x] = todo[x] /\ batch'[x] = batch[x]
    BY <1>0, <1>5 DEF CloseAbsent, Rejected, Handled
  <2> QED
    BY <2>1, <2>2 DEF OnlyItsOwn
<1>6. ASSUME NEW d \in Deliveries, CloseLogged(s, d) PROVE OnlyItsOwn(s)
  <2>1. d \in Of(s) /\ RequestRetirement(s, d, "complete")
    BY <1>1, <1>6 DEF SessionOk, CloseLogged
  <2>2. retirements' = [retirements EXCEPT ![d] = Requested(d)] /\ \A v \in Workers : v # s => job'[v] = job[v]
    BY <1>0, <2>1, RequestIs
  <2>3. UNCHANGED <<delivery, surface, settlement, phase, todo, batch, fresh>>
    BY <2>1 DEF RequestRetirement
  <2>4. \A e \in Deliveries : e # d => retirements'[e] = retirements[e]
    BY <2>2 DEF TypeOK
  <2> QED
    BY <1>0, <2>1, <2>2, <2>3, <2>4 DEF OnlyItsOwn
<1>7. ASSUME NEW d \in Deliveries, StartForSettlement(s, d) PROVE OnlyItsOwn(s)
  BY <1>7 DEF StartForSettlement, OnlyItsOwn
<1>8. ASSUME NEW d \in Deliveries, SettleForRecall(s, d) PROVE OnlyItsOwn(s)
  <2>1. UNCHANGED <<delivery, surface, retirements, fresh, job>>
    BY <1>8 DEF SettleForRecall
  <2>2. \A x \in Sessions : x # s =>
       phase'[x] = phase[x] /\ todo'[x] = todo[x] /\ batch'[x] = batch[x]
    BY <1>0, <1>8 DEF SettleForRecall, Rejected
  <2>3. d \in Of(s)
    BY <1>1, <1>8 DEF SessionOk, SettleForRecall
  <2>4. \A e \in Deliveries : e \notin Of(s) => settlement'[e] = settlement[e]
    BY <1>0, <1>8, <2>3 DEF SettleForRecall
  <2> QED
    BY <2>1, <2>2, <2>4 DEF OnlyItsOwn
<1>9. ASSUME NEW d \in Deliveries, NEW draws \in BOOLEAN, PrepareContext(s, d, draws) PROVE OnlyItsOwn(s)
  BY <1>0, <1>9 DEF PrepareContext, Mark, OnlyItsOwn
<1>10. ASSUME NEW observed \in BOOLEAN, AppendContext(s, observed) PROVE OnlyItsOwn(s)
  <2>1. fresh[s] \in Of(s) /\ fresh[s] \in Deliveries
    BY <1>1, <1>10 DEF SessionOk, AppendContext, Of
  <2>2. \A e \in Deliveries : e # fresh[s] => delivery'[e] = delivery[e] /\ surface'[e] = surface[e]
    BY <1>0, <1>10, <2>1, Appends DEF AppendContext
  <2> QED
    BY <1>0, <1>10, <2>1, <2>2 DEF AppendContext, OnlyItsOwn
<1>11. CASE RetirementStep(s)
  <2>1. job[s] # NoJob /\ s \in Workers
    BY <1>0, <1>11 DEF RetirementStep, FoundReplaced, FoundOffline, Replace, ReplaceFails, TraceReplacement,
                  FinishReplaced, FinishFailed, Working
  <2>2. job[s].delivery \in Of(s) /\ job[s] \in Job /\ job[s].delivery \in Deliveries
    BY <1>0, <1>1, <2>1 DEF SessionOk, Job
  <2>3. \A x \in Sessions : x # s => job'[x] = job[x]
    <3>1. \/ \E step : Step(s, step)
          \/ job' = [job EXCEPT ![s] = NoJob]
      BY <1>0, <1>11, ConstantsAssumption DEF RetirementStep, FoundReplaced, FoundOffline, Replace, ReplaceFails, TraceReplacement,
                  FinishReplaced, FinishFailed, JobOver
    <3> QED
      BY <1>0, <3>1 DEF Step
  <2>4. \A x \in Sessions : x # s => phase'[x] = phase[x] /\ todo'[x] = todo[x] /\ batch'[x] = batch[x]
    <3>1. \/ UNCHANGED <<phase, todo, batch>>
          \/ Rejected(s)
          \/ UNCHANGED <<phase, batch>> /\ JobOver(s)
      BY <1>11, ConstantsAssumption DEF RetirementStep, FoundReplaced, FoundOffline, Replace, ReplaceFails, TraceReplacement,
                  FinishReplaced, FinishFailed
    <3> QED
      BY <1>0, <3>1 DEF Rejected, JobOver
  <2>5. UNCHANGED <<delivery, settlement, fresh>>
    BY <1>11 DEF RetirementStep, FoundReplaced, FoundOffline, Replace, ReplaceFails, TraceReplacement,
                  FinishReplaced, FinishFailed
  <2>6. \A d \in Deliveries : d # job[s].delivery => surface'[d] = surface[d]
    BY <1>0, <1>11 DEF RetirementStep, FoundReplaced, FoundOffline, Replace, ReplaceFails, TraceReplacement,
                  FinishReplaced, FinishFailed
  <2>7. \A d \in Deliveries : d # job[s].delivery => retirements'[d] = retirements[d]
    <3>1. \/ retirements' = retirements
          \/ \E status, ts : FinishRetirement(s, status, ts)
      BY <1>11 DEF RetirementStep, FoundReplaced, FoundOffline, Replace, ReplaceFails, TraceReplacement,
                  FinishReplaced, FinishFailed
    <3>2. \/ retirements' = retirements
          \/ \E x : retirements' = [retirements EXCEPT ![job[s].delivery] = x]
      BY <3>1 DEF FinishRetirement
    <3> QED
      BY <3>2 DEF TypeOK
  <2> QED
    BY <2>2, <2>3, <2>4, <2>5, <2>6, <2>7 DEF OnlyItsOwn
<1> QED
  BY <1>2, <1>3, <1>4, <1>5, <1>6, <1>7, <1>8, <1>9, <1>10, <1>11 DEF SessionMoves, PreStep, StepItself

\* ... so that what another session knows stays true, ...
LEMMA OthersAreOk ==
  ASSUME TypeOK, LogInv, NEW s \in Sessions, OnlyItsOwn(s)
  PROVE  /\ \A x \in Sessions : x # s => SessionOk(x)'
         /\ \A d \in Deliveries : d \notin Of(s) => DeliveryOk(d)'
<1>1. \A x \in Sessions : \A d \in Of(x) : d \in Deliveries /\ (x # s => d \notin Of(s))
  BY DEF Of
<1>2. ASSUME NEW x \in Sessions, x # s PROVE SessionOk(x)'
  <2>1. /\ phase'[x] = phase[x] /\ todo'[x] = todo[x] /\ batch'[x] = batch[x]
        /\ fresh'[x] = fresh[x] /\ job'[x] = job[x] /\ SessionOk(x)
        /\ \A d \in Of(x) : delivery'[d] = delivery[d] /\ surface'[d] = surface[d]
    BY <1>1, <1>2 DEF LogInv, OnlyItsOwn
  <2>2. Of(x)' = Of(x)
    BY DEF Of
  <2> QED
    BY <2>1, <2>2 DEF SessionOk, Status
<1>3. ASSUME NEW d \in Deliveries, d \notin Of(s) PROVE DeliveryOk(d)'
  BY <1>3 DEF LogInv, OnlyItsOwn, DeliveryOk, Status
<1> QED
  BY <1>2, <1>3

\* ... and its own knowledge, its deliveries and what was sent are left to check.
LEMMA MovesOk ==
  ASSUME TypeOK, LogInv, NEW s \in Sessions, OnlyItsOwn(s), SessionOk(s)',
         \A d \in Of(s) : DeliveryOk(d)',
         \A d \in sent : Status(d)' = "included_in_request",
         \A d \in sent' : d \in sent \/ Status(d)' = "included_in_request"
  PROVE  LogInv'
BY OthersAreOk DEF LogInv

\* The other steps leave the sessions alone, or take a message off a surface.
LEMMA LogKept ==
  ASSUME TypeOK, LogInv, UNCHANGED <<delivery, phase, batch, fresh, sent>>,
         \A s \in Sessions : todo'[s] = todo[s] /\ job'[s] = job[s],
         \A d \in Deliveries : surface'[d] = "absent" <=> surface[d] = "absent"
  PROVE  LogInv'
<1>1. \A d \in Deliveries : Status(d)' = Status(d)
  BY DEF Status
<1>2. \A s \in Sessions : Of(s)' = Of(s) /\ Of(s) \subseteq Deliveries
  BY DEF Of
<1>3. \A d \in Deliveries : DeliveryOk(d)'
  BY <1>1 DEF LogInv, DeliveryOk
<1>4. ASSUME NEW s \in Sessions PROVE SessionOk(s)'
  BY <1>1, <1>2 DEF LogInv, SessionOk
<1>5. \A d \in sent' : Status(d)' = "included_in_request"
  BY DEF LogInv, Status
<1> QED
  BY <1>3, <1>4, <1>5 DEF LogInv

LEMMA MovesKeepLog ==
  ASSUME TypeOK, RowsInv, LogInv, NEW s \in Sessions, SessionMoves(s)
  PROVE  LogInv'
<1> USE DEF database, log, host
<1>0. /\ s \in Workers
      /\ delivery \in [Deliveries -> [status: DeliveryStatus, logged: BOOLEAN]]
      /\ surface \in [Deliveries -> {"absent", "current", "replaced"}]
      /\ phase \in [Sessions -> Phases]
      /\ todo \in [Workers -> SUBSET Deliveries] /\ batch \in [Sessions -> SUBSET Deliveries]
      /\ fresh \in [Sessions -> Deliveries \cup {NoDelivery}]
      /\ job \in [Workers -> Job \cup {NoJob}]
  BY DEF TypeOK, Workers
<1>1. /\ SessionOk(s) /\ Of(s)' = Of(s) /\ Of(s) \subseteq Deliveries
      /\ \A d \in Of(s) : DeliveryOk(d)
      /\ \A d \in sent : Status(d) = "included_in_request"
  BY DEF LogInv, Of
<1>2. OnlyItsOwn(s)
  BY SessionsAreApart
<1>3. ASSUME UNCHANGED <<delivery, sent>>,
             \A d \in Of(s) : surface'[d] = "absent" <=> surface[d] = "absent",
             SessionOk(s)'
      PROVE  LogInv'
  <2>1. \A d \in Deliveries : Status(d)' = Status(d)
    BY <1>3 DEF Status
  <2>2. \A d \in Of(s) : DeliveryOk(d)'
    BY <1>1, <1>3, <2>1 DEF DeliveryOk
  <2>3. \A d \in sent' : d \in sent
    BY <1>3
  <2>4. \A d \in sent : Status(d)' = "included_in_request"
    BY <1>1, <1>3 DEF Status
  <2> QED
    BY <1>2, <1>3, <2>2, <2>3, <2>4, MovesOk
<1>4. CASE Resume(s) \/ Dispose(s)
  <2>1. /\ phase[s] \in {"off", "idle"} /\ phase'[s] \in {"off", "idle"}
        /\ fresh'[s] = fresh[s] /\ job'[s] = job[s] /\ UNCHANGED <<delivery, surface, sent>>
    BY <1>0, <1>4 DEF Resume, Dispose
  <2>2. SessionOk(s)'
    BY <1>1, <2>1 DEF SessionOk
  <2> QED
    BY <1>3, <2>1, <2>2
<1>5. CASE BeginStep(s)
  <2>1. /\ phase[s] = "idle" /\ phase'[s] = "reconcile" /\ todo'[s] = OpenOutcomes(s)
        /\ fresh'[s] = fresh[s] /\ job'[s] = job[s] /\ UNCHANGED <<delivery, surface, sent>>
    BY <1>0, <1>5 DEF BeginStep
  <2>2. SessionOk(s)'
    BY <1>1, <2>1 DEF SessionOk, OpenOutcomes, Status, Of
  <2> QED
    BY <1>3, <2>1, <2>2
<1>6. CASE FollowUp(s)
  <2>1. /\ phase[s] = "reconcile" /\ phase'[s] = "append"
        /\ fresh'[s] = fresh[s] /\ job'[s] = job[s] /\ UNCHANGED <<delivery, surface, sent>>
    BY <1>0, <1>6 DEF FollowUp
  <2>2. SessionOk(s)'
    BY <1>1, <2>1 DEF SessionOk
  <2> QED
    BY <1>3, <2>1, <2>2
<1>7. CASE Trigger(s)
  <2>1. /\ phase[s] = "reconcile" /\ phase'[s] = "close" /\ todo[s] = {}
        /\ todo'[s] = Active(s) \cup Unsettled(s) /\ batch'[s] = Unsettled(s)
        /\ fresh'[s] = fresh[s] /\ job'[s] = job[s] /\ UNCHANGED <<delivery, surface, sent>>
    BY <1>0, <1>7 DEF Trigger
  <2>2. \A d \in Active(s) \cup Unsettled(s) : d \in Of(s) /\ Status(d) # "none"
    BY DEF Active, Unsettled, ActiveStatus
  <2>3. SessionOk(s)'
    BY <1>1, <2>1, <2>2 DEF SessionOk, Status, Unsettled, Of
  <2> QED
    BY <1>3, <2>1, <2>3
<1>8. ASSUME NEW d \in Deliveries, CloseAbsent(s, d) PROVE LogInv'
  <2>1. /\ phase[s] = "close" /\ job[s] = NoJob
        /\ fresh'[s] = fresh[s] /\ job'[s] = job[s] /\ UNCHANGED <<delivery, surface, sent>>
    BY <1>0, <1>8 DEF CloseAbsent
  <2>2. CASE UNCHANGED <<phase, batch>> /\ Handled(s, d)
    <3>1. phase'[s] = "close" /\ batch'[s] = batch[s] /\ todo'[s] \subseteq todo[s]
      BY <1>0, <2>1, <2>2 DEF Handled
    <3>2. SessionOk(s)'
      BY <1>1, <2>1, <3>1 DEF SessionOk, Status
    <3> QED
      BY <1>3, <2>1, <3>2
  <2>3. CASE Rejected(s)
    <3>1. phase'[s] = "rejected"
      BY <1>0, <2>3 DEF Rejected
    <3>2. SessionOk(s)'
      BY <1>1, <2>1, <3>1 DEF SessionOk
    <3> QED
      BY <1>3, <2>1, <3>2
  <2> QED
    BY <1>8, <2>2, <2>3 DEF CloseAbsent
<1>9. ASSUME NEW d \in Deliveries, CloseLogged(s, d) PROVE LogInv'
  <2>1. /\ phase[s] = "close" /\ d \in todo[s] /\ RequestRetirement(s, d, "complete")
        /\ UNCHANGED <<delivery, surface, sent, phase, todo, batch, fresh>>
    BY <1>9 DEF CloseLogged, RequestRetirement
  <2>2. job'[s].delivery = d
    BY <1>0, <2>1, RequestIs
  <2>3. SessionOk(s)'
    BY <1>1, <2>1, <2>2 DEF SessionOk, Status
  <2> QED
    BY <1>3, <2>1, <2>3
<1>10. ASSUME NEW d \in Deliveries, StartForSettlement(s, d) \/ SettleForRecall(s, d) PROVE LogInv'
  <2>1. /\ phase[s] = "settle" /\ UNCHANGED <<delivery, surface, sent, fresh, job>>
    BY <1>10 DEF StartForSettlement, SettleForRecall
  <2>2. /\ phase'[s] \in {"settle", "rejected"}
        /\ phase'[s] = "settle" => batch'[s] \subseteq batch[s]
    <3>1. CASE Rejected(s)
      BY <1>0, <3>1 DEF Rejected
    <3>2. CASE UNCHANGED <<phase, todo>> /\ batch' \in {batch, [batch EXCEPT ![s] = batch[s] \ {d}]}
      BY <1>0, <2>1, <3>2
    <3> QED
      BY <1>10, <3>1, <3>2 DEF StartForSettlement, SettleForRecall
  <2>3. SessionOk(s)'
    BY <1>1, <2>1, <2>2 DEF SessionOk, Status
  <2> QED
    BY <1>3, <2>1, <2>3
<1>11. CASE ContextsClosed(s) \/ UsagesClosed(s)
  <2>1. /\ phase[s] \in {"close", "settle"} /\ phase'[s] \in {"settle", "admit", "rejected"}
        /\ job[s] = NoJob /\ UNCHANGED <<delivery, surface, sent, todo, batch, fresh, job>>
    BY <1>0, <1>1, <1>11 DEF ContextsClosed, UsagesClosed, SessionOk
  <2>2. SessionOk(s)'
    BY <1>1, <2>1 DEF SessionOk, Status
  <2> QED
    BY <1>3, <2>1, <2>2
<1>12. CASE Activate(s) \/ AdmitNothing(s)
  <2>1. /\ phase[s] \in {"admit", "activate"} /\ phase'[s] \in {"append", "rejected"}
        /\ fresh'[s] # NoDelivery => fresh'[s] = fresh[s] /\ phase'[s] = "append"
        /\ UNCHANGED <<delivery, surface, sent, todo, batch, job>>
    BY <1>0, <1>12 DEF Activate, AdmitNothing
  <2>2. SessionOk(s)'
    BY <1>1, <2>1 DEF SessionOk, Status
  <2> QED
    BY <1>3, <2>1, <2>2
<1>13. CASE BeginRequest(s)
  <2>1. /\ phase[s] = "append" /\ phase'[s] = "request" /\ fresh'[s] = NoDelivery /\ job'[s] = job[s]
        /\ todo'[s] = {d \in Of(s) : surface[d] = "current"} /\ batch'[s] = todo'[s]
        /\ UNCHANGED <<delivery, surface, sent>>
    BY <1>0, <1>13 DEF BeginRequest
  <2>2. SessionOk(s)'
    BY <1>1, <2>1 DEF SessionOk
  <2> QED
    BY <1>3, <2>1, <2>2
<1>14. CASE SendRequest(s)
  <2>1. /\ phase[s] = "request" /\ phase'[s] = "sent" /\ todo[s] = {}
        /\ sent' = sent \cup batch[s]
        /\ UNCHANGED <<delivery, surface, fresh, job>>
    BY <1>0, <1>14 DEF SendRequest
  <2>2. SessionOk(s)'
    BY <1>1, <2>1 DEF SessionOk
  <2>3. \A d \in batch[s] : Status(d) = "included_in_request"
    BY <1>1, <2>1 DEF SessionOk
  <2>4. \A d \in Of(s) : DeliveryOk(d)'
    BY <1>1, <2>1 DEF DeliveryOk, Status
  <2>5. \A d \in sent \cup batch[s] : Status(d)' = "included_in_request"
    BY <1>1, <2>1, <2>3 DEF Status
  <2> QED
    BY <1>2, <2>1, <2>2, <2>4, <2>5, MovesOk
<1>15. CASE Respond(s)
  <2>1. UNCHANGED <<delivery, surface, sent, phase, todo, batch, fresh, job>>
    BY <1>15 DEF Respond
  <2>2. SessionOk(s)'
    BY <1>1, <2>1 DEF SessionOk, Status
  <2> QED
    BY <1>3, <2>1, <2>2
<1>16. CASE EndStep(s)
  <2>1. /\ phase[s] # "close" /\ phase'[s] = "idle" /\ fresh'[s] = NoDelivery
        /\ UNCHANGED <<delivery, surface, sent, job>>
    BY <1>0, <1>16 DEF EndStep
  <2>2. SessionOk(s)'
    BY <1>1, <2>1 DEF SessionOk
  <2> QED
    BY <1>3, <2>1, <2>2
<1>17. ASSUME NEW d \in Of(s), NEW status \in DeliveryStatus,
              d \in Deliveries, Mark(d, status), UNCHANGED <<surface, sent>>,
              Status(d) = "included_in_request" => status = "included_in_request",
              delivery[d].logged <=> status \in ActiveStatus,
              surface[d] = "absent" => status \in {"none", "prepared", "failed_before_send"},
              status \in {"none", "failed_before_send"} => surface[d] = "absent",
              SessionOk(s)'
       PROVE  LogInv'
  <2>1. /\ \A e \in Deliveries : e # d => delivery'[e] = delivery[e]
        /\ delivery'[d].status = status /\ delivery'[d].logged = delivery[d].logged
    BY <1>17, Marks
  <2>2. \A e \in Of(s) : DeliveryOk(e)'
    BY <1>1, <1>17, <2>1 DEF DeliveryOk, Status
  <2>3. \A e \in Deliveries : Status(e) = "included_in_request" => Status(e)' = "included_in_request"
    BY <1>17, <2>1 DEF Status
  <2>4. \A e \in sent : Status(e)' = "included_in_request"
    BY <1>1, <2>3 DEF TypeOK
  <2> QED
    BY <1>2, <1>17, <2>2, <2>4, MovesOk
<1>18. ASSUME NEW d \in Of(s), d \in Deliveries, MarkAppended(d), sent' = sent,
              surface' \in {surface, [surface EXCEPT ![d] = "current"]}, surface'[d] # "absent",
              SessionOk(s)'
       PROVE  LogInv'
  <2>1. /\ \A e \in Deliveries : e # d => delivery'[e] = delivery[e]
        /\ IF Status(d) = "included_in_request" THEN delivery'[d] = delivery[d]
           ELSE delivery'[d].status = "appended_to_session" /\ delivery'[d].logged = TRUE
    BY <1>18, Appends
  <2>2. \A e \in Deliveries : e # d => surface'[e] = surface[e]
    BY <1>0, <1>18
  <2>3. \A e \in Of(s) : e # d => DeliveryOk(e)'
    BY <1>1, <2>1, <2>2 DEF DeliveryOk, Status
  <2>4. DeliveryOk(d)'
    BY <1>1, <1>18, <2>1 DEF DeliveryOk, Status, ActiveStatus
  <2>5. \A e \in Deliveries : Status(e) = "included_in_request" => Status(e)' = "included_in_request"
    BY <2>1 DEF Status
  <2>6. \A e \in sent : Status(e)' = "included_in_request"
    BY <1>1, <2>5 DEF TypeOK
  <2> QED
    BY <1>2, <1>18, <2>3, <2>4, <2>6, MovesOk
<1>19. ASSUME NEW d \in Deliveries, ReconcileAbsent(s, d) \/ ReconcileOutcome(s, d) PROVE LogInv'
  <2>1. /\ phase[s] = "reconcile" /\ d \in todo[s] /\ d \in Of(s) /\ todo'[s] = todo[s] \ {d}
        /\ UNCHANGED <<surface, sent, phase, fresh, job>>
        /\ Status(d) \in {"prepared", "appended_to_session"}
    BY <1>0, <1>1, <1>19 DEF ReconcileAbsent, ReconcileOutcome, Handled, SessionOk
  <2>2. PICK status \in DeliveryStatus :
          /\ Mark(d, status)
          /\ \/ status = "failed_before_send" /\ surface[d] = "absent"
             \/ /\ status \in ActiveStatus /\ surface[d] # "absent"
                /\ Status(d) = "appended_to_session"
    <3>1. CASE ReconcileAbsent(s, d)
      <4>1. Mark(d, "failed_before_send") /\ surface[d] = "absent"
        BY <3>1 DEF ReconcileAbsent
      <4>2. "failed_before_send" \in DeliveryStatus
        BY DEF DeliveryStatus
      <4> QED
        BY <4>1, <4>2
    <3>2. CASE ReconcileOutcome(s, d)
      <4> DEFINE outcome == IF after[d] = "response" THEN "included_in_request"
                                                     ELSE "interrupted_before_request"
      <4>1. Mark(d, outcome) /\ surface[d] # "absent" /\ Status(d) = "appended_to_session"
        BY <3>2 DEF ReconcileOutcome
      <4>2. outcome \in ActiveStatus /\ outcome \in DeliveryStatus
        BY DEF ActiveStatus, DeliveryStatus
      <4> HIDE DEF outcome
      <4> QED
        BY <4>1, <4>2
    <3> QED
      BY <1>19, <3>1, <3>2
  <2>3. \A e \in Deliveries : e # d => delivery'[e] = delivery[e]
    BY <2>2, Marks
  <2>4. status # "prepared" /\ status # "none" /\ delivery'[d].status = status
    BY <2>2, Marks DEF ActiveStatus
  <2>5. SessionOk(s)'
    BY <1>1, <2>1, <2>3, <2>4 DEF SessionOk, Status
  <2>6. delivery[d].logged <=> status \in ActiveStatus
    BY <1>1, <2>1, <2>2 DEF DeliveryOk, ActiveStatus
  <2> QED
    BY <1>17, <2>1, <2>2, <2>5, <2>6 DEF ActiveStatus
<1>20. ASSUME NEW d \in Deliveries, ReconcileAppended(s, d) PROVE LogInv'
  <2>1. /\ phase[s] = "reconcile" /\ d \in todo[s] /\ d \in Of(s) /\ surface[d] # "absent"
        /\ todo'[s] = todo[s] \/ todo'[s] = todo[s] \ {d}
        /\ UNCHANGED <<surface, sent, phase, fresh, job>>
        /\ Status(d) \in {"prepared", "appended_to_session"} /\ MarkAppended(d)
    BY <1>0, <1>1, <1>20 DEF ReconcileAppended, Handled, SessionOk
  <2>2. /\ \A e \in Deliveries : e # d => delivery'[e] = delivery[e]
        /\ delivery'[d].status = "appended_to_session"
    BY <2>1, Appends
  <2>3. SessionOk(s)'
    BY <1>1, <2>1, <2>2 DEF SessionOk, Status
  <2> QED
    BY <1>18, <2>1, <2>3
<1>21. ASSUME NEW d \in Deliveries, RequestAppended(s, d) PROVE LogInv'
  <2>1. /\ phase[s] = "request" /\ d \in todo[s] /\ d \in Of(s) /\ surface[d] # "absent"
        /\ UNCHANGED <<surface, sent, phase, todo, batch, fresh, job>> /\ MarkAppended(d)
    BY <1>1, <1>21 DEF RequestAppended, SessionOk
  <2>2. \A e \in Deliveries : e # d => delivery'[e] = delivery[e]
    BY <2>1, Appends
  <2>3. SessionOk(s)'
    BY <1>1, <2>1, <2>2 DEF SessionOk, Status
  <2> QED
    BY <1>18, <2>1, <2>3
<1>22. ASSUME NEW d \in Deliveries, RequestIncluded(s, d) PROVE LogInv'
  <2>1. /\ phase[s] = "request" /\ d \in todo[s] /\ d \in Of(s) /\ surface[d] # "absent"
        /\ todo'[s] = todo[s] \ {d} /\ UNCHANGED <<surface, sent, phase, batch, fresh, job>>
        /\ Mark(d, "included_in_request") /\ Status(d) \in {"appended_to_session", "included_in_request"}
    BY <1>0, <1>1, <1>22 DEF RequestIncluded, Handled, Inclusion, SessionOk
  <2>2. "included_in_request" \in DeliveryStatus
    BY DEF DeliveryStatus
  <2>3. /\ \A e \in Deliveries : e # d => delivery'[e] = delivery[e]
        /\ delivery'[d].status = "included_in_request"
    BY <2>1, <2>2, Marks
  <2>4. SessionOk(s)'
    BY <1>1, <2>1, <2>3 DEF SessionOk, Status
  <2>5. delivery[d].logged <=> "included_in_request" \in ActiveStatus
    BY <1>1, <2>1 DEF DeliveryOk, ActiveStatus
  <2> QED
    BY <1>17, <2>1, <2>2, <2>4, <2>5
<1>23. ASSUME NEW d \in Deliveries, NEW draws \in BOOLEAN, PrepareContext(s, d, draws) PROVE LogInv'
  <2>1. /\ phase[s] = "admit" /\ phase'[s] = "activate" /\ d \in Of(s) /\ Status(d) = "none"
        /\ fresh'[s] = d /\ Mark(d, "prepared") /\ UNCHANGED <<surface, sent, todo, batch, job>>
    BY <1>0, <1>23 DEF PrepareContext
  <2>2. "prepared" \in DeliveryStatus /\ d # NoDelivery
    BY ConstantsAssumption DEF DeliveryStatus
  <2>3. /\ \A e \in Deliveries : e # d => delivery'[e] = delivery[e]
        /\ delivery'[d].status = "prepared"
    BY <2>1, <2>2, Marks
  <2>4. surface[d] = "absent"
    BY <1>1, <2>1 DEF DeliveryOk
  <2>5. SessionOk(s)'
    BY <1>1, <2>1, <2>2, <2>3, <2>4 DEF SessionOk, Status
  <2>6. delivery[d].logged <=> "prepared" \in ActiveStatus
    BY <1>1, <2>1 DEF DeliveryOk, ActiveStatus
  <2> QED
    BY <1>17, <2>1, <2>2, <2>4, <2>5, <2>6
<1>24. ASSUME NEW observed \in BOOLEAN, AppendContext(s, observed) PROVE LogInv'
  <2> DEFINE d == fresh[s]
  <2>1. /\ phase[s] = "append" /\ d # NoDelivery /\ fresh'[s] = NoDelivery
        /\ surface' = [surface EXCEPT ![d] = "current"]
        /\ UNCHANGED <<sent, phase, todo, batch, job>>
        /\ MarkAppended(d) \/ delivery' = delivery
    BY <1>0, <1>24 DEF AppendContext
  <2>2. d \in Of(s) /\ d \in Deliveries /\ Status(d) = "prepared"
    BY <1>1, <2>1 DEF SessionOk
  <2>3. SessionOk(s)'
    BY <1>1, <2>1 DEF SessionOk
  <2>4. surface'[d] = "current"
    BY <1>0, <2>1, <2>2
  <2>5. CASE MarkAppended(d)
    BY <1>18, <2>1, <2>2, <2>3, <2>4, <2>5
  <2>6. CASE delivery' = delivery
    <3>1. \A e \in Of(s) : e # d => surface'[e] = surface[e]
      BY <1>0, <1>1, <2>1
    <3>2. \A e \in Of(s) : DeliveryOk(e)'
      BY <1>1, <2>2, <2>4, <2>6, <3>1 DEF DeliveryOk, Status
    <3>3. \A e \in sent : Status(e)' = "included_in_request"
      BY <1>1, <2>6 DEF Status
    <3> QED
      BY <1>2, <2>1, <2>3, <3>2, <3>3, MovesOk
  <2> QED
    BY <2>1, <2>5, <2>6
<1>25. CASE RetirementStep(s)
  <2>1. job[s] # NoJob /\ phase[s] = "close" /\ job[s].delivery \in Of(s) /\ job[s].delivery \in Deliveries
    BY <1>1, <1>25 DEF RetirementStep, FoundReplaced, FoundOffline, Replace, ReplaceFails, TraceReplacement,
                  FinishReplaced, FinishFailed, Working, SessionOk
  <2>2. UNCHANGED <<delivery, sent, fresh>>
    BY <1>25 DEF RetirementStep, FoundReplaced, FoundOffline, Replace, ReplaceFails, TraceReplacement,
                  FinishReplaced, FinishFailed
  <2>3. \A d \in Of(s) : surface'[d] = "absent" <=> surface[d] = "absent"
    BY <1>0, <1>1, <1>25 DEF RetirementStep, FoundReplaced, FoundOffline, Replace, ReplaceFails, TraceReplacement,
                  FinishReplaced, FinishFailed
  <2>4. CASE FoundReplaced(s) \/ FinishReplaced(s)
    <3>1. UNCHANGED <<phase, batch>> /\ job'[s] = NoJob /\ todo'[s] \subseteq todo[s]
      BY <1>0, <2>4 DEF FoundReplaced, FinishReplaced, JobOver
    <3>2. SessionOk(s)'
      BY <1>1, <2>1, <2>2, <3>1 DEF SessionOk, Status
    <3> QED
      BY <1>3, <2>2, <2>3, <3>2
  <2>5. CASE FoundOffline(s) \/ Replace(s) \/ ReplaceFails(s) \/ TraceReplacement(s)
    <3>1. \E step \in {"link", "complete", "replaced", "failed", "defer", "unlink"} : Step(s, step)
      BY <2>5 DEF FoundOffline, Replace, ReplaceFails, TraceReplacement
    <3>2. UNCHANGED <<phase, todo, batch>> /\ job'[s].delivery = job[s].delivery
      BY <1>0, <2>1, <2>5, <3>1, StepIs DEF FoundOffline, Replace, ReplaceFails, TraceReplacement
    <3>3. SessionOk(s)'
      BY <1>1, <2>1, <2>2, <3>2 DEF SessionOk, Status
    <3> QED
      BY <1>3, <2>2, <2>3, <3>3
  <2>6. CASE FinishFailed(s)
    <3>1. phase'[s] = "rejected" /\ job'[s] = NoJob
      BY <1>0, <2>6, ConstantsAssumption DEF FinishFailed, Rejected
    <3>2. SessionOk(s)'
      BY <1>1, <2>1, <2>2, <3>1 DEF SessionOk
    <3> QED
      BY <1>3, <2>2, <2>3, <3>2
  <2> QED
    BY <1>25, <2>4, <2>5, <2>6 DEF RetirementStep
<1> QED
  BY <1>4, <1>5, <1>6, <1>7, <1>8, <1>9, <1>10, <1>11, <1>12, <1>13, <1>14, <1>15, <1>16, <1>19,
     <1>20, <1>21, <1>22, <1>23, <1>24, <1>25
  DEF SessionMoves, PreStep, StepItself

LEMMA StepLog == TypeOK /\ RowsInv /\ LogInv /\ [Next]_vars => LogInv'
<1> SUFFICES ASSUME TypeOK, RowsInv, LogInv, [Next]_vars PROVE LogInv'
  OBVIOUS
<1> USE DEF database, log, host
<1>0. /\ Forgetter \in Workers /\ \A s \in Sessions : s \in Workers /\ s # Forgetter
      /\ todo \in [Workers -> SUBSET Deliveries]
      /\ job \in [Workers -> Job \cup {NoJob}]
      /\ surface \in [Deliveries -> {"absent", "current", "replaced"}]
  BY ConstantsAssumption DEF Workers, TypeOK
<1>1. ASSUME NEW s \in Sessions, SessionMoves(s) PROVE LogInv'
  BY <1>1, MovesKeepLog
<1>2. CASE \E d \in Deliveries : OwnerSettles(d)
  BY <1>2, LogKept DEF OwnerSettles
<1>3. CASE ForgetCommit \/ ForgetAgain
  <2>1. /\ UNCHANGED <<delivery, phase, batch, fresh, sent, surface, job>>
        /\ \E X : todo' = [todo EXCEPT ![Forgetter] = X]
    BY <1>3 DEF ForgetCommit, ForgetAgain
  <2>2. \A s \in Sessions : todo'[s] = todo[s]
    BY <1>0, <2>1
  <2> QED
    BY <2>1, <2>2, LogKept
<1>4. CASE ForgetStep
  <2>1. UNCHANGED <<delivery, phase, batch, fresh, sent>>
    BY <1>4 DEF ForgetStep, ForgetRequests, RequestRetirement, ForgetLinks, ForgetDefers, ForgetUnlinks,
       ForgetProjects, RetirementStep, FoundReplaced, FoundOffline, Replace, ReplaceFails, TraceReplacement,
       FinishReplaced, FinishFailed
  <2>2. todo' = todo \/ \E X : todo' = [todo EXCEPT ![Forgetter] = X]
    BY <1>4 DEF ForgetStep, ForgetRequests, RequestRetirement, ForgetLinks, ForgetDefers, ForgetUnlinks,
       ForgetProjects, RetirementStep, FoundReplaced, FoundOffline, Replace, ReplaceFails, TraceReplacement,
       FinishReplaced, FinishFailed, JobOver
  <2>3. job' = job \/ \E X : job' = [job EXCEPT ![Forgetter] = X]
    <3>1. \A step : Step(Forgetter, step) => \E X : job' = [job EXCEPT ![Forgetter] = X]
      BY DEF Step
    <3> QED
      BY <1>4, <3>1 DEF ForgetStep, ForgetRequests, RequestRetirement, ForgetLinks, ForgetDefers, ForgetUnlinks,
       ForgetProjects, RetirementStep, FoundReplaced, FoundOffline, Replace, ReplaceFails, TraceReplacement,
       FinishReplaced, FinishFailed, JobOver
  <2>4. \A s \in Sessions : todo'[s] = todo[s] /\ job'[s] = job[s]
    BY <1>0, <2>2, <2>3
  <2>5. \A d \in Deliveries : surface'[d] = "absent" <=> surface[d] = "absent"
    <3>1. \/ surface' = surface
          \/ \E d : surface[d] = "current" /\ surface' = [surface EXCEPT ![d] = "replaced"]
      BY <1>4 DEF ForgetStep, ForgetRequests, RequestRetirement, ForgetLinks, ForgetDefers, ForgetUnlinks,
       ForgetProjects, RetirementStep, FoundReplaced, FoundOffline, Replace, ReplaceFails, TraceReplacement,
       FinishReplaced, FinishFailed
    <3> QED
      BY <1>0, <3>1
  <2> QED
    BY <2>1, <2>4, <2>5, LogKept
<1>5. CASE HostDies
  <2>1. /\ UNCHANGED <<delivery, surface, sent>>
        /\ \A s \in Sessions : phase'[s] = "off" /\ fresh'[s] = NoDelivery /\ job'[s] = NoJob
    BY <1>0, <1>5 DEF HostDies
  <2>2. \A s \in Sessions : SessionOk(s)'
    BY <2>1 DEF SessionOk
  <2>3. \A d \in Deliveries : DeliveryOk(d)'
    BY <2>1 DEF LogInv, DeliveryOk, Status
  <2> QED
    BY <2>1, <2>2, <2>3 DEF LogInv, Status
<1>6. CASE CommandDies
  <2>1. UNCHANGED <<delivery, surface, phase, batch, fresh, sent>>
    BY <1>6 DEF CommandDies
  <2>2. \A s \in Sessions : todo'[s] = todo[s] /\ job'[s] = job[s]
    BY <1>0, <1>6 DEF CommandDies
  <2> QED
    BY <2>1, <2>2, LogKept
<1>7. CASE UNCHANGED vars
  BY <1>7, LogKept DEF vars
<1> QED
  BY <1>1, <1>2, <1>3, <1>4, <1>5, <1>6, <1>7 DEF Next, SessionMoves

\* What a model has been shown is on record, for every number of sessions,
\* requests and crashes: a sent message is recorded as included and stays so, and
\* one that is recorded as never sent is in no log and about to enter none.
THEOREM SentStaysRecorded == Spec => []SentIsRecorded
<1>1. ASSUME LogInv PROVE SentIsRecorded
  <2>1. ASSUME NEW d \in Deliveries, Status(d) = "failed_before_send"
        PROVE  surface[d] = "absent" /\ \A s \in Sessions : fresh[s] # d
    <3>1. d # NoDelivery
      BY ConstantsAssumption
    <3>2. \A s \in Sessions : fresh[s] # NoDelivery => Status(fresh[s]) = "prepared"
      BY <1>1 DEF LogInv, SessionOk
    <3>3. surface[d] = "absent"
      BY <1>1, <2>1 DEF LogInv, DeliveryOk
    <3> QED
      BY <2>1, <3>1, <3>2, <3>3
  <2> QED
    BY <1>1, <2>1 DEF LogInv, SentIsRecorded
<1>2. TypeOK /\ RowsInv /\ [Next]_vars => TypeOK' /\ RowsInv'
  BY StepTypes
<1> QED
  BY <1>1, <1>2, InitTypes, InitLog, StepLog, PTL DEF Spec

-----------------------------------------------------------------------------
\* What is reported retired.

\* A proof is ahead of no surface: a completed row, a retired target and a
\* worker about to finish stand for a message that has been replaced, and a
\* usage settled for recall for a context that is closed.
OffInv ==
  /\ \A d \in Deliveries :
       RetirementCompleted(d) \/ target[d].state = "retired" => surface[d] = "replaced"
  /\ \A w \in Workers : Working(w, "replaced") => surface[job[w].delivery] = "replaced"
  /\ \A d \in Deliveries : settlement[d] = "recall" => SurfaceClosed(d)

LEMMA InitOff == Init => OffInv
<1> SUFFICES ASSUME Init PROVE OffInv
  OBVIOUS
<1>1. \A d \in Deliveries : ~RetirementCompleted(d)
  BY DEF Init, RetirementCompleted
<1>2. \A w \in Workers : ~Working(w, "replaced")
  BY DEF Init, Working
<1> QED
  BY <1>1, <1>2 DEF Init, OffInv

\* The log only grows, and the database does not take back what it learnt of it.
LogGrows ==
  \A d \in Deliveries :
    /\ Status(d) \in ActiveStatus => Status(d)' \in ActiveStatus
    /\ Status(d) = "failed_before_send" => Status(d)' = "failed_before_send"
    /\ surface[d] = "replaced" => surface'[d] = "replaced"

LEMMA StepGrows == TypeOK /\ RowsInv /\ LogInv /\ [Next]_vars => LogGrows
<1> SUFFICES ASSUME TypeOK, RowsInv, LogInv, [Next]_vars PROVE LogGrows
  OBVIOUS
<1> USE DEF database, log, host
<1>0. /\ delivery \in [Deliveries -> [status: DeliveryStatus, logged: BOOLEAN]]
      /\ surface \in [Deliveries -> {"absent", "current", "replaced"}]
      /\ \A d \in Deliveries : DeliveryOk(d)
      /\ \A s \in Sessions : SessionOk(s)
      /\ \A s \in Sessions : Of(s) \subseteq Deliveries
  BY DEF TypeOK, LogInv, Of
<1>1. ASSUME UNCHANGED <<delivery, surface>> PROVE LogGrows
  BY <1>1 DEF LogGrows, Status
\* A transaction on one delivery.
<1>2. ASSUME NEW d \in Deliveries, surface' = surface,
             \A e \in Deliveries : e # d => delivery'[e] = delivery[e],
             Status(d) # "failed_before_send",
             Status(d) \in ActiveStatus => Status(d)' \in ActiveStatus
      PROVE  LogGrows
  BY <1>2 DEF LogGrows, Status
<1>3. ASSUME NEW d \in Deliveries, MarkAppended(d)
      PROVE  /\ \A e \in Deliveries : e # d => delivery'[e] = delivery[e]
             /\ Status(d)' \in ActiveStatus
  BY <1>3, Appends DEF ActiveStatus, Status
<1>4. ASSUME NEW s \in Sessions, NEW d \in Deliveries, ReconcileAbsent(s, d) PROVE LogGrows
  <2>1. Mark(d, "failed_before_send") /\ surface' = surface /\ surface[d] = "absent"
        /\ phase[s] = "reconcile" /\ d \in todo[s]
    BY <1>4 DEF ReconcileAbsent
  <2>2. Status(d) = "prepared"
    BY <1>0, <2>1 DEF DeliveryOk, SessionOk
  <2>3. \A e \in Deliveries : e # d => delivery'[e] = delivery[e]
    BY <2>1, Marks DEF DeliveryStatus
  <2> QED
    BY <1>2, <2>1, <2>2, <2>3 DEF ActiveStatus
<1>5. ASSUME NEW s \in Sessions, NEW d \in Deliveries, ReconcileAppended(s, d) \/ RequestAppended(s, d)
      PROVE  LogGrows
  <2>1. MarkAppended(d) /\ surface' = surface /\ surface[d] # "absent"
    BY <1>0, <1>5 DEF ReconcileAppended, RequestAppended, SessionOk
  <2>2. Status(d) # "failed_before_send"
    BY <1>0, <2>1 DEF DeliveryOk
  <2> QED
    BY <1>2, <1>3, <2>1, <2>2
<1>6. ASSUME NEW s \in Sessions, NEW d \in Deliveries, ReconcileOutcome(s, d) PROVE LogGrows
  <2> DEFINE outcome == IF after[d] = "response" THEN "included_in_request"
                                                 ELSE "interrupted_before_request"
  <2>1. Mark(d, outcome) /\ surface' = surface /\ Status(d) = "appended_to_session"
    BY <1>6 DEF ReconcileOutcome
  <2>2. outcome \in ActiveStatus /\ outcome \in DeliveryStatus
    BY DEF ActiveStatus, DeliveryStatus
  <2> HIDE DEF outcome
  <2>3. (\A e \in Deliveries : e # d => delivery'[e] = delivery[e]) /\ Status(d)' = outcome
    BY <2>1, <2>2, Marks DEF Status
  <2> QED
    BY <1>2, <2>1, <2>2, <2>3
<1>7. ASSUME NEW s \in Sessions, NEW d \in Deliveries, RequestIncluded(s, d) PROVE LogGrows
  <2>1. Mark(d, "included_in_request") /\ surface' = surface
        /\ Status(d) \in {"appended_to_session", "included_in_request"}
    BY <1>7 DEF RequestIncluded, Inclusion
  <2>2. "included_in_request" \in ActiveStatus /\ "included_in_request" \in DeliveryStatus
    BY DEF ActiveStatus, DeliveryStatus
  <2>3. (\A e \in Deliveries : e # d => delivery'[e] = delivery[e]) /\ Status(d)' = "included_in_request"
    BY <2>1, <2>2, Marks DEF Status
  <2> QED
    BY <1>2, <2>1, <2>2, <2>3
<1>8. ASSUME NEW s \in Sessions, NEW d \in Deliveries, NEW draws \in BOOLEAN, PrepareContext(s, d, draws)
      PROVE  LogGrows
  <2>1. Mark(d, "prepared") /\ surface' = surface /\ Status(d) = "none"
    BY <1>8 DEF PrepareContext
  <2>2. \A e \in Deliveries : e # d => delivery'[e] = delivery[e]
    BY <2>1, Marks DEF DeliveryStatus
  <2> QED
    BY <1>2, <2>1, <2>2 DEF ActiveStatus
<1>9. ASSUME NEW s \in Sessions, NEW observed \in BOOLEAN, AppendContext(s, observed) PROVE LogGrows
  <2> DEFINE d == fresh[s]
  <2>1. d \in Deliveries /\ Status(d) = "prepared" /\ surface[d] = "absent"
    BY <1>0, <1>9 DEF AppendContext, SessionOk
  <2>2. \A e \in Deliveries : e # d => surface'[e] = surface[e]
    BY <1>0, <1>9 DEF AppendContext
  <2>3. \A e \in Deliveries : e # d => delivery'[e] = delivery[e]
    BY <1>3, <1>9, <2>1 DEF AppendContext
  <2> QED
    BY <2>1, <2>2, <2>3 DEF LogGrows, Status, ActiveStatus
<1>10. ASSUME NEW w \in Workers, RetirementStep(w) PROVE LogGrows
  <2>1. CASE Replace(w)
    BY <1>0, <2>1 DEF Replace, LogGrows, Status
  <2>2. CASE ~Replace(w)
    BY <1>1, <1>10, <2>2 DEF RetirementStep, FoundReplaced, FoundOffline, ReplaceFails, TraceReplacement,
                             FinishReplaced, FinishFailed
  <2> QED
    BY <2>1, <2>2
<1>11. Forgetter \in Workers /\ \A s \in Sessions : s \in Workers
  BY DEF Workers
<1>12. ASSUME NEW s \in Sessions, PreStep(s) PROVE LogGrows
  <2>1. ASSUME NEW d \in Deliveries, CloseAbsent(s, d) \/ CloseLogged(s, d) \/ StartForSettlement(s, d)
               \/ SettleForRecall(s, d)
        PROVE  UNCHANGED <<delivery, surface>>
    BY <2>1 DEF CloseAbsent, CloseLogged, RequestRetirement, StartForSettlement, SettleForRecall
  <2>2. ASSUME FollowUp(s) \/ Trigger(s) \/ ContextsClosed(s) \/ UsagesClosed(s) \/ Activate(s)
               \/ AdmitNothing(s)
        PROVE  UNCHANGED <<delivery, surface>>
    BY <2>2 DEF FollowUp, Trigger, ContextsClosed, UsagesClosed, Activate, AdmitNothing
  <2> QED
    BY <1>1, <1>4, <1>5, <1>6, <1>8, <1>10, <1>11, <1>12, <2>1, <2>2 DEF PreStep
<1>13. ASSUME NEW s \in Sessions, StepItself(s) PROVE LogGrows
  <2>1. ASSUME BeginRequest(s) \/ SendRequest(s) \/ Respond(s) \/ EndStep(s)
        PROVE  UNCHANGED <<delivery, surface>>
    BY <2>1 DEF BeginRequest, SendRequest, Respond, EndStep
  <2> QED
    BY <1>1, <1>5, <1>7, <1>9, <1>13, <2>1 DEF StepItself
<1>14. CASE ForgetStep
  <2>1. ASSUME \/ \E d \in Deliveries : ForgetRequests(d)
               \/ ForgetLinks \/ ForgetDefers \/ ForgetUnlinks
               \/ \E outcome \in {"completed", "failed"} : ForgetProjects(outcome)
        PROVE  UNCHANGED <<delivery, surface>>
    BY <2>1 DEF ForgetRequests, RequestRetirement, ForgetLinks, ForgetDefers, ForgetUnlinks, ForgetProjects
  <2> QED
    BY <1>1, <1>10, <1>11, <1>14, <2>1 DEF ForgetStep
<1>15. ASSUME \/ \E s \in Sessions : Resume(s) \/ Dispose(s) \/ BeginStep(s)
              \/ \E d \in Deliveries : OwnerSettles(d)
              \/ ForgetCommit \/ ForgetAgain \/ HostDies \/ CommandDies \/ UNCHANGED vars
       PROVE  LogGrows
  <2>1. UNCHANGED <<delivery, surface>>
    BY <1>15 DEF Resume, Dispose, BeginStep, OwnerSettles, ForgetCommit, ForgetAgain, HostDies, CommandDies, vars
  <2> QED
    BY <1>1, <2>1
<1> QED
  BY <1>12, <1>13, <1>14, <1>15 DEF Next

\* A context that is closed stays closed.
LEMMA ClosedStays ==
  ASSUME TypeOK, LogInv, LogInv', LogGrows, ProofsKept, NEW d \in Deliveries
  PROVE  /\ RetirementCompleted(d) => RetirementCompleted(d)'
         /\ SurfaceClosed(d) => SurfaceClosed(d)'
<1>1. RetirementCompleted(d) => RetirementCompleted(d)'
  BY DEF ProofsKept, RetirementCompleted
<1>2. DeliveryOk(d) /\ DeliveryOk(d)'
  BY DEF LogInv
<1>3. delivery[d].logged => delivery'[d].logged
  BY <1>2 DEF LogGrows, DeliveryOk
<1>4. Status(d) = "failed_before_send" => Status(d)' = "failed_before_send" /\ ~delivery'[d].logged
  BY <1>2 DEF LogGrows, DeliveryOk, ActiveStatus
<1> QED
  BY <1>1, <1>3, <1>4 DEF SurfaceClosed

\* What a step may newly report retired has to be replaced or closed.
LEMMA OffKept ==
  ASSUME TypeOK, LogInv, LogInv', LogGrows, ProofsKept, OffInv,
         \A d \in Deliveries : RetirementCompleted(d)' => RetirementCompleted(d) \/ surface[d] = "replaced",
         \A d \in Deliveries : target'[d].state = "retired" =>
           target[d].state = "retired" \/ surface[d] = "replaced",
         \A w \in Workers : Working(w, "replaced")' =>
           \/ Working(w, "replaced") /\ job'[w].delivery = job[w].delivery
           \/ job'[w].delivery \in Deliveries /\ surface'[job'[w].delivery] = "replaced",
         \A d \in Deliveries : settlement'[d] = "recall" => settlement[d] = "recall" \/ SurfaceClosed(d)
  PROVE  OffInv'
<1>1. \A d \in Deliveries : surface[d] = "replaced" => surface'[d] = "replaced"
  BY DEF LogGrows
<1>2. \A d \in Deliveries : (RetirementCompleted(d) \/ target[d].state = "retired")' => surface'[d] = "replaced"
  BY <1>1 DEF OffInv
<1>3. ASSUME NEW w \in Workers, Working(w, "replaced")' PROVE surface'[job'[w].delivery] = "replaced"
  <2>1. Working(w, "replaced") => job[w].delivery \in Deliveries /\ surface[job[w].delivery] = "replaced"
    BY DEF OffInv, Working, TypeOK, Job
  <2> QED
    BY <1>1, <1>3, <2>1
<1>4. \A d \in Deliveries : settlement'[d] = "recall" => SurfaceClosed(d)'
  BY ClosedStays DEF OffInv
<1> QED
  BY <1>2, <1>3, <1>4 DEF OffInv

LEMMA StepOff ==
  TypeOK /\ RowsInv /\ TargetsInv /\ LogInv /\ OffInv /\ [Next]_vars => OffInv'
<1> SUFFICES ASSUME TypeOK, RowsInv, TargetsInv, LogInv, OffInv, [Next]_vars PROVE OffInv'
  OBVIOUS
<1> USE DEF database, log, host
<1>0. /\ LogInv' /\ LogGrows /\ ProofsKept
      /\ Forgetter \in Workers /\ \A s \in Sessions : s \in Workers
      /\ \A w \in Workers : job[w] # NoJob => job[w] \in Job /\ job[w].delivery \in Deliveries
      /\ settlement \in [Deliveries -> {"none", "recall", "owner"}]
      /\ target \in [Deliveries -> [state: TargetState, row: 0..MaxRetirements]]
      /\ job \in [Workers -> Job \cup {NoJob}]
      /\ surface \in [Deliveries -> {"absent", "current", "replaced"}]
  BY StepLog, StepGrows, StepProofs DEF Workers, TypeOK, Job
<1>1. ASSUME UNCHANGED <<retirements, target, settlement>>,
             \A w \in Workers : job'[w] = job[w] \/ job'[w] = NoJob
      PROVE  OffInv'
  BY <1>0, <1>1, OffKept DEF Working, RetirementCompleted
\* A worker goes on with its job.
<1>2. ASSUME NEW w \in Workers, NEW step \in {"link", "complete", "replaced", "failed", "defer", "unlink"},
             job[w] # NoJob, Step(w, step),
             \A d \in Deliveries : RetirementCompleted(d)' => RetirementCompleted(d),
             \A d \in Deliveries : target'[d].state = "retired" =>
               target[d].state = "retired" \/ surface[d] = "replaced",
             settlement' = settlement,
             step = "replaced" => surface'[job[w].delivery] = "replaced"
      PROVE  OffInv'
  <2>1. /\ \A v \in Workers : v # w => job'[v] = job[v]
        /\ job'[w].delivery = job[w].delivery /\ job'[w].step = step
    BY <1>2, StepIs
  <2>2. \A v \in Workers : Working(v, "replaced")' =>
           \/ Working(v, "replaced") /\ job'[v].delivery = job[v].delivery
           \/ job'[v].delivery \in Deliveries /\ surface'[job'[v].delivery] = "replaced"
    BY <1>0, <1>2, <2>1 DEF Working
  <2> QED
    BY <1>0, <1>2, <2>2, OffKept
<1>3. ASSUME NEW w \in Workers, NEW d \in Deliveries, NEW step \in {"link", "complete"},
             RequestRetirement(w, d, step)
      PROVE  OffInv'
  <2>1. /\ retirements' = [retirements EXCEPT ![d] = Requested(d)]
        /\ \A v \in Workers : v # w => job'[v] = job[v]
        /\ job'[w].step # "replaced"
    BY <1>3, RequestIs
  <2>2. UNCHANGED <<target, settlement>>
    BY <1>3 DEF RequestRetirement
  <2>3. \A v \in Workers : Working(v, "replaced")' => Working(v, "replaced") /\ job'[v].delivery = job[v].delivery
    BY <2>1 DEF Working
  <2>4. ASSUME NEW e \in Deliveries, RetirementCompleted(e)' PROVE RetirementCompleted(e)
    <3>1. CASE e # d
      BY <2>1, <2>4, <3>1 DEF TypeOK, RetirementCompleted
    <3>2. CASE e = d
      <4>1. retirements'[d] = Requested(d)
        BY <2>1 DEF TypeOK
      <4>2. CASE NeedsRow(d)
        <5>1. retirements'[d] = Append(retirements[d], "pending")
          BY <4>1, <4>2 DEF Requested
        <5>2. /\ retirements[d] \in Seq(RetirementStatus) /\ Len(retirements[d]) \in Nat
              /\ DOMAIN retirements[d] = 1..Len(retirements[d]) /\ "pending" \in RetirementStatus
          BY RowsAre DEF RetirementStatus
        <5>3. /\ retirements'[d] \in Seq(RetirementStatus) /\ Len(retirements'[d]) = Len(retirements[d]) + 1
              /\ \A r \in 1..Len(retirements[d]) : retirements'[d][r] = retirements[d][r]
              /\ retirements'[d][Len(retirements[d]) + 1] = "pending"
          BY <5>1, <5>2, AppendProperties
        <5>4. DOMAIN retirements'[d] = 1..Len(retirements[d]) + 1
          BY <5>3, LenProperties
        <5>5. PICK r \in DOMAIN retirements'[d] : retirements'[d][r] = "replaced_on_surface"
          BY <2>4, <3>2 DEF RetirementCompleted
        <5>6. r \in DOMAIN retirements[d]
          BY <5>2, <5>3, <5>4, <5>5
        <5> QED
          BY <3>2, <5>2, <5>3, <5>5, <5>6 DEF RetirementCompleted
      <4>3. CASE ~NeedsRow(d)
        BY <2>4, <3>2, <4>1, <4>3 DEF Requested, RetirementCompleted
      <4> QED
        BY <4>2, <4>3
    <3> QED
      BY <3>1, <3>2
  <2> QED
    BY <1>0, <2>2, <2>3, <2>4, OffKept
<1>4. ASSUME NEW w \in Workers, NEW status \in {"replaced_on_surface", "failed"},
             NEW targetState \in {"retired", "failed"},
             status = "replaced_on_surface" \/ targetState = "retired" => surface[job[w].delivery] = "replaced",
             job[w] # NoJob, FinishRetirement(w, status, targetState), UNCHANGED <<forgetting, settlement>>,
             \A v \in Workers : Working(v, "replaced")' => Working(v, "replaced") /\ job'[v].delivery = job[v].delivery
      PROVE  OffInv'
  <2> DEFINE d == job[w].delivery
  <2>1. /\ \A e \in Deliveries : e # d => target'[e] = target[e]
        /\ target'[d].state \in {target[d].state, targetState}
    BY <1>4, FinishKeeps
  <2>2. \A e \in Deliveries : target'[e].state = "retired" =>
           target[e].state = "retired" \/ surface[e] = "replaced"
    BY <1>4, <2>1
  <2>3. ASSUME NEW e \in Deliveries, RetirementCompleted(e)'
        PROVE  RetirementCompleted(e) \/ surface[e] = "replaced"
    <3>1. PICK r \in DOMAIN retirements'[e] : retirements'[e][r] = "replaced_on_surface"
      BY <2>3 DEF RetirementCompleted
    <3>2. DOMAIN retirements'[e] = DOMAIN retirements[e]
      BY <1>4, FinishIs
    <3>3. retirements'[e][r] =
                   IF e = d /\ r = job[w].row /\ retirements[e][r] # "replaced_on_surface"
                     THEN status ELSE retirements[e][r]
      BY <1>4, <3>2, FinishIs
    <3> QED
      BY <1>4, <3>1, <3>2, <3>3 DEF RetirementCompleted
  <2> QED
    BY <1>0, <1>4, <2>2, <2>3, OffKept
<1>5. ASSUME NEW w \in Workers, RetirementStep(w) PROVE OffInv'
  <2>1. CASE FoundReplaced(w)
    BY <1>0, <1>1, <2>1 DEF FoundReplaced, JobOver
  <2>2. CASE FoundOffline(w)
    BY <1>2, <2>2 DEF FoundOffline, Working, RetirementCompleted
  <2>3. CASE Replace(w)
    <3>1. surface'[job[w].delivery] = "replaced" /\ job[w] # NoJob /\ Step(w, "replaced")
      BY <1>0, <2>3 DEF Replace, Working
    <3>2. UNCHANGED <<retirements, target, settlement>>
      BY <2>3 DEF Replace
    <3> QED
      BY <1>2, <3>1, <3>2 DEF RetirementCompleted
  <2>4. CASE ReplaceFails(w)
    BY <1>2, <2>4 DEF ReplaceFails, Working, RetirementCompleted
  <2>5. CASE TraceReplacement(w)
    BY <1>2, <2>5 DEF TraceReplacement, Working, RetirementCompleted
  <2>6. CASE FinishReplaced(w)
    <3>1. /\ Working(w, "replaced") /\ FinishRetirement(w, "replaced_on_surface", "retired") /\ JobOver(w)
          /\ UNCHANGED <<forgetting, settlement>>
      BY <2>6 DEF FinishReplaced
    <3>2. job[w] # NoJob /\ surface[job[w].delivery] = "replaced"
      BY <3>1 DEF Working, OffInv
    <3>3. \A v \in Workers : Working(v, "replaced")' => Working(v, "replaced") /\ job'[v].delivery = job[v].delivery
      BY <1>0, <3>1 DEF JobOver, Working
    <3> QED
      BY <1>4, <3>1, <3>2, <3>3
  <2>7. CASE FinishFailed(w)
    <3>1. /\ Working(w, "failed") /\ FinishRetirement(w, "failed", "failed")
          /\ Step(w, "unlink") \/ job' = [job EXCEPT ![w] = NoJob]
          /\ UNCHANGED <<forgetting, settlement>>
      BY <2>7 DEF FinishFailed
    <3>2. job[w] # NoJob /\ (Step(w, "unlink") => job'[w].step = "unlink")
      BY <3>1, StepIs DEF Working
    <3>3. \A v \in Workers : v # w => job'[v] = job[v]
      BY <1>0, <3>1 DEF Step
    <3>4. job'[w] = NoJob \/ job'[w].step = "unlink"
      BY <1>0, <3>1, <3>2
    <3>5. \A v \in Workers : Working(v, "replaced")' => Working(v, "replaced") /\ job'[v].delivery = job[v].delivery
      BY <3>3, <3>4 DEF Working
    <3> QED
      BY <1>4, <3>1, <3>2, <3>5
  <2> QED
    BY <1>5, <2>1, <2>2, <2>3, <2>4, <2>5, <2>6, <2>7 DEF RetirementStep
<1>6. ASSUME NEW s \in Sessions, NEW d \in Deliveries, SettleForRecall(s, d) PROVE OffInv'
  <2>1. /\ settlement' = settlement
           \/ /\ settlement[d] # "none" \/ SurfaceClosed(d)
              /\ settlement' = [settlement EXCEPT ![d] = IF @ = "none" THEN "recall" ELSE @]
        /\ UNCHANGED <<retirements, target, job>>
    BY <1>6 DEF SettleForRecall
  <2>2. \A e \in Deliveries : settlement'[e] = "recall" => settlement[e] = "recall" \/ SurfaceClosed(e)
    BY <1>0, <2>1
  <2> QED
    BY <1>0, <2>1, <2>2, OffKept DEF Working, RetirementCompleted
<1>7. ASSUME NEW s \in Sessions, PreStep(s) PROVE OffInv'
  <2>1. ASSUME NEW d \in Deliveries, ReconcileAbsent(s, d) \/ ReconcileAppended(s, d)
               \/ ReconcileOutcome(s, d) \/ CloseAbsent(s, d) \/ StartForSettlement(s, d)
        PROVE  UNCHANGED <<retirements, target, settlement, job>>
    BY <2>1 DEF ReconcileAbsent, ReconcileAppended, ReconcileOutcome, CloseAbsent, StartForSettlement
  <2>2. ASSUME FollowUp(s) \/ Trigger(s) \/ ContextsClosed(s) \/ UsagesClosed(s) \/ Activate(s)
               \/ AdmitNothing(s) \/ \E d \in Deliveries, draws \in BOOLEAN : PrepareContext(s, d, draws)
        PROVE  UNCHANGED <<retirements, target, settlement, job>>
    BY <2>2 DEF FollowUp, Trigger, ContextsClosed, UsagesClosed, Activate, AdmitNothing, PrepareContext
  <2>3. ASSUME NEW d \in Deliveries, CloseLogged(s, d) PROVE OffInv'
    BY <1>0, <1>3, <2>3 DEF CloseLogged
  <2> QED
    BY <1>0, <1>1, <1>5, <1>6, <1>7, <2>1, <2>2, <2>3 DEF PreStep
<1>8. ASSUME NEW s \in Sessions, StepItself(s) \/ Resume(s) \/ Dispose(s) \/ BeginStep(s) PROVE OffInv'
  <2>1. UNCHANGED <<retirements, target, settlement, job>>
    BY <1>8 DEF StepItself, AppendContext, BeginRequest, RequestAppended, RequestIncluded, SendRequest,
                Respond, EndStep, Resume, Dispose, BeginStep
  <2> QED
    BY <1>1, <2>1
<1>9. CASE ForgetCommit
  <2>1. UNCHANGED <<retirements, settlement, job>> /\ \A d \in Deliveries : target'[d].state # "retired"
    BY <1>9 DEF ForgetCommit
  <2> QED
    BY <1>0, <2>1, OffKept DEF Working, RetirementCompleted
<1>10. CASE ForgetStep
  <2>1. ASSUME NEW d \in Deliveries, ForgetRequests(d) PROVE OffInv'
    BY <1>0, <1>3, <2>1 DEF ForgetRequests
  <2>2. ASSUME job[Forgetter] # NoJob, NEW state, NEW row, LinkTarget(job[Forgetter].delivery, state, row),
               state = "retired" => surface[job[Forgetter].delivery] = "replaced"
        PROVE  \A d \in Deliveries : target'[d].state = "retired" =>
                 target[d].state = "retired" \/ surface[d] = "replaced"
    <3>1. job[Forgetter].delivery \in Deliveries
      BY <1>0, <2>2
    <3>2. /\ \A e \in Deliveries : e # job[Forgetter].delivery => target'[e] = target[e]
          /\ target'[job[Forgetter].delivery].state \in {target[job[Forgetter].delivery].state, state}
      BY <2>2, <3>1, LinkKeeps
    <3> QED
      BY <2>2, <3>1, <3>2
  <2>3. CASE ForgetLinks
    <3> DEFINE j == job[Forgetter]
               state == IF j.seen = "pending" THEN "pending" ELSE "retired"
    <3>1. /\ j # NoJob /\ LinkTarget(j.delivery, state, j.row)
          /\ Step(Forgetter, "complete") /\ UNCHANGED <<retirements, settlement>>
      BY <2>3 DEF ForgetLinks, Working
    <3>2. ASSUME state = "retired" PROVE surface[j.delivery] = "replaced"
      <4>1. j \in Job /\ j.delivery \in Deliveries
        BY <1>0, <3>1
      <4>2. j.seen = "replaced_on_surface"
        BY <3>2, <4>1 DEF Job
      <4>3. RetirementCompleted(j.delivery)
        BY <1>0, <3>1, <4>2 DEF RowsInv, RetirementCompleted
      <4> QED
        BY <4>1, <4>3 DEF OffInv
    <3> HIDE DEF state
    <3> QED
      BY <1>0, <1>2, <2>2, <3>1, <3>2 DEF RetirementCompleted
  <2>4. CASE ForgetDefers \/ ForgetUnlinks
    <3>1. /\ job[Forgetter] # NoJob /\ UNCHANGED <<retirements, settlement>>
          /\ \E state \in {"unknown", "failed"} : \E row : LinkTarget(job[Forgetter].delivery, state, row)
          /\ JobOver(Forgetter)
      BY <2>4 DEF ForgetDefers, ForgetUnlinks, Working, OfflineState
    <3>2. \A w \in Workers : job'[w] = job[w] \/ job'[w] = NoJob
      BY <1>0, <3>1 DEF JobOver
    <3>3. \A d \in Deliveries : target'[d].state = "retired" =>
                 target[d].state = "retired" \/ surface[d] = "replaced"
      BY <2>2, <3>1
    <3> QED
      BY <1>0, <3>1, <3>2, <3>3, OffKept DEF Working, RetirementCompleted
  <2>5. ASSUME NEW outcome \in {"completed", "failed"}, ForgetProjects(outcome) PROVE OffInv'
    BY <1>1, <2>5 DEF ForgetProjects
  <2> QED
    BY <1>0, <1>5, <1>10, <2>1, <2>3, <2>4, <2>5 DEF ForgetStep
<1>11. CASE \/ \E d \in Deliveries : OwnerSettles(d)
            \/ ForgetAgain \/ HostDies \/ CommandDies \/ UNCHANGED vars
  <2>1. UNCHANGED <<retirements, target>>
    BY <1>11 DEF OwnerSettles, ForgetAgain, HostDies, CommandDies, vars
  <2>2. \A d \in Deliveries : settlement'[d] = "recall" => settlement[d] = "recall"
    BY <1>0, <1>11 DEF OwnerSettles, ForgetAgain, HostDies, CommandDies, vars
  <2>3. \A w \in Workers : job'[w] = job[w] \/ job'[w] = NoJob
    BY <1>0, <1>11 DEF OwnerSettles, ForgetAgain, HostDies, CommandDies, vars
  <2> QED
    BY <1>0, <2>1, <2>2, <2>3, OffKept DEF Working, RetirementCompleted
<1> QED
  BY <1>7, <1>8, <1>9, <1>10, <1>11 DEF Next

\* What is reported retired is off the surface, for every number of sessions and
\* deliveries: a row, a usage settled for recall, a Forget target, and a Forget
\* request that says it is completed.
THEOREM RetiredStaysOff == Spec => []RetiredIsOffSurface
<1>1. ASSUME TypeOK, TargetsInv, LogInv, OffInv PROVE RetiredIsOffSurface
  <2>1. ASSUME NEW d \in Deliveries, settlement[d] = "recall" PROVE surface[d] # "current"
    <3>1. SurfaceClosed(d) /\ DeliveryOk(d)
      BY <1>1, <2>1 DEF OffInv, LogInv
    <3>2. CASE RetirementCompleted(d)
      BY <1>1, <3>2 DEF OffInv
    <3>3. CASE Status(d) = "failed_before_send"
      BY <3>1, <3>3 DEF DeliveryOk
    <3> QED
      BY <3>1, <3>2, <3>3 DEF SurfaceClosed
  <2>2. ASSUME NEW d \in Deliveries, target[d].state # "none", forget.state = "completed"
        PROVE  target[d].state = "retired"
    <3> DEFINE states == {target[x].state : x \in {e \in Deliveries : target[e].state # "none"}}
    <3>1. ContextStep(target) \in {"completed", "not_applicable"}
      BY <1>1, <2>2 DEF TargetsInv
    <3>2. target[d].state \in states
      BY <2>2
    <3>3. states # {} /\ (states = {"retired"} \/ ContextStep(target) \in {"partial", "failed", "unknown", "pending"})
      BY <3>2 DEF ContextStep
    <3> QED
      BY <3>1, <3>2, <3>3
  <2> QED
    BY <1>1, <2>1, <2>2 DEF RetiredIsOffSurface, OffInv
<1>2. TypeOK /\ RowsInv /\ [Next]_vars => TypeOK' /\ RowsInv'
  BY StepTypes
<1>3. TypeOK /\ RowsInv /\ TargetsInv /\ [Next]_vars => TargetsInv'
  BY StepProofs
<1> QED
  BY <1>1, <1>2, <1>3, InitTypes, InitTargets, InitLog, InitOff, StepLog, StepOff, PTL DEF Spec

-----------------------------------------------------------------------------
\* Closing, and the one active context.

\* What is left to close is on the session's lists, what was closed is settled
\* next, a context is admitted only once nothing is active, and a message that
\* is about to enter the log meets no other on the surface.
CloseOk(s) ==
  /\ phase[s] = "close" =>
       /\ Unsettled(s) \subseteq batch[s]
       /\ \A d \in batch[s] \cup Active(s) : d \in todo[s] \/ SurfaceClosed(d)
  /\ phase[s] = "settle" =>
       /\ Unsettled(s) \subseteq batch[s] /\ Active(s) = {}
       /\ \A d \in batch[s] : SurfaceClosed(d)
  /\ phase[s] = "admit" => Active(s) = {}
  /\ fresh[s] # NoDelivery => \A d \in Of(s) : surface[d] # "current"

CloseInv == OneActiveContext /\ \A s \in Sessions : CloseOk(s)

LEMMA InitClose == Init => CloseInv
<1> SUFFICES ASSUME Init PROVE CloseInv
  OBVIOUS
<1>1. \A s \in Sessions : phase[s] = "off" /\ fresh[s] = NoDelivery
  BY DEF Init
<1>2. \A d \in Deliveries : surface[d] = "absent"
  BY DEF Init
<1> QED
  BY <1>1, <1>2 DEF CloseInv, CloseOk, OneActiveContext

\* Closed contexts are not active, and the others of a reconciled session are.
LEMMA ClosedOrActive ==
  ASSUME LogInv, OffInv, NEW s \in Sessions, NEW d \in Of(s)
  PROVE  /\ SurfaceClosed(d) => d \notin Active(s)
         /\ surface[d] = "current" /\ Status(d) # "prepared" /\ Status(d) \in DeliveryStatus => d \in Active(s)
         /\ RetirementCompleted(d) /\ Status(d) # "prepared" /\ Status(d) \in DeliveryStatus => SurfaceClosed(d)
<1>1. d \in Deliveries /\ DeliveryOk(d) /\ (RetirementCompleted(d) => surface[d] = "replaced")
  BY DEF Of, LogInv, OffInv
<1>2. SurfaceClosed(d) => d \notin Active(s)
  BY <1>1 DEF SurfaceClosed, Active, DeliveryOk, ActiveStatus
<1>3. surface[d] = "current" /\ Status(d) # "prepared" /\ Status(d) \in DeliveryStatus => d \in Active(s)
  BY <1>1 DEF Active, DeliveryOk, ActiveStatus, DeliveryStatus
<1>4. RetirementCompleted(d) /\ Status(d) # "prepared" /\ Status(d) \in DeliveryStatus => SurfaceClosed(d)
  BY <1>1 DEF SurfaceClosed, DeliveryOk, ActiveStatus, DeliveryStatus
<1> QED
  BY <1>2, <1>3, <1>4

\* What the other workers do to a session: they retire contexts and settle usages.
Eased(s) ==
  /\ phase'[s] = phase[s] /\ todo'[s] = todo[s] /\ batch'[s] = batch[s] /\ fresh'[s] = fresh[s]
  /\ \A d \in Of(s) :
       /\ delivery'[d] = delivery[d]
       /\ settlement[d] # "none" => settlement'[d] # "none"
       /\ surface'[d] = "current" => surface[d] = "current"

LEMMA EasedOk ==
  ASSUME TypeOK, LogInv, LogInv', LogGrows, ProofsKept, NEW s \in Sessions, CloseOk(s), Eased(s)
  PROVE  CloseOk(s)'
<1>1. Of(s)' = Of(s) /\ Of(s) \subseteq Deliveries
  BY DEF Of
<1>2. Unsettled(s)' \subseteq Unsettled(s)
  BY <1>1 DEF Unsettled, Eased, Status
<1>3. \A d \in Of(s) : (RetirementCompleted(d) => RetirementCompleted(d)') /\ (SurfaceClosed(d) => SurfaceClosed(d)')
  BY <1>1, ClosedStays
<1>4. Active(s)' \subseteq Active(s)
  BY <1>1, <1>3 DEF Active, Eased, Status
<1>5. phase[s] \in {"close", "settle"} => batch[s] \subseteq Of(s)
  BY DEF LogInv, SessionOk
<1>6. Active(s) \subseteq Of(s)
  BY DEF Active
<1> QED
  BY <1>1, <1>2, <1>3, <1>4, <1>5, <1>6 DEF CloseOk, Eased

\* No message enters a surface.
NoneEnters == \A d \in Deliveries : surface'[d] = "current" => surface[d] = "current"

LEMMA OneKept ==
  ASSUME OneActiveContext, NoneEnters
  PROVE  OneActiveContext'
BY DEF OneActiveContext, NoneEnters

\* A session's step leaves it to check that session, and the surface.
LEMMA MovesClose ==
  ASSUME TypeOK, LogInv, LogInv', LogGrows, ProofsKept, CloseInv, NEW s \in Sessions, OnlyItsOwn(s),
         CloseOk(s)', NoneEnters
  PROVE  CloseInv'
<1>1. ASSUME NEW x \in Sessions, x # s PROVE CloseOk(x)'
  <2>1. \A d \in Of(x) : d \in Deliveries /\ d \notin Of(s)
    BY <1>1 DEF Of
  <2>2. Eased(x)
    BY <1>1, <2>1 DEF OnlyItsOwn, Eased
  <2> QED
    BY <1>1, <2>2, EasedOk DEF CloseInv
<1> QED
  BY <1>1, OneKept DEF CloseInv

LEMMA MovesKeepClose ==
  ASSUME TypeOK, RowsInv, LogInv, LogInv', LogGrows, ProofsKept, OffInv, OffInv', CloseInv,
         NEW s \in Sessions, SessionMoves(s)
  PROVE  CloseInv'
<1> USE DEF database, log, host
<1>0. /\ s \in Workers /\ Of(s) \subseteq Deliveries /\ Of(s)' = Of(s)
      /\ delivery \in [Deliveries -> [status: DeliveryStatus, logged: BOOLEAN]]
      /\ settlement \in [Deliveries -> {"none", "recall", "owner"}]
      /\ surface \in [Deliveries -> {"absent", "current", "replaced"}]
      /\ phase \in [Sessions -> Phases]
      /\ todo \in [Workers -> SUBSET Deliveries] /\ batch \in [Sessions -> SUBSET Deliveries]
      /\ fresh \in [Sessions -> Deliveries \cup {NoDelivery}]
      /\ job \in [Workers -> Job \cup {NoJob}]
  BY DEF TypeOK, Workers, Of
<1>1. SessionOk(s) /\ CloseOk(s) /\ OnlyItsOwn(s)
  BY SessionsAreApart DEF LogInv, CloseInv
<1>2. \A d \in Of(s) : Status(d) \in DeliveryStatus
  BY <1>0 DEF Status
<1>3. \A d \in Of(s) : (RetirementCompleted(d) => RetirementCompleted(d)') /\ (SurfaceClosed(d) => SurfaceClosed(d)')
  BY <1>0, ClosedStays
\* Outside closing and admission there is nothing to know.
<1>4. ASSUME phase'[s] \notin {"close", "settle", "admit"}, fresh'[s] = NoDelivery, NoneEnters
      PROVE  CloseInv'
  <2>1. CloseOk(s)'
    BY <1>4 DEF CloseOk
  <2> QED
    BY <1>1, <1>4, <2>1, MovesClose
<1>5. ASSUME surface' = surface PROVE NoneEnters
  BY <1>5 DEF NoneEnters
<1>6. ASSUME NEW d \in Deliveries, ReconcileAbsent(s, d) \/ ReconcileAppended(s, d) \/ ReconcileOutcome(s, d)
             \/ RequestAppended(s, d) \/ RequestIncluded(s, d)
      PROVE  CloseInv'
  <2>1. /\ phase[s] \in {"reconcile", "request"} /\ UNCHANGED <<phase, fresh, surface>>
    BY <1>6 DEF ReconcileAbsent, ReconcileAppended, ReconcileOutcome, RequestAppended, RequestIncluded
  <2>2. fresh[s] = NoDelivery
    BY <1>1, <2>1 DEF SessionOk
  <2> QED
    BY <1>4, <1>5, <2>1, <2>2
<1>7. CASE Resume(s) \/ Dispose(s) \/ BeginStep(s) \/ FollowUp(s)
  <2>1. /\ phase[s] \in {"off", "idle", "reconcile"} /\ phase'[s] \in {"off", "idle", "reconcile", "append"}
        /\ UNCHANGED <<fresh, surface>>
    BY <1>0, <1>7 DEF Resume, Dispose, BeginStep, FollowUp
  <2>2. fresh[s] = NoDelivery
    BY <1>1, <2>1 DEF SessionOk
  <2> QED
    BY <1>4, <1>5, <2>1, <2>2
<1>8. CASE BeginRequest(s) \/ SendRequest(s) \/ Respond(s) \/ EndStep(s)
  <2>1. phase'[s] \in {"request", "sent", "idle"} /\ surface' = surface
    BY <1>0, <1>8 DEF BeginRequest, SendRequest, Respond, EndStep
  <2>2. fresh'[s] = NoDelivery
    BY <1>0, <1>1, <1>8 DEF SessionOk, BeginRequest, SendRequest, Respond, EndStep
  <2> QED
    BY <1>4, <1>5, <2>1, <2>2
<1>9. CASE Trigger(s)
  <2>1. /\ phase[s] = "reconcile" /\ phase'[s] = "close"
        /\ todo'[s] = Active(s) \cup Unsettled(s) /\ batch'[s] = Unsettled(s)
        /\ UNCHANGED <<delivery, settlement, retirements, surface, fresh>>
    BY <1>0, <1>9 DEF Trigger
  <2>2. fresh[s] = NoDelivery
    BY <1>1, <2>1 DEF SessionOk
  <2>3. Active(s)' = Active(s) /\ Unsettled(s)' = Unsettled(s)
    BY <2>1 DEF Active, Unsettled, Of, Status, RetirementCompleted
  <2>4. CloseOk(s)'
    BY <2>1, <2>2, <2>3 DEF CloseOk
  <2> QED
    BY <1>1, <1>5, <2>1, <2>4, MovesClose
\* While a session closes, it only works off its lists.
<1>10. ASSUME phase[s] = "close", phase'[s] = "close",
              UNCHANGED <<delivery, settlement, batch, fresh>>, NoneEnters,
              NEW d \in Of(s),
              \/ todo'[s] = todo[s]
              \/ todo'[s] = todo[s] \ {d} /\ SurfaceClosed(d)'
       PROVE  CloseInv'
  <2>1. Unsettled(s)' = Unsettled(s)
    BY <1>10 DEF Unsettled, Of, Status
  <2>2. Active(s)' \subseteq Active(s)
    BY <1>0, <1>3, <1>10 DEF Active, Status
  <2>3. batch[s] \subseteq Of(s) /\ Active(s) \subseteq Of(s)
    BY <1>1, <1>10 DEF SessionOk, Active
  <2>4. \A e \in batch'[s] \cup Active(s)' : e \in todo'[s] \/ SurfaceClosed(e)'
    BY <1>1, <1>3, <1>10, <2>2, <2>3 DEF CloseOk
  <2>5. fresh'[s] = NoDelivery
    BY <1>1, <1>10 DEF SessionOk
  <2>6. CloseOk(s)'
    BY <1>1, <1>10, <2>1, <2>4, <2>5 DEF CloseOk
  <2> QED
    BY <1>1, <1>10, <2>6, MovesClose
<1>11. ASSUME NEW d \in Deliveries, CloseAbsent(s, d) PROVE CloseInv'
  <2>1. /\ phase[s] = "close" /\ d \in todo[s] /\ ~delivery[d].logged
        /\ UNCHANGED <<delivery, settlement, retirements, surface, fresh>>
    BY <1>11 DEF CloseAbsent
  <2>2. d \in Of(s) /\ fresh'[s] = NoDelivery
    BY <1>1, <2>1 DEF SessionOk
  <2>3. CASE Status(d) = "failed_before_send"
    <3>1. SurfaceClosed(d)'
      BY <1>3, <2>1, <2>2, <2>3 DEF SurfaceClosed
    <3>2. todo'[s] = todo[s] \ {d} /\ UNCHANGED <<phase, batch>>
      BY <1>0, <1>11, <2>3 DEF CloseAbsent, Handled
    <3> QED
      BY <1>5, <1>10, <2>1, <2>2, <3>1, <3>2
  <2>4. CASE Status(d) # "failed_before_send"
    <3>1. phase'[s] = "rejected"
      BY <1>0, <1>11, <2>4 DEF CloseAbsent, Rejected
    <3> QED
      BY <1>4, <1>5, <2>1, <2>2, <3>1
  <2> QED
    BY <2>3, <2>4
<1>12. ASSUME NEW d \in Deliveries, CloseLogged(s, d) PROVE CloseInv'
  <2>1. /\ phase[s] = "close" /\ d \in todo[s]
        /\ UNCHANGED <<delivery, settlement, surface, fresh, phase, todo, batch>>
    BY <1>12 DEF CloseLogged, RequestRetirement
  <2>2. d \in Of(s)
    BY <1>1, <2>1 DEF SessionOk
  <2> QED
    BY <1>5, <1>10, <2>1, <2>2
<1>13. CASE RetirementStep(s)
  <2>1. job[s] # NoJob
    BY <1>13 DEF RetirementStep, FoundReplaced, FoundOffline, Replace, ReplaceFails, TraceReplacement,
                 FinishReplaced, FinishFailed, Working
  <2>2. /\ phase[s] = "close" /\ fresh[s] = NoDelivery /\ job[s] \in Job
        /\ \E d \in Of(s) : d = job[s].delivery
    BY <1>0, <1>1, <2>1 DEF SessionOk
  <2>3. PICK d \in Of(s) : d = job[s].delivery
    BY <2>2
  <2>4. Status(d) # "prepared"
    BY <1>1, <2>2, <2>3 DEF SessionOk
  <2>5. ASSUME RetirementCompleted(d)' \/ RetirementCompleted(d), delivery' = delivery PROVE SurfaceClosed(d)'
    <3>1. CASE RetirementCompleted(d)
      BY <1>2, <1>3, <2>2, <2>4, <3>1, ClosedOrActive
    <3>2. CASE RetirementCompleted(d)'
      <4>1. surface'[d] = "replaced" /\ DeliveryOk(d)'
        BY <1>0, <2>2, <3>2 DEF OffInv, LogInv
      <4>2. Status(d)' = Status(d)
        BY <2>5 DEF Status
      <4>3. Status(d)' \in ActiveStatus
        BY <1>2, <2>2, <2>4, <4>1, <4>2 DEF DeliveryOk, ActiveStatus, DeliveryStatus
      <4> QED
        BY <3>2, <4>1, <4>3 DEF DeliveryOk, SurfaceClosed
    <3> QED
      BY <2>5, <3>1, <3>2
  <2>6. CASE FoundReplaced(s)
    <3>1. /\ job[s].seen = "replaced_on_surface" /\ todo'[s] = todo[s] \ {d}
          /\ UNCHANGED <<delivery, settlement, surface, fresh, phase, batch>>
      BY <1>0, <2>6, <2>3 DEF FoundReplaced, JobOver
    <3>2. RetirementCompleted(d)
      BY <1>0, <2>1, <2>3, <3>1 DEF RowsInv, RetirementCompleted
    <3> QED
      BY <1>5, <1>10, <2>2, <2>5, <3>1, <3>2
  <2>7. CASE FoundOffline(s) \/ ReplaceFails(s) \/ TraceReplacement(s)
    <3>1. UNCHANGED <<delivery, settlement, surface, fresh, phase, todo, batch>>
      BY <2>7 DEF FoundOffline, ReplaceFails, TraceReplacement
    <3> QED
      BY <1>5, <1>10, <2>2, <3>1
  <2>8. CASE Replace(s)
    <3>1. UNCHANGED <<delivery, settlement, fresh, phase, todo, batch>>
      BY <2>8 DEF Replace
    <3>2. NoneEnters
      BY <1>0, <2>8 DEF Replace, NoneEnters
    <3> QED
      BY <1>10, <2>2, <3>1, <3>2
  <2>9. CASE FinishReplaced(s)
    <3>1. /\ FinishRetirement(s, "replaced_on_surface", "retired") /\ todo'[s] = todo[s] \ {d}
          /\ UNCHANGED <<delivery, settlement, surface, fresh, phase, batch>>
      BY <1>0, <2>9, <2>3 DEF FinishReplaced, JobOver
    <3>2. /\ job[s].row \in DOMAIN retirements'[d] /\ d \in Deliveries
          /\ retirements'[d][job[s].row] = "replaced_on_surface"
      BY <1>0, <2>1, <2>3, <3>1, FinishIs
    <3>3. RetirementCompleted(d)'
      BY <3>2 DEF RetirementCompleted
    <3> QED
      BY <1>5, <1>10, <2>2, <2>5, <3>1, <3>3
  <2>10. CASE FinishFailed(s)
    <3>1. phase'[s] = "rejected" /\ UNCHANGED <<surface, fresh>>
      BY <1>0, <2>10, ConstantsAssumption DEF FinishFailed, Rejected
    <3> QED
      BY <1>4, <1>5, <2>2, <3>1
  <2> QED
    BY <1>13, <2>6, <2>7, <2>8, <2>9, <2>10 DEF RetirementStep
<1>14. CASE ContextsClosed(s)
  <2>1. /\ phase[s] = "close" /\ todo[s] = {} /\ phase'[s] = "settle"
        /\ UNCHANGED <<delivery, settlement, retirements, surface, fresh, batch>>
    BY <1>0, <1>14 DEF ContextsClosed
  <2>2. fresh[s] = NoDelivery /\ batch[s] \subseteq Of(s) /\ Active(s) \subseteq Of(s)
    BY <1>1, <2>1 DEF SessionOk, Active
  <2>3. \A d \in batch[s] \cup Active(s) : SurfaceClosed(d)
    BY <1>1, <2>1 DEF CloseOk
  <2>4. Active(s) = {}
    BY <2>2, <2>3, ClosedOrActive
  <2>5. Active(s)' = Active(s) /\ Unsettled(s)' = Unsettled(s)
    BY <2>1 DEF Active, Unsettled, Of, Status, RetirementCompleted
  <2>6. CloseOk(s)'
    BY <1>1, <1>3, <2>1, <2>2, <2>3, <2>4, <2>5 DEF CloseOk
  <2> QED
    BY <1>1, <1>5, <2>1, <2>6, MovesClose
<1>15. ASSUME NEW d \in Deliveries, StartForSettlement(s, d) PROVE CloseInv'
  <2>1. /\ phase[s] = "settle"
        /\ UNCHANGED <<delivery, settlement, retirements, surface, fresh, phase, todo, batch>>
    BY <1>15 DEF StartForSettlement
  <2>2. Eased(s)
    BY <2>1 DEF Eased
  <2> QED
    BY <1>1, <1>5, <2>1, <2>2, EasedOk, MovesClose
<1>16. ASSUME NEW d \in Deliveries, SettleForRecall(s, d) PROVE CloseInv'
  <2>1. /\ phase[s] = "settle" /\ d \in batch[s]
        /\ UNCHANGED <<delivery, retirements, surface, fresh>>
    BY <1>16 DEF SettleForRecall
  <2>2. fresh[s] = NoDelivery /\ batch[s] \subseteq Of(s)
    BY <1>1, <2>1 DEF SessionOk
  <2>3. CASE Rejected(s)
    <3>1. phase'[s] = "rejected"
      BY <1>0, <2>3 DEF Rejected
    <3> QED
      BY <1>4, <1>5, <2>1, <2>2, <3>1
  <2>4. CASE ~Rejected(s)
    <3>1. /\ settlement' = [settlement EXCEPT ![d] = IF @ = "none" THEN "recall" ELSE @]
          /\ batch'[s] = batch[s] \ {d} /\ UNCHANGED <<phase, todo>>
      BY <1>0, <1>16, <2>4 DEF SettleForRecall
    <3>2. Active(s)' = Active(s)
      BY <2>1 DEF Active, Of, Status, RetirementCompleted
    <3>3. Unsettled(s)' \subseteq Unsettled(s) \ {d}
      BY <1>0, <2>1, <3>1 DEF Unsettled, Status
    <3>4. CloseOk(s)'
      BY <1>1, <1>3, <2>1, <2>2, <3>1, <3>2, <3>3 DEF CloseOk
    <3> QED
      BY <1>1, <1>5, <2>1, <3>4, MovesClose
  <2> QED
    BY <2>3, <2>4
<1>17. CASE UsagesClosed(s)
  <2>1. /\ phase[s] = "settle" /\ UNCHANGED <<delivery, retirements, surface, fresh>>
        /\ phase'[s] \in {"admit", "rejected"}
    BY <1>0, <1>17 DEF UsagesClosed
  <2>2. fresh[s] = NoDelivery /\ Active(s) = {}
    BY <1>1, <2>1 DEF SessionOk, CloseOk
  <2>3. Active(s)' = Active(s)
    BY <2>1 DEF Active, Of, Status, RetirementCompleted
  <2>4. CloseOk(s)'
    BY <2>1, <2>2, <2>3 DEF CloseOk
  <2> QED
    BY <1>1, <1>5, <2>1, <2>4, MovesClose
<1>18. ASSUME NEW d \in Deliveries, NEW draws \in BOOLEAN, PrepareContext(s, d, draws) PROVE CloseInv'
  <2>1. /\ phase[s] = "admit" /\ surface' = surface /\ phase'[s] = "activate"
    BY <1>0, <1>18 DEF PrepareContext
  <2>2. \A e \in Of(s) : surface[e] # "current"
    BY <1>1, <1>2, <2>1, ClosedOrActive DEF SessionOk, CloseOk
  <2>3. CloseOk(s)'
    BY <1>0, <2>1, <2>2 DEF CloseOk
  <2> QED
    BY <1>1, <1>5, <2>1, <2>3, MovesClose
<1>19. CASE Activate(s) \/ AdmitNothing(s)
  <2>1. /\ phase'[s] \in {"append", "rejected"} /\ surface' = surface
        /\ fresh'[s] \in {fresh[s], NoDelivery}
    BY <1>0, <1>19 DEF Activate, AdmitNothing
  <2>2. CloseOk(s)'
    BY <1>0, <1>1, <2>1 DEF CloseOk
  <2> QED
    BY <1>1, <1>5, <2>1, <2>2, MovesClose
\* The one step that puts a message on a surface.
<1>20. ASSUME NEW observed \in BOOLEAN, AppendContext(s, observed) PROVE CloseInv'
  <2> DEFINE d == fresh[s]
  <2>1. /\ phase[s] = "append" /\ d # NoDelivery /\ phase' = phase /\ fresh'[s] = NoDelivery
        /\ surface' = [surface EXCEPT ![d] = "current"]
    BY <1>0, <1>20 DEF AppendContext
  <2>2. d \in Of(s) /\ \A e \in Of(s) : surface[e] # "current"
    BY <1>1, <2>1 DEF SessionOk, CloseOk
  <2>3. CloseOk(s)'
    BY <2>1 DEF CloseOk
  <2>4. ASSUME NEW x \in Sessions, x # s PROVE CloseOk(x)'
    <3>1. \A e \in Of(x) : e \in Deliveries /\ e \notin Of(s)
      BY <2>4 DEF Of
    <3>2. Eased(x)
      BY <1>1, <2>4, <3>1 DEF OnlyItsOwn, Eased
    <3> QED
      BY <2>4, <3>2, EasedOk DEF CloseInv
  <2>5. ASSUME NEW a \in Deliveries, NEW b \in Deliveries, SessionOf[a] = SessionOf[b],
               surface'[a] = "current", surface'[b] = "current"
        PROVE  a = b
    <3>1. \A e \in Deliveries : surface'[e] = "current" => e = d \/ surface[e] = "current"
      BY <1>0, <2>1, <2>2
    <3>2. \A e \in Deliveries : SessionOf[e] = SessionOf[d] /\ surface[e] = "current" => FALSE
      BY <2>2 DEF Of
    <3> QED
      BY <2>5, <3>1, <3>2 DEF CloseInv, OneActiveContext
  <2> QED
    BY <2>3, <2>4, <2>5 DEF CloseInv, OneActiveContext
<1> QED
  BY <1>6, <1>7, <1>8, <1>9, <1>11, <1>12, <1>13, <1>14, <1>15, <1>16, <1>17, <1>18, <1>19, <1>20
     DEF SessionMoves, PreStep, StepItself

LEMMA StepClose ==
  TypeOK /\ RowsInv /\ TargetsInv /\ LogInv /\ OffInv /\ CloseInv /\ [Next]_vars => CloseInv'
<1> SUFFICES ASSUME TypeOK, RowsInv, TargetsInv, LogInv, OffInv, CloseInv, [Next]_vars PROVE CloseInv'
  OBVIOUS
<1> USE DEF database, log, host
<1>0. /\ LogInv' /\ LogGrows /\ ProofsKept /\ OffInv'
      /\ surface \in [Deliveries -> {"absent", "current", "replaced"}]
      /\ settlement \in [Deliveries -> {"none", "recall", "owner"}]
      /\ todo \in [Workers -> SUBSET Deliveries]
      /\ \A s \in Sessions : s \in Workers /\ s # Forgetter
      /\ \A s \in Sessions : Of(s) \subseteq Deliveries
  BY StepLog, StepGrows, StepProofs, StepOff, ConstantsAssumption DEF Workers, TypeOK, Of
<1>1. ASSUME NEW s \in Sessions, SessionMoves(s) PROVE CloseInv'
  BY <1>0, <1>1, MovesKeepClose
<1>2. ASSUME UNCHANGED <<delivery, phase, batch, fresh>>, \A s \in Sessions : todo'[s] = todo[s],
             \A d \in Deliveries : settlement[d] # "none" => settlement'[d] # "none", NoneEnters
      PROVE  CloseInv'
  <2>1. \A s \in Sessions : Eased(s)
    BY <1>0, <1>2 DEF Eased, NoneEnters
  <2> QED
    BY <1>0, <1>2, <2>1, EasedOk, OneKept DEF CloseInv
<1>3. CASE RetirementStep(Forgetter)
  <2>1. UNCHANGED <<delivery, phase, batch, fresh, settlement>>
    BY <1>3 DEF RetirementStep, FoundReplaced, FoundOffline, Replace, ReplaceFails, TraceReplacement,
                FinishReplaced, FinishFailed
  <2>2. todo' = todo \/ JobOver(Forgetter)
    BY <1>3 DEF RetirementStep, FoundReplaced, FoundOffline, Replace, ReplaceFails, TraceReplacement,
                FinishReplaced, FinishFailed
  <2>3. \A s \in Sessions : todo'[s] = todo[s]
    BY <1>0, <2>2 DEF JobOver
  <2>4. NoneEnters
    BY <1>0, <1>3 DEF RetirementStep, FoundReplaced, FoundOffline, Replace, ReplaceFails, TraceReplacement,
                FinishReplaced, FinishFailed, NoneEnters
  <2> QED
    BY <1>2, <2>1, <2>3, <2>4
<1>4. CASE ForgetStep
  <2>1. ASSUME \/ \E d \in Deliveries : ForgetRequests(d)
               \/ ForgetLinks \/ ForgetDefers \/ ForgetUnlinks
               \/ \E outcome \in {"completed", "failed"} : ForgetProjects(outcome)
        PROVE  CloseInv'
    <3>1. UNCHANGED <<delivery, phase, batch, fresh, settlement, surface>>
      BY <2>1 DEF ForgetRequests, RequestRetirement, ForgetLinks, ForgetDefers, ForgetUnlinks, ForgetProjects
    <3>2. todo' = todo \/ JobOver(Forgetter)
      BY <2>1 DEF ForgetRequests, RequestRetirement, ForgetLinks, ForgetDefers, ForgetUnlinks, ForgetProjects
    <3>3. \A s \in Sessions : todo'[s] = todo[s]
      BY <1>0, <3>2 DEF JobOver
    <3> QED
      BY <1>2, <3>1, <3>3 DEF NoneEnters
  <2> QED
    BY <1>3, <1>4, <2>1 DEF ForgetStep
<1>5. CASE ForgetCommit \/ ForgetAgain \/ CommandDies \/ UNCHANGED vars
  <2>1. UNCHANGED <<delivery, phase, batch, fresh, settlement, surface>>
    BY <1>5 DEF ForgetCommit, ForgetAgain, CommandDies, vars
  <2>2. \A s \in Sessions : todo'[s] = todo[s]
    BY <1>0, <1>5 DEF ForgetCommit, ForgetAgain, CommandDies, vars
  <2> QED
    BY <1>2, <2>1, <2>2 DEF NoneEnters
<1>6. ASSUME NEW d \in Deliveries, OwnerSettles(d) PROVE CloseInv'
  <2>1. UNCHANGED <<delivery, phase, batch, fresh, todo, surface>>
    BY <1>6 DEF OwnerSettles
  <2>2. \A e \in Deliveries : settlement[e] # "none" => settlement'[e] # "none"
    BY <1>0, <1>6 DEF OwnerSettles
  <2> QED
    BY <1>2, <2>1, <2>2 DEF NoneEnters
<1>7. CASE HostDies
  <2>1. surface' = surface /\ \A s \in Sessions : phase'[s] = "off" /\ fresh'[s] = NoDelivery
    BY <1>7 DEF HostDies
  <2>2. \A s \in Sessions : CloseOk(s)'
    BY <2>1 DEF CloseOk
  <2> QED
    BY <2>1, <2>2, OneKept DEF CloseInv, NoneEnters
<1> QED
  BY <1>1, <1>4, <1>5, <1>6, <1>7 DEF Next, SessionMoves

LEMMA AllParts ==
  Spec => [](TypeOK /\ RowsInv /\ TargetsInv /\ LogInv /\ OffInv /\ CloseInv)
<1>1. TypeOK /\ RowsInv /\ [Next]_vars => TypeOK' /\ RowsInv'
  BY StepTypes
<1>2. TypeOK /\ RowsInv /\ TargetsInv /\ [Next]_vars => TargetsInv'
  BY StepProofs
<1> QED
  BY <1>1, <1>2, InitTypes, InitTargets, InitLog, InitOff, InitClose, StepLog, StepOff, StepClose, PTL DEF Spec

\* A session never carries two Experience contexts, whatever number of sessions,
\* deliveries, retries and crashes there are, and with a Forget retiring some of
\* them from another process.
THEOREM OneContextAlways == Spec => []OneActiveContext
<1>1. CloseInv => OneActiveContext
  BY DEF CloseInv
<1> QED
  BY <1>1, AllParts, PTL

\* The exceptions that would wedge a session are never raised: what closing meets
\* without an event was proven absent, what is settled has been closed, and when
\* the contexts are closed nothing is active that is not on the list to settle.
THEOREM ClosingIsProven == Spec => []ClosureProven
<1>1. ASSUME TypeOK, LogInv, CloseInv PROVE ClosureProven
  <2>1. ASSUME NEW s \in Sessions, phase[s] = "close", NEW d \in todo[s], ~delivery[d].logged
        PROVE  Status(d) = "failed_before_send"
    <3>1. d \in Of(s) /\ d \in Deliveries /\ Status(d) # "none" /\ Status(d) # "prepared" /\ DeliveryOk(d)
      BY <1>1, <2>1 DEF LogInv, SessionOk, Of
    <3>2. Status(d) \in DeliveryStatus
      BY <1>1, <3>1 DEF TypeOK, Status
    <3> QED
      BY <2>1, <3>1, <3>2 DEF DeliveryOk, ActiveStatus, DeliveryStatus
  <2> QED
    BY <1>1, <2>1 DEF ClosureProven, CloseInv, CloseOk
<1> QED
  BY <1>1, AllParts, PTL
=============================================================================
