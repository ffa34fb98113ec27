------------------------ MODULE PlanAdmission_proofs ------------------------
(***************************************************************************)
(* Machine-checked proofs about PlanAdmission, for any number of usages,   *)
(* sessions, tasks, scopes and versions and any bounds.                    *)
(***************************************************************************)
EXTENDS PlanAdmission, TLAPS

\* The helpers return rows of the right type.
LEMMA HelperTypes ==
  ASSUME TypeOK, NEW u \in Usages
  PROVE  /\ \A q \in RequestStatus : UsageState(q) \in UsageStates
         /\ \A p \in Projection : Rewritten(p) \in Projection
         /\ \A o \in ClaimAttemptState :
              FinishedAttempts(u, o) \in [Claims -> ClaimAttemptState]
         /\ \A o \in RequestStatus :
              /\ EndedRequest(u, o) \in RequestStatus
              /\ EndedRequestRows(u, o) \in [Revs -> Request]
         /\ \A o \in BindingState : EndedBinding(u, o) \in Binding
         /\ \A o \in RequestStatus \cap BindingState, x \in UsageStates :
              EndedUsage(u, o, x) \in Projection
         /\ ExpiredUsage(u) \in Projection
<1> USE DEF TypeOK
<1>0. \A q \in Request, o \in RequestStatus : [q EXCEPT !.status = o] \in Request
  BY DEF Request
<1>1. \A q \in RequestStatus : UsageState(q) \in UsageStates
  BY DEF UsageState, UsageStates, RequestStatus
<1>2. \A p \in Projection : Rewritten(p) \in Projection
  BY <1>1 DEF Rewritten, Projection
<1>3. \A o \in ClaimAttemptState : FinishedAttempts(u, o) \in [Claims -> ClaimAttemptState]
  BY DEF FinishedAttempts
<1>4. \A o \in RequestStatus : EndedRequest(u, o) \in RequestStatus
  BY DEF EndedRequest, Projection
<1>5. \A o \in RequestStatus : EndedRequestRows(u, o) \in [Revs -> Request]
  <2> TAKE o \in RequestStatus
  <2> DEFINE r == usage[u].rev
  <2>1. requests[u] \in [Revs -> Request]
    OBVIOUS
  <2>2. CASE r \in Revs
    <3>1. [requests[u][r] EXCEPT !.status = o] \in Request
      BY <1>0, <2>1, <2>2
    <3>2. EndedRequestRows(u, o) = requests[u]
          \/ EndedRequestRows(u, o)
               = [requests[u] EXCEPT ![r] = [requests[u][r] EXCEPT !.status = o]]
      BY <2>1, <2>2 DEF EndedRequestRows
    <3> QED BY <2>1, <3>1, <3>2
  <2>3. CASE r \notin Revs
    <3>1. [requests[u] EXCEPT ![r].status = o] = requests[u]
      BY <2>1, <2>3
    <3> QED BY <2>1, <3>1 DEF EndedRequestRows
  <2> QED BY <2>2, <2>3
<1>6. \A o \in BindingState : EndedBinding(u, o) \in Binding
  BY DEF EndedBinding, Binding
<1>7. \A o \in RequestStatus \cap BindingState, x \in UsageStates :
         EndedUsage(u, o, x) \in Projection
  BY <1>4, ZenonT(60) DEF EndedUsage, Projection, Binding
<1>8. ExpiredUsage(u) \in Projection
  BY <1>7 DEF ExpiredUsage, RequestStatus, BindingState, UsageStates
<1> QED BY <1>1, <1>2, <1>3, <1>4, <1>5, <1>6, <1>7, <1>8

\* What a claim sweeps is typed.
LEMMA SweptTypes ==
  ASSUME TypeOK, NEW s \in Sessions, NEW t \in Tasks
  PROVE  /\ SweptRequests(s, t) \in [Usages -> [Revs -> Request]]
         /\ SweptAttempts(s, t) \in [Usages -> [Claims -> ClaimAttemptState]]
         /\ SweptBindings(s, t) \in [Usages -> Binding]
         /\ SweptUsage(s, t) \in [Usages -> Projection]
<1>1. "expired" \in RequestStatus /\ "interrupted" \in ClaimAttemptState
      /\ "expired" \in BindingState
  BY DEF RequestStatus, ClaimAttemptState, BindingState
<1>2. SweptRequests(s, t) \in [Usages -> [Revs -> Request]]
  BY <1>1, HelperTypes DEF SweptRequests, TypeOK
<1>3. SweptAttempts(s, t) \in [Usages -> [Claims -> ClaimAttemptState]]
  BY <1>1, HelperTypes DEF SweptAttempts, TypeOK
<1>4. SweptBindings(s, t) \in [Usages -> Binding]
  BY <1>1, HelperTypes DEF SweptBindings, TypeOK
<1>5. SweptUsage(s, t) \in [Usages -> Projection]
  BY HelperTypes DEF SweptUsage, TypeOK
<1> QED BY <1>2, <1>3, <1>4, <1>5

\* The rows of a usage nothing was done to.
LEMMA BlankRows == NoUsage \in Projection /\ NoBinding \in Binding
<1>1. NoUsage \in Projection
  BY ConstantsAssumption
  DEF NoUsage, Projection, UsageStates, RequestStatus, PlanAttemptState, BindingState
<1>2. NoBinding \in Binding
  BY ConstantsAssumption DEF NoBinding, Binding, BindingState
<1> QED BY <1>1, <1>2

\* Changing fields of typed records.
LEMMA RecordUpdates ==
  /\ \A p \in Projection, a \in PlanAttemptState : [p EXCEPT !.attempt = a] \in Projection
  /\ \A p \in Projection, q \in RequestStatus, a \in PlanAttemptState, b \in BindingState :
       [p EXCEPT !.request = q, !.attempt = a, !.binding = b] \in Projection
  /\ \A p \in Projection, b \in BindingState, k \in 0..MaxClaims :
       [p EXCEPT !.binding = b, !.claim = k] \in Projection
  /\ \A p \in Projection, q \in RequestStatus, a \in PlanAttemptState,
        b \in BindingState, k \in 0..MaxClaims, r \in 0..MaxRev :
       [p EXCEPT !.rev = r, !.request = q, !.attempt = a, !.binding = b, !.claim = k]
         \in Projection
  /\ \A p \in Projection, x \in UsageStates : [p EXCEPT !.state = x] \in Projection
  /\ \A q \in Request, o \in RequestStatus : [q EXCEPT !.status = o] \in Request
<1>3. \A q \in Request, o \in RequestStatus : [q EXCEPT !.status = o] \in Request
  BY DEF Request
<1>4. \A p \in Projection, a \in PlanAttemptState : [p EXCEPT !.attempt = a] \in Projection
  BY DEF Projection
<1>5. \A p \in Projection, q \in RequestStatus, a \in PlanAttemptState, b \in BindingState :
        [p EXCEPT !.request = q, !.attempt = a, !.binding = b] \in Projection
  BY DEF Projection
<1>6. \A p \in Projection, b \in BindingState, k \in 0..MaxClaims :
        [p EXCEPT !.binding = b, !.claim = k] \in Projection
  BY DEF Projection
<1>7. \A p \in Projection, q \in RequestStatus, a \in PlanAttemptState,
         b \in BindingState, k \in 0..MaxClaims, r \in 0..MaxRev :
        [p EXCEPT !.rev = r, !.request = q, !.attempt = a, !.binding = b, !.claim = k]
          \in Projection
  BY DEF Projection
<1>8. \A p \in Projection, x \in UsageStates : [p EXCEPT !.state = x] \in Projection
  BY DEF Projection
<1> QED BY <1>3, <1>4, <1>5, <1>6, <1>7, <1>8

\* What the transactions do to one row of a table keeps the table typed.
LEMMA TableUpdates ==
  ASSUME TypeOK, NEW u \in Usages
  PROVE  /\ \A r \in Nat, o \in RequestStatus :
              [requests EXCEPT ![u][r].status = o] \in [Usages -> [Revs -> Request]]
         /\ \A r \in Revs, q \in Request :
              [requests EXCEPT ![u][r] = q] \in [Usages -> [Revs -> Request]]
         /\ \A r \in Nat, i \in Nat, o \in RequestStatus, q \in Request :
              [requests EXCEPT ![u][r].status = o, ![u][i] = q]
                 \in [Usages -> [Revs -> Request]]
         /\ \A r \in Nat, a \in PlanAttemptState :
              [planAttempts EXCEPT ![u][r] = a] \in [Usages -> [Revs -> PlanAttemptState]]
         /\ \A k \in Nat, a \in ClaimAttemptState :
              [claimAttempts EXCEPT ![u][k] = a] \in [Usages -> [Claims -> ClaimAttemptState]]
<1> USE DEF TypeOK
<1>1. ASSUME NEW r \in Nat, NEW o \in RequestStatus
      PROVE  [requests EXCEPT ![u][r].status = o] \in [Usages -> [Revs -> Request]]
  <2>1. requests[u] \in [Revs -> Request]
    OBVIOUS
  <2>2. r \in Revs => [requests[u][r] EXCEPT !.status = o] \in Request
    BY <2>1, RecordUpdates
  <2> DEFINE q == [requests[u][r] EXCEPT !.status = o]
  <2> HIDE DEF q
  <2>3. [requests[u] EXCEPT ![r] = q] \in [Revs -> Request]
    BY <2>1, <2>2 DEF q
  <2>4. [requests EXCEPT ![u][r] = q] \in [Usages -> [Revs -> Request]]
    BY <2>3
  <2> QED BY <2>4 DEF q
<1>2. ASSUME NEW r \in Revs, NEW q \in Request
      PROVE  [requests EXCEPT ![u][r] = q] \in [Usages -> [Revs -> Request]]
  <2>1. requests[u] \in [Revs -> Request]
    OBVIOUS
  <2>2. [requests[u] EXCEPT ![r] = q] \in [Revs -> Request]
    BY <2>1
  <2> QED BY <2>2
<1>3. ASSUME NEW r \in Nat, NEW i \in Nat, NEW o \in RequestStatus, NEW q \in Request
      PROVE  [requests EXCEPT ![u][r].status = o, ![u][i] = q]
                \in [Usages -> [Revs -> Request]]
  <2> DEFINE f == [requests EXCEPT ![u][r].status = o]
  <2>1. f \in [Usages -> [Revs -> Request]]
    BY <1>1
  <2>2. f[u] \in [Revs -> Request]
    BY <2>1
  <2>3. [f[u] EXCEPT ![i] = q] \in [Revs -> Request]
    BY <2>2
  <2> HIDE DEF f
  <2>4. [f EXCEPT ![u][i] = q] \in [Usages -> [Revs -> Request]]
    BY <2>1, <2>3
  <2> QED BY <2>4 DEF f
<1>4. ASSUME NEW r \in Nat, NEW a \in PlanAttemptState
      PROVE  [planAttempts EXCEPT ![u][r] = a] \in [Usages -> [Revs -> PlanAttemptState]]
  <2>1. planAttempts[u] \in [Revs -> PlanAttemptState]
    OBVIOUS
  <2>2. [planAttempts[u] EXCEPT ![r] = a] \in [Revs -> PlanAttemptState]
    BY <2>1
  <2> QED BY <2>2
<1>5. ASSUME NEW k \in Nat, NEW a \in ClaimAttemptState
      PROVE  [claimAttempts EXCEPT ![u][k] = a] \in [Usages -> [Claims -> ClaimAttemptState]]
  <2>1. claimAttempts[u] \in [Claims -> ClaimAttemptState]
    OBVIOUS
  <2>2. [claimAttempts[u] EXCEPT ![k] = a] \in [Claims -> ClaimAttemptState]
    BY <2>1
  <2> QED BY <2>2
<1> QED BY <1>1, <1>2, <1>3, <1>4, <1>5

-----------------------------------------------------------------------------
\* Type correctness, one lemma per transaction.

LEMMA PlanTaskTypes ==
  ASSUME TypeOK, NEW u \in Usages, NEW p \in Plans, NEW asks \in BOOLEAN,
         PlanTask(u, p, asks)
  PROVE  TypeOK'
<1> DEFINE matched == p.versions # {}
           request == IF matched THEN "pending" ELSE "none"
           attempt == IF matched THEN "pending_external_decision" ELSE "no_answerer_continue"
<1>1. request \in RequestStatus /\ attempt \in PlanAttemptState /\ 1 \in Revs
  BY ConstantsAssumption DEF RequestStatus, PlanAttemptState, Revs
<1>2. UsageState(request) \in UsageStates
  BY <1>1, HelperTypes
<1>3. [NoUsage EXCEPT !.state = UsageState(request), !.rev = 1, !.request = request,
                      !.attempt = attempt] \in Projection
  <2>1. NoUsage \in Projection
    BY BlankRows
  <2>2. 1 \in 0..MaxRev
    BY ConstantsAssumption
  <2> HIDE DEF request, attempt
  <2> QED BY <1>1, <1>2, <2>1, <2>2 DEF Projection
<1>4. usage' \in [Usages -> Projection]
  BY <1>3 DEF PlanTask, TypeOK
<1>5. requests' \in [Usages -> [Revs -> Request]]
  <2>1. [status |-> "pending", expires |-> now + Ttl] \in Request
    BY ConstantsAssumption DEF TypeOK, Request, RequestStatus
  <2>2. \/ requests' = requests
        \/ requests' = [requests EXCEPT ![u][1] = [status |-> "pending", expires |-> now + Ttl]]
    BY DEF PlanTask
  <2>3. [requests EXCEPT ![u][1] = [status |-> "pending", expires |-> now + Ttl]]
           \in [Usages -> [Revs -> Request]]
    BY <1>1, <2>1, TableUpdates
  <2>4. requests \in [Usages -> [Revs -> Request]]
    BY DEF TypeOK
  <2> QED BY <2>2, <2>3, <2>4
<1>6. planAttempts' \in [Usages -> [Revs -> PlanAttemptState]]
  <2>1. planAttempts' = [planAttempts EXCEPT ![u][1] = attempt]
    BY DEF PlanTask
  <2> HIDE DEF attempt
  <2> QED BY <1>1, <2>1, TableUpdates
<1>7. asking' \in [Usages -> Question]
  <2>1. [rev |-> 1, adaptable |-> TRUE] \in Question
    BY <1>1 DEF Question, Revs
  <2>2. asking' \in {asking, [asking EXCEPT ![u] = [rev |-> 1, adaptable |-> TRUE]]}
    BY DEF PlanTask
  <2> QED BY <2>1, <2>2 DEF TypeOK
<1>8. plan' \in [Usages -> Plans \cup {NoPlan}]
  BY DEF PlanTask, TypeOK
<1> QED BY <1>4, <1>5, <1>6, <1>7, <1>8 DEF PlanTask, TypeOK

LEMMA ApproveTypes ==
  ASSUME TypeOK, NEW u \in Usages, NEW r \in Revs, Approve(u, r)
  PROVE  /\ requests' \in [Usages -> [Revs -> Request]]
         /\ claimAttempts' \in [Usages -> [Claims -> ClaimAttemptState]]
         /\ bindings' \in [Usages -> Binding]
         /\ usage' \in [Usages -> Projection]
         /\ planAttempts' \in [Usages -> [Revs -> PlanAttemptState]]
<1>1. /\ "approved" \in RequestStatus \cap PlanAttemptState
      /\ "expired" \in RequestStatus \cap BindingState
      /\ "interrupted" \in ClaimAttemptState
      /\ "active" \in BindingState
      /\ 0 \in 0..MaxClaims
  BY ConstantsAssumption
  DEF RequestStatus, PlanAttemptState, BindingState, ClaimAttemptState
<1>2. requests' \in [Usages -> [Revs -> Request]]
  <2>1. [requests[u] EXCEPT ![r].status = "approved"] \in [Revs -> Request]
    <3>1. requests[u] \in [Revs -> Request]
      BY DEF TypeOK
    <3>2. [requests[u][r] EXCEPT !.status = "approved"] \in Request
      BY <3>1, <1>1, RecordUpdates
    <3> QED BY <3>1, <3>2
  <2>2. \A v \in Usages : EndedRequestRows(v, "expired") \in [Revs -> Request]
    BY <1>1, HelperTypes
  <2> DEFINE q == [requests[u] EXCEPT ![r].status = "approved"]
  <2>3. requests' = [v \in Usages |->
          IF v = u THEN q ELSE IF v \in SameKey(u) THEN EndedRequestRows(v, "expired")
                                                 ELSE requests[v]]
    BY DEF Approve
  <2> HIDE DEF q
  <2>4. q \in [Revs -> Request] /\ \A v \in Usages : requests[v] \in [Revs -> Request]
    BY <2>1 DEF q, TypeOK
  <2> QED BY <2>2, <2>3, <2>4
<1>3. claimAttempts' \in [Usages -> [Claims -> ClaimAttemptState]]
  BY <1>1, HelperTypes DEF Approve, TypeOK
<1>4. bindings' \in [Usages -> Binding]
  <2>1. [state |-> "active", rev |-> r, claim |-> 0, lease |-> 0,
         expires |-> requests[u][r].expires] \in Binding
    <3>1. requests[u][r] \in Request
      BY DEF TypeOK
    <3>2. r \in 0..MaxRev
      BY ConstantsAssumption DEF Revs
    <3> QED BY <1>1, <3>1, <3>2 DEF Binding, Request
  <2> QED BY <1>1, <2>1, HelperTypes DEF Approve, TypeOK
<1>5. usage' \in [Usages -> Projection]
  <2> DEFINE p == [usage[u] EXCEPT !.request = "approved", !.attempt = "approved",
                                   !.binding = "active", !.claim = 0]
  <2>1. usage[u] \in Projection
    BY DEF TypeOK
  <2>3. p \in Projection
    BY <1>1, <2>1 DEF Projection
  <2>4. Rewritten(p) \in Projection
    BY <2>3, HelperTypes
  <2> HIDE DEF p
  <2>5. usage' = [v \in Usages |->
          IF v = u THEN Rewritten(p) ELSE IF v \in SameKey(u) THEN ExpiredUsage(v)
                                                            ELSE usage[v]]
    BY DEF Approve, p
  <2> QED BY <2>4, <2>5, HelperTypes DEF TypeOK
<1>6. planAttempts' \in [Usages -> [Revs -> PlanAttemptState]]
  <2>1. planAttempts' = [planAttempts EXCEPT ![u][r] = "approved"]
    BY DEF Approve
  <2> QED BY <1>1, <2>1, TableUpdates DEF Revs
<1> QED BY <1>2, <1>3, <1>4, <1>5, <1>6

LEMMA RefuseTypes ==
  ASSUME TypeOK, NEW u \in Usages, NEW r \in Revs, NEW status \in {"denied", "withdrawn"},
         Refuse(u, r, status)
  PROVE  /\ requests' \in [Usages -> [Revs -> Request]]
         /\ usage' \in [Usages -> Projection]
         /\ planAttempts' \in [Usages -> [Revs -> PlanAttemptState]]
<1>1. status \in RequestStatus /\ "denied" \in PlanAttemptState /\ "none" \in BindingState
  BY DEF RequestStatus, PlanAttemptState, BindingState
<1>2. requests' \in [Usages -> [Revs -> Request]]
  <2>1. r \in Nat
    BY DEF Revs
  <2> QED BY <1>1, <2>1, TableUpdates DEF Refuse
<1>3. planAttempts' \in [Usages -> [Revs -> PlanAttemptState]]
  BY <1>1, TableUpdates DEF Refuse, Revs
<1>4. usage' \in [Usages -> Projection]
  <2> DEFINE p == [usage[u] EXCEPT !.request = status, !.attempt = "denied", !.binding = "none"]
  <2>1. p \in Projection
    BY <1>1, RecordUpdates DEF TypeOK
  <2>2. Rewritten(p) \in Projection
    BY <2>1, HelperTypes
  <2>3. usage' = [usage EXCEPT ![u] = Rewritten(p)]
    BY DEF Refuse
  <2> HIDE DEF p
  <2> QED BY <2>2, <2>3 DEF TypeOK
<1> QED BY <1>2, <1>3, <1>4

\* The question is over: its slot is free again.
LEMMA QuestionTypes ==
  ASSUME TypeOK, NEW u \in Usages
  PROVE  /\ QuestionOver(u) => asking' \in [Usages -> Question]
         /\ Asked(u) => asking[u].rev \in Revs
<1>1. NoQuestion \in Question
  BY ConstantsAssumption DEF NoQuestion, Question
<1>2. QuestionOver(u) => asking' \in [Usages -> Question]
  BY <1>1 DEF QuestionOver, TypeOK
<1>3. asking[u].rev \in 0..MaxRev
  BY DEF TypeOK, Question
<1>4. Asked(u) => asking[u].rev \in Revs
  BY <1>3, ConstantsAssumption DEF Asked, Revs
<1> QED BY <1>2, <1>4

LEMMA AnswerAdaptsTypes ==
  ASSUME TypeOK, NEW u \in Usages, AnswerAdapts(u)
  PROVE  TypeOK'
<1> DEFINE r == usage[u].rev
           fresh == [status |-> "pending", expires |-> now + Ttl]
           p == [usage[u] EXCEPT !.rev = r + 1, !.request = "pending",
                                 !.attempt = "pending_external_decision",
                                 !.binding = "none", !.claim = 0]
<1>1. /\ {"pending", "superseded"} \subseteq RequestStatus
      /\ "pending_external_decision" \in PlanAttemptState
      /\ "none" \in BindingState
  BY DEF RequestStatus, PlanAttemptState, BindingState
<1>2. usage[u] \in Projection
  BY DEF TypeOK
<1>3. r \in 0..MaxRev
  BY <1>2 DEF Projection
<1>4. r + 1 \in Revs /\ r + 1 \in 0..MaxRev /\ r + 1 \in Nat
  BY <1>3, ConstantsAssumption DEF AnswerAdapts, Revs
<1>5. fresh \in Request
  BY <1>1, ConstantsAssumption DEF TypeOK, Request
<1>6. requests' \in [Usages -> [Revs -> Request]]
  <2>1. requests' = [requests EXCEPT ![u][r].status = "superseded", ![u][r + 1] = fresh]
    BY DEF AnswerAdapts
  <2>2. r \in Nat
    BY <1>3, ConstantsAssumption
  <2> DEFINE i == r + 1
  <2>3. i \in Nat
    BY <1>4
  <2> HIDE DEF r, i, fresh
  <2>4. [requests EXCEPT ![u][r].status = "superseded", ![u][i] = fresh]
           \in [Usages -> [Revs -> Request]]
    BY <1>1, <1>5, <2>2, <2>3, TableUpdates
  <2> QED BY <2>1, <2>4 DEF i
<1>7. planAttempts' \in [Usages -> [Revs -> PlanAttemptState]]
  BY <1>1, <1>4, TableUpdates DEF AnswerAdapts
<1>8. usage' \in [Usages -> Projection]
  <2>1. p \in Projection
    <3>1. 0 \in 0..MaxClaims
      BY ConstantsAssumption
    <3> HIDE DEF r
    <3> QED BY <1>1, <1>2, <1>4, <3>1, RecordUpdates
  <2>2. Rewritten(p) \in Projection
    BY <2>1, HelperTypes
  <2>3. usage' = [usage EXCEPT ![u] = Rewritten(p)]
    BY DEF AnswerAdapts
  <2> HIDE DEF p
  <2> QED BY <2>2, <2>3 DEF TypeOK
<1>9. asking' \in [Usages -> Question]
  BY <1>4 DEF AnswerAdapts, TypeOK, Question
<1> QED BY <1>6, <1>7, <1>8, <1>9 DEF AnswerAdapts, TypeOK

LEMMA AnswerRecordedTypes ==
  ASSUME TypeOK, NEW u \in Usages, AnswerRecorded(u)
  PROVE  TypeOK'
<1>1. PICK attempt \in PlanAttemptState :
        /\ planAttempts' = [planAttempts EXCEPT ![u][usage[u].rev] = attempt]
        /\ usage' = [usage EXCEPT ![u] = Rewritten([@ EXCEPT !.attempt = attempt])]
  BY DEF AnswerRecorded, PlanAttemptState
<1>2. usage[u] \in Projection
  BY DEF TypeOK
<1>3. usage[u].rev \in Nat
  BY <1>2, ConstantsAssumption DEF Projection
<1>4. planAttempts' \in [Usages -> [Revs -> PlanAttemptState]]
  BY <1>1, <1>3, TableUpdates
<1>5. Rewritten([usage[u] EXCEPT !.attempt = attempt]) \in Projection
  BY <1>2, RecordUpdates, HelperTypes
<1>6. usage' \in [Usages -> Projection]
  BY <1>1, <1>5 DEF TypeOK
<1>7. asking' \in [Usages -> Question]
  BY QuestionTypes DEF AnswerRecorded
<1> QED BY <1>4, <1>6, <1>7 DEF AnswerRecorded, TypeOK

LEMMA ClaimBindingTypes ==
  ASSUME TypeOK, NEW s \in Sessions, NEW t \in Tasks, NEW u \in Usages, ClaimBinding(s, t, u)
  PROVE  TypeOK'
<1> DEFINE k == NextClaim(u)
           b == SweptBindings(s, t)
           a == SweptAttempts(s, t)
           p == SweptUsage(s, t)
<1>1. bindings[u] \in Binding
  BY DEF TypeOK
<1>2. k \in Claims /\ k \in 0..MaxClaims /\ k \in Nat
  BY <1>1, ConstantsAssumption DEF NextClaim, Binding, ClaimBinding, Claims
<1>3. "claimed" \in BindingState /\ "ready_to_enter" \in ClaimAttemptState
  BY DEF BindingState, ClaimAttemptState
<1>4. /\ b \in [Usages -> Binding]
      /\ a \in [Usages -> [Claims -> ClaimAttemptState]]
      /\ p \in [Usages -> Projection]
      /\ SweptRequests(s, t) \in [Usages -> [Revs -> Request]]
  BY SweptTypes
<1>5. /\ bindings' = [b EXCEPT ![u].state = "claimed", ![u].claim = k,
                               ![u].lease = now + LeaseTime]
      /\ claimAttempts' = [a EXCEPT ![u][k] = "ready_to_enter"]
      /\ usage' = [p EXCEPT ![u] = Rewritten([@ EXCEPT !.binding = "claimed", !.claim = k])]
  BY DEF ClaimBinding
<1> HIDE DEF k, b, a, p
<1>6. bindings' \in [Usages -> Binding]
  <2> DEFINE row == [b[u] EXCEPT !.state = "claimed", !.claim = k, !.lease = now + LeaseTime]
  <2>1. now + LeaseTime \in Nat
    BY ConstantsAssumption DEF TypeOK
  <2>2. row \in Binding
    BY <1>2, <1>3, <1>4, <2>1 DEF Binding
  <2>3. bindings' = [b EXCEPT ![u] = row]
    BY <1>4, <1>5
  <2> QED BY <1>4, <2>2, <2>3
<1>7. claimAttempts' \in [Usages -> [Claims -> ClaimAttemptState]]
  <2>1. [a[u] EXCEPT ![k] = "ready_to_enter"] \in [Claims -> ClaimAttemptState]
    BY <1>3, <1>4
  <2> QED BY <1>4, <1>5, <2>1
<1>8. usage' \in [Usages -> Projection]
  <2>1. Rewritten([p[u] EXCEPT !.binding = "claimed", !.claim = k]) \in Projection
    BY <1>2, <1>3, <1>4, RecordUpdates, HelperTypes
  <2> QED BY <1>4, <1>5, <2>1
<1>9. admission' \in [Sessions -> (Usages \X Claims) \cup {NoClaim}]
  BY <1>2 DEF ClaimBinding, TypeOK, k
<1> QED BY <1>4, <1>6, <1>7, <1>8, <1>9 DEF ClaimBinding, TypeOK

LEMMA ConsumeSupersededTypes ==
  ASSUME TypeOK, NEW s \in Sessions, NEW sameFacts \in BOOLEAN, ConsumeSuperseded(s, sameFacts)
  PROVE  TypeOK'
<1> DEFINE u == admission[s][1]
<1>1. u \in Usages
  BY DEF ConsumeSuperseded, TypeOK
<1>2. /\ "superseded" \in RequestStatus \cap BindingState
      /\ "rejected" \in ClaimAttemptState
      /\ "approval_superseded" \in UsageStates
  BY DEF RequestStatus, BindingState, ClaimAttemptState, UsageStates
<1>3. /\ requests' = [requests EXCEPT ![u] = EndedRequestRows(u, "superseded")]
      /\ claimAttempts' = [claimAttempts EXCEPT ![u] = FinishedAttempts(u, "rejected")]
      /\ bindings' = [bindings EXCEPT ![u] = EndedBinding(u, "superseded")]
      /\ usage' = [usage EXCEPT ![u] = EndedUsage(u, "superseded", "approval_superseded")]
  BY DEF ConsumeSuperseded
<1> HIDE DEF u
<1>4. /\ EndedRequestRows(u, "superseded") \in [Revs -> Request]
      /\ FinishedAttempts(u, "rejected") \in [Claims -> ClaimAttemptState]
      /\ EndedBinding(u, "superseded") \in Binding
      /\ EndedUsage(u, "superseded", "approval_superseded") \in Projection
  BY <1>1, <1>2, HelperTypes
<1>5. /\ requests' \in [Usages -> [Revs -> Request]]
      /\ claimAttempts' \in [Usages -> [Claims -> ClaimAttemptState]]
      /\ bindings' \in [Usages -> Binding]
      /\ usage' \in [Usages -> Projection]
  BY <1>3, <1>4 DEF TypeOK
<1> QED BY <1>5 DEF ConsumeSuperseded, TypeOK

LEMMA ConsumeDeliversTypes ==
  ASSUME TypeOK, NEW s \in Sessions, NEW sameFacts \in BOOLEAN, ConsumeDelivers(s, sameFacts)
  PROVE  TypeOK'
<1> DEFINE u == admission[s][1]
           k == admission[s][2]
<1>1. u \in Usages /\ k \in Claims
  BY DEF ConsumeDelivers, TypeOK
<1>2. /\ "consumed" \in BindingState
      /\ "entered" \in ClaimAttemptState
      /\ "context_prepared" \in UsageStates
      /\ k \in 0..MaxClaims /\ k \in Nat
  BY <1>1, ConstantsAssumption DEF BindingState, ClaimAttemptState, UsageStates, Claims
<1>3. /\ deliveries' = [deliveries EXCEPT ![u] = @ \cup {<<s, k>>}]
      /\ bindings' = [bindings EXCEPT ![u] = EndedBinding(u, "consumed")]
      /\ claimAttempts' = [claimAttempts EXCEPT ![u][k] = "entered"]
      /\ usage' = [usage EXCEPT ![u].state = "context_prepared",
                                ![u].binding = "consumed", ![u].claim = k]
  BY DEF ConsumeDelivers
<1> HIDE DEF u, k
<1>4. deliveries' \in [Usages -> SUBSET (Sessions \X Claims)]
  BY <1>1, <1>3 DEF TypeOK
<1>5. bindings' \in [Usages -> Binding]
  BY <1>1, <1>2, <1>3, HelperTypes DEF TypeOK
<1>6. claimAttempts' \in [Usages -> [Claims -> ClaimAttemptState]]
  BY <1>1, <1>2, <1>3, TableUpdates
<1>7. usage' \in [Usages -> Projection]
  <2> DEFINE p == [usage[u] EXCEPT !.state = "context_prepared", !.binding = "consumed",
                                   !.claim = k]
  <2>1. usage[u] \in Projection
    BY <1>1 DEF TypeOK
  <2>2. p \in Projection
    BY <1>2, <2>1 DEF Projection
  <2>3. usage' = [usage EXCEPT ![u] = p]
    BY <1>1, <1>3 DEF TypeOK
  <2> HIDE DEF p
  <2> QED BY <2>2, <2>3 DEF TypeOK
<1>8. admission' \in [Sessions -> (Usages \X Claims) \cup {NoClaim}]
  BY DEF ConsumeDelivers, TypeOK
<1> QED BY <1>4, <1>5, <1>6, <1>7, <1>8 DEF ConsumeDelivers, TypeOK

LEMMA InitTypes == Init => TypeOK
<1> SUFFICES ASSUME Init PROVE TypeOK
  OBVIOUS
<1>1. [status |-> "none", expires |-> 0] \in Request
  BY DEF Request, RequestStatus
<1>2. "none" \in PlanAttemptState /\ "none" \in ClaimAttemptState
  BY DEF PlanAttemptState, ClaimAttemptState
<1>3. NoQuestion \in Question
  BY ConstantsAssumption DEF NoQuestion, Question
<1> QED BY <1>1, <1>2, <1>3, BlankRows DEF Init, TypeOK

\* No transaction stores a row of another type.
LEMMA StepTypes == TypeOK /\ [Next]_vars => TypeOK'
<1> SUFFICES ASSUME TypeOK, [Next]_vars PROVE TypeOK'
  OBVIOUS
<1>1. ASSUME NEW u \in Usages, UsageStep(u) PROVE TypeOK'
  <2>1. ASSUME NEW p \in Plans, NEW asks \in BOOLEAN, PlanTask(u, p, asks) PROVE TypeOK'
    BY <2>1, PlanTaskTypes
  <2>2. ASSUME OwnerApproves(u) PROVE TypeOK'
    <3>1. PICK r \in Revs : Approve(u, r) /\ UNCHANGED asking
      BY <2>2 DEF OwnerApproves
    <3> QED BY <3>1, ApproveTypes DEF Approve, TypeOK
  <2>3. ASSUME OwnerRefuses(u) PROVE TypeOK'
    <3>1. PICK r \in Revs, status \in {"denied", "withdrawn"} :
            Refuse(u, r, status) /\ UNCHANGED asking
      BY <2>3 DEF OwnerRefuses
    <3> QED BY <3>1, RefuseTypes DEF Refuse, TypeOK
  <2>4. ASSUME AnswerApproves(u) PROVE TypeOK'
    <3>1. /\ asking[u].rev \in Revs
          /\ Approve(u, asking[u].rev)
          /\ asking' \in [Usages -> Question]
      BY <2>4, QuestionTypes DEF AnswerApproves, QuestionShown
    <3> QED BY <3>1, ApproveTypes DEF Approve, TypeOK
  <2>5. ASSUME AnswerRefuses(u) PROVE TypeOK'
    <3>1. /\ asking[u].rev \in Revs
          /\ Refuse(u, asking[u].rev, "denied")
          /\ asking' \in [Usages -> Question]
      BY <2>5, QuestionTypes DEF AnswerRefuses, QuestionShown
    <3> QED BY <3>1, RefuseTypes DEF Refuse, TypeOK
  <2>6. ASSUME AnswerAdapts(u) PROVE TypeOK'
    BY <2>6, AnswerAdaptsTypes
  <2>7. ASSUME AnswerRecorded(u) PROVE TypeOK'
    BY <2>7, AnswerRecordedTypes
  <2>8. ASSUME AnswerLost(u) PROVE TypeOK'
    BY <2>8, QuestionTypes DEF AnswerLost, TypeOK, tables
  <2> QED BY <1>1, <2>1, <2>2, <2>3, <2>4, <2>5, <2>6, <2>7, <2>8 DEF UsageStep
<1>2. ASSUME NEW s \in Sessions, SessionStep(s) PROVE TypeOK'
  <2>1. ASSUME NEW t \in Tasks, ClaimNothing(s, t) PROVE TypeOK'
    BY <2>1, SweptTypes DEF ClaimNothing, TypeOK
  <2>2. ASSUME NEW t \in Tasks, NEW u \in Usages, ClaimBinding(s, t, u) PROVE TypeOK'
    BY <2>2, ClaimBindingTypes
  <2>3. ASSUME ConsumeStale(s) PROVE TypeOK'
    BY <2>3 DEF ConsumeStale, TypeOK, tables
  <2>4. ASSUME NEW sameFacts \in BOOLEAN, ConsumeSuperseded(s, sameFacts) PROVE TypeOK'
    BY <2>4, ConsumeSupersededTypes
  <2>5. ASSUME NEW sameFacts \in BOOLEAN, ConsumeDelivers(s, sameFacts) PROVE TypeOK'
    BY <2>5, ConsumeDeliversTypes
  <2>6. ASSUME AdmissionAbandoned(s) PROVE TypeOK'
    BY <2>6 DEF AdmissionAbandoned, TypeOK, tables
  <2> QED BY <1>2, <2>1, <2>2, <2>3, <2>4, <2>5, <2>6 DEF SessionStep
<1>3. ASSUME NEW v \in Versions, VersionReplaced(v) PROVE TypeOK'
  BY <1>3 DEF VersionReplaced, TypeOK, tables
<1>4. ASSUME Tick PROVE TypeOK'
  BY <1>4 DEF Tick, TypeOK, tables
<1>5. ASSUME UNCHANGED vars PROVE TypeOK'
  BY <1>5 DEF vars, tables, TypeOK
<1> QED BY <1>1, <1>2, <1>3, <1>4, <1>5 DEF Next

\* Every reachable row, projection and in-memory claim has its declared type:
\* in particular no projection is ever stored with a state the schema lacks.
THEOREM TypeInvariant == Spec => []TypeOK
<1>1. Init => TypeOK
  BY InitTypes
<1>2. TypeOK /\ [Next]_vars => TypeOK'
  BY StepTypes
<1> QED BY <1>1, <1>2, PTL DEF Spec

-----------------------------------------------------------------------------
(***************************************************************************)
(* The inductive invariant of PlanAdmission.  Nearly all of it speaks of   *)
(* the rows of one usage, so it is stated once more as an operator on      *)
(* rows, and what a transaction does to the rows of a usage is proved to   *)
(* keep it by lemmas on rows, one for each way a transaction rewrites      *)
(* them.  A transaction is then put together from the usages it ends,      *)
(* lapses, advances and leaves alone.                                      *)
(***************************************************************************)

Ended == {"expired", "superseded"}
Granted == {"active", "claimed", "consumed"}

\* p, q, a, c, b and d: the projection, requests, plan attempts, claim attempts,
\* binding and deliveries of a usage.
BlankRow(planned, asked, p, q, b) ==
  /\ ~planned => p = NoUsage
  /\ p.state = "none" =>
       /\ p = NoUsage
       /\ b.state = "none"
       /\ ~asked
       /\ \A r \in Revs : q[r].status = "none"
  /\ p.state # "none" => p.rev # 0

NumberedRow(p, q) ==
  \A r \in Revs :
    /\ r > p.rev => q[r].status = "none"
    /\ r < p.rev => q[r].status = "superseded"

FittingRow(p, q, a, b) ==
  /\ p.state # "none" =>
       /\ q[p.rev].status = p.request
       /\ a[p.rev] = p.attempt
       /\ b.state = p.binding
       /\ p.binding # "none" =>
            /\ b.rev = p.rev
            /\ b.claim = p.claim
            /\ p.request = IF p.binding \in Ended THEN p.binding ELSE "approved"
  /\ p.request = "approved" <=> b.state \in Granted

OwnedRow(c, b, d) ==
  /\ b.state = "none" => b.claim = 0
  /\ \A k \in Claims :
       /\ c[k] # "none" => k <= b.claim
       /\ c[k] = "ready_to_enter" => b.state = "claimed" /\ b.claim = k
       /\ c[k] = "entered" => b.state = "consumed" /\ b.claim = k
  /\ \A x \in d : b.state = "consumed" /\ b.claim = x[2] /\ c[x[2]] = "entered"
  /\ \A x, y \in d : x = y

RowInv(planned, asked, p, q, a, c, b, d) ==
  /\ BlankRow(planned, asked, p, q, b)
  /\ NumberedRow(p, q)
  /\ FittingRow(p, q, a, b)
  /\ OwnedRow(c, b, d)

Row(u) == RowInv(plan[u] # NoPlan, asking[u].rev # 0, usage[u], requests[u],
                 planAttempts[u], claimAttempts[u], bindings[u], deliveries[u])

\* The invariant says nothing else about the rows of a usage.
LEMMA InvariantByRows ==
  IInv <=> /\ TypeOK /\ ClaimsExclusive /\ OneAuthorizationPerKey
           /\ \A u \in Usages : Row(u)
<1> USE DEF Ended, Granted
<1>1. UnplannedIsBlank <=>
        \A u \in Usages : BlankRow(plan[u] # NoPlan, asking[u].rev # 0, usage[u],
                                   requests[u], bindings[u])
  BY DEF UnplannedIsBlank, BlankRow
<1>2. RequestsByRevision <=> \A u \in Usages : NumberedRow(usage[u], requests[u])
  BY DEF RequestsByRevision, NumberedRow
<1>3. ProjectionReadable /\ ApprovalHasBinding <=>
        \A u \in Usages : FittingRow(usage[u], requests[u], planAttempts[u], bindings[u])
  BY DEF ProjectionReadable, ApprovalHasBinding, FittingRow
<1>4. AttemptsNumbered /\ AttemptsOwned /\ DeliveriesOwned /\ OneDelivery <=>
        \A u \in Usages : OwnedRow(claimAttempts[u], bindings[u], deliveries[u])
  BY DEF AttemptsNumbered, AttemptsOwned, DeliveriesOwned, OneDelivery, OwnedRow
<1> QED
  BY <1>1, <1>2, <1>3, <1>4 DEF IInv, Row, RowInv

-----------------------------------------------------------------------------
\* What transactions do to the rows of a usage.

\* Of the rows of a table of plan revisions, only that of r is written.
OnlyRevision(f, g, r) == \A i \in Revs : i # r => g[i] = f[i]

\* Of the claim attempts, only that of k is written.
OnlyClaim(c, cc, k) == \A i \in Claims : i # k => cc[i] = c[i]

NoAttempt(c) == \A k \in Claims : c[k] = "none"

\* The attempts c and cc differ in the outcome of the one that might still enter.
NoneReady(c, cc) ==
  \A k \in Claims :
    /\ cc[k] # "ready_to_enter"
    /\ cc[k] = "none" <=> c[k] = "none"
    /\ cc[k] = "entered" <=> c[k] = "entered"

\* The state a rewritten projection gets is a state of a planned usage.
LEMMA RewrittenRow ==
  ASSUME NEW p \in Projection
  PROVE  /\ Rewritten(p).state # "none"
         /\ Rewritten(p).rev = p.rev /\ Rewritten(p).request = p.request
         /\ Rewritten(p).attempt = p.attempt /\ Rewritten(p).binding = p.binding
         /\ Rewritten(p).claim = p.claim
BY DEF Rewritten, UsageState, Projection

\* A planning result is stored.
LEMMA PlannedRow ==
  ASSUME NEW p \in Projection, NEW q \in [Revs -> Request], NEW a, NEW c,
         NEW b \in Binding, NEW d, NEW planned, NEW asked, NEW askedNext,
         RowInv(planned, asked, p, q, a, c, b, d), p = NoUsage,
         NEW pp \in Projection, NEW qq \in [Revs -> Request], NEW aa,
         pp.state # "none", pp.rev = 1, pp.binding = "none", pp.request \in {"none", "pending"},
         qq[1].status = pp.request, OnlyRevision(q, qq, 1),
         aa[1] = pp.attempt
  PROVE  RowInv(TRUE, askedNext, pp, qq, aa, c, b, d)
<1> USE DEF RowInv
<1>1. 1 \in Revs /\ p.state = "none" /\ b.state = "none"
  BY ConstantsAssumption DEF Revs, BlankRow, NoUsage
<1>2. \A r \in Revs : q[r].status = "none"
  BY <1>1 DEF BlankRow
<1>3. BlankRow(TRUE, askedNext, pp, qq, b)
  BY DEF BlankRow
<1>4. NumberedRow(pp, qq)
  BY <1>1, <1>2 DEF NumberedRow, Revs, OnlyRevision
<1>5. FittingRow(pp, qq, aa, b)
  BY <1>1 DEF FittingRow, Granted
<1> QED
  BY <1>3, <1>4, <1>5

\* A pending request is that of a projection without a binding.
LEMMA PendingRow ==
  ASSUME NEW p \in Projection, NEW q, NEW a, NEW c, NEW b \in Binding, NEW d,
         NEW planned, NEW asked, RowInv(planned, asked, p, q, a, c, b, d),
         p.rev \in Revs, q[p.rev].status = "pending"
  PROVE  /\ p.state # "none" /\ p.request = "pending" /\ p.binding = "none"
         /\ b.state = "none" /\ NoAttempt(c) /\ d = {}
<1> USE DEF RowInv
<1>1. p.state # "none"
  BY DEF BlankRow, NoUsage
<1>2. p.request = "pending" /\ p.binding = "none" /\ b.state = "none"
  BY <1>1 DEF FittingRow, Ended, Projection, BindingState
<1>3. b.claim = 0 /\ d = {}
  BY <1>2 DEF OwnedRow
<1>4. NoAttempt(c)
  BY <1>3 DEF OwnedRow, Claims, NoAttempt
<1> QED
  BY <1>1, <1>2, <1>3, <1>4

\* The owner approves: a binding is minted.
LEMMA ApprovedRow ==
  ASSUME NEW p \in Projection, NEW q \in [Revs -> Request], NEW a, NEW c,
         NEW b \in Binding, NEW d, NEW planned, NEW asked, NEW askedNext,
         RowInv(planned, asked, p, q, a, c, b, d),
         p.rev \in Revs, p.state # "none", d = {}, NoAttempt(c),
         NEW pp \in Projection, NEW qq \in [Revs -> Request], NEW aa, NEW bb \in Binding,
         pp.state # "none", pp.rev = p.rev, pp.request = "approved", pp.binding = "active",
         pp.claim = 0, bb.state = "active", bb.rev = p.rev, bb.claim = 0,
         qq[p.rev].status = "approved", OnlyRevision(q, qq, p.rev), aa[p.rev] = pp.attempt
  PROVE  RowInv(planned, askedNext, pp, qq, aa, c, bb, d)
<1>1. BlankRow(planned, askedNext, pp, qq, bb)
  BY DEF BlankRow, RowInv, Revs, NoUsage
<1>2. NumberedRow(pp, qq)
  BY DEF NumberedRow, RowInv, Revs, OnlyRevision
<1>3. FittingRow(pp, qq, aa, bb)
  BY DEF FittingRow, Granted, Ended
<1>4. OwnedRow(c, bb, d)
  BY DEF OwnedRow, NoAttempt
<1> QED
  BY <1>1, <1>2, <1>3, <1>4 DEF RowInv

\* The owner denies or withdraws.
LEMMA RefusedRow ==
  ASSUME NEW p \in Projection, NEW q \in [Revs -> Request], NEW a, NEW c,
         NEW b \in Binding, NEW d, NEW planned, NEW asked, NEW askedNext,
         RowInv(planned, asked, p, q, a, c, b, d),
         p.rev \in Revs, p.state # "none", b.state = "none",
         NEW pp \in Projection, NEW qq \in [Revs -> Request], NEW aa,
         pp.state # "none", pp.rev = p.rev, pp.request \in {"denied", "withdrawn"},
         pp.binding = "none",
         qq[p.rev].status = pp.request, OnlyRevision(q, qq, p.rev), aa[p.rev] = pp.attempt
  PROVE  RowInv(planned, askedNext, pp, qq, aa, c, b, d)
<1>1. BlankRow(planned, askedNext, pp, qq, b)
  BY DEF BlankRow, RowInv, Revs, NoUsage
<1>2. NumberedRow(pp, qq)
  BY DEF NumberedRow, RowInv, Revs, OnlyRevision
<1>3. FittingRow(pp, qq, aa, b)
  BY DEF FittingRow, Granted, Ended
<1> QED
  BY <1>1, <1>2, <1>3 DEF RowInv

\* The pending request is superseded by that of the next plan revision.
LEMMA AdaptedRow ==
  ASSUME NEW p \in Projection, NEW q \in [Revs -> Request], NEW a, NEW c,
         NEW b \in Binding, NEW d, NEW planned, NEW asked, NEW askedNext,
         RowInv(planned, asked, p, q, a, c, b, d),
         p.rev \in Revs, p.state # "none", b.state = "none",
         NEW pp \in Projection, NEW qq \in [Revs -> Request], NEW aa, NEW next \in Revs,
         next = p.rev + 1,
         pp.state # "none", pp.rev = next, pp.request = "pending", pp.binding = "none",
         qq[p.rev].status = "superseded", qq[next].status = "pending",
         \A r \in Revs : r # p.rev /\ r # next => qq[r] = q[r],
         aa[next] = pp.attempt
  PROVE  RowInv(planned, askedNext, pp, qq, aa, c, b, d)
<1>1. BlankRow(planned, askedNext, pp, qq, b)
  BY DEF BlankRow, RowInv, Revs, NoUsage
<1>2. NumberedRow(pp, qq)
  BY DEF NumberedRow, RowInv, Revs
<1>3. FittingRow(pp, qq, aa, b)
  BY DEF FittingRow, Granted, Ended
<1> QED
  BY <1>1, <1>2, <1>3 DEF RowInv

\* The outcome of a question that was lost is recorded.
LEMMA RecordedRow ==
  ASSUME NEW p \in Projection, NEW q \in [Revs -> Request], NEW a, NEW c,
         NEW b \in Binding, NEW d, NEW planned, NEW asked, NEW askedNext,
         RowInv(planned, asked, p, q, a, c, b, d), p.state # "none",
         NEW pp \in Projection, NEW aa,
         pp.state # "none", pp.rev = p.rev, pp.request = p.request,
         pp.binding = p.binding, pp.claim = p.claim, aa[p.rev] = pp.attempt
  PROVE  RowInv(planned, askedNext, pp, q, aa, c, b, d)
<1>1. BlankRow(planned, askedNext, pp, q, b)
  BY DEF BlankRow, RowInv, Revs, NoUsage
<1>2. NumberedRow(pp, q)
  BY DEF NumberedRow, RowInv
<1>3. FittingRow(pp, q, aa, b)
  BY DEF FittingRow, RowInv
<1> QED
  BY <1>1, <1>2, <1>3 DEF RowInv

\* A binding that is claimable is that of an approved projection.
LEMMA LiveRow ==
  ASSUME NEW p \in Projection, NEW q, NEW a, NEW c, NEW b \in Binding, NEW d,
         NEW planned, NEW asked, RowInv(planned, asked, p, q, a, c, b, d),
         b.state \in {"active", "claimed"}
  PROVE  /\ p.state # "none" /\ p.request = "approved" /\ p.rev \in Revs
         /\ p.binding = b.state /\ p.rev = b.rev /\ p.claim = b.claim
         /\ d = {} /\ planned
<1> USE DEF RowInv
<1>1. p.state # "none" /\ planned
  BY DEF BlankRow, NoUsage
<1>2. p.rev \in Revs
  BY <1>1, ConstantsAssumption DEF BlankRow, Projection, Revs
<1>3. p.request = "approved"
  BY DEF FittingRow, Granted
<1>4. p.binding = b.state /\ p.rev = b.rev /\ p.claim = b.claim
  BY <1>1 DEF FittingRow
<1>5. d = {}
  BY DEF OwnedRow
<1> QED
  BY <1>1, <1>2, <1>3, <1>4, <1>5

\* A claimable binding ends, and its request and claimant with it.
LEMMA EndedRow ==
  ASSUME NEW p \in Projection, NEW q \in [Revs -> Request], NEW a, NEW c,
         NEW b \in Binding, NEW d, NEW planned, NEW asked,
         RowInv(planned, asked, p, q, a, c, b, d),
         p.state # "none", p.rev \in Revs, p.rev = b.rev, d = {},
         b.state \in {"active", "claimed"},
         NEW pp \in Projection, NEW qq \in [Revs -> Request], NEW bb \in Binding, NEW cc,
         pp.state # "none", pp.rev = p.rev, pp.request = pp.binding, pp.binding \in Ended,
         pp.attempt = p.attempt, pp.claim = b.claim,
         bb.state = pp.binding, bb.rev = b.rev, bb.claim = b.claim,
         qq[p.rev].status = pp.request, OnlyRevision(q, qq, p.rev), NoneReady(c, cc)
  PROVE  RowInv(planned, asked, pp, qq, a, cc, bb, d)
<1>1. BlankRow(planned, asked, pp, qq, bb)
  BY DEF RowInv, BlankRow, NoUsage, Revs
<1>2. NumberedRow(pp, qq)
  BY DEF NumberedRow, RowInv, Revs, OnlyRevision
<1>3. FittingRow(pp, qq, a, bb)
  BY DEF FittingRow, RowInv, Granted, Ended
<1>4. OwnedRow(cc, bb, d)
  BY DEF OwnedRow, RowInv, Ended, NoneReady
<1> QED
  BY <1>1, <1>2, <1>3, <1>4 DEF RowInv

\* The lease of the claimant lapsed.
LEMMA LapsedRow ==
  ASSUME NEW p, NEW q, NEW a, NEW c, NEW b \in Binding, NEW d,
         NEW planned, NEW asked, RowInv(planned, asked, p, q, a, c, b, d),
         NEW cc, NoneReady(c, cc), d = {}
  PROVE  RowInv(planned, asked, p, q, a, cc, b, d)
<1>1. OwnedRow(cc, b, d)
  BY DEF OwnedRow, RowInv, NoneReady
<1> QED
  BY <1>1 DEF RowInv

\* A binding that nobody may enter any more is claimed.
LEMMA ClaimedRow ==
  ASSUME NEW p \in Projection, NEW q \in [Revs -> Request], NEW a, NEW c,
         NEW b \in Binding, NEW d, NEW planned, NEW asked,
         RowInv(planned, asked, p, q, a, c, b, d),
         b.state \in {"active", "claimed"}, \A i \in Claims : c[i] # "ready_to_enter",
         p.state # "none", p.request = "approved", p.rev \in Revs, p.rev = b.rev, d = {},
         NEW k \in Claims, k = b.claim + 1,
         NEW pp \in Projection, NEW bb \in Binding, NEW cc,
         pp.state # "none", pp.rev = p.rev, pp.request = "approved",
         pp.attempt = p.attempt, pp.binding = "claimed", pp.claim = k,
         bb.state = "claimed", bb.rev = b.rev, bb.claim = k,
         cc[k] = "ready_to_enter", OnlyClaim(c, cc, k)
  PROVE  RowInv(planned, asked, pp, q, a, cc, bb, d)
<1>1. BlankRow(planned, asked, pp, q, bb)
  BY DEF RowInv, BlankRow, NoUsage, Revs
<1>2. NumberedRow(pp, q)
  BY DEF NumberedRow, RowInv
<1>3. FittingRow(pp, q, a, bb)
  BY DEF FittingRow, RowInv, Granted, Ended
<1>4. OwnedRow(cc, bb, d)
  <2>1. \A i \in Claims : c[i] # "none" => i <= b.claim
    BY DEF RowInv, OwnedRow
  <2>2. \A i \in Claims : c[i] # "entered"
    BY DEF RowInv, OwnedRow
  <2>3. b.claim \in Nat
    BY ConstantsAssumption DEF Binding
  <2> QED
    BY <2>1, <2>2, <2>3 DEF OwnedRow, Claims, OnlyClaim
<1> QED
  BY <1>1, <1>2, <1>3, <1>4 DEF RowInv

\* The claimant of the binding consumes it and the context is delivered.
LEMMA ConsumedRow ==
  ASSUME NEW p \in Projection, NEW q \in [Revs -> Request], NEW a, NEW c,
         NEW b \in Binding, NEW d, NEW planned, NEW asked,
         RowInv(planned, asked, p, q, a, c, b, d),
         b.state = "claimed", b.claim \in Claims,
         p.state # "none", p.request = "approved", p.rev \in Revs, p.rev = b.rev, d = {},
         NEW x, x[2] = b.claim, NEW pp \in Projection, NEW bb \in Binding, NEW cc, NEW dd,
         pp.state # "none", pp.rev = p.rev, pp.request = "approved",
         pp.attempt = p.attempt, pp.binding = "consumed", pp.claim = b.claim,
         bb.state = "consumed", bb.rev = b.rev, bb.claim = b.claim,
         cc[b.claim] = "entered", OnlyClaim(c, cc, b.claim), dd = {x}
  PROVE  RowInv(planned, asked, pp, q, a, cc, bb, dd)
<1>1. BlankRow(planned, asked, pp, q, bb)
  BY DEF RowInv, BlankRow, NoUsage, Revs
<1>2. NumberedRow(pp, q)
  BY DEF NumberedRow, RowInv
<1>3. FittingRow(pp, q, a, bb)
  BY DEF FittingRow, RowInv, Granted, Ended
<1>4. OwnedRow(cc, bb, dd)
  <2>1. /\ b.claim # 0
        /\ \A k \in Claims : (c[k] # "none" => k <= b.claim) /\ c[k] # "entered"
        /\ \A k \in Claims : c[k] = "ready_to_enter" => k = b.claim
    BY DEF OwnedRow, RowInv, Claims
  <2>2. \A k \in Claims :
          /\ cc[k] # "none" => k <= bb.claim
          /\ cc[k] # "ready_to_enter"
          /\ cc[k] = "entered" => k = bb.claim
    BY <2>1 DEF Claims, OnlyClaim
  <2>3. \A y \in dd : y = x
    OBVIOUS
  <2> QED
    BY <2>2, <2>3 DEF OwnedRow
<1> QED
  BY <1>1, <1>2, <1>3, <1>4 DEF RowInv

-----------------------------------------------------------------------------
\* The rows of a usage and what transactions compute from them.

LEMMA RowTypes ==
  ASSUME TypeOK, NEW u \in Usages
  PROVE  /\ usage[u] \in Projection
         /\ requests[u] \in [Revs -> Request]
         /\ planAttempts[u] \in [Revs -> PlanAttemptState]
         /\ claimAttempts[u] \in [Claims -> ClaimAttemptState]
         /\ bindings[u] \in Binding
BY DEF TypeOK

\* Rows that satisfy the invariant and are those of the next state.
LEMMA RowNext ==
  ASSUME NEW u \in Usages, NEW planned, NEW asked, NEW p, NEW q, NEW a, NEW c, NEW b, NEW d,
         RowInv(planned, asked, p, q, a, c, b, d),
         planned <=> plan'[u] # NoPlan, asked <=> asking'[u].rev # 0,
         usage'[u] = p, requests'[u] = q, planAttempts'[u] = a, claimAttempts'[u] = c,
         bindings'[u] = b, deliveries'[u] = d
  PROVE  Row(u)'
BY DEF Row, RowInv, BlankRow

LEMMA RowSame ==
  ASSUME NEW u \in Usages, Row(u), plan'[u] = plan[u], asking'[u] = asking[u],
         usage'[u] = usage[u], requests'[u] = requests[u],
         planAttempts'[u] = planAttempts[u], claimAttempts'[u] = claimAttempts[u],
         bindings'[u] = bindings[u], deliveries'[u] = deliveries[u]
  PROVE  Row(u)'
BY DEF Row

\* finishClaimedAdmissionAttempt leaves no attempt that may still enter.
LEMMA FinishedRow ==
  ASSUME TypeOK, NEW u \in Usages, Row(u), NEW outcome \in {"interrupted", "rejected"}
  PROVE  NoneReady(claimAttempts[u], FinishedAttempts(u, outcome))
<1>1. claimAttempts[u] \in [Claims -> ClaimAttemptState]
  BY RowTypes
<1>2. \A k \in Claims : claimAttempts[u][k] = "ready_to_enter" => bindings[u].claim = k /\ k # 0
  BY DEF Row, RowInv, OwnedRow, Claims
<1>3. CASE bindings[u].claim # 0 /\ claimAttempts[u][bindings[u].claim] = "ready_to_enter"
  <2>1. FinishedAttempts(u, outcome) = [claimAttempts[u] EXCEPT ![bindings[u].claim] = outcome]
    BY <1>3 DEF FinishedAttempts
  <2> QED
    BY <1>1, <1>2, <1>3, <2>1 DEF NoneReady
<1>4. CASE ~(bindings[u].claim # 0 /\ claimAttempts[u][bindings[u].claim] = "ready_to_enter")
  <2>1. FinishedAttempts(u, outcome) = claimAttempts[u]
    BY <1>4 DEF FinishedAttempts
  <2> QED
    BY <1>2, <1>4, <2>1 DEF NoneReady
<1> QED
  BY <1>3, <1>4

\* The facts about a claimable usage.
LEMMA LiveUsage ==
  ASSUME TypeOK, NEW u \in Usages, Row(u), Live(u)
  PROVE  /\ usage[u].state # "none" /\ usage[u].request = "approved" /\ usage[u].rev \in Revs
         /\ usage[u].binding = bindings[u].state /\ usage[u].rev = bindings[u].rev
         /\ usage[u].claim = bindings[u].claim /\ deliveries[u] = {} /\ plan[u] # NoPlan
<1> DEFINE planned == plan[u] # NoPlan
           asked == asking[u].rev # 0
<1>1. RowInv(planned, asked, usage[u], requests[u], planAttempts[u], claimAttempts[u],
             bindings[u], deliveries[u])
  BY DEF Row
<1>2. bindings[u].state \in {"active", "claimed"}
  BY DEF Live
<1>3. usage[u] \in Projection /\ bindings[u] \in Binding
  BY RowTypes
<1> HIDE DEF planned, asked
<1>4. /\ usage[u].state # "none" /\ usage[u].request = "approved" /\ usage[u].rev \in Revs
      /\ usage[u].binding = bindings[u].state /\ usage[u].rev = bindings[u].rev
      /\ usage[u].claim = bindings[u].claim /\ deliveries[u] = {} /\ planned
  BY <1>1, <1>2, <1>3, LiveRow
<1> QED
  BY <1>4 DEF planned

\* The rows of a usage whose binding a transaction ends.
LEMMA EndedUsageRow ==
  ASSUME TypeOK, NEW u \in Usages, Row(u), Live(u), NEW status \in Ended,
         NEW outcome \in {"interrupted", "rejected"}, NEW x \in UsageStates \ {"none"}
  PROVE  RowInv(plan[u] # NoPlan, asking[u].rev # 0, EndedUsage(u, status, x),
                EndedRequestRows(u, status), planAttempts[u], FinishedAttempts(u, outcome),
                EndedBinding(u, status), deliveries[u])
<1> DEFINE p == usage[u]
           q == requests[u]
           a == planAttempts[u]
           c == claimAttempts[u]
           b == bindings[u]
           d == deliveries[u]
           pp == EndedUsage(u, status, x)
           qq == EndedRequestRows(u, status)
           bb == EndedBinding(u, status)
           cc == FinishedAttempts(u, outcome)
           planned == plan[u] # NoPlan
           asked == asking[u].rev # 0
<1>1. /\ p.state # "none" /\ p.request = "approved" /\ p.rev \in Revs
      /\ p.binding = b.state /\ p.rev = b.rev /\ p.claim = b.claim
      /\ d = {} /\ planned
  BY LiveUsage
<1>2. /\ p \in Projection /\ q \in [Revs -> Request] /\ b \in Binding
      /\ a \in [Revs -> PlanAttemptState]
      /\ c \in [Claims -> ClaimAttemptState]
  BY RowTypes
<1>3. status \in RequestStatus \cap BindingState /\ outcome \in ClaimAttemptState
  BY DEF Ended, RequestStatus, BindingState, ClaimAttemptState
<1>4. pp \in Projection /\ bb \in Binding /\ cc \in [Claims -> ClaimAttemptState]
  BY <1>3, HelperTypes
<1>5. EndedRequest(u, status) = status /\ status # p.request
  BY <1>1 DEF EndedRequest, Ended
<1>6. qq = [q EXCEPT ![p.rev].status = status]
  BY <1>5 DEF EndedRequestRows
<1>7. /\ pp.state = x /\ pp.rev = p.rev /\ pp.request = status /\ pp.attempt = p.attempt
      /\ pp.binding = status /\ pp.claim = b.claim
  BY <1>2, <1>5 DEF EndedUsage, Projection
<1>8. bb.state = status /\ bb.rev = b.rev /\ bb.claim = b.claim
  BY <1>2 DEF EndedBinding, Binding
<1>9. NoneReady(c, cc)
  BY FinishedRow
<1>10. b.state \in {"active", "claimed"}
  BY DEF Live
<1>11. RowInv(planned, asked, p, q, a, c, b, d)
  BY DEF Row
<1>12. qq[p.rev].status = status /\ OnlyRevision(q, qq, p.rev)
  BY <1>1, <1>2, <1>6 DEF OnlyRevision, Request
<1>13. pp.state # "none" /\ qq \in [Revs -> Request]
  BY <1>3, <1>7, HelperTypes
<1> HIDE DEF p, q, b, a, c, d, pp, qq, bb, cc, planned, asked
<1>14. RowInv(planned, asked, pp, qq, a, cc, bb, d)
  BY <1>1, <1>2, <1>4, <1>7, <1>8, <1>9, <1>10, <1>11, <1>12, <1>13, EndedRow
<1> QED
  BY <1>14 DEF p, q, b, a, c, d, pp, qq, bb, cc, planned, asked

\* The rows of every usage after the sweep of a claim.
LEMMA SweptRow ==
  ASSUME TypeOK, NEW s \in Sessions, NEW t \in Tasks, NEW u \in Usages, Row(u)
  PROVE  RowInv(plan[u] # NoPlan, asking[u].rev # 0, SweptUsage(s, t)[u],
                SweptRequests(s, t)[u], planAttempts[u], SweptAttempts(s, t)[u],
                SweptBindings(s, t)[u], deliveries[u])
<1>1. CASE u \in Dead(s, t)
  <2>1. Live(u)
    BY <1>1 DEF Dead, Matching
  <2>2. "expired" \in Ended /\ "approval_expired" \in UsageStates \ {"none"}
        /\ "interrupted" \in {"interrupted", "rejected"}
    BY DEF Ended, UsageStates
  <2>3. /\ SweptUsage(s, t)[u] = EndedUsage(u, "expired", "approval_expired")
        /\ SweptRequests(s, t)[u] = EndedRequestRows(u, "expired")
        /\ SweptAttempts(s, t)[u] = FinishedAttempts(u, "interrupted")
        /\ SweptBindings(s, t)[u] = EndedBinding(u, "expired")
    BY <1>1 DEF SweptUsage, SweptRequests, SweptAttempts, SweptBindings, ExpiredUsage
  <2> QED
    BY <2>1, <2>2, <2>3, EndedUsageRow
<1>2. CASE u \notin Dead(s, t)
  <2>1. /\ SweptUsage(s, t)[u] = usage[u]
        /\ SweptRequests(s, t)[u] = requests[u]
        /\ SweptBindings(s, t)[u] = bindings[u]
    BY <1>2 DEF SweptUsage, SweptRequests, SweptBindings
  <2>2. CASE u \notin Lapsed(s, t)
    <3>1. SweptAttempts(s, t)[u] = claimAttempts[u]
      BY <1>2, <2>2 DEF SweptAttempts
    <3> QED
      BY <2>1, <3>1 DEF Row
  <2>3. CASE u \in Lapsed(s, t)
    <3>1. SweptAttempts(s, t)[u] = FinishedAttempts(u, "interrupted")
      BY <2>3 DEF SweptAttempts
    <3>2. Live(u)
      BY <2>3 DEF Lapsed, Unleased, Matching
    <3>3. deliveries[u] = {} /\ bindings[u] \in Binding
      BY <3>2, LiveUsage, RowTypes
    <3>4. NoneReady(claimAttempts[u], SweptAttempts(s, t)[u])
      BY <3>1, FinishedRow
    <3> DEFINE cc == SweptAttempts(s, t)[u]
    <3> HIDE DEF cc
    <3>5. RowInv(plan[u] # NoPlan, asking[u].rev # 0, usage[u], requests[u],
                 planAttempts[u], cc, bindings[u], deliveries[u])
      BY <3>3, <3>4, LapsedRow DEF Row, cc
    <3> QED
      BY <2>1, <3>5 DEF cc
  <2> QED
    BY <2>2, <2>3
<1> QED
  BY <1>1, <1>2

-----------------------------------------------------------------------------
\* What the transactions on a usage do to the rows of every usage.

LEMMA PlanTaskRows ==
  ASSUME IInv, TypeOK', NEW u \in Usages, NEW p \in Plans, NEW asks \in BOOLEAN,
         PlanTask(u, p, asks)
  PROVE  \A v \in Usages : Row(v)'
<1>0. TypeOK /\ Row(u) /\ plan[u] = NoPlan
  BY InvariantByRows DEF PlanTask
<1>1. ASSUME NEW v \in Usages, v # u PROVE Row(v)'
  <2>1. Row(v)
    BY InvariantByRows
  <2>2. /\ plan'[v] = plan[v] /\ usage'[v] = usage[v] /\ requests'[v] = requests[v]
        /\ planAttempts'[v] = planAttempts[v] /\ asking'[v] = asking[v]
    BY <1>0, <1>1 DEF PlanTask, TypeOK
  <2> QED
    BY <2>1, <2>2, RowSame DEF PlanTask
<1>2. Row(u)'
  <2> DEFINE matched == p.versions # {}
             request == IF matched THEN "pending" ELSE "none"
             attempt == IF matched THEN "pending_external_decision"
                                   ELSE "no_answerer_continue"
             pp == usage'[u]
             qq == requests'[u]
             aa == planAttempts'[u]
             planned == plan[u] # NoPlan
             asked == asking[u].rev # 0
             askedNext == asking'[u].rev # 0
  <2>1. /\ usage[u] \in Projection /\ requests[u] \in [Revs -> Request] /\ bindings[u] \in Binding
        /\ planAttempts[u] \in [Revs -> PlanAttemptState] /\ 1 \in Revs
    BY <1>0, RowTypes, ConstantsAssumption DEF Revs
  <2>2. pp \in Projection /\ qq \in [Revs -> Request]
    BY DEF TypeOK
  <2>3. RowInv(planned, asked, usage[u], requests[u], planAttempts[u], claimAttempts[u],
               bindings[u], deliveries[u])
    BY <1>0 DEF Row
  <2>4. usage[u] = NoUsage /\ bindings[u].state = "none"
        /\ \A r \in Revs : requests[u][r].status = "none"
    BY <1>0 DEF Row, RowInv, BlankRow, NoUsage
  <2>5. /\ pp.rev = 1 /\ pp.binding = "none" /\ pp.request = request /\ pp.attempt = attempt
        /\ pp.state = UsageState(request)
    BY <1>0 DEF PlanTask, NoUsage, TypeOK
  <2>6. pp.state # "none" /\ pp.request \in {"none", "pending"}
    BY <2>5 DEF UsageState
  <2>7. qq[1].status = request /\ OnlyRevision(requests[u], qq, 1)
    BY <1>0, <2>1, <2>4 DEF PlanTask, TypeOK, OnlyRevision
  <2>8. aa[1] = attempt
    BY <1>0, <2>1 DEF PlanTask, TypeOK
  <2>9. plan'[u] # NoPlan
    BY <1>0, NoPlanAssumption DEF PlanTask, TypeOK
  <2> HIDE DEF pp, qq, aa, planned, asked, askedNext, request, attempt
  <2>10. RowInv(TRUE, askedNext, pp, qq, aa, claimAttempts[u], bindings[u], deliveries[u])
    BY <2>1, <2>2, <2>3, <2>4, <2>5, <2>6, <2>7, <2>8, PlannedRow, ZenonT(60)
  <2> QED
    BY <2>9, <2>10, RowNext, ZenonT(60) DEF PlanTask, pp, qq, aa, askedNext
<1> QED
  BY <1>1, <1>2

\* What PendingRow says of a usage whose request is to be decided or adapted.
LEMMA PendingUsage ==
  ASSUME TypeOK, NEW u \in Usages, Row(u), usage[u].rev \in Revs,
         requests[u][usage[u].rev].status = "pending"
  PROVE  /\ usage[u].state # "none" /\ usage[u].request = "pending"
         /\ bindings[u].state = "none" /\ deliveries[u] = {}
         /\ NoAttempt(claimAttempts[u])
<1> DEFINE p == usage[u]
           q == requests[u]
           planned == plan[u] # NoPlan
           asked == asking[u].rev # 0
<1>1. RowInv(planned, asked, p, q, planAttempts[u], claimAttempts[u], bindings[u],
             deliveries[u])
  BY DEF Row
<1>2. p \in Projection /\ bindings[u] \in Binding
  BY RowTypes
<1>3. p.rev \in Revs /\ q[p.rev].status = "pending"
  OBVIOUS
<1> HIDE DEF p, q, planned, asked
<1>4. /\ p.state # "none" /\ p.request = "pending"
      /\ bindings[u].state = "none" /\ deliveries[u] = {}
      /\ NoAttempt(claimAttempts[u])
  BY <1>1, <1>2, <1>3, PendingRow
<1> QED
  BY <1>4 DEF p

\* Writing the status of one request.
LEMMA StatusWritten ==
  ASSUME NEW q \in [Revs -> Request], NEW r \in Revs, NEW status
  PROVE  /\ [q EXCEPT ![r].status = status][r].status = status
         /\ OnlyRevision(q, [q EXCEPT ![r].status = status], r)
BY DEF Request, OnlyRevision

LEMMA ApproveRows ==
  ASSUME IInv, TypeOK', NEW u \in Usages, NEW r \in Revs, Approve(u, r),
         asking' = asking \/ QuestionOver(u)
  PROVE  \A v \in Usages : Row(v)'
<1>0. TypeOK /\ (\A v \in Usages : Row(v)) /\ r = usage[u].rev
      /\ requests[u][r].status = "pending" /\ u \notin SameKey(u)
  <2>1. TypeOK /\ (\A v \in Usages : Row(v)) /\ r = usage[u].rev
        /\ requests[u][r].status = "pending"
    BY InvariantByRows DEF Approve, Decidable
  <2>2. bindings[u].state = "none"
    BY <2>1, PendingUsage
  <2> QED
    BY <2>1, <2>2 DEF SameKey, Live
<1>1. \A v \in Usages : v # u => asking'[v] = asking[v]
  BY <1>0 DEF QuestionOver, TypeOK
<1>2. ASSUME NEW v \in Usages, v \notin SameKey(u), v # u PROVE Row(v)'
  <2>1. /\ usage'[v] = usage[v] /\ requests'[v] = requests[v] /\ bindings'[v] = bindings[v]
        /\ claimAttempts'[v] = claimAttempts[v] /\ planAttempts'[v] = planAttempts[v]
    BY <1>0, <1>2 DEF Approve, TypeOK
  <2> QED
    BY <1>0, <1>1, <1>2, <2>1, RowSame DEF Approve
<1>3. ASSUME NEW v \in SameKey(u) PROVE Row(v)'
  <2>1. v \in Usages /\ v # u /\ Live(v)
    BY <1>0 DEF SameKey
  <2>2. /\ usage'[v] = EndedUsage(v, "expired", "approval_expired")
        /\ requests'[v] = EndedRequestRows(v, "expired")
        /\ bindings'[v] = EndedBinding(v, "expired")
        /\ claimAttempts'[v] = FinishedAttempts(v, "interrupted")
        /\ planAttempts'[v] = planAttempts[v]
    BY <1>0, <2>1 DEF Approve, TypeOK, ExpiredUsage
  <2>3. "expired" \in Ended /\ "approval_expired" \in UsageStates \ {"none"}
        /\ "interrupted" \in {"interrupted", "rejected"}
    BY DEF Ended, UsageStates
  <2>4. RowInv(plan[v] # NoPlan, asking[v].rev # 0,
               EndedUsage(v, "expired", "approval_expired"), EndedRequestRows(v, "expired"),
               planAttempts[v], FinishedAttempts(v, "interrupted"), EndedBinding(v, "expired"),
               deliveries[v])
    BY <1>0, <2>1, <2>3, EndedUsageRow
  <2> QED
    BY <1>1, <2>1, <2>2, <2>4 DEF Row, Approve
<1>4. Row(u)'
  <2> DEFINE p == usage[u]
             q == requests[u]
             b == bindings[u]
             c == claimAttempts[u]
             d == deliveries[u]
             pp == usage'[u]
             qq == requests'[u]
             aa == planAttempts'[u]
             bb == bindings'[u]
             planned == plan[u] # NoPlan
             asked == asking[u].rev # 0
             askedNext == asking'[u].rev # 0
  <2>1. /\ p \in Projection /\ q \in [Revs -> Request] /\ b \in Binding
        /\ planAttempts[u] \in [Revs -> PlanAttemptState]
    BY <1>0, RowTypes
  <2>2. pp \in Projection /\ qq \in [Revs -> Request] /\ bb \in Binding
    BY DEF TypeOK
  <2>3. RowInv(planned, asked, p, q, planAttempts[u], c, b, d)
    BY <1>0 DEF Row
  <2>4. p.state # "none" /\ d = {} /\ p.rev \in Revs /\ NoAttempt(c)
    BY <1>0, PendingUsage
  <2>5. /\ pp.state # "none" /\ pp.rev = p.rev /\ pp.request = "approved"
        /\ pp.binding = "active" /\ pp.claim = 0 /\ pp.attempt = "approved"
    <3> DEFINE x == [usage[u] EXCEPT !.request = "approved", !.attempt = "approved",
                                     !.binding = "active", !.claim = 0]
    <3> HIDE DEF x
    <3>1. usage' = [v \in Usages |->
            IF v = u THEN Rewritten(x) ELSE IF v \in SameKey(u) THEN ExpiredUsage(v)
                                                                ELSE usage[v]]
      BY DEF Approve, x
    <3>2. x \in Projection
      <4>1. "approved" \in RequestStatus /\ "approved" \in PlanAttemptState
            /\ "active" \in BindingState /\ 0 \in 0..MaxClaims
        BY ConstantsAssumption DEF RequestStatus, PlanAttemptState, BindingState
      <4> QED
        BY <2>1, <4>1 DEF Projection, x
    <3>3. /\ x.rev = p.rev /\ x.request = "approved" /\ x.binding = "active"
          /\ x.claim = 0 /\ x.attempt = "approved"
      BY <2>1 DEF Projection, x
    <3>4. pp = Rewritten(x)
      BY <3>1
    <3> HIDE DEF pp, p
    <3> QED
      BY <3>2, <3>3, <3>4, RewrittenRow
  <2>6. bb.state = "active" /\ bb.rev = p.rev /\ bb.claim = 0
    BY <1>0 DEF Approve
  <2>7. qq[p.rev].status = "approved" /\ OnlyRevision(q, qq, p.rev)
    <3>1. qq = [q EXCEPT ![r].status = "approved"]
      BY DEF Approve
    <3> QED
      <4>1. p.rev = r
        BY <1>0 DEF Approve, Decidable
      <4>2. q \in [Revs -> Request]
        BY <2>1
      <4> HIDE DEF p, q, qq
      <4>3. \A i \in Revs : qq[i] = IF i = r THEN [q[r] EXCEPT !.status = "approved"] ELSE q[i]
        BY <3>1, <4>2
      <4>4. [q[r] EXCEPT !.status = "approved"].status = "approved"
        BY <4>2 DEF Request
      <4> QED
        BY <4>1, <4>3, <4>4 DEF OnlyRevision
  <2>8. aa[p.rev] = pp.attempt
    <3>1. planAttempts' = [planAttempts EXCEPT ![u][r] = "approved"] /\ p.rev = r
      BY <1>0 DEF Approve, Decidable
    <3>2. planAttempts \in [Usages -> [Revs -> PlanAttemptState]]
      BY <1>0 DEF TypeOK
    <3> QED
      BY <2>5, <3>1, <3>2
  <2>9. claimAttempts'[u] = c /\ deliveries'[u] = d /\ plan'[u] = plan[u]
    BY <1>0 DEF Approve
  <2> HIDE DEF p, q, b, c, d, pp, qq, aa, bb, planned, asked, askedNext
  <2>10. RowInv(planned, askedNext, pp, qq, aa, c, bb, d)
    BY <2>1, <2>2, <2>3, <2>4, <2>5, <2>6, <2>7, <2>8, ApprovedRow
  <2> QED
    BY <2>9, <2>10, RowNext DEF pp, qq, aa, bb, planned, askedNext
<1> QED
  BY <1>2, <1>3, <1>4

LEMMA RefuseRows ==
  ASSUME IInv, TypeOK', NEW u \in Usages, NEW r \in Revs,
         NEW status \in {"denied", "withdrawn"}, Refuse(u, r, status),
         asking' = asking \/ QuestionOver(u)
  PROVE  \A v \in Usages : Row(v)'
<1>0. TypeOK /\ (\A v \in Usages : Row(v)) /\ r = usage[u].rev
      /\ requests[u][r].status = "pending"
  BY InvariantByRows DEF Refuse, Decidable
<1>1. \A v \in Usages : v # u => asking'[v] = asking[v]
  BY <1>0 DEF QuestionOver, TypeOK
<1>2. ASSUME NEW v \in Usages, v # u PROVE Row(v)'
  <2>1. /\ usage'[v] = usage[v] /\ requests'[v] = requests[v]
        /\ planAttempts'[v] = planAttempts[v]
    BY <1>0, <1>2 DEF Refuse, TypeOK
  <2> QED
    BY <1>0, <1>1, <1>2, <2>1, RowSame DEF Refuse
<1>3. Row(u)'
  <2> DEFINE p == usage[u]
             q == requests[u]
             pp == usage'[u]
             qq == requests'[u]
             aa == planAttempts'[u]
             planned == plan[u] # NoPlan
             asked == asking[u].rev # 0
             askedNext == asking'[u].rev # 0
  <2>1. /\ p \in Projection /\ q \in [Revs -> Request] /\ bindings[u] \in Binding
        /\ planAttempts[u] \in [Revs -> PlanAttemptState]
    BY <1>0, RowTypes
  <2>2. pp \in Projection /\ qq \in [Revs -> Request]
    BY DEF TypeOK
  <2>3. RowInv(planned, asked, p, q, planAttempts[u], claimAttempts[u], bindings[u],
               deliveries[u])
    BY <1>0 DEF Row
  <2>4. p.state # "none" /\ p.rev \in Revs /\ bindings[u].state = "none"
    BY <1>0, PendingUsage
  <2>5. /\ pp.state # "none" /\ pp.rev = p.rev /\ pp.request = status
        /\ pp.binding = "none" /\ pp.attempt = "denied"
    <3> DEFINE x == [usage[u] EXCEPT !.request = status, !.attempt = "denied", !.binding = "none"]
    <3> HIDE DEF x
    <3>1. usage' = [usage EXCEPT ![u] = Rewritten(x)]
      BY DEF Refuse, x
    <3>2. x \in Projection
      <4>1. status \in RequestStatus /\ "denied" \in PlanAttemptState /\ "none" \in BindingState
        BY DEF RequestStatus, PlanAttemptState, BindingState
      <4> QED
        BY <2>1, <4>1 DEF Projection, x
    <3>3. x.rev = p.rev /\ x.request = status /\ x.binding = "none" /\ x.attempt = "denied"
      BY <2>1 DEF Projection, x
    <3>4. pp = Rewritten(x)
      BY <1>0, <3>1 DEF TypeOK
    <3> HIDE DEF pp, p
    <3> QED
      BY <3>2, <3>3, <3>4, RewrittenRow
  <2>6. qq[p.rev].status = status /\ OnlyRevision(q, qq, p.rev)
    <3>1. requests' = [requests EXCEPT ![u] = [requests[u] EXCEPT ![r].status = status]]
      BY DEF Refuse
    <3>2. requests \in [Usages -> [Revs -> Request]]
      BY <1>0 DEF TypeOK
    <3>3. qq = [q EXCEPT ![r].status = status]
      BY <3>1, <3>2
    <3>4. r = p.rev /\ q \in [Revs -> Request]
      BY <1>0, <2>1
    <3> HIDE DEF q, qq, p
    <3> QED
      BY <3>3, <3>4 DEF OnlyRevision, Request
  <2>7. aa[p.rev] = pp.attempt
    BY <1>0, <2>1, <2>5 DEF Refuse, TypeOK
  <2>8. /\ claimAttempts'[u] = claimAttempts[u] /\ deliveries'[u] = deliveries[u]
        /\ plan'[u] = plan[u] /\ bindings'[u] = bindings[u]
    BY DEF Refuse
  <2> HIDE DEF p, q, pp, qq, aa, planned, asked, askedNext
  <2>9. RowInv(planned, askedNext, pp, qq, aa, claimAttempts[u], bindings[u], deliveries[u])
    BY <2>1, <2>2, <2>3, <2>4, <2>5, <2>6, <2>7, RefusedRow
  <2> QED
    BY <2>8, <2>9, RowNext DEF pp, qq, aa, planned, askedNext
<1> QED
  BY <1>2, <1>3

LEMMA AnswerAdaptsRows ==
  ASSUME IInv, TypeOK', NEW u \in Usages, AnswerAdapts(u)
  PROVE  \A v \in Usages : Row(v)'
<1>0. TypeOK /\ (\A v \in Usages : Row(v)) /\ requests[u][usage[u].rev].status = "pending"
  BY InvariantByRows DEF AnswerAdapts
<1>1. ASSUME NEW v \in Usages, v # u PROVE Row(v)'
  <2>1. /\ usage'[v] = usage[v] /\ requests'[v] = requests[v]
        /\ planAttempts'[v] = planAttempts[v] /\ asking'[v] = asking[v]
    BY <1>0, <1>1 DEF AnswerAdapts, TypeOK
  <2> QED
    BY <1>0, <1>1, <2>1, RowSame DEF AnswerAdapts
<1>2. Row(u)'
  <2> DEFINE p == usage[u]
             q == requests[u]
             next == p.rev + 1
             pp == usage'[u]
             qq == requests'[u]
             aa == planAttempts'[u]
             planned == plan[u] # NoPlan
             asked == asking[u].rev # 0
             askedNext == asking'[u].rev # 0
             fresh == [status |-> "pending", expires |-> now + Ttl]
  <2>1. /\ p \in Projection /\ q \in [Revs -> Request] /\ bindings[u] \in Binding
        /\ planAttempts[u] \in [Revs -> PlanAttemptState]
    BY <1>0, RowTypes
  <2>2. pp \in Projection /\ qq \in [Revs -> Request]
    BY DEF TypeOK
  <2>3. RowInv(planned, asked, p, q, planAttempts[u], claimAttempts[u], bindings[u],
               deliveries[u])
    BY <1>0 DEF Row
  <2>4. p.rev \in Revs /\ next \in Revs /\ next # p.rev
    <3>1. p.rev \in 0..MaxRev /\ p.rev < MaxRev
      BY <2>1 DEF Projection, AnswerAdapts
    <3>2. p.rev # 0
      BY <1>0 DEF Row, RowInv, BlankRow, NoUsage, AnswerAdapts
    <3> QED
      BY <3>1, <3>2, ConstantsAssumption DEF Revs
  <2>5. p.state # "none" /\ bindings[u].state = "none"
    BY <1>0, <2>4, PendingUsage
  <2>6. /\ pp.state # "none" /\ pp.rev = next /\ pp.request = "pending"
        /\ pp.binding = "none" /\ pp.attempt = "pending_external_decision"
    <3> DEFINE x == [usage[u] EXCEPT !.rev = usage[u].rev + 1, !.request = "pending",
                                     !.attempt = "pending_external_decision",
                                     !.binding = "none", !.claim = 0]
    <3> HIDE DEF x
    <3>1. usage' = [usage EXCEPT ![u] = Rewritten(x)]
      BY DEF AnswerAdapts, x
    <3>2. x \in Projection
      <4>1. /\ "pending" \in RequestStatus /\ "pending_external_decision" \in PlanAttemptState
            /\ "none" \in BindingState /\ 0 \in 0..MaxClaims /\ next \in 0..MaxRev
        BY <2>4, ConstantsAssumption DEF RequestStatus, PlanAttemptState, BindingState, Revs
      <4> QED
        BY <2>1, <4>1 DEF Projection, x
    <3>3. /\ x.rev = next /\ x.request = "pending" /\ x.binding = "none"
          /\ x.attempt = "pending_external_decision"
      BY <2>1 DEF Projection, x
    <3>4. pp = Rewritten(x)
      BY <1>0, <3>1 DEF TypeOK
    <3> HIDE DEF pp, p, next
    <3> QED
      BY <3>2, <3>3, <3>4, RewrittenRow
  <2>7. /\ qq[p.rev].status = "superseded" /\ qq[next].status = "pending"
        /\ \A r \in Revs : r # p.rev /\ r # next => qq[r] = q[r]
    <3> DEFINE y == [q EXCEPT ![p.rev].status = "superseded"]
    <3>1. y[p.rev].status = "superseded" /\ OnlyRevision(q, y, p.rev)
      BY <2>1, <2>4, StatusWritten
    <3>2. qq = [y EXCEPT ![next] = fresh]
      BY <1>0 DEF AnswerAdapts, TypeOK
    <3>3. DOMAIN y = Revs
      BY <2>1
    <3>4. fresh.status = "pending"
      OBVIOUS
    <3> HIDE DEF y, fresh, q, p, next, qq
    <3> QED
      BY <2>4, <3>1, <3>2, <3>3, <3>4 DEF OnlyRevision
  <2>8. aa[next] = pp.attempt
    BY <1>0, <2>1, <2>4, <2>6 DEF AnswerAdapts, TypeOK
  <2>9. /\ claimAttempts'[u] = claimAttempts[u] /\ deliveries'[u] = deliveries[u]
        /\ plan'[u] = plan[u] /\ bindings'[u] = bindings[u]
    BY DEF AnswerAdapts
  <2>10. next = p.rev + 1
    OBVIOUS
  <2> HIDE DEF p, q, pp, qq, aa, next, planned, asked, askedNext
  <2>11. RowInv(planned, askedNext, pp, qq, aa, claimAttempts[u], bindings[u], deliveries[u])
    BY <2>1, <2>2, <2>3, <2>4, <2>5, <2>6, <2>7, <2>8, <2>10, AdaptedRow
  <2> QED
    BY <2>9, <2>11, RowNext DEF pp, qq, aa, planned, askedNext
<1> QED
  BY <1>1, <1>2

LEMMA AnswerRecordedRows ==
  ASSUME IInv, TypeOK', NEW u \in Usages, AnswerRecorded(u)
  PROVE  \A v \in Usages : Row(v)'
<1>0. TypeOK /\ (\A v \in Usages : Row(v)) /\ asking[u].rev # 0
  BY InvariantByRows DEF AnswerRecorded, Asked
<1>1. PICK attempt \in PlanAttemptState :
        /\ planAttempts' = [planAttempts EXCEPT ![u][usage[u].rev] = attempt]
        /\ usage' = [usage EXCEPT ![u] = Rewritten([@ EXCEPT !.attempt = attempt])]
  BY DEF AnswerRecorded, PlanAttemptState
<1>2. ASSUME NEW v \in Usages, v # u PROVE Row(v)'
  <2>1. /\ usage'[v] = usage[v] /\ planAttempts'[v] = planAttempts[v] /\ asking'[v] = asking[v]
    BY <1>0, <1>1, <1>2 DEF AnswerRecorded, QuestionOver, TypeOK
  <2> QED
    BY <1>0, <1>2, <2>1, RowSame DEF AnswerRecorded
<1>3. Row(u)'
  <2> DEFINE p == usage[u]
             pp == usage'[u]
             aa == planAttempts'[u]
             planned == plan[u] # NoPlan
             asked == asking[u].rev # 0
             askedNext == asking'[u].rev # 0
  <2>1. /\ p \in Projection /\ requests[u] \in [Revs -> Request] /\ bindings[u] \in Binding
        /\ planAttempts[u] \in [Revs -> PlanAttemptState]
    BY <1>0, RowTypes
  <2>2. pp \in Projection
    BY DEF TypeOK
  <2>3. RowInv(planned, asked, p, requests[u], planAttempts[u], claimAttempts[u], bindings[u],
               deliveries[u])
    BY <1>0 DEF Row
  <2>4. p.state # "none" /\ p.rev \in Revs
    <3>1. p.state # "none" /\ p.rev # 0
      BY <1>0 DEF Row, RowInv, BlankRow
    <3> QED
      BY <2>1, <3>1, ConstantsAssumption DEF Projection, Revs
  <2>5. /\ pp.state # "none" /\ pp.rev = p.rev /\ pp.request = p.request
        /\ pp.binding = p.binding /\ pp.claim = p.claim /\ pp.attempt = attempt
    <3> DEFINE x == [usage[u] EXCEPT !.attempt = attempt]
    <3> HIDE DEF x
    <3>1. usage' = [usage EXCEPT ![u] = Rewritten(x)]
      BY <1>1 DEF x
    <3>2. x \in Projection
      BY <2>1 DEF Projection, x
    <3>3. /\ x.rev = p.rev /\ x.request = p.request /\ x.binding = p.binding
          /\ x.claim = p.claim /\ x.attempt = attempt
      BY <2>1 DEF Projection, x
    <3>4. pp = Rewritten(x)
      BY <1>0, <3>1 DEF TypeOK
    <3> HIDE DEF pp, p
    <3> QED
      BY <3>2, <3>3, <3>4, RewrittenRow
  <2>6. aa[p.rev] = pp.attempt
    BY <1>0, <1>1, <2>1, <2>4, <2>5 DEF TypeOK
  <2>7. /\ claimAttempts'[u] = claimAttempts[u] /\ deliveries'[u] = deliveries[u]
        /\ plan'[u] = plan[u] /\ bindings'[u] = bindings[u] /\ requests'[u] = requests[u]
    BY DEF AnswerRecorded
  <2> HIDE DEF p, pp, aa, planned, asked, askedNext
  <2>8. RowInv(planned, askedNext, pp, requests[u], aa, claimAttempts[u], bindings[u],
               deliveries[u])
    BY <2>1, <2>2, <2>3, <2>4, <2>5, <2>6, RecordedRow
  <2> QED
    BY <2>7, <2>8, RowNext DEF pp, aa, planned, askedNext
<1> QED
  BY <1>2, <1>3

LEMMA AnswerLostRows ==
  ASSUME IInv, NEW u \in Usages, AnswerLost(u)
  PROVE  \A v \in Usages : Row(v)'
<1>1. ASSUME NEW v \in Usages PROVE Row(v)'
  <2>1. TypeOK /\ Row(v)
    BY InvariantByRows
  <2>2. asking'[v] = asking[v] \/ asking'[v].rev = 0
    BY <2>1 DEF AnswerLost, QuestionOver, NoQuestion, TypeOK
  <2>3. CASE asking'[v] = asking[v]
    BY <2>1, <2>3, RowSame DEF AnswerLost, tables
  <2>4. CASE asking'[v].rev = 0
    BY <2>1, <2>4 DEF Row, RowInv, BlankRow, AnswerLost, tables
  <2> QED
    BY <2>2, <2>3, <2>4
<1> QED
  BY <1>1

-----------------------------------------------------------------------------
\* What the transactions of an admission do to the rows of every usage.

LEMMA ClaimNothingRows ==
  ASSUME IInv, NEW s \in Sessions, NEW t \in Tasks, ClaimNothing(s, t)
  PROVE  \A v \in Usages : Row(v)'
<1>1. ASSUME NEW v \in Usages PROVE Row(v)'
  <2>1. RowInv(plan[v] # NoPlan, asking[v].rev # 0, SweptUsage(s, t)[v],
               SweptRequests(s, t)[v], planAttempts[v], SweptAttempts(s, t)[v],
               SweptBindings(s, t)[v], deliveries[v])
    BY SweptRow, InvariantByRows
  <2>2. /\ usage' = SweptUsage(s, t) /\ requests' = SweptRequests(s, t)
        /\ claimAttempts' = SweptAttempts(s, t) /\ bindings' = SweptBindings(s, t)
        /\ UNCHANGED <<plan, asking, planAttempts, deliveries>>
    BY DEF ClaimNothing
  <2> QED
    BY <2>1, <2>2 DEF Row
<1> QED
  BY <1>1

\* The binding a claim takes is not ended by its sweep, and after the sweep
\* nobody may enter on it any more.
LEMMA ClaimedUsage ==
  ASSUME IInv, NEW s \in Sessions, NEW t \in Tasks, NEW u \in Usages, ClaimBinding(s, t, u)
  PROVE  /\ Live(u) /\ SweptUsage(s, t)[u] = usage[u] /\ SweptBindings(s, t)[u] = bindings[u]
         /\ SweptRequests(s, t)[u] = requests[u]
         /\ \A i \in Claims : SweptAttempts(s, t)[u][i] # "ready_to_enter"
<1>1. u \in Unleased(s, t) /\ u \in Matching(s, t) /\ u \notin Dead(s, t)
  BY DEF ClaimBinding, Eligible, Unleased
<1>2. Live(u)
  BY <1>1 DEF Matching
<1>3. /\ SweptUsage(s, t)[u] = usage[u] /\ SweptBindings(s, t)[u] = bindings[u]
      /\ SweptRequests(s, t)[u] = requests[u]
  BY <1>1 DEF SweptUsage, SweptBindings, SweptRequests
<1>4. CASE bindings[u].state = "claimed"
  <2>1. SweptAttempts(s, t)[u] = FinishedAttempts(u, "interrupted")
    BY <1>1, <1>4 DEF SweptAttempts, Lapsed
  <2>2. NoneReady(claimAttempts[u], FinishedAttempts(u, "interrupted"))
    BY FinishedRow, InvariantByRows
  <2> QED
    BY <1>2, <1>3, <2>1, <2>2 DEF NoneReady
<1>5. CASE bindings[u].state # "claimed"
  <2>1. SweptAttempts(s, t)[u] = claimAttempts[u]
    BY <1>1, <1>5 DEF SweptAttempts, Lapsed
  <2>2. \A i \in Claims : claimAttempts[u][i] # "ready_to_enter"
    BY <1>5, InvariantByRows DEF Row, RowInv, OwnedRow
  <2> QED
    BY <1>2, <1>3, <2>1, <2>2
<1> QED
  BY <1>4, <1>5

LEMMA ClaimBindingRows ==
  ASSUME IInv, TypeOK', NEW s \in Sessions, NEW t \in Tasks, NEW u \in Usages,
         ClaimBinding(s, t, u)
  PROVE  \A v \in Usages : Row(v)'
<1> DEFINE ru == SweptUsage(s, t)
           rc == SweptAttempts(s, t)
           rb == SweptBindings(s, t)
           k == NextClaim(u)
<1>0. TypeOK /\ \A v \in Usages : Row(v)
  BY InvariantByRows
<1>1. /\ ru \in [Usages -> Projection] /\ rb \in [Usages -> Binding]
      /\ rc \in [Usages -> [Claims -> ClaimAttemptState]]
  BY <1>0, SweptTypes
<1>2. /\ bindings' = [rb EXCEPT ![u].state = "claimed", ![u].claim = k,
                                ![u].lease = now + LeaseTime]
      /\ claimAttempts' = [rc EXCEPT ![u][k] = "ready_to_enter"]
      /\ usage' = [ru EXCEPT ![u] = Rewritten([@ EXCEPT !.binding = "claimed", !.claim = k])]
      /\ requests' = SweptRequests(s, t)
      /\ UNCHANGED <<plan, asking, planAttempts, deliveries>>
  BY DEF ClaimBinding
<1>3. ASSUME NEW v \in Usages
      PROVE  RowInv(plan[v] # NoPlan, asking[v].rev # 0, ru[v], SweptRequests(s, t)[v],
                    planAttempts[v], rc[v], rb[v], deliveries[v])
  BY <1>0, SweptRow
<1>4. /\ Live(u) /\ ru[u] = usage[u] /\ rb[u] = bindings[u]
      /\ SweptRequests(s, t)[u] = requests[u]
      /\ \A i \in Claims : rc[u][i] # "ready_to_enter"
  BY ClaimedUsage
<1>5. k \in Claims /\ k = bindings[u].claim + 1 /\ k \in 0..MaxClaims
  BY <1>0, RowTypes, ConstantsAssumption DEF NextClaim, Binding, ClaimBinding, Claims
<1> HIDE DEF ru, rc, rb, k
<1>6. ASSUME NEW v \in Usages, v # u PROVE Row(v)'
  <2>1. usage'[v] = ru[v] /\ claimAttempts'[v] = rc[v] /\ bindings'[v] = rb[v]
    BY <1>1, <1>2, <1>6
  <2> QED
    BY <1>2, <1>3, <2>1 DEF Row
<1>7. Row(u)'
  <2> DEFINE p == usage[u]
             b == bindings[u]
             c == rc[u]
             pp == usage'[u]
             bb == bindings'[u]
             cc == claimAttempts'[u]
             planned == plan[u] # NoPlan
             asked == asking[u].rev # 0
  <2>1. /\ p \in Projection /\ requests[u] \in [Revs -> Request] /\ b \in Binding
        /\ pp \in Projection /\ bb \in Binding
    BY <1>0, RowTypes DEF TypeOK
  <2>2. RowInv(planned, asked, p, requests[u], planAttempts[u], c, b, deliveries[u])
    BY <1>3, <1>4
  <2>3. /\ p.state # "none" /\ p.request = "approved" /\ p.rev \in Revs /\ p.rev = b.rev
        /\ deliveries[u] = {}
    BY <1>0, <1>4, LiveUsage
  <2>4. b.state \in {"active", "claimed"}
    BY <1>4 DEF Live
  <2>5. /\ pp.state # "none" /\ pp.rev = p.rev /\ pp.request = "approved"
        /\ pp.attempt = p.attempt /\ pp.binding = "claimed" /\ pp.claim = k
    <3> DEFINE x == [ru[u] EXCEPT !.binding = "claimed", !.claim = k]
    <3> HIDE DEF x
    <3>1. pp = Rewritten(x)
      BY <1>1, <1>2 DEF x
    <3>2. x \in Projection
      <4>1. "claimed" \in BindingState
        BY DEF BindingState
      <4> QED
        BY <1>1, <1>5, <4>1 DEF Projection, x
    <3>3. /\ x.rev = p.rev /\ x.request = p.request /\ x.attempt = p.attempt
          /\ x.binding = "claimed" /\ x.claim = k
      BY <1>1, <1>4, <2>1 DEF Projection, x
    <3> HIDE DEF p, pp
    <3> QED
      BY <2>3, <3>1, <3>2, <3>3, RewrittenRow
  <2>6. bb.state = "claimed" /\ bb.rev = b.rev /\ bb.claim = k
    <3>1. bb = [rb[u] EXCEPT !.state = "claimed", !.claim = k, !.lease = now + LeaseTime]
      BY <1>1, <1>2
    <3> QED
      BY <1>4, <2>1, <3>1 DEF Binding
  <2>7. cc[k] = "ready_to_enter" /\ OnlyClaim(c, cc, k)
    BY <1>1, <1>2, <1>5 DEF OnlyClaim
  <2>8. \A i \in Claims : c[i] # "ready_to_enter"
    BY <1>4
  <2>9. k \in Claims /\ k = b.claim + 1
    BY <1>5
  <2> HIDE DEF p, b, c, pp, bb, cc, planned, asked
  <2>10. RowInv(planned, asked, pp, requests[u], planAttempts[u], cc, bb, deliveries[u])
    BY <2>1, <2>2, <2>3, <2>4, <2>5, <2>6, <2>7, <2>8, <2>9, ClaimedRow
  <2> QED
    BY <1>2, <1>4, <2>10 DEF Row, pp, bb, cc, planned, asked
<1> QED
  BY <1>6, <1>7

LEMMA ConsumeSupersededRows ==
  ASSUME IInv, NEW s \in Sessions, NEW sameFacts \in BOOLEAN, ConsumeSuperseded(s, sameFacts),
         NEW u \in Usages, u = admission[s][1]
  PROVE  \A v \in Usages : Row(v)'
<1>0. TypeOK /\ \A v \in Usages : Row(v)
  BY InvariantByRows
<1>1. Live(u)
  BY <1>0 DEF ConsumeSuperseded, TypeOK, ClaimIsCurrent, Leased, Live
<1>2. /\ requests' = [requests EXCEPT ![u] = EndedRequestRows(u, "superseded")]
      /\ claimAttempts' = [claimAttempts EXCEPT ![u] = FinishedAttempts(u, "rejected")]
      /\ bindings' = [bindings EXCEPT ![u] = EndedBinding(u, "superseded")]
      /\ usage' = [usage EXCEPT ![u] = EndedUsage(u, "superseded", "approval_superseded")]
      /\ UNCHANGED <<plan, asking, planAttempts, deliveries>>
  BY DEF ConsumeSuperseded
<1>3. ASSUME NEW v \in Usages, v # u PROVE Row(v)'
  <2>1. /\ usage'[v] = usage[v] /\ requests'[v] = requests[v]
        /\ claimAttempts'[v] = claimAttempts[v] /\ bindings'[v] = bindings[v]
    BY <1>0, <1>2, <1>3 DEF TypeOK
  <2> QED
    BY <1>0, <1>2, <2>1, RowSame
<1>4. Row(u)'
  <2>1. "superseded" \in Ended /\ "approval_superseded" \in UsageStates \ {"none"}
        /\ "rejected" \in {"interrupted", "rejected"}
    BY DEF Ended, UsageStates
  <2>2. RowInv(plan[u] # NoPlan, asking[u].rev # 0,
               EndedUsage(u, "superseded", "approval_superseded"),
               EndedRequestRows(u, "superseded"), planAttempts[u],
               FinishedAttempts(u, "rejected"), EndedBinding(u, "superseded"), deliveries[u])
    BY <1>0, <1>1, <2>1, EndedUsageRow
  <2>3. /\ usage'[u] = EndedUsage(u, "superseded", "approval_superseded")
        /\ requests'[u] = EndedRequestRows(u, "superseded")
        /\ claimAttempts'[u] = FinishedAttempts(u, "rejected")
        /\ bindings'[u] = EndedBinding(u, "superseded")
    BY <1>0, <1>1, <1>2 DEF TypeOK
  <2> QED
    BY <1>2, <2>2, <2>3 DEF Row
<1> QED
  BY <1>3, <1>4

LEMMA ConsumeDeliversRows ==
  ASSUME IInv, TypeOK', NEW s \in Sessions, NEW sameFacts \in BOOLEAN,
         ConsumeDelivers(s, sameFacts),
         NEW u \in Usages, NEW k \in Claims, u = admission[s][1], k = admission[s][2]
  PROVE  \A v \in Usages : Row(v)'
<1>0. TypeOK /\ \A v \in Usages : Row(v)
  BY InvariantByRows
<1>1. /\ Live(u) /\ k = bindings[u].claim
      /\ bindings[u].state = "claimed"
  BY <1>0 DEF ConsumeDelivers, TypeOK, ClaimIsCurrent, Leased, Live
<1>2. /\ deliveries' = [deliveries EXCEPT ![u] = @ \cup {<<s, k>>}]
      /\ bindings' = [bindings EXCEPT ![u] = EndedBinding(u, "consumed")]
      /\ claimAttempts' = [claimAttempts EXCEPT ![u][k] = "entered"]
      /\ usage' = [usage EXCEPT ![u].state = "context_prepared",
                                ![u].binding = "consumed", ![u].claim = k]
      /\ UNCHANGED <<plan, asking, planAttempts, requests>>
  BY DEF ConsumeDelivers
<1>3. ASSUME NEW v \in Usages, v # u PROVE Row(v)'
  <2>1. /\ usage'[v] = usage[v] /\ deliveries'[v] = deliveries[v]
        /\ claimAttempts'[v] = claimAttempts[v] /\ bindings'[v] = bindings[v]
    BY <1>0, <1>2, <1>3 DEF TypeOK
  <2> QED
    BY <1>0, <1>2, <2>1, RowSame
<1>4. Row(u)'
  <2> DEFINE p == usage[u]
             b == bindings[u]
             c == claimAttempts[u]
             d == deliveries[u]
             pp == usage'[u]
             bb == bindings'[u]
             cc == claimAttempts'[u]
             dd == deliveries'[u]
             x == <<s, k>>
             planned == plan[u] # NoPlan
             asked == asking[u].rev # 0
  <2>1. /\ p \in Projection /\ requests[u] \in [Revs -> Request] /\ b \in Binding
        /\ pp \in Projection /\ bb \in Binding /\ c \in [Claims -> ClaimAttemptState]
    BY <1>0, <1>1, RowTypes DEF TypeOK
  <2>2. RowInv(planned, asked, p, requests[u], planAttempts[u], c, b, d)
    BY <1>0, <1>1 DEF Row
  <2>3. /\ p.state # "none" /\ p.request = "approved" /\ p.rev \in Revs /\ p.rev = b.rev
        /\ d = {}
    BY <1>0, <1>1, LiveUsage
  <2>4. b.state = "claimed" /\ b.claim \in Claims /\ x[2] = b.claim
    BY <1>1
  <2>5. /\ pp.state # "none" /\ pp.rev = p.rev /\ pp.request = "approved"
        /\ pp.attempt = p.attempt /\ pp.binding = "consumed" /\ pp.claim = b.claim
    <3>1. pp = [p EXCEPT !.state = "context_prepared", !.binding = "consumed", !.claim = k]
      BY <1>0, <1>1, <1>2 DEF TypeOK
    <3> HIDE DEF p, pp
    <3> QED
      BY <1>1, <2>1, <2>3, <3>1 DEF Projection
  <2>6. bb.state = "consumed" /\ bb.rev = b.rev /\ bb.claim = b.claim
    <3>1. bb = EndedBinding(u, "consumed")
      BY <1>0, <1>1, <1>2 DEF TypeOK
    <3> QED
      BY <2>1, <3>1 DEF EndedBinding, Binding
  <2>7. cc[b.claim] = "entered" /\ OnlyClaim(c, cc, b.claim)
    BY <1>0, <1>1, <1>2, <2>1 DEF OnlyClaim, TypeOK
  <2>8. dd = {x}
    BY <1>0, <1>1, <1>2, <2>3 DEF TypeOK
  <2> HIDE DEF p, b, c, d, pp, bb, cc, dd, x, planned, asked
  <2>9. RowInv(planned, asked, pp, requests[u], planAttempts[u], cc, bb, dd)
    BY <2>1, <2>2, <2>3, <2>4, <2>5, <2>6, <2>7, <2>8, ConsumedRow
  <2> QED
    BY <1>2, <2>9 DEF Row, pp, bb, cc, dd, planned, asked
<1> QED
  BY <1>3, <1>4

-----------------------------------------------------------------------------
\* Claims held by sessions.

\* The attempt was made and has not entered.
Open(u, k) == claimAttempts[u][k] \notin {"none", "entered"}

\* Sessions that only let go of claims, while attempts stay open, keep them exclusive.
LEMMA ExclusiveKept ==
  ASSUME TypeOK, ClaimsExclusive,
         \A s \in Sessions : admission'[s] \in {admission[s], NoClaim},
         \A u \in Usages, k \in Claims : Open(u, k) => Open(u, k)'
  PROVE  ClaimsExclusive'
<1>1. ASSUME NEW s \in Sessions, admission'[s] # NoClaim
      PROVE  claimAttempts'[admission'[s][1]][admission'[s][2]] \notin {"none", "entered"}
             /\ \A t \in Sessions : admission'[t] = admission'[s] => t = s
  <2>1. admission'[s] = admission[s] /\ admission[s] \in Usages \X Claims
    BY <1>1 DEF TypeOK
  <2>2. Open(admission[s][1], admission[s][2])
    BY <1>1, <2>1 DEF ClaimsExclusive, Open
  <2>3. PICK u \in Usages, k \in Claims : admission[s] = <<u, k>>
    BY <2>1
  <2>4. claimAttempts'[u][k] \notin {"none", "entered"}
    BY <2>2, <2>3 DEF Open
  <2>5. \A t \in Sessions : admission'[t] = admission'[s] => t = s
    BY <1>1, <2>1 DEF ClaimsExclusive
  <2> QED
    BY <2>1, <2>3, <2>4, <2>5
<1> QED
  BY <1>1 DEF ClaimsExclusive

\* Ending an attempt that may still enter leaves it open in that sense.
LEMMA FinishedOpen ==
  ASSUME TypeOK, NEW u \in Usages, Row(u), NEW outcome \in {"interrupted", "rejected"},
         NEW k \in Claims
  PROVE  Open(u, k) => FinishedAttempts(u, outcome)[k] \notin {"none", "entered"}
BY FinishedRow DEF Open, NoneReady

LEMMA SweptOpen ==
  ASSUME IInv, NEW s \in Sessions, NEW t \in Tasks
  PROVE  \A u \in Usages, k \in Claims :
           Open(u, k) => SweptAttempts(s, t)[u][k] \notin {"none", "entered"}
<1>1. ASSUME NEW u \in Usages, NEW k \in Claims, Open(u, k)
      PROVE  SweptAttempts(s, t)[u][k] \notin {"none", "entered"}
  <2>1. TypeOK /\ Row(u)
    BY InvariantByRows
  <2>2. FinishedAttempts(u, "interrupted")[k] \notin {"none", "entered"}
    BY <1>1, <2>1, FinishedOpen
  <2>3. SweptAttempts(s, t)[u] \in {FinishedAttempts(u, "interrupted"), claimAttempts[u]}
    BY DEF SweptAttempts
  <2> QED
    BY <1>1, <2>2, <2>3 DEF Open
<1> QED
  BY <1>1

LEMMA ApproveExclusive ==
  ASSUME IInv, NEW u \in Usages, NEW r \in Revs, Approve(u, r)
  PROVE  ClaimsExclusive'
<1>1. TypeOK /\ ClaimsExclusive /\ \A v \in Usages : Row(v)
  BY InvariantByRows
<1>2. ASSUME NEW v \in Usages, NEW k \in Claims, Open(v, k) PROVE Open(v, k)'
  <2>1. FinishedAttempts(v, "interrupted")[k] \notin {"none", "entered"}
    BY <1>1, <1>2, FinishedOpen
  <2>2. claimAttempts'[v] \in {FinishedAttempts(v, "interrupted"), claimAttempts[v]}
    BY DEF Approve
  <2> QED
    BY <1>2, <2>1, <2>2 DEF Open
<1>3. admission' = admission
  BY DEF Approve
<1> QED
  BY <1>1, <1>2, <1>3, ExclusiveKept

LEMMA ClaimBindingExclusive ==
  ASSUME IInv, NEW s \in Sessions, NEW t \in Tasks, NEW u \in Usages, ClaimBinding(s, t, u)
  PROVE  ClaimsExclusive'
<1> DEFINE k == NextClaim(u)
           rc == SweptAttempts(s, t)
<1>0. TypeOK /\ ClaimsExclusive /\ Row(u)
  BY InvariantByRows
<1>1. k \in Claims /\ k > bindings[u].claim
  <2>1. bindings[u].claim \in 0..MaxClaims /\ bindings[u].claim < MaxClaims
    BY <1>0, RowTypes DEF Binding, ClaimBinding
  <2> QED
    BY <2>1, ConstantsAssumption DEF NextClaim, Claims
<1>2. claimAttempts[u][k] = "none"
  BY <1>0, <1>1, RowTypes, ConstantsAssumption DEF Row, RowInv, OwnedRow, Claims, Binding
<1>3. \A v \in Usages, i \in Claims : Open(v, i) => rc[v][i] \notin {"none", "entered"}
  BY SweptOpen
<1>4. rc \in [Usages -> [Claims -> ClaimAttemptState]]
  BY <1>0, SweptTypes
<1>5. /\ claimAttempts' = [rc EXCEPT ![u] = [rc[u] EXCEPT ![k] = "ready_to_enter"]]
      /\ admission' = [admission EXCEPT ![s] = <<u, k>>]
  BY DEF ClaimBinding
<1> HIDE DEF k, rc
<1>6. \A v \in Usages, i \in Claims : Open(v, i) => claimAttempts'[v][i] \notin {"none", "entered"}
  BY <1>3, <1>4, <1>5
<1>7. claimAttempts'[u][k] = "ready_to_enter"
  BY <1>1, <1>4, <1>5
<1>8. admission'[s] = <<u, k>> /\ \A x \in Sessions : x # s => admission'[x] = admission[x]
  BY <1>0, <1>5 DEF TypeOK
<1>9. \A x \in Sessions : admission[x] # NoClaim =>
        /\ admission[x] \in Usages \X Claims
        /\ Open(admission[x][1], admission[x][2])
        /\ \A y \in Sessions : admission[y] = admission[x] => y = x
  BY <1>0 DEF TypeOK, ClaimsExclusive, Open
<1>10. \A x \in Sessions : admission[x] # <<u, k>> \/ admission[x] = NoClaim
  BY <1>2, <1>9 DEF Open
<1>11. ASSUME NEW x \in Sessions, admission'[x] # NoClaim
       PROVE  /\ claimAttempts'[admission'[x][1]][admission'[x][2]] \notin {"none", "entered"}
              /\ \A y \in Sessions : admission'[y] = admission'[x] => y = x
  <2>1. CASE x = s
    <3>1. \A y \in Sessions : admission'[y] = <<u, k>> => y = s
      BY <1>8, <1>10, <1>11, <2>1
    <3> QED
      BY <1>7, <1>8, <2>1, <3>1
  <2>2. CASE x # s
    <3>1. admission'[x] = admission[x] /\ admission[x] # <<u, k>>
      BY <1>8, <1>10, <1>11, <2>2
    <3>2. claimAttempts'[admission[x][1]][admission[x][2]] \notin {"none", "entered"}
      BY <1>6, <1>9, <1>11, <3>1
    <3>3. \A y \in Sessions : admission'[y] = admission'[x] => y = x
      BY <1>8, <1>9, <1>11, <3>1
    <3> QED
      BY <3>1, <3>2, <3>3
  <2> QED
    BY <2>1, <2>2
<1> QED
  BY <1>11 DEF ClaimsExclusive

LEMMA ConsumeSupersededExclusive ==
  ASSUME IInv, NEW s \in Sessions, NEW sameFacts \in BOOLEAN, ConsumeSuperseded(s, sameFacts),
         NEW u \in Usages, u = admission[s][1]
  PROVE  ClaimsExclusive'
<1>1. TypeOK /\ ClaimsExclusive /\ Row(u)
  BY InvariantByRows
<1>2. /\ claimAttempts' = [claimAttempts EXCEPT ![u] = FinishedAttempts(u, "rejected")]
      /\ admission' = [admission EXCEPT ![s] = NoClaim]
  BY DEF ConsumeSuperseded
<1>3. ASSUME NEW v \in Usages, NEW k \in Claims, Open(v, k) PROVE Open(v, k)'
  <2>1. CASE v = u
    <3>1. claimAttempts'[u] = FinishedAttempts(u, "rejected")
      BY <1>1, <1>2 DEF TypeOK
    <3> QED
      BY <1>1, <1>3, <2>1, <3>1, FinishedOpen DEF Open
  <2>2. CASE v # u
    BY <1>1, <1>2, <1>3, <2>2 DEF TypeOK, Open
  <2> QED
    BY <2>1, <2>2
<1>4. \A x \in Sessions : admission'[x] \in {admission[x], NoClaim}
  BY <1>1, <1>2 DEF TypeOK
<1> QED
  BY <1>1, <1>3, <1>4, ExclusiveKept

LEMMA ConsumeDeliversExclusive ==
  ASSUME IInv, NEW s \in Sessions, NEW sameFacts \in BOOLEAN, ConsumeDelivers(s, sameFacts),
         NEW u \in Usages, NEW k \in Claims, admission[s] = <<u, k>>
  PROVE  ClaimsExclusive'
<1>0. TypeOK /\ ClaimsExclusive /\ admission[s] # NoClaim
  BY InvariantByRows DEF ConsumeDelivers
<1>1. /\ claimAttempts' = [claimAttempts EXCEPT ![u] = [claimAttempts[u] EXCEPT ![k] = "entered"]]
      /\ admission' = [admission EXCEPT ![s] = NoClaim]
  BY DEF ConsumeDelivers
<1>2. ASSUME NEW x \in Sessions, admission'[x] # NoClaim
      PROVE  /\ claimAttempts'[admission'[x][1]][admission'[x][2]] \notin {"none", "entered"}
             /\ \A y \in Sessions : admission'[y] = admission'[x] => y = x
  <2>1. x # s /\ admission'[x] = admission[x] /\ \A y \in Sessions : admission'[y] \in {admission[y], NoClaim}
    BY <1>0, <1>1, <1>2 DEF TypeOK
  <2>2. PICK v \in Usages, i \in Claims : admission[x] = <<v, i>>
    BY <1>0, <1>2, <2>1 DEF TypeOK
  <2>3. claimAttempts[v][i] \notin {"none", "entered"}
    <3>1. claimAttempts[admission[x][1]][admission[x][2]] \notin {"none", "entered"}
      BY <1>0, <1>2, <2>1 DEF ClaimsExclusive
    <3> QED
      BY <2>2, <3>1
  <2>4. <<v, i>> # <<u, k>>
    BY <1>0, <1>2, <2>1, <2>2 DEF ClaimsExclusive
  <2>5. claimAttempts'[v][i] = claimAttempts[v][i]
    BY <1>0, <1>1, <2>4 DEF TypeOK
  <2>6. \A y \in Sessions : admission'[y] = admission'[x] => y = x
    BY <1>0, <1>2, <2>1 DEF ClaimsExclusive
  <2> QED
    BY <2>1, <2>2, <2>3, <2>5, <2>6
<1> QED
  BY <1>2 DEF ClaimsExclusive

-----------------------------------------------------------------------------
\* Live bindings.

\* Bindings that only end keep the exact keys apart.
LEMMA AuthorizationKept ==
  ASSUME OneAuthorizationPerKey,
         \A v \in Usages : Live(v)' => Live(v) /\ plan'[v] = plan[v]
  PROVE  OneAuthorizationPerKey'
BY DEF OneAuthorizationPerKey

LEMMA ApproveAuthorization ==
  ASSUME IInv, NEW u \in Usages, NEW r \in Revs, Approve(u, r)
  PROVE  OneAuthorizationPerKey'
<1>1. TypeOK /\ OneAuthorizationPerKey
  BY InvariantByRows
<1>2. plan' = plan
  BY DEF Approve
<1>3. \A v \in Usages : Live(v)' /\ v # u => Live(v) /\ v \notin SameKey(u)
  <2>1. ASSUME NEW v \in Usages, v # u
        PROVE  bindings'[v] = IF v \in SameKey(u) THEN EndedBinding(v, "expired") ELSE bindings[v]
    BY <2>1 DEF Approve
  <2>2. \A v \in Usages : EndedBinding(v, "expired").state = "expired"
    BY <1>1, RowTypes DEF EndedBinding, Binding
  <2> QED
    BY <2>1, <2>2 DEF Live
<1>4. \A v \in Usages : Live(v)' /\ v # u =>
        ~(plan[v].task = plan[u].task /\ plan[v].scope = plan[u].scope)
  BY <1>3 DEF SameKey
<1> QED
  BY <1>1, <1>2, <1>3, <1>4 DEF OneAuthorizationPerKey

LEMMA SweptLive ==
  ASSUME TypeOK, NEW s \in Sessions, NEW t \in Tasks, NEW v \in Usages
  PROVE  SweptBindings(s, t)[v].state \in {"active", "claimed"} => Live(v)
<1>1. EndedBinding(v, "expired").state = "expired"
  BY RowTypes DEF EndedBinding, Binding
<1> QED
  BY <1>1 DEF SweptBindings, Live

LEMMA ClaimBindingAuthorization ==
  ASSUME IInv, NEW s \in Sessions, NEW t \in Tasks, NEW u \in Usages, ClaimBinding(s, t, u)
  PROVE  OneAuthorizationPerKey'
<1>1. TypeOK /\ OneAuthorizationPerKey /\ Live(u)
  BY InvariantByRows, ClaimedUsage
<1>2. plan' = plan /\ SweptBindings(s, t) \in [Usages -> Binding]
  BY <1>1, SweptTypes DEF ClaimBinding
<1>3. \A v \in Usages : v # u => bindings'[v] = SweptBindings(s, t)[v]
  BY <1>2 DEF ClaimBinding
<1>4. \A v \in Usages : Live(v)' => Live(v)
  BY <1>1, <1>3, SweptLive DEF Live
<1> QED
  BY <1>1, <1>2, <1>4, AuthorizationKept

-----------------------------------------------------------------------------
\* The invariant of the next state, put together from its parts.
RowsHold == \A u \in Usages : Row(u)

LEMMA RowsInvariant ==
  TypeOK /\ ClaimsExclusive /\ OneAuthorizationPerKey /\ RowsHold => IInv
BY InvariantByRows DEF RowsHold

LEMMA NextRowsInvariant ==
  TypeOK' /\ ClaimsExclusive' /\ OneAuthorizationPerKey' /\ RowsHold' => IInv'
BY RowsInvariant, PTL

LEMMA NextByRows ==
  ASSUME TypeOK', ClaimsExclusive', OneAuthorizationPerKey', \A u \in Usages : Row(u)'
  PROVE  IInv'
<1>1. RowsHold'
  BY DEF RowsHold
<1> QED
  BY <1>1, NextRowsInvariant

LEMMA InitInvariant == Init => IInv
<1> SUFFICES ASSUME Init PROVE IInv
  OBVIOUS
<1>1. TypeOK
  BY InitTypes
<1>2. ASSUME NEW u \in Usages PROVE Row(u)
  <2>1. /\ plan[u] = NoPlan /\ asking[u].rev = 0 /\ usage[u] = NoUsage
        /\ bindings[u].state = "none" /\ bindings[u].claim = 0 /\ deliveries[u] = {}
        /\ \A r \in Revs : requests[u][r].status = "none"
        /\ \A k \in Claims : claimAttempts[u][k] = "none"
    BY DEF Init, NoQuestion, NoBinding
  <2> QED
    BY <2>1 DEF Row, RowInv, BlankRow, NumberedRow, FittingRow, OwnedRow, NoUsage, Granted, Revs
<1>3. ClaimsExclusive
  BY DEF Init, ClaimsExclusive
<1>4. OneAuthorizationPerKey
  BY DEF Init, OneAuthorizationPerKey, Live, NoBinding
<1> QED
  BY <1>1, <1>2, <1>3, <1>4, InvariantByRows

\* Every transaction keeps the invariant.
LEMMA StepInvariant == IInv /\ [Next]_vars => IInv'
<1> SUFFICES ASSUME IInv, [Next]_vars PROVE IInv'
  OBVIOUS
<1>0. TypeOK /\ ClaimsExclusive /\ OneAuthorizationPerKey /\ (\A u \in Usages : Row(u)) /\ TypeOK'
  BY InvariantByRows, StepTypes
<1>1. ASSUME NEW u \in Usages, UsageStep(u) PROVE IInv'
  <2>1. ASSUME NEW p \in Plans, NEW asks \in BOOLEAN, PlanTask(u, p, asks) PROVE IInv'
    <3>1. ClaimsExclusive'
      BY <1>0, <2>1, ExclusiveKept DEF PlanTask, Open
    <3>2. OneAuthorizationPerKey'
      <4>1. ~Live(u)
        BY <1>0, <2>1 DEF Row, RowInv, BlankRow, NoUsage, Live, PlanTask
      <4>2. \A v \in Usages : Live(v)' => Live(v) /\ plan'[v] = plan[v]
        BY <1>0, <2>1, <4>1 DEF PlanTask, Live, TypeOK
      <4> QED
        BY <1>0, <4>2, AuthorizationKept
    <3> QED
      BY <1>0, <2>1, <3>1, <3>2, PlanTaskRows, NextByRows
  <2>2. ASSUME NEW r \in Revs, Approve(u, r), asking' = asking \/ QuestionOver(u) PROVE IInv'
    BY <1>0, <2>2, ApproveRows, ApproveExclusive, ApproveAuthorization, NextByRows
  <2>3. ASSUME NEW r \in Revs, NEW status \in {"denied", "withdrawn"}, Refuse(u, r, status),
               asking' = asking \/ QuestionOver(u)
        PROVE  IInv'
    <3>1. ClaimsExclusive'
      BY <1>0, <2>3, ExclusiveKept DEF Refuse, Open
    <3>2. OneAuthorizationPerKey'
      BY <1>0, <2>3, AuthorizationKept DEF Refuse, Live
    <3> QED
      BY <1>0, <2>3, <3>1, <3>2, RefuseRows, NextByRows
  <2>4. ASSUME OwnerApproves(u) PROVE IInv'
    BY <2>2, <2>4 DEF OwnerApproves
  <2>5. ASSUME OwnerRefuses(u) PROVE IInv'
    BY <2>3, <2>5 DEF OwnerRefuses
  <2>6. ASSUME AnswerApproves(u) PROVE IInv'
    BY <1>0, <2>2, <2>6, QuestionTypes DEF AnswerApproves, QuestionShown
  <2>7. ASSUME AnswerRefuses(u) PROVE IInv'
    BY <1>0, <2>3, <2>7, QuestionTypes DEF AnswerRefuses, QuestionShown
  <2>8. ASSUME AnswerAdapts(u) PROVE IInv'
    <3>1. ClaimsExclusive'
      BY <1>0, <2>8, ExclusiveKept DEF AnswerAdapts, Open
    <3>2. OneAuthorizationPerKey'
      BY <1>0, <2>8, AuthorizationKept DEF AnswerAdapts, Live
    <3> QED
      BY <1>0, <2>8, <3>1, <3>2, AnswerAdaptsRows, NextByRows
  <2>9. ASSUME AnswerRecorded(u) PROVE IInv'
    <3>1. ClaimsExclusive'
      BY <1>0, <2>9, ExclusiveKept DEF AnswerRecorded, Open
    <3>2. OneAuthorizationPerKey'
      BY <1>0, <2>9, AuthorizationKept DEF AnswerRecorded, Live
    <3> QED
      BY <1>0, <2>9, <3>1, <3>2, AnswerRecordedRows, NextByRows
  <2>10. ASSUME AnswerLost(u) PROVE IInv'
    <3>1. ClaimsExclusive'
      BY <1>0, <2>10, ExclusiveKept DEF AnswerLost, Open, tables
    <3>2. OneAuthorizationPerKey'
      BY <1>0, <2>10, AuthorizationKept DEF AnswerLost, Live, tables
    <3> QED
      BY <1>0, <2>10, <3>1, <3>2, AnswerLostRows, NextByRows
  <2> QED
    BY <1>1, <2>1, <2>4, <2>5, <2>6, <2>7, <2>8, <2>9, <2>10 DEF UsageStep
<1>2. ASSUME NEW s \in Sessions, SessionStep(s) PROVE IInv'
  <2>1. ASSUME NEW t \in Tasks, ClaimNothing(s, t) PROVE IInv'
    <3>1. ClaimsExclusive'
      BY <1>0, <2>1, SweptOpen, ExclusiveKept DEF ClaimNothing, Open
    <3>2. OneAuthorizationPerKey'
      BY <1>0, <2>1, SweptLive, AuthorizationKept DEF ClaimNothing, Live
    <3> QED
      BY <1>0, <2>1, <3>1, <3>2, ClaimNothingRows, NextByRows
  <2>2. ASSUME NEW t \in Tasks, NEW u \in Usages, ClaimBinding(s, t, u) PROVE IInv'
    BY <1>0, <2>2, ClaimBindingRows, ClaimBindingExclusive, ClaimBindingAuthorization, NextByRows
  <2>3. ASSUME ConsumeStale(s) \/ AdmissionAbandoned(s) PROVE IInv'
    <3>1. UNCHANGED <<plan, usage, requests, planAttempts, claimAttempts, bindings, deliveries,
                      asking>>
          /\ admission' = [admission EXCEPT ![s] = NoClaim]
      BY <2>3 DEF ConsumeStale, AdmissionAbandoned, tables
    <3>2. ClaimsExclusive'
      BY <1>0, <3>1, ExclusiveKept DEF Open, TypeOK
    <3>3. OneAuthorizationPerKey'
      BY <1>0, <3>1, AuthorizationKept DEF Live
    <3>4. \A u \in Usages : Row(u)'
      BY <1>0, <3>1 DEF Row
    <3> QED
      BY <1>0, <3>2, <3>3, <3>4, NextByRows
  <2>4. ASSUME NEW sameFacts \in BOOLEAN, ConsumeSuperseded(s, sameFacts) PROVE IInv'
    <3>1. PICK u \in Usages : u = admission[s][1]
      BY <1>0, <2>4 DEF TypeOK, ConsumeSuperseded
    <3>2. OneAuthorizationPerKey'
      <4>1. /\ bindings' = [bindings EXCEPT ![u] = EndedBinding(u, "superseded")]
            /\ plan' = plan
        BY <2>4, <3>1 DEF ConsumeSuperseded
      <4>2. EndedBinding(u, "superseded").state = "superseded"
        BY <1>0, RowTypes DEF EndedBinding, Binding
      <4>3. \A v \in Usages : Live(v)' => Live(v)
        BY <1>0, <4>1, <4>2 DEF Live, TypeOK
      <4> QED
        BY <1>0, <4>1, <4>3, AuthorizationKept
    <3> QED
      BY <1>0, <2>4, <3>1, <3>2, ConsumeSupersededRows, ConsumeSupersededExclusive, NextByRows
  <2>5. ASSUME NEW sameFacts \in BOOLEAN, ConsumeDelivers(s, sameFacts) PROVE IInv'
    <3>1. PICK u \in Usages, k \in Claims : admission[s] = <<u, k>>
      BY <1>0, <2>5 DEF TypeOK, ConsumeDelivers
    <3>2. OneAuthorizationPerKey'
      <4>1. bindings' = [bindings EXCEPT ![u] = EndedBinding(u, "consumed")] /\ plan' = plan
        BY <2>5, <3>1 DEF ConsumeDelivers
      <4>2. EndedBinding(u, "consumed").state = "consumed"
        BY <1>0, RowTypes DEF EndedBinding, Binding
      <4>3. \A v \in Usages : Live(v)' => Live(v)
        BY <1>0, <4>1, <4>2 DEF Live, TypeOK
      <4> QED
        BY <1>0, <4>1, <4>3, AuthorizationKept
    <3>3. u = admission[s][1] /\ k = admission[s][2]
      BY <3>1
    <3> QED
      BY <1>0, <2>5, <3>1, <3>2, <3>3, ConsumeDeliversRows, ConsumeDeliversExclusive, NextByRows
  <2> QED
    BY <1>2, <2>1, <2>2, <2>3, <2>4, <2>5 DEF SessionStep
<1>3. ASSUME UNCHANGED <<plan, tables, asking, admission>> PROVE IInv'
  <2>1. ClaimsExclusive' /\ OneAuthorizationPerKey'
    BY <1>0, <1>3 DEF tables, ClaimsExclusive, OneAuthorizationPerKey, Live
  <2>2. \A u \in Usages : Row(u)'
    BY <1>0, <1>3 DEF tables, Row
  <2> QED
    BY <1>0, <2>1, <2>2, NextByRows
<1>4. ASSUME (\E v \in Versions : VersionReplaced(v)) \/ Tick \/ UNCHANGED vars PROVE IInv'
  BY <1>3, <1>4 DEF VersionReplaced, Tick, vars
<1> QED
  BY <1>1, <1>2, <1>4 DEF Next

\* In every reachable state the stored projection can be read back and agrees
\* with its rows, an approval has its binding and the other way round, an
\* attempt that may enter or has entered is the claimant of the binding, each
\* approval delivers at most once, no two sessions hold one claim, and no two
\* live bindings share an actor, scope and task.
THEOREM AdmissionInvariant == Spec => []AdmissionSound
<1>1. IInv => AdmissionSound
  BY DEF IInv, AdmissionSound
<1> QED
  BY InitInvariant, StepInvariant, <1>1, PTL DEF Spec

\* Only the consuming transaction writes deliveries.
LEMMA OnlyConsumeDelivers ==
  ASSUME [Next]_vars, NEW u \in Usages, deliveries'[u] # deliveries[u]
  PROVE  \E s \in Sessions, sameFacts \in BOOLEAN : ConsumeDelivers(s, sameFacts)
<1>1. ASSUME NEW v \in Usages, UsageStep(v) PROVE deliveries' = deliveries
  BY <1>1 DEF UsageStep, PlanTask, OwnerApproves, OwnerRefuses, AnswerApproves, AnswerRefuses,
     AnswerAdapts, AnswerRecorded, AnswerLost, Approve, Refuse, tables
<1>2. ASSUME (\E v \in Versions : VersionReplaced(v)) \/ Tick \/ UNCHANGED vars PROVE deliveries' = deliveries
  BY <1>2 DEF VersionReplaced, Tick, vars, tables
<1>3. ASSUME NEW s \in Sessions, SessionStep(s), ~\E sameFacts \in BOOLEAN : ConsumeDelivers(s, sameFacts)
      PROVE  deliveries' = deliveries
  BY <1>3 DEF SessionStep, ClaimNothing, ClaimBinding, ConsumeStale, ConsumeSuperseded,
     AdmissionAbandoned, tables
<1> QED
  BY <1>1, <1>2, <1>3 DEF Next

\* Whatever the interleaving of decisions, claims, expiry and replaced
\* versions, a step that delivers context does so for a revision whose request
\* is approved and unexpired, and while every version of the plan is current.
THEOREM DeliveryIsAuthorized == Spec => DeliveryAuthorized
<1>1. ASSUME IInv, [Next]_vars, NEW u \in Usages, deliveries'[u] # deliveries[u]
      PROVE  /\ plan[u].versions \subseteq current
             /\ requests[u][usage[u].rev].status = "approved"
             /\ requests[u][usage[u].rev].expires > now
  <2>0. TypeOK /\ ProjectionReadable /\ UnplannedIsBlank
    BY <1>1 DEF IInv
  <2>1. PICK s \in Sessions, sameFacts \in BOOLEAN : ConsumeDelivers(s, sameFacts)
    BY <1>1, OnlyConsumeDelivers
  <2>2. admission[s][1] = u
    BY <1>1, <2>0, <2>1 DEF ConsumeDelivers, TypeOK
  <2>3. VersionsCurrent(u) /\ ApprovalIsCurrent(u)
    BY <2>1, <2>2 DEF ConsumeDelivers
  <2>4. usage[u].state # "none"
    BY <2>0, <2>3 DEF ApprovalIsCurrent, UnplannedIsBlank, NoUsage
  <2> QED
    BY <2>0, <2>3, <2>4 DEF VersionsCurrent, ApprovalIsCurrent, ProjectionReadable
<1>2. IInv /\ [Next]_vars =>
        [\A u \in Usages : deliveries'[u] # deliveries[u] =>
           /\ plan[u].versions \subseteq current
           /\ requests[u][usage[u].rev].status = "approved"
           /\ requests[u][usage[u].rev].expires > now]_vars
  BY <1>1
<1> QED
  BY InitInvariant, StepInvariant, <1>2, PTL DEF Spec, DeliveryAuthorized

-----------------------------------------------------------------------------
\* Decisions are final: what a transaction may do to the rows of a usage.

RequestsFinal(q, qq) ==
  \A r \in Revs :
    /\ q[r].status \in {"denied", "withdrawn", "expired", "superseded"} => qq[r] = q[r]
    /\ q[r].status = "approved" => qq[r].status \in {"approved", "expired", "superseded"}

BindingFinal(b, bb) == b.state \in {"consumed", "expired", "superseded"} => bb = b

AttemptsFinal(c, cc) ==
  \A k \in Claims : c[k] \in {"entered", "rejected", "interrupted"} => cc[k] = c[k]

RowFinal(u) ==
  /\ RequestsFinal(requests[u], requests'[u])
  /\ BindingFinal(bindings[u], bindings'[u])
  /\ AttemptsFinal(claimAttempts[u], claimAttempts'[u])

LEMMA SameFinal ==
  ASSUME NEW q, NEW b, NEW c
  PROVE  RequestsFinal(q, q) /\ BindingFinal(b, b) /\ AttemptsFinal(c, c)
BY DEF RequestsFinal, BindingFinal, AttemptsFinal

\* finishClaimedAdmissionAttempt writes an attempt that may still enter.
LEMMA FinishedFinal ==
  ASSUME TypeOK, NEW u \in Usages, NEW outcome
  PROVE  AttemptsFinal(claimAttempts[u], FinishedAttempts(u, outcome))
BY RowTypes DEF AttemptsFinal, FinishedAttempts

\* A binding that ends takes its approved request with it.
LEMMA EndedFinal ==
  ASSUME TypeOK, NEW u \in Usages, Row(u), Live(u), NEW status \in {"expired", "superseded", "consumed"}
  PROVE  /\ status # "consumed" => RequestsFinal(requests[u], EndedRequestRows(u, status))
         /\ BindingFinal(bindings[u], EndedBinding(u, status))
<1>1. usage[u].rev \in Revs /\ usage[u].state # "none" /\ usage[u].request = "approved"
  BY LiveUsage
<1>2. requests[u][usage[u].rev].status = "approved"
  BY <1>1 DEF Row, RowInv, FittingRow
<1>3. ASSUME status # "consumed" PROVE RequestsFinal(requests[u], EndedRequestRows(u, status))
  <2>1. requests[u] \in [Revs -> Request]
    BY RowTypes
  <2>2. CASE EndedRequestRows(u, status) = requests[u]
    BY <2>2, SameFinal
  <2>3. CASE EndedRequestRows(u, status) = [requests[u] EXCEPT ![usage[u].rev].status =
                                                               EndedRequest(u, status)]
             /\ EndedRequest(u, status) = status
    <3>0. EndedRequestRows(u, status) = [requests[u] EXCEPT ![usage[u].rev].status = status]
      BY <2>3
    <3>1. EndedRequestRows(u, status)[usage[u].rev].status = status
          /\ OnlyRevision(requests[u], EndedRequestRows(u, status), usage[u].rev)
      BY <1>1, <2>1, <3>0, StatusWritten
    <3> QED
      BY <1>2, <1>3, <3>1 DEF RequestsFinal, OnlyRevision
  <2> QED
    BY <1>1, <2>2, <2>3 DEF EndedRequestRows, EndedRequest
<1>4. BindingFinal(bindings[u], EndedBinding(u, status))
  BY DEF Live, BindingFinal
<1> QED
  BY <1>3, <1>4

\* What every claim sweeps.
LEMMA SweptFinal ==
  ASSUME TypeOK, NEW s \in Sessions, NEW t \in Tasks, NEW v \in Usages, Row(v)
  PROVE  /\ RequestsFinal(requests[v], SweptRequests(s, t)[v])
         /\ BindingFinal(bindings[v], SweptBindings(s, t)[v])
         /\ AttemptsFinal(claimAttempts[v], SweptAttempts(s, t)[v])
<1>1. v \in Dead(s, t) => Live(v)
  BY DEF Dead, Matching
<1>2. RequestsFinal(requests[v], SweptRequests(s, t)[v])
  BY <1>1, EndedFinal, SameFinal DEF SweptRequests
<1>3. BindingFinal(bindings[v], SweptBindings(s, t)[v])
  BY <1>1, EndedFinal, SameFinal DEF SweptBindings
<1>4. AttemptsFinal(claimAttempts[v], SweptAttempts(s, t)[v])
  BY FinishedFinal, SameFinal DEF SweptAttempts
<1> QED
  BY <1>2, <1>3, <1>4

LEMMA ApproveFinal ==
  ASSUME IInv, NEW u \in Usages, NEW r \in Revs, Approve(u, r), NEW v \in Usages
  PROVE  RowFinal(v)
<1>0. TypeOK /\ Row(u) /\ Row(v) /\ r = usage[u].rev /\ requests[u][r].status = "pending"
  BY InvariantByRows DEF Approve, Decidable
<1>1. bindings[u].state = "none"
  BY <1>0, PendingUsage
<1>2. CASE v = u
  <2>1. u \notin SameKey(u)
    BY <1>1 DEF SameKey, Live
  <2>2. /\ requests'[u] = [requests[u] EXCEPT ![r].status = "approved"]
        /\ claimAttempts'[u] = claimAttempts[u]
    BY <2>1 DEF Approve
  <2>3. RequestsFinal(requests[u], requests'[u])
    BY <1>0, <2>2, RowTypes DEF RequestsFinal
  <2> QED
    BY <1>1, <1>2, <2>2, <2>3, SameFinal DEF RowFinal, BindingFinal
<1>3. CASE v # u /\ v \in SameKey(u)
  <2>1. Live(v)
    BY <1>3 DEF SameKey
  <2>2. /\ requests'[v] = EndedRequestRows(v, "expired")
        /\ bindings'[v] = EndedBinding(v, "expired")
        /\ claimAttempts'[v] = FinishedAttempts(v, "interrupted")
    BY <1>3 DEF Approve
  <2> QED
    BY <1>0, <2>1, <2>2, EndedFinal, FinishedFinal DEF RowFinal
<1>4. CASE v # u /\ v \notin SameKey(u)
  <2>1. /\ requests'[v] = requests[v] /\ bindings'[v] = bindings[v]
        /\ claimAttempts'[v] = claimAttempts[v]
    BY <1>4 DEF Approve
  <2> QED
    BY <2>1, SameFinal DEF RowFinal
<1> QED
  BY <1>2, <1>3, <1>4

LEMMA RefuseFinal ==
  ASSUME IInv, NEW u \in Usages, NEW r \in Revs, NEW status, Refuse(u, r, status), NEW v \in Usages
  PROVE  RowFinal(v)
<1>1. TypeOK /\ requests[u][r].status = "pending"
  BY InvariantByRows DEF Refuse, Decidable
<1>2. /\ requests' = [requests EXCEPT ![u][r].status = status]
      /\ UNCHANGED <<bindings, claimAttempts>>
  BY DEF Refuse
<1>3. RequestsFinal(requests[v], requests'[v])
  BY <1>1, <1>2 DEF RequestsFinal, TypeOK
<1> QED
  BY <1>2, <1>3, SameFinal DEF RowFinal

\* A usage is planned once, and a first request follows no other.
LEMMA PlanTaskFinal ==
  ASSUME IInv, NEW u \in Usages, NEW p \in Plans, NEW asks \in BOOLEAN, PlanTask(u, p, asks),
         NEW v \in Usages
  PROVE  RowFinal(v)
<1>1. TypeOK /\ usage[u].state = "none" /\ \A r \in Revs : requests[u][r].status = "none"
  BY InvariantByRows DEF PlanTask, Row, RowInv, BlankRow, NoUsage
<1>2. /\ \/ requests' = requests
         \/ \E x : requests' = [requests EXCEPT ![u][1] = x]
      /\ UNCHANGED <<bindings, claimAttempts>>
  BY DEF PlanTask
<1>3. RequestsFinal(requests[v], requests'[v])
  BY <1>1, <1>2 DEF RequestsFinal, TypeOK
<1> QED
  BY <1>2, <1>3, SameFinal DEF RowFinal

\* The request of the next plan revision does not exist yet.
LEMMA AnswerAdaptsFinal ==
  ASSUME IInv, NEW u \in Usages, AnswerAdapts(u), NEW v \in Usages
  PROVE  RowFinal(v)
<1> DEFINE r == usage[u].rev
<1>1. TypeOK /\ Row(u) /\ requests[u][r].status = "pending" /\ r \in 0..MaxRev /\ r < MaxRev
  BY InvariantByRows, RowTypes DEF AnswerAdapts, Projection
<1>2. r + 1 \in Revs /\ r + 1 > r
  BY <1>1, ConstantsAssumption DEF Revs
<1>3. requests[u][r + 1].status = "none"
  BY <1>1, <1>2 DEF Row, RowInv, NumberedRow
<1>4. /\ requests' = [requests EXCEPT ![u][r].status = "superseded",
                                     ![u][r + 1] = [status |-> "pending", expires |-> now + Ttl]]
      /\ UNCHANGED <<bindings, claimAttempts>>
  BY DEF AnswerAdapts
<1> HIDE DEF r
<1>5. RequestsFinal(requests[v], requests'[v])
  BY <1>1, <1>3, <1>4 DEF RequestsFinal, TypeOK
<1> QED
  BY <1>4, <1>5, SameFinal DEF RowFinal

LEMMA ClaimBindingFinal ==
  ASSUME IInv, NEW s \in Sessions, NEW t \in Tasks, NEW u \in Usages, ClaimBinding(s, t, u),
         NEW v \in Usages
  PROVE  RowFinal(v)
<1> DEFINE k == NextClaim(u)
<1>0. TypeOK /\ Row(u) /\ Row(v)
  BY InvariantByRows
<1>1. /\ SweptBindings(s, t) \in [Usages -> Binding]
      /\ SweptAttempts(s, t) \in [Usages -> [Claims -> ClaimAttemptState]]
  BY <1>0, SweptTypes
<1>2. /\ RequestsFinal(requests[v], SweptRequests(s, t)[v])
      /\ BindingFinal(bindings[v], SweptBindings(s, t)[v])
      /\ AttemptsFinal(claimAttempts[v], SweptAttempts(s, t)[v])
  BY <1>0, SweptFinal
<1>3. /\ bindings' = [SweptBindings(s, t) EXCEPT ![u].state = "claimed", ![u].claim = k,
                                                ![u].lease = now + LeaseTime]
      /\ claimAttempts' = [SweptAttempts(s, t) EXCEPT ![u][k] = "ready_to_enter"]
      /\ requests' = SweptRequests(s, t)
  BY DEF ClaimBinding
<1>4. k \in Claims /\ ~(k <= bindings[u].claim)
  BY <1>0, RowTypes, ConstantsAssumption DEF NextClaim, Binding, ClaimBinding, Claims
<1>5. claimAttempts[u][k] = "none"
  BY <1>0, <1>4 DEF Row, RowInv, OwnedRow
<1>6. Live(u)
  BY ClaimedUsage
<1> HIDE DEF k
<1>7. CASE v = u
  <2>1. BindingFinal(bindings[v], bindings'[v])
    BY <1>6, <1>7 DEF BindingFinal, Live
  <2>2. AttemptsFinal(claimAttempts[v], claimAttempts'[v])
    BY <1>1, <1>2, <1>3, <1>5, <1>7 DEF AttemptsFinal
  <2> QED
    BY <1>2, <1>3, <2>1, <2>2 DEF RowFinal
<1>8. CASE v # u
  <2>1. bindings'[v] = SweptBindings(s, t)[v] /\ claimAttempts'[v] = SweptAttempts(s, t)[v]
    BY <1>1, <1>3, <1>8
  <2> QED
    BY <1>2, <1>3, <2>1 DEF RowFinal
<1> QED
  BY <1>7, <1>8

LEMMA ConsumeFinal ==
  ASSUME IInv, LeaseHeld, NEW s \in Sessions, NEW sameFacts \in BOOLEAN,
         ConsumeSuperseded(s, sameFacts) \/ ConsumeDelivers(s, sameFacts), NEW v \in Usages
  PROVE  RowFinal(v)
<1>0. TypeOK /\ \A u \in Usages : Row(u)
  BY InvariantByRows
<1>1. PICK u \in Usages, k \in Claims : admission[s] = <<u, k>>
  BY <1>0 DEF TypeOK, ConsumeSuperseded, ConsumeDelivers
<1>2. u = admission[s][1] /\ k = admission[s][2]
  BY <1>1
<1>3. bindings[u].state = "claimed" /\ bindings[u].claim = k
  BY <1>2 DEF ConsumeSuperseded, ConsumeDelivers, ClaimIsCurrent, Leased
<1>4. Live(u)
  BY <1>3 DEF Live
<1>5. CASE v = u /\ ConsumeSuperseded(s, sameFacts)
  <2>1. /\ requests'[u] = EndedRequestRows(u, "superseded")
        /\ claimAttempts'[u] = FinishedAttempts(u, "rejected")
        /\ bindings'[u] = EndedBinding(u, "superseded")
    BY <1>0, <1>2, <1>5 DEF ConsumeSuperseded, TypeOK
  <2> QED
    BY <1>0, <1>4, <1>5, <2>1, EndedFinal, FinishedFinal DEF RowFinal
<1>6. CASE v = u /\ ConsumeDelivers(s, sameFacts)
  <2>1. /\ requests' = requests
        /\ claimAttempts'[u] = [claimAttempts[u] EXCEPT ![k] = "entered"]
        /\ bindings'[u] = EndedBinding(u, "consumed")
    BY <1>0, <1>2, <1>6 DEF ConsumeDelivers, TypeOK
  <2>2. claimAttempts[u][k] = "ready_to_enter"
    BY <1>2, <1>3, <1>6 DEF LeaseHeld, ConsumeDelivers, ClaimIsCurrent
  <2>3. AttemptsFinal(claimAttempts[u], claimAttempts'[u])
    BY <1>0, <2>1, <2>2, RowTypes DEF AttemptsFinal
  <2> QED
    BY <1>0, <1>4, <1>6, <2>1, <2>3, EndedFinal, SameFinal DEF RowFinal
<1>7. CASE v # u
  <2>1. requests'[v] = requests[v] /\ claimAttempts'[v] = claimAttempts[v] /\ bindings'[v] = bindings[v]
    BY <1>0, <1>2, <1>7 DEF ConsumeSuperseded, ConsumeDelivers, TypeOK
  <2> QED
    BY <2>1, SameFinal DEF RowFinal
<1> QED
  BY <1>5, <1>6, <1>7

\* A leased claimant may enter.
LEMMA InitLeaseHeld == Init => LeaseHeld
BY DEF Init, LeaseHeld, Leased, NoBinding

LEMMA LeaseKept ==
  ASSUME LeaseHeld, NEW v \in Usages, now' = now,
         bindings'[v] = bindings[v], claimAttempts'[v] = claimAttempts[v]
  PROVE  Leased(v)' => claimAttempts'[v][bindings'[v].claim] = "ready_to_enter"
BY DEF LeaseHeld, Leased

LEMMA EndedNotLeased ==
  ASSUME TypeOK, NEW v \in Usages, NEW status \in {"expired", "superseded", "consumed"},
         bindings'[v] = EndedBinding(v, status)
  PROVE  ~Leased(v)'
BY RowTypes DEF EndedBinding, Binding, Leased

\* Neither the sweep of a claim nor an expiry interrupts a leased claimant and
\* leaves it its claim.
LEMMA SweptLease ==
  ASSUME TypeOK, LeaseHeld, NEW s \in Sessions, NEW t \in Tasks, NEW v \in Usages, now' = now,
         bindings'[v] = SweptBindings(s, t)[v], claimAttempts'[v] = SweptAttempts(s, t)[v]
  PROVE  Leased(v)' => claimAttempts'[v][bindings'[v].claim] = "ready_to_enter"
<1>1. CASE v \in Dead(s, t)
  <2>1. bindings'[v] = EndedBinding(v, "expired")
    BY <1>1 DEF SweptBindings
  <2> QED
    BY <2>1, EndedNotLeased
<1>2. CASE v \notin Dead(s, t) /\ v \notin Lapsed(s, t)
  <2>1. bindings'[v] = bindings[v] /\ claimAttempts'[v] = claimAttempts[v]
    BY <1>2 DEF SweptBindings, SweptAttempts
  <2> QED
    BY <2>1, LeaseKept
<1>3. CASE v \notin Dead(s, t) /\ v \in Lapsed(s, t)
  BY <1>3 DEF SweptBindings, Lapsed, Unleased, Leased
<1> QED
  BY <1>1, <1>2, <1>3

LEMMA StepLeaseHeld == IInv /\ LeaseHeld /\ [Next]_vars => LeaseHeld'
<1> SUFFICES ASSUME IInv, LeaseHeld, [Next]_vars, NEW v \in Usages, Leased(v)'
             PROVE  claimAttempts'[v][bindings'[v].claim] = "ready_to_enter"
  BY DEF LeaseHeld, Leased
<1>0. TypeOK /\ \A u \in Usages : Row(u)
  BY InvariantByRows
<1>1. CASE now' = now /\ bindings' = bindings /\ claimAttempts' = claimAttempts
  BY <1>1, LeaseKept
<1>2. CASE Tick
  <2>1. now \in Nat /\ now' = now + 1 /\ bindings' = bindings /\ claimAttempts' = claimAttempts
    BY <1>0, <1>2 DEF Tick, tables, TypeOK
  <2>2. bindings[v].lease \in Nat
    BY <1>0, RowTypes DEF Binding
  <2> QED
    BY <2>1, <2>2 DEF LeaseHeld, Leased
<1>3. ASSUME NEW u \in Usages, NEW r \in Revs, Approve(u, r)
      PROVE  claimAttempts'[v][bindings'[v].claim] = "ready_to_enter"
  <2>1. CASE v = u
    BY <1>3, <2>1 DEF Approve, Leased
  <2>2. CASE v # u /\ v \in SameKey(u)
    BY <1>0, <1>3, <2>2, EndedNotLeased DEF Approve
  <2>3. CASE v # u /\ v \notin SameKey(u)
    <3>1. now' = now /\ bindings'[v] = bindings[v] /\ claimAttempts'[v] = claimAttempts[v]
      BY <1>3, <2>3 DEF Approve
    <3> QED
      BY <3>1, LeaseKept
  <2> QED
    BY <2>1, <2>2, <2>3
<1>4. ASSUME NEW u \in Usages, UsageStep(u)
      PROVE  claimAttempts'[v][bindings'[v].claim] = "ready_to_enter"
  <2>1. CASE OwnerApproves(u)
    BY <1>3, <2>1 DEF OwnerApproves
  <2>2. CASE AnswerApproves(u)
    BY <1>0, <1>3, <2>2, QuestionTypes DEF AnswerApproves, QuestionShown
  <2>3. CASE ~OwnerApproves(u) /\ ~AnswerApproves(u)
    <3>1. now' = now /\ bindings' = bindings /\ claimAttempts' = claimAttempts
      BY <1>4, <2>3 DEF UsageStep, PlanTask, OwnerRefuses, AnswerRefuses, Refuse, AnswerAdapts,
         AnswerRecorded, AnswerLost, tables
    <3> QED
      BY <1>1, <3>1
  <2> QED
    BY <2>1, <2>2, <2>3
<1>5. ASSUME NEW s \in Sessions, NEW t \in Tasks, ClaimNothing(s, t)
      PROVE  claimAttempts'[v][bindings'[v].claim] = "ready_to_enter"
  BY <1>0, <1>5, SweptLease DEF ClaimNothing
<1>6. ASSUME NEW s \in Sessions, NEW t \in Tasks, NEW u \in Usages, ClaimBinding(s, t, u)
      PROVE  claimAttempts'[v][bindings'[v].claim] = "ready_to_enter"
  <2>1. /\ SweptBindings(s, t) \in [Usages -> Binding]
        /\ SweptAttempts(s, t) \in [Usages -> [Claims -> ClaimAttemptState]]
    BY <1>0, SweptTypes
  <2>2. NextClaim(u) \in Claims
    BY <1>0, <1>6, RowTypes, ConstantsAssumption DEF NextClaim, Binding, ClaimBinding, Claims
  <2>3. CASE v = u
    <3>1. bindings'[u].claim = NextClaim(u) /\ claimAttempts'[u][NextClaim(u)] = "ready_to_enter"
      BY <1>6, <2>1, <2>2 DEF ClaimBinding, Binding
    <3> QED
      BY <2>3, <3>1
  <2>4. CASE v # u
    BY <1>0, <1>6, <2>1, <2>4, SweptLease DEF ClaimBinding
  <2> QED
    BY <2>3, <2>4
<1>7. ASSUME NEW s \in Sessions, NEW sameFacts \in BOOLEAN,
             ConsumeSuperseded(s, sameFacts) \/ ConsumeDelivers(s, sameFacts)
      PROVE  claimAttempts'[v][bindings'[v].claim] = "ready_to_enter"
  <2>1. PICK u \in Usages, k \in Claims : admission[s] = <<u, k>>
    BY <1>0, <1>7 DEF TypeOK, ConsumeSuperseded, ConsumeDelivers
  <2>2. u = admission[s][1] /\ k = admission[s][2]
    BY <2>1
  <2>3. CASE v = u
    <3>1. bindings'[u] = EndedBinding(u, "superseded") \/ bindings'[u] = EndedBinding(u, "consumed")
      BY <1>0, <1>7, <2>2 DEF ConsumeSuperseded, ConsumeDelivers, TypeOK
    <3> QED
      BY <1>0, <2>3, <3>1, EndedNotLeased
  <2>4. CASE v # u
    <3>1. now' = now /\ bindings'[v] = bindings[v] /\ claimAttempts'[v] = claimAttempts[v]
      BY <1>0, <1>7, <2>2, <2>4 DEF ConsumeSuperseded, ConsumeDelivers, TypeOK
    <3> QED
      BY <3>1, LeaseKept
  <2> QED
    BY <2>3, <2>4
<1>8. ASSUME NEW s \in Sessions, SessionStep(s)
      PROVE  claimAttempts'[v][bindings'[v].claim] = "ready_to_enter"
  <2>1. CASE ConsumeStale(s) \/ AdmissionAbandoned(s)
    BY <1>1, <2>1 DEF ConsumeStale, AdmissionAbandoned, tables
  <2> QED
    BY <1>5, <1>6, <1>7, <1>8, <2>1 DEF SessionStep
<1>9. CASE UNCHANGED vars \/ \E x \in Versions : VersionReplaced(x)
  BY <1>1, <1>9 DEF vars, tables, VersionReplaced
<1> QED
  BY <1>2, <1>4, <1>8, <1>9 DEF Next

LEMMA StepFinal ==
  ASSUME IInv, LeaseHeld, [Next]_vars, NEW v \in Usages
  PROVE  RowFinal(v)
<1>0. TypeOK /\ \A u \in Usages : Row(u)
  BY InvariantByRows
<1>1. CASE requests' = requests /\ bindings' = bindings /\ claimAttempts' = claimAttempts
  BY <1>1, SameFinal DEF RowFinal
<1>2. ASSUME NEW u \in Usages, UsageStep(u) PROVE RowFinal(v)
  <2>1. CASE OwnerApproves(u) \/ AnswerApproves(u)
    BY <1>0, <2>1, ApproveFinal, QuestionTypes DEF OwnerApproves, AnswerApproves, QuestionShown
  <2>2. CASE OwnerRefuses(u)
    BY <2>2, RefuseFinal DEF OwnerRefuses
  <2>3. CASE AnswerRefuses(u)
    BY <1>0, <2>3, RefuseFinal, QuestionTypes DEF AnswerRefuses, QuestionShown
  <2>4. CASE AnswerRecorded(u) \/ AnswerLost(u)
    BY <1>1, <2>4 DEF AnswerRecorded, AnswerLost, tables
  <2> QED
    BY <1>2, <2>1, <2>2, <2>3, <2>4, PlanTaskFinal, AnswerAdaptsFinal DEF UsageStep
<1>3. ASSUME NEW s \in Sessions, SessionStep(s) PROVE RowFinal(v)
  <2>1. ASSUME NEW t \in Tasks, ClaimNothing(s, t) PROVE RowFinal(v)
    BY <1>0, <2>1, SweptFinal DEF ClaimNothing, RowFinal
  <2>2. CASE ConsumeStale(s) \/ AdmissionAbandoned(s)
    BY <1>1, <2>2 DEF ConsumeStale, AdmissionAbandoned, tables
  <2> QED
    BY <1>3, <2>1, <2>2, ClaimBindingFinal, ConsumeFinal DEF SessionStep
<1>4. CASE UNCHANGED vars \/ Tick \/ \E x \in Versions : VersionReplaced(x)
  BY <1>1, <1>4 DEF vars, tables, Tick, VersionReplaced
<1> QED
  BY <1>2, <1>3, <1>4 DEF Next

\* A request that was refused, expired or superseded, a binding that ended and
\* an attempt that ended are never written again, and an approval only ends by
\* expiring or being superseded, whatever late answers, reclaims and sweeps
\* follow.  It takes that no sweep interrupts a claimant whose lease still runs:
\* the attempt that consumes is one that has not ended.
THEOREM DecisionsAreFinal == Spec => DecisionsFinal
<1>1. IInv /\ LeaseHeld /\ [Next]_vars =>
        [\A u \in Usages :
           /\ \A r \in Revs :
                /\ requests[u][r].status \in {"denied", "withdrawn", "expired", "superseded"} =>
                     requests'[u][r] = requests[u][r]
                /\ requests[u][r].status = "approved" =>
                     requests'[u][r].status \in {"approved", "expired", "superseded"}
           /\ bindings[u].state \in {"consumed", "expired", "superseded"} =>
                bindings'[u] = bindings[u]
           /\ \A k \in Claims : claimAttempts[u][k] \in {"entered", "rejected", "interrupted"} =>
                claimAttempts'[u][k] = claimAttempts[u][k]]_vars
  BY StepFinal DEF RowFinal, RequestsFinal, BindingFinal, AttemptsFinal
<1> QED
  BY InitInvariant, StepInvariant, InitLeaseHeld, StepLeaseHeld, <1>1, PTL DEF Spec, DecisionsFinal
=============================================================================
