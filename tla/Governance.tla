----------------------------- MODULE Governance -----------------------------
(***************************************************************************)
(* The governance of history ranking, the only learned capability that     *)
(* changes a plan: the owner reviews comparisons of the shadow ranking,    *)
(* freezes an evaluation of the reviews, promotes on a passed one and      *)
(* demotes on a violation.  A planning call reads the gate, waits, and     *)
(* claims its place under the rollout limit in the transaction that saves  *)
(* its plan.                                                               *)
(*                                                                         *)
(* Each operation is one transaction of the write queue.  A usage is one   *)
(* planning call; its scope stands for workspace root, exposure and risk.  *)
(***************************************************************************)
EXTENDS Naturals, Sequences, FiniteSets

CONSTANTS
  Usages,
  Scopes,
  Excluded,          \* scopes of an excluded risk class
  MinimumCoverage,   \* minimumSampleCoverage of the contract
  Ratio,             \* minimumOwnerProposedRatio, as a fraction <<n, d>>
  RolloutLimit,      \* rolloutLimit
  MaxEvaluations,    \* bound
  MaxDecisions       \* bound

\* The thresholds of the contracts in force are positive.
ASSUME GovernanceAssumption ==
  /\ Excluded \subseteq Scopes
  /\ MinimumCoverage \in Nat \ {0} /\ RolloutLimit \in Nat \ {0}

VARIABLES
  plans,         \* [phase, scope, history, ticket] of each usage
  forgottenUsages, \* usages of whose comparison an Experience was forgotten
  rankings,      \* the readable comparison of each usage, or NoRow
  reviews,       \* [usage, ranking, preferred]
  evaluations,   \* [outcome, reviews, scope], in order
  capability,    \* [level, scope, revision, evaluation, decision]
  decisions,     \* the promotions and demotions, in order
  applies        \* [usage, decision, evaluation, revision]

learned == <<rankings, reviews, evaluations>>
policy == <<capability, decisions>>
governance == <<plans, forgottenUsages, learned, policy, applies>>

Levels == {"disabled", "shadow", "suggest"}
NoTicket == [decision |-> 0, evaluation |-> 0, revision |-> 0]
NoPlan == [phase |-> "none", scope |-> CHOOSE s \in Scopes : TRUE, history |-> "none", ticket |-> NoTicket]
NoRow == [mode |-> "none", moves |-> FALSE, forgotten |-> FALSE]

\* ensureLearningGovernance: the subject starts at shadow.
GovernanceInit ==
  /\ plans = [u \in Usages |-> NoPlan]
  /\ forgottenUsages = {}
  /\ rankings = [u \in Usages |-> NoRow]
  /\ reviews = {} /\ evaluations = <<>>
  /\ capability = [level |-> "shadow", scope |-> {}, revision |-> 1, evaluation |-> 0, decision |-> 0]
  /\ decisions = <<>>
  /\ applies = {}

(***************************************************************************)
(* Reviews and evaluations.                                                *)
(***************************************************************************)
\* The ranking of a usage as the learning projection builds it: the order that
\* was applied, or the shadow of what history would have proposed.
Ranking(u) ==
  IF plans[u].phase # "saved" THEN NoRow
  ELSE [mode |-> IF \E a \in applies : a.usage = u THEN "suggest"
                 ELSE IF plans[u].history = "none" THEN "fallback" ELSE "shadow",
        moves |-> plans[u].history = "moves",
        forgotten |-> u \in forgottenUsages]

\* commitLearningProjection replaces all rows.
ProjectRankings ==
  /\ rankings' = [u \in Usages |-> Ranking(u)]
  /\ UNCHANGED <<plans, forgottenUsages, reviews, evaluations, policy, applies>>

\* An Experience of the comparison is forgotten: the next projection leaves it out.
ForgetCompared(u) ==
  /\ plans[u].phase = "saved" /\ u \notin forgottenUsages
  /\ forgottenUsages' = forgottenUsages \cup {u}
  /\ UNCHANGED <<plans, learned, policy, applies>>

Reviewable(u) == rankings[u].mode = "shadow"

\* reviewHistoryRanking: one review of a readable shadow comparison.
Review(u, preferred) ==
  /\ Reviewable(u)
  /\ ~\E r \in reviews : r.usage = u /\ r.ranking = rankings[u]
  /\ reviews' = reviews \cup {[usage |-> u, ranking |-> rankings[u], preferred |-> preferred]}
  /\ UNCHANGED <<plans, forgottenUsages, rankings, evaluations, policy, applies>>

ReviewIsFresh(r) == rankings[r.usage] = r.ranking
EvaluationIsFresh(e) == e.reviews # {} /\ \A r \in e.reviews : ReviewIsFresh(r)

ScopesOf(rs) == {plans[r.usage].scope : r \in rs}
Preferring(rs, order) == {r \in rs : r.preferred = order}

Won(rs) == Cardinality(Preferring(rs, "proposed"))

Outcome ==
  LET valid == {r \in reviews : r.ranking.moves}
      lost == Cardinality(Preferring(valid, "baseline"))
  IN IF \/ Cardinality(ScopesOf(reviews)) > 1
        \/ \E r \in valid : ~ReviewIsFresh(r)
        \/ Cardinality(valid) < MinimumCoverage
     THEN "inconclusive"
     ELSE IF /\ Cardinality({r.usage : r \in valid}) >= MinimumCoverage
             /\ lost >= 1
             /\ Won(valid) * Ratio[2] >= Ratio[1] * (Won(valid) + lost)
     THEN "passed" ELSE "failed"

\* evaluateUnlockContract: the new evaluation is the last one at every level.
Evaluate ==
  /\ Len(evaluations) < MaxEvaluations
  /\ evaluations' = Append(evaluations, [outcome |-> Outcome, reviews |-> reviews, scope |-> ScopesOf(reviews)])
  /\ capability' = [capability EXCEPT !.evaluation = Len(evaluations) + 1]
  /\ UNCHANGED <<plans, forgottenUsages, rankings, reviews, decisions, applies>>

(***************************************************************************)
(* Decisions of the owner (changeAutomationLevel).                         *)
(***************************************************************************)
DecideLevel(decision, level, scope, evaluation) ==
  /\ Len(decisions) < MaxDecisions
  /\ decisions' = Append(decisions, decision)
  /\ capability' = [level |-> level, scope |-> scope, revision |-> capability.revision + 1,
                    evaluation |-> evaluation, decision |-> Len(decisions) + 1]
  /\ UNCHANGED <<plans, forgottenUsages, learned, applies>>

Promote(e) ==
  /\ evaluations[e].outcome = "passed"
  /\ EvaluationIsFresh(evaluations[e])
  /\ capability.level = "shadow"
  /\ DecideLevel([promotes |-> TRUE, evaluation |-> e], "suggest", evaluations[e].scope, e)

Demote(level) ==
  /\ \/ capability.level = "suggest" /\ level \in {"shadow", "disabled"}
     \/ capability.level = "shadow" /\ level = "disabled"
  /\ DecideLevel([promotes |-> FALSE, evaluation |-> 0], level, {}, capability.evaluation)

(***************************************************************************)
(* The gate and the claim of a plan.                                       *)
(***************************************************************************)
ScopeAdmitted(scope) == scope \notin Excluded /\ capability.scope = {scope}

Exhausted(decision) ==
  decision = 0 \/ Cardinality({a \in applies : a.decision = decision}) >= RolloutLimit

LastIsFresh == capability.evaluation # 0 /\ EvaluationIsFresh(evaluations[capability.evaluation])

Authorized(scope) ==
  /\ ScopeAdmitted(scope) /\ capability.level = "suggest"
  /\ capability.decision # 0 /\ LastIsFresh /\ ~Exhausted(capability.decision)

Ticket == [decision |-> capability.decision, evaluation |-> capability.evaluation, revision |-> capability.revision]

\* readHistoryRankingGate: an authorized planning call takes a ticket with it.
Gate(u, scope, history) ==
  /\ plans[u].phase = "none"
  /\ plans' = [plans EXCEPT ![u] =
       [phase |-> "gated", scope |-> scope, history |-> history,
        ticket |-> IF Authorized(scope) THEN Ticket ELSE NoTicket]]
  /\ UNCHANGED <<forgottenUsages, learned, policy, applies>>

\* (mutant) The ticket is good for as long as some promotion authorizes.
SomePolicy(t) == t.decision # 0

\* The decision, the evaluation and the revision are still those of the gate.
SamePolicy(t) == t = Ticket

\* (mutant) The limit is only looked at by the gate.
Unlimited(t) == FALSE

Spent(t) == Exhausted(t.decision)

\* verifyAndClaimHistoryRankingApply
Claimable(u) ==
  /\ capability.level = "suggest" /\ LastIsFresh
  /\ ScopeAdmitted(plans[u].scope)
  /\ ~Spent(plans[u].ticket)
  /\ SamePolicy(plans[u].ticket)

\* createPlanningResult saves the plan with its claim.
Save(u) ==
  LET t == plans[u].ticket IN
  /\ plans[u].phase = "gated"
  /\ t # NoTicket => Claimable(u)
  /\ plans' = [plans EXCEPT ![u].phase = "saved", ![u].ticket = NoTicket]
  /\ applies' = IF t = NoTicket THEN applies
                ELSE applies \cup {[usage |-> u, decision |-> t.decision,
                                    evaluation |-> capability.evaluation, revision |-> capability.revision]}
  /\ UNCHANGED <<forgottenUsages, learned, policy>>

\* The claim is refused, or the save fails after it: nothing of the call remains.
SaveFails(u) ==
  /\ plans[u].phase = "gated"
  /\ plans' = [plans EXCEPT ![u] = NoPlan]
  /\ UNCHANGED <<forgottenUsages, learned, policy, applies>>

Preferences == {"proposed", "baseline", "equivalent", "unknown"}

GovernanceNext ==
  \/ ProjectRankings
  \/ Evaluate
  \/ \E level \in Levels : Demote(level)
  \/ \E e \in DOMAIN evaluations : Promote(e)
  \/ \E u \in Usages :
       \/ ForgetCompared(u) \/ Save(u) \/ SaveFails(u)
       \/ \E preferred \in Preferences : Review(u, preferred)
       \/ \E scope \in Scopes, history \in {"none", "keeps", "moves"} : Gate(u, scope, history)

GovernanceSpec == GovernanceInit /\ [][GovernanceNext]_governance

(***************************************************************************)
(* Properties.                                                             *)
(***************************************************************************)
Promotion(d) == d \in DOMAIN decisions /\ decisions[d].promotes

\* However many tickets race for the last places, a promotion reorders at most
\* RolloutLimit plans, and none outside the scope its reviews were made in.
RolloutKept ==
  \A d \in DOMAIN decisions :
    LET under == {a \in applies : a.decision = d} IN
    /\ Cardinality(under) <= RolloutLimit
    /\ \A a \in under : Promotion(d) /\ {plans[a.usage].scope} = evaluations[decisions[d].evaluation].scope

\* No plan that the ranking reordered is a label of the ranking, and a promotion rests on
\* enough distinct usages in one scope, of which the owner preferred the proposed order
\* in the share the contract asks for and the baseline at least once.
PromotionsEarned ==
  /\ \A r \in reviews : ~\E a \in applies : a.usage = r.usage
  /\ \A d \in DOMAIN decisions : decisions[d].promotes =>
       LET rs == evaluations[decisions[d].evaluation].reviews
           proposed == Cardinality({r \in rs : r.ranking.moves /\ r.preferred = "proposed"})
           baseline == Cardinality({r \in rs : r.ranking.moves /\ r.preferred = "baseline"})
       IN /\ Cardinality({r.usage : r \in rs}) >= MinimumCoverage
          /\ Cardinality(ScopesOf(rs)) = 1
          /\ baseline > 0 /\ proposed * Ratio[2] >= Ratio[1] * (proposed + baseline)

RankingSound == RolloutKept /\ PromotionsEarned

\* A plan is reordered only under the promotion in force when it is saved, with the evaluation
\* its gate read and while all that was reviewed is still what can be read: no ticket outlives
\* a demotion, a promotion after it, or a new evaluation.
AppliesAuthorized ==
  [][\A a \in applies' \ applies :
       /\ a.decision = Len(decisions) /\ Promotion(a.decision)
       /\ a.evaluation = plans[a.usage].ticket.evaluation
       /\ \A r \in evaluations[a.evaluation].reviews : ReviewIsFresh(r)]_governance

\* The gate reads "a passed+current evaluation": every reorder rests on an evaluation that passed.
AppliesEarned == \A a \in applies : evaluations[a.evaluation].outcome = "passed"
=============================================================================
