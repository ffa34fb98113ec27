---------------------------- MODULE LearningRows ----------------------------
(***************************************************************************)
(* What the learning projection makes of the canonical usages: who took    *)
(* part in which result, the labels of the capabilities, and for each plan *)
(* the order that history would have given its equally relevant Versions.  *)
(* The projection is rebuilt as a whole, so a comparison the owner has     *)
(* reviewed must come out the same for as long as it is readable.          *)
(***************************************************************************)
EXTENDS Naturals, Sequences, FiniteSets

CONSTANTS
  Versions,
  Queries,      \* [baseline: candidates in order, selected: versions, relation: BOOLEAN], where a
                \* candidate is [version, relevance, eligible] and relevance a class of equal scores
  MinSamples,   \* used samples a Version needs to be scored
  MaxUsages,    \* bound
  MaxDate       \* bound: the clock

\* A plan never compares a Version with itself.
ASSUME LearningAssumption ==
  /\ MinSamples \in Nat \ {0} /\ MaxUsages \in Nat /\ MaxDate \in Nat
  /\ \A q \in Queries :
       /\ q.baseline \in Seq([version: Versions, relevance: Nat, eligible: BOOLEAN])
       /\ q.selected \subseteq Versions /\ q.relation \in BOOLEAN
       /\ \A i, j \in DOMAIN q.baseline : q.baseline[i].version = q.baseline[j].version => i = j

VARIABLES
  usages,       \* in order of creation
  forgottenVersions, \* Versions of forgotten Experiences
  learningClock,
  learningRows  \* the stored projection

learning == <<usages, forgottenVersions, learningClock, learningRows>>

Outcomes == {"success", "partial", "failure", "unknown", "aborted"}
NotSettled == [outcome |-> "none", at |-> 0]

HistoryInit ==
  /\ usages = <<>> /\ forgottenVersions = {} /\ learningClock = 0
  /\ learningRows = [comparisons |-> {}, labels |-> {}]

HistoryTick ==
  /\ learningClock < MaxDate /\ learningClock' = learningClock + 1
  /\ UNCHANGED <<usages, forgottenVersions, learningRows>>

(***************************************************************************)
(* The life of a usage, as far as learning sees it.                        *)
(***************************************************************************)
\* A plan is saved with the preflights of its candidates some time after the time it is dated.
Plan(q) ==
  /\ Len(usages) < MaxUsages /\ learningClock < MaxDate
  /\ q.selected \cap forgottenVersions = {}
  /\ usages' = Append(usages, [query |-> q, at |-> learningClock, decision |-> "pending", delivery |-> "none",
                               aborted |-> FALSE, settled |-> NotSettled])
  /\ learningClock' = learningClock + 1
  /\ UNCHANGED <<forgottenVersions, learningRows>>

Change(i, u) == usages' = [usages EXCEPT ![i] = u] /\ UNCHANGED <<forgottenVersions, learningClock, learningRows>>

\* approve, deny or withdraw
DecidePlan(i, decision) ==
  /\ usages[i].decision = "pending"
  /\ Change(i, [usages[i] EXCEPT !.decision = decision])

\* The owner asks for another version of a plan that is not decided: it keeps its place, and is
\* dated anew.
AdaptPlan(i) ==
  /\ usages[i].decision = "pending"
  /\ Change(i, [usages[i] EXCEPT !.at = learningClock])

\* Its context is prepared, appended to the Session and included in a request, or fails.
Deliver(i, status) ==
  /\ usages[i].decision = "approved"
  /\ <<usages[i].delivery, status>> \in
       {<<"none", "prepared">>, <<"prepared", "appended">>, <<"prepared", "failed">>, <<"appended", "included">>}
  /\ Change(i, [usages[i] EXCEPT !.delivery = status])

\* The usage is settled once; an abort is recorded before or after.
Settle(i, outcome) ==
  /\ usages[i].delivery = "included" /\ usages[i].settled = NotSettled
  /\ usages[i].aborted => outcome = "aborted"
  /\ Change(i, [usages[i] EXCEPT !.settled = [outcome |-> outcome, at |-> learningClock]])

Abort(i) ==
  /\ usages[i].delivery = "included" /\ ~usages[i].aborted
  /\ Change(i, [usages[i] EXCEPT !.aborted = TRUE])

ForgetVersion(v) ==
  /\ v \notin forgottenVersions
  /\ forgottenVersions' = forgottenVersions \cup {v}
  /\ UNCHANGED <<usages, learningClock, learningRows>>

(***************************************************************************)
(* Attribution (applicabilityHistory).                                     *)
(***************************************************************************)
Settled(u) == u.settled # NotSettled

Participation(u, v) ==
  LET selected == v \in u.query.selected IN
  CASE u.decision \in {"denied", "withdrawn"}         -> "rejected"
    [] u.decision \notin {"denied", "withdrawn"} /\ (u.aborted \/ u.settled.outcome = "aborted")
                                                      -> IF selected THEN "abandoned" ELSE "not_selected"
    [] OTHER -> IF ~selected THEN "not_selected"
                ELSE IF u.delivery = "none" THEN "unverified"
                ELSE IF u.delivery = "included" THEN IF Settled(u) THEN "used" ELSE "delivered_only"
                ELSE IF u.delivery = "appended" THEN "delivered_only" ELSE "not_delivered"

\* mapSettlementOutcome
TaskOutcome(u) ==
  IF u.settled.outcome \in {"partial", "failure"} THEN "failure" ELSE u.settled.outcome

\* (mutant) Whatever is settled by now counts.
SettledEver(i, at) == Settled(usages[i])

\* The decision boundary of a comparison: what was settled when its plan was made.
SettledBy(i, at) == Settled(usages[i]) /\ usages[i].settled.at <= at

\* recordUsedSamples of the usages before the nth, as of a time.
Samples(v, n, at) ==
  {i \in 1..n : /\ SettledBy(i, at)
                /\ \E c \in DOMAIN usages[i].query.baseline : usages[i].query.baseline[c].version = v
                /\ Participation(usages[i], v) = "used"
                /\ TaskOutcome(usages[i]) \in {"success", "failure"}}
Counts(v, n, at) ==
  LET is == Samples(v, n, at) IN
  [success |-> Cardinality({i \in is : TaskOutcome(usages[i]) = "success"}), all |-> Cardinality(is)]

(***************************************************************************)
(* The order that history proposes (proposeHistoryOrder), for candidates   *)
(* in their baseline order and the counts of each.                         *)
(***************************************************************************)
\* (mutant) One sample is enough.
Sampled(n) == n > 0

Enough(n) == n >= MinSamples

\* Smoothed success rates, compared without division.
Better(a, b) == (a.success + 1) * (b.all + 2) > (b.success + 1) * (a.all + 2)

Scored(cs, counts) == {i \in DOMAIN cs : cs[i].eligible /\ Enough(counts[i].all)}

HistoryOrder(cs, counts) ==
  LET scored == Scored(cs, counts)
      group(i) == {j \in scored : cs[j].relevance = cs[i].relevance}
      before(j, i) == Better(counts[j], counts[i]) \/ (~Better(counts[i], counts[j]) /\ j < i)
  IN [i \in DOMAIN cs |->
        IF i \notin scored THEN cs[i].version
        ELSE cs[CHOOSE j \in group(i) :
                  Cardinality({k \in group(i) : before(k, j)}) = Cardinality({k \in group(i) : k < i})].version]

(***************************************************************************)
(* The rows (buildLearningRows): identities with their labels.             *)
(***************************************************************************)
KeptPlaces(u) == {i \in DOMAIN u.query.baseline : u.query.baseline[i].version \notin forgottenVersions}
\* The nth number of a set.
Nth(S, n) == CHOOSE i \in S : Cardinality({j \in S : j < i}) = n - 1
Kept(u) == [n \in 1..Cardinality(KeptPlaces(u)) |-> u.query.baseline[Nth(KeptPlaces(u), n)]]

\* What is known of each candidate of a comparison.
KeptCounts(n) == [i \in DOMAIN Kept(usages[n]) |-> Counts(Kept(usages[n])[i].version, n - 1, usages[n].at)]

Comparison(n) ==
  LET u == usages[n]
      cs == Kept(u)
      counts == KeptCounts(n)
  IN [usage |-> n, baseline |-> [i \in DOMAIN cs |-> cs[i].version],
      proposed |-> HistoryOrder(cs, counts),
      mode |-> IF Scored(cs, counts) = {} THEN "fallback" ELSE "shadow",
      sources |-> UNION {Samples(cs[i].version, n - 1, u.at) : i \in DOMAIN cs}]

HumanLabel(u) == IF u.decision = "pending" THEN {} ELSE {u.decision}

ApplicabilityRows ==
  LET candidates(n) == {v \in Versions \ forgottenVersions :
                          \E c \in DOMAIN usages[n].query.baseline : usages[n].query.baseline[c].version = v}
      row(n, v) ==
        [capability |-> "applicability", usage |-> n, version |-> v,
         participation |-> Participation(usages[n], v),
         human |-> IF v \in usages[n].query.selected THEN HumanLabel(usages[n]) ELSE {},
         outcome |-> IF Participation(usages[n], v) = "used" THEN {usages[n].settled.outcome} ELSE {}]
  IN UNION {{row(n, v) : v \in candidates(n)} : n \in DOMAIN usages}

\* The results of the usages whose plan selected the Version of a Candidate or a Revision.
ExtractionRows ==
  {[capability |-> "extraction", version |-> v,
    outcome |-> {<<n, usages[n].settled.outcome>> : n \in {m \in DOMAIN usages :
                   /\ v \in usages[m].query.selected
                   /\ Settled(usages[m]) /\ usages[m].settled.outcome # "unknown"}}] : v \in Versions \ forgottenVersions}
RevisionRows ==
  {[capability |-> "revision", version |-> v,
    outcome |-> {<<n, usages[n].settled.outcome>> : n \in {m \in DOMAIN usages :
                   Participation(usages[m], v) = "used"}}] : v \in Versions \ forgottenVersions}

\* The relation of all Versions, if some plan selected it.
MergeRows ==
  IF forgottenVersions # {} \/ ~\E n \in DOMAIN usages : usages[n].query.relation THEN {}
  ELSE {[capability |-> "merge",
         outcome |-> {<<n, usages[n].settled.outcome>> : n \in {m \in DOMAIN usages :
                        /\ usages[m].query.relation
                        /\ Settled(usages[m]) /\ usages[m].settled.outcome # "unknown"}}]}

ExecutionRows ==
  {[capability |-> "execution", usage |-> n, human |-> HumanLabel(usages[n]), outcome |-> usages[n].settled.outcome] :
     n \in {m \in DOMAIN usages : usages[m].query.selected \cap forgottenVersions = {}}}

Comparisons == {Comparison(n) : n \in {m \in DOMAIN usages : Kept(usages[m]) # <<>>}}

\* commitLearningProjection replaces what is stored.
ProjectHistory ==
  /\ learningRows' = [comparisons |-> Comparisons,
              labels |-> ApplicabilityRows \cup ExtractionRows \cup RevisionRows \cup MergeRows \cup ExecutionRows]
  /\ UNCHANGED <<usages, forgottenVersions, learningClock>>

HistoryNext ==
  \/ HistoryTick \/ ProjectHistory
  \/ \E q \in Queries : Plan(q)
  \/ \E v \in Versions : ForgetVersion(v)
  \/ \E i \in DOMAIN usages :
       \/ AdaptPlan(i) \/ Abort(i)
       \/ \E decision \in {"approved", "denied", "withdrawn"} : DecidePlan(i, decision)
       \/ \E status \in {"prepared", "appended", "failed", "included"} : Deliver(i, status)
       \/ \E outcome \in Outcomes : Settle(i, outcome)

HistorySpec == HistoryInit /\ [][HistoryNext]_learning

(***************************************************************************)
(* Properties.                                                             *)
(***************************************************************************)
\* History only changes the order of equally relevant, usable Versions with enough samples:
\* they share the places they had, the most successful first and ties as they were, and
\* nothing else moves.
OrderLegal(cs, counts) ==
  LET order == HistoryOrder(cs, counts)
      came(i) == CHOOSE j \in DOMAIN cs : cs[j].version = order[i]
      movable(j) == cs[j].eligible /\ counts[j].all >= MinSamples
      rate(i, j) == (counts[came(i)].success + 1) * (counts[came(j)].all + 2)
  IN /\ \A i, j \in DOMAIN cs : order[i] = order[j] => i = j
     /\ \A i \in DOMAIN cs :
          /\ cs[came(i)].relevance = cs[i].relevance
          /\ ~movable(i) => came(i) = i
     /\ \A i, j \in DOMAIN cs :
          i < j /\ movable(i) /\ movable(j) /\ cs[i].relevance = cs[j].relevance =>
            rate(i, j) > rate(j, i) \/ (rate(i, j) = rate(j, i) /\ came(i) < came(j))

\* Every comparison that is readable is legal and counts only usages that were approved,
\* entered a request and were settled as success or failure before its plan was made.
ComparisonsLegal ==
  \A c \in learningRows.comparisons :
    LET u == usages[c.usage]
    IN /\ {c.proposed[i] : i \in DOMAIN c.proposed} = {c.baseline[i] : i \in DOMAIN c.baseline}
       /\ \A i \in DOMAIN c.baseline : \E j \in DOMAIN u.query.baseline : c.baseline[i] = u.query.baseline[j].version
       /\ \A n \in c.sources :
            /\ n < c.usage /\ usages[n].decision = "approved" /\ usages[n].delivery = "included"
            /\ usages[n].settled.outcome \in {"success", "partial", "failure"}
            /\ usages[n].settled.at <= u.at

\* And so is the order of every comparison that the next projection builds.
OrdersLegal == \A n \in DOMAIN usages : OrderLegal(Kept(usages[n]), KeptCounts(n))

\* What is learned is sound, from the usages to the order it proposes.
LearningSound == ComparisonsLegal /\ OrdersLegal

\* What the owner reviewed stays what it was: apart from an Experience in it that is forgotten
\* and a settled usage that is aborted, a comparison changes only while its plan may still be
\* adapted, or by what is settled at the very time its plan is dated, and then it only gains
\* samples.  What happens after a plan was decided does not reach its comparison.
ComparisonsStable ==
  [][forgottenVersions' = forgottenVersions /\ (\A i \in DOMAIN usages : usages'[i].aborted = usages[i].aborted) =>
       \A n \in DOMAIN usages :
         \/ Comparison(n)' = Comparison(n)
         \/ /\ usages'[n].at = learningClock
            /\ usages[n].decision = "pending" \/ usages[n].at = learningClock
            /\ Comparison(n).sources \subseteq Comparison(n)'.sources]_learning
=============================================================================
