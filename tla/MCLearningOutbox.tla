------------------------- MODULE MCLearningOutbox -------------------------
(***************************************************************************)
(* Learning on small instances, one of which a behaviour takes: the        *)
(* workers of the outbox, the rows they build, the order that history      *)
(* proposes for given counts, and the governance of that order.            *)
(***************************************************************************)
EXTENDS LearningOutbox, Governance, LearningRows, TLC

VARIABLE part

WorkerSymmetry == Permutations(Workers)

(***************************************************************************)
(* Governance: four usages, two scopes, one place in the rollout.          *)
(***************************************************************************)
HalfOfThem == <<1, 2>>

Planned(h) == {u \in Usages : plans[u].history = h}

\* Bound: the calls are begun in order; one plan in the other scope, one whose history does not move anything; plans without
\* a ticket come first, three of them, and are not begun while one is under way.
GateInOrder(u, scope, history) ==
  /\ \A x \in 1..(u - 1) : plans[x].phase # "none"
  /\ history # "moves" => Planned(history) = {} /\ scope = "s"
  /\ scope # "s" => \A x \in Usages : plans[x].scope # scope
  /\ IF Authorized(scope)
     THEN \A x \in Usages : plans[x].phase = "gated" => plans[x].ticket # NoTicket
     ELSE evaluations = <<>> /\ Cardinality({x \in Usages : plans[x].phase # "none"}) < 3

Underway == \E u \in Usages : plans[u].phase = "gated" /\ plans[u].ticket = NoTicket

\* Bound: disabled is the last level; one comparison that was reviewed is forgotten.
DemoteInOrder(level) == level = "disabled" => Len(decisions) = 2
ForgetInOrder(u) == forgottenUsages = {} /\ \E r \in reviews : r.usage = u

\* Bound: nothing is reviewed after the last evaluation, the plans in order, one undecided.
ReviewInOrder(u, preferred) ==
  /\ Len(evaluations) < 2
  /\ \A r \in reviews : r.usage <= u
  /\ preferred = "equivalent" => \A r \in reviews : r.preferred # "equivalent"

(***************************************************************************)
(* Rows: two Versions, two queries, three usages of which the last is only *)
(* planned.                                                                *)
(***************************************************************************)
Candidate(v, relevance, eligible) == [version |-> v, relevance |-> relevance, eligible |-> eligible]
Asked(baseline, relation) ==
  [baseline |-> baseline, selected |-> {baseline[i].version : i \in {k \in DOMAIN baseline : baseline[k].eligible}},
   relation |-> relation]

RowQueries == {Asked(<<Candidate("v", 1, TRUE), Candidate("w", 1, TRUE)>>, TRUE),
               Asked(<<Candidate("w", 1, TRUE), Candidate("v", 1, FALSE)>>, FALSE)}

Full == Len(usages) = 3
Projected == learningRows.comparisons # {}

\* Bound: the first usage alone takes every decision and outcome, the last one has the query
\* in which every Version is usable; nothing is delivered or
\* aborted after the rows were built.
DecideInOrder(i, decision) ==
  /\ decision # "approved" => i = 1
  /\ decision = "denied" => usages[i].query.relation

\* Bound: one usage is being delivered at a time.
DeliverInOrder(i, status) ==
  /\ status = "failed" => i = 1
  /\ \A j \in DOMAIN usages \ {i} : usages[j].delivery \notin {"prepared", "appended"}

\* Bound: a plan is adapted when an earlier usage was settled since, and before the rows are built.
AdaptInOrder(i) == ~Projected /\ \E j \in 1..(i - 1) : usages[j].settled.at > usages[i].at

(***************************************************************************)
(* Orders: a plan for three Versions after every history in which each was *)
(* used up to three times, the last one twice, in plans of its own that    *)
(* were settled at once.                                                   *)
(***************************************************************************)
Three == <<"v", "w", "x">>
Singles == [i \in 1..3 |-> Asked(<<Candidate(Three[i], 1, TRUE)>>, FALSE)]
OrderQueries ==
  {Asked([i \in 1..3 |-> Candidate(Three[i], relevance[i], i # unusable)], FALSE) :
     relevance \in [1..3 -> {1, 2}], unusable \in 0..3}
MCQueries == RowQueries \cup OrderQueries \cup {Singles[i] : i \in 1..3}

MCCounts == {c \in [success: 0..3, all: 1..3] : c.success <= c.all}

\* The usages of a history, and the one that is planned after them.
Used(counts) ==
  LET total == counts[1].all + counts[2].all + counts[3].all
      of(n) == IF n <= counts[1].all THEN 1 ELSE IF n <= counts[1].all + counts[2].all THEN 2 ELSE 3
      nth(n) == n - (IF of(n) > 1 THEN counts[1].all ELSE 0) - (IF of(n) > 2 THEN counts[2].all ELSE 0)
  IN [n \in 1..total |->
        [query |-> Singles[of(n)], at |-> n - 1, decision |-> "approved", delivery |-> "included", aborted |-> FALSE,
         settled |-> [outcome |-> IF nth(n) <= counts[of(n)].success THEN "success" ELSE "failure", at |-> total]]]
Then(us, q) == Append(us, [query |-> q, at |-> Len(us), decision |-> "pending", delivery |-> "none",
                           aborted |-> FALSE, settled |-> NotSettled])

(***************************************************************************)
(* The instance.                                                           *)
(***************************************************************************)
MCInit ==
  /\ part \in {"outbox", "ranking", "rows", "orders"}
  /\ Init /\ GovernanceInit
  /\ IF part # "orders" THEN HistoryInit
     ELSE /\ \E counts \in [1..3 -> MCCounts], q \in OrderQueries : counts[3].all = 2 /\ usages = Then(Used(counts), q)
          /\ learningClock = Len(usages) /\ forgottenVersions = {} /\ learningRows = [comparisons |-> {}, labels |-> {}]

InOutbox == part = "outbox" /\ UNCHANGED <<part, governance, learning>>
InRanking == part = "ranking" /\ UNCHANGED <<part, vars, learning>>
InRows == part = "rows" /\ UNCHANGED <<part, vars, governance>>

MCNext ==
  \/ InOutbox /\ Next
  \/ InRanking /\ ~Underway /\ ProjectRankings
  \/ InRanking /\ reviews # {} /\ Evaluate
  \/ \E level \in Levels : InRanking /\ DemoteInOrder(level) /\ Demote(level)
  \/ \E e \in DOMAIN evaluations : InRanking /\ Promote(e)
  \/ \E u \in Usages :
       \/ InRanking /\ ForgetInOrder(u) /\ ForgetCompared(u)
       \/ InRanking /\ Save(u)
       \/ InRanking /\ plans[u].ticket # NoTicket /\ SaveFails(u)
       \/ \E preferred \in {"proposed", "baseline", "equivalent"} :
            InRanking /\ ReviewInOrder(u, preferred) /\ Review(u, preferred)
       \/ \E scope \in {"s", "t"}, h \in {"none", "keeps", "moves"} :
            InRanking /\ GateInOrder(u, scope, h) /\ Gate(u, scope, h)
  \/ InRows /\ ~Full /\ learningClock < 4 /\ (\E i \in DOMAIN usages : usages[i].delivery = "included") /\ HistoryTick
  \/ InRows /\ Full /\ ProjectHistory
  \/ \E q \in RowQueries : InRows /\ ~Full /\ learningClock < 4 /\ (Len(usages) = 2 => q.relation) /\ Plan(q)
  \/ \E v \in {"v", "w"} : InRows /\ Full /\ forgottenVersions = {} /\ ForgetVersion(v)
  \/ \E i \in DOMAIN usages : InRows /\ AdaptInOrder(i) /\ AdaptPlan(i)
  \/ \E i \in DOMAIN usages \ {3} :
       \/ InRows /\ ~Projected /\ Abort(i)
       \/ \E decision \in {"approved", "denied", "withdrawn"} :
            InRows /\ DecideInOrder(i, decision) /\ DecidePlan(i, decision)
       \/ \E status \in {"prepared", "appended", "failed", "included"} :
            InRows /\ ~Projected /\ DeliverInOrder(i, status) /\ Deliver(i, status)
       \/ \E outcome \in Outcomes :
            InRows /\ (outcome \notin {"success", "failure"} => i = 1) /\ Settle(i, outcome)

MCSpec == MCInit /\ [][MCNext]_<<part, vars, governance, learning>>
=============================================================================
