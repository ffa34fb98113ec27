-------------------------- MODULE HybridRetrieval --------------------------
(***************************************************************************)
(* The choice of the one Version a plan may recall: hard eligibility, a    *)
(* lexical and a dense ranking of what is left, their reciprocal-rank      *)
(* fusion, and the gates that accept the winner or abstain.                *)
(*                                                                         *)
(* A Version v of the ranking is a record of what the text decides:        *)
(*   id, kind; conflicts, the hard filters the task breaks; focus, whether *)
(*   the task meets its automatic focus; supported, whether roles and      *)
(*   evidence suffice; vetoed, whether its privacy or an action the task   *)
(*   forbids rules it out of an automatic recall; exact, whether it shares *)
(*   a symptom code; bm25 and overlap, its lexical score (0 for no hit)    *)
(*   and the distinct words shared; similarity, of its vector to the       *)
(*   query's, as a percentage, or NoVector.                                *)
(* BM25 and the embedding themselves are left out: their scores are        *)
(* inputs.  The operation op is what was prepared before the Versions were *)
(* read.                                                                   *)
(***************************************************************************)
EXTENDS Integers, Sequences, FiniteSets

CONSTANTS MinimumOverlap, RelativeMargin, RrfK

ASSUME RetrievalAssumption == MinimumOverlap \in Nat /\ RelativeMargin \in 0..100 /\ RrfK \in Nat

\* What a Version may be to a task.
Kinds == {"procedure", "diagnostic", "preference_policy", "fact", "strategy", "causal"}
HardFilters ==
  {"local_procedure_rejected", "hard_scope_conflict", "exact_signal_conflict", "use_mode_not_allowed",
   "preference_subject_conflict", "capability_mismatch"}
Matches ==
  [id : Nat \ {0}, kind : Kinds, conflicts : SUBSET HardFilters, focus : BOOLEAN, supported : BOOLEAN,
   vetoed : BOOLEAN, exact : BOOLEAN, bm25 : Nat, overlap : Nat, similarity : Int]

NoVector == -101

\* What the shared matcher rejects for; an exact code never rejects.
Rejections(v) == v.conflicts \cup (IF v.focus THEN {} ELSE {"automatic_focus_not_matched"})

DenseKindAllowed(v, op) == op.automatic => v.kind \in op.allowed

\* Only a calibrated dense comparison may stand in for the focus of a procedure.
FocusDeferred(v, op) ==
  /\ op.automatic /\ op.queryVector
  /\ v.kind = "procedure" /\ DenseKindAllowed(v, op)
  /\ Rejections(v) = {"automatic_focus_not_matched"}

TypeEvidenceRejected(v) == ~v.supported
AutomaticRejected(v, op) == op.automatic /\ v.vetoed

HardRejected(v, op) ==
  \/ Rejections(v) # {} /\ ~FocusDeferred(v, op)
  \/ TypeEvidenceRejected(v)
  \/ AutomaticRejected(v, op)

Eligible(versions, op) == {v \in versions : ~HardRejected(v, op)}

CandidateLimit(limit) == limit   \* (mutant)

\* The limit of the explanation must not weaken the margin of acceptance.
RankingLimit(limit) == IF limit < 2 THEN 2 ELSE limit

TakeFirst(s, n) == [i \in 1..(IF Len(s) < n THEN Len(s) ELSE n) |-> s[i]]

\* The entries in order, from the set of those that come before each.
InOrder(before) ==
  [i \in 1..Cardinality(DOMAIN before) |-> CHOOSE a \in DOMAIN before : Cardinality(before[a]) = i - 1]

LexicalHits(versions, op) == {v \in Eligible(versions, op) : v.bm25 > 0}
LexicalBefore(a, b) == a.bm25 > b.bm25 \/ (a.bm25 = b.bm25 /\ a.id < b.id)
LexicalResults(versions, op, limit) ==
  LET hits == LexicalHits(versions, op)
  IN TakeFirst(InOrder([v \in hits |-> {w \in hits : LexicalBefore(w, v)}]), RankingLimit(limit))

DenseHits(versions, op) ==
  {v \in Eligible(versions, op) : op.queryVector /\ DenseKindAllowed(v, op) /\ v.similarity # NoVector}
DenseBefore(a, b) == a.similarity > b.similarity \/ (a.similarity = b.similarity /\ a.id < b.id)
DenseResults(versions, op, limit) ==
  LET hits == DenseHits(versions, op)
  IN TakeFirst(InOrder([v \in hits |-> {w \in hits : DenseBefore(w, v)}]), RankingLimit(limit))

\* 0 for a Version the ranking does not hold.
Rank(results, v) ==
  IF \E i \in DOMAIN results : results[i] = v THEN CHOOSE i \in DOMAIN results : results[i] = v ELSE 0

\* 1 / (RrfK + lexical) + 1 / (RrfK + semantic) as a fraction: larger iff the cross product is.
Fused(lexical, semantic) ==
  IF semantic = 0 THEN <<1, RrfK + lexical>>
  ELSE IF lexical = 0 THEN <<1, RrfK + semantic>>
  ELSE <<(RrfK + lexical) + (RrfK + semantic), (RrfK + lexical) * (RrfK + semantic)>>
Exceeds(f, g) == f[1] * g[2] > g[1] * f[2]

\* Exact codes, then the fused score, then the similarity, the lexical score and the identifier.
Precedes(a, b) ==
  IF a.v.exact # b.v.exact THEN a.v.exact
  ELSE IF Exceeds(a.fused, b.fused) \/ Exceeds(b.fused, a.fused) THEN Exceeds(a.fused, b.fused)
  ELSE IF a.semantic # b.semantic THEN a.semantic > b.semantic
  ELSE IF a.lexical # b.lexical THEN a.lexical > b.lexical
  ELSE a.v.id < b.v.id

Entry(lexical, dense, v) ==
  [v |-> v, lexicalRank |-> Rank(lexical, v), semanticRank |-> Rank(dense, v),
   fused |-> Fused(Rank(lexical, v), Rank(dense, v)),
   semantic |-> IF Rank(dense, v) = 0 THEN -100 ELSE v.similarity,
   lexical |-> IF Rank(lexical, v) = 0 THEN 0 ELSE v.bm25]
Fusion(lexical, dense) ==
  LET found == {lexical[i] : i \in DOMAIN lexical} \cup {dense[i] : i \in DOMAIN dense}
      order == InOrder([v \in found |-> {w \in found : Precedes(Entry(lexical, dense, w), Entry(lexical, dense, v))}])
  IN [i \in DOMAIN order |-> Entry(lexical, dense, order[i])]

LexicalAccepted(first, lexical) ==
  /\ first.lexicalRank = 1
  /\ first.v.overlap >= MinimumOverlap \/ first.v.exact
  /\ \/ Len(lexical) = 1
     \/ 100 * (lexical[1].bm25 - lexical[2].bm25) >= RelativeMargin * lexical[1].bm25
     \/ first.v.exact

DenseThresholdMet(first, op) == first.semanticRank = 1 /\ first.v.similarity >= op.threshold

DenseAccepted(first, dense, op) ==
  /\ DenseThresholdMet(first, op)
  /\ Len(dense) = 1 \/ dense[1].similarity - dense[2].similarity >= op.margin \/ first.v.exact

\* A lexical winner may corroborate the dense one; it never bridges the focus on its own.
FocusCorroborated(first, lexical, op) ==
  FocusDeferred(first.v, op) /\ DenseThresholdMet(first, op) /\ LexicalAccepted(first, lexical)

Accepted(first, lexical, dense, op) ==
  \/ first.v.exact
  \/ ~FocusDeferred(first.v, op) /\ LexicalAccepted(first, lexical)
  \/ DenseAccepted(first, dense, op)
  \/ FocusCorroborated(first, lexical, op)

\* An automatic recall may meet a kind whose dense comparison was never calibrated.
Uncalibrated(versions, op) == \E v \in versions : op.queryVector /\ ~DenseKindAllowed(v, op)

AbstentionReasons(fused, lexical, dense, versions, op) ==
  LET first == fused[1]
      uncalibrated == IF Uncalibrated(versions, op) THEN {"profile_not_calibrated"} ELSE {}
  IN IF fused = <<>>
     THEN {"no_hard_eligible_candidate"} \cup uncalibrated
            \cup (IF op.failure = "not_calibrated" THEN {"profile_not_calibrated"} ELSE {})
     ELSE uncalibrated
            \cup (IF LexicalAccepted(first, lexical) THEN {} ELSE {"lexical_threshold_not_met"})
            \cup (IF DenseAccepted(first, dense, op) \/ FocusCorroborated(first, lexical, op) THEN {}
                  ELSE IF op.failure = "not_calibrated" THEN {"profile_not_calibrated"}
                  ELSE IF ~op.queryVector THEN {"dense_unavailable"}
                  ELSE {"dense_threshold_or_margin_not_met"})

\* A row of the match set; a rejected or uncalibrated Version is only explained.
Explained(v) == [v |-> v, rejected |-> TRUE, selected |-> FALSE, semantic |-> NoVector, lexicalRank |-> 0, semanticRank |-> 0]
Candidate(entry, primary, op) ==
  [v |-> entry.v,
   rejected |-> IF entry.v.id = primary THEN FALSE ELSE Rejections(entry.v) # {},
   selected |-> entry.v.id = primary,
   semantic |-> IF entry.semanticRank = 0 THEN NoVector ELSE entry.v.similarity,
   lexicalRank |-> entry.lexicalRank, semanticRank |-> entry.semanticRank]

\* The order of the rows that only explain is that of the identifiers.
Explanations(versions, op, shown) ==
  LET rejected == {v \in versions : HardRejected(v, op) /\ (v.bm25 > 0 \/ "exact_signal_conflict" \in v.conflicts)}
      bare == {v \in versions : /\ ~HardRejected(v, op) /\ op.queryVector /\ ~DenseKindAllowed(v, op)
                                /\ v \notin shown /\ v.bm25 > 0}
      byId(S) == InOrder([v \in S |-> {w \in S : w.id < v.id}])
      all == byId(rejected) \o byId(bare)
  IN [i \in DOMAIN all |-> Explained(all[i])]

Decision(versions, op, limit) ==
  LET lexical == LexicalResults(versions, op, limit)
      dense == DenseResults(versions, op, limit)
      fused == Fusion(lexical, dense)
      accepted == fused # <<>> /\ Accepted(fused[1], lexical, dense, op)
      primary == IF accepted THEN fused[1].v.id ELSE 0
      shown == [i \in DOMAIN TakeFirst(fused, limit) |-> Candidate(fused[i], primary, op)]
  IN [primary |-> primary,
      candidates |-> TakeFirst(shown \o Explanations(versions, op, {shown[i].v : i \in DOMAIN shown}), limit),
      reasons |-> IF accepted THEN {} ELSE AbstentionReasons(fused, lexical, dense, versions, op)]
=============================================================================
