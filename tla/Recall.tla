------------------------------- MODULE Recall -------------------------------
(***************************************************************************)
(* The retrieval projection and the recall of one plan.  A rebuild         *)
(* captures the settings and the active Versions, awaits their embedding   *)
(* and publishes a generation of documents, dense or, when the embedding   *)
(* fails, lexical.  Two owners rebuild: the projection worker at every     *)
(* poll and the recall that meets a stale generation; each runs one        *)
(* rebuild at a time, and nothing orders the two.  A plan captures the     *)
(* settings, waits for the fingerprint, reads a generation, waits for the  *)
(* embedding of its query and then reads the active Versions and decides.  *)
(*                                                                         *)
(* Version contents are immutable, so a document is its Version.  Vectors  *)
(* are the model that produced them.  Batches, digests of the artifacts    *)
(* and the cancellation at disposal are left out.                          *)
(***************************************************************************)
EXTENDS HybridRetrieval

CONSTANTS
  Versions,      \* identifiers of the Versions
  Models,        \* embedding models the settings may name
  Calibrated,    \* the models with an automatic profile
  AllowedKinds,  \* the kinds of that profile
  Tasks,         \* functions [Versions -> record]: what each Version is to a task
  CandidateMax   \* the candidate limit of the settings

ASSUME RecallAssumption ==
  /\ IsFiniteSet(Versions) /\ AllowedKinds \subseteq Kinds /\ AllowedKinds # {} /\ CandidateMax \in Nat \ {0}
  /\ Tasks \subseteq [Versions -> Matches]
  /\ \A task \in Tasks, v, w \in Versions : task[v].id = task[w].id => v = w

VARIABLES
  model,         \* the settings: the local model, or "disabled"
  library,       \* the active Versions
  generation,    \* the active retrieval generation
  builders,      \* the rebuild each owner has in flight
  query          \* the plan in progress

recall == <<model, library, generation, builders, query>>

Owners == {"worker", "recall"}
Settings == Models \cup {"disabled"}
NoBuild == [phase |-> "idle"]
NoQuery == [phase |-> "none"]

RecallInit ==
  /\ model \in Settings
  /\ library \in SUBSET Versions
  /\ generation = [settings |-> "none", documents |-> {}, vectors |-> "none", failed |-> FALSE]
  /\ builders = [o \in Owners |-> NoBuild]
  /\ query = NoQuery

-----------------------------------------------------------------------------
(* The rebuild.                                                            *)

SameDocuments(new) == generation.documents = new.documents   \* (mutant)

\* A rebuild whose content equals the active generation's publishes nothing.
Unchanged(new) == generation = new

Published(new) == generation' = IF Unchanged(new) THEN generation ELSE new

\* Disabled settings and an empty library need no embedding: the rebuild ends at once.
Capture(o, bs) ==
  IF model = "disabled" \/ library = {}
  THEN /\ Published([settings |-> model, documents |-> library, vectors |-> "none", failed |-> FALSE])
       /\ builders' = bs
  ELSE /\ builders' = [bs EXCEPT ![o] = [phase |-> "embedding", settings |-> model, documents |-> library]]
       /\ UNCHANGED generation

\* The poll of the projection worker.
RebuildGeneration ==
  /\ builders["worker"].phase = "idle"
  /\ Capture("worker", builders)
  /\ UNCHANGED <<model, library, query>>

\* The recall drops its request when its own rebuild is in flight.
ScheduleRebuild ==
  IF builders["recall"].phase = "idle" THEN Capture("recall", builders) ELSE UNCHANGED <<generation, builders>>

Embedded(o) ==
  LET b == builders[o] IN
  /\ b.phase = "embedding"
  /\ \E ok \in BOOLEAN :
       Published([settings |-> b.settings, documents |-> b.documents,
                  vectors |-> IF ok THEN b.settings ELSE "none", failed |-> ~ok])
  /\ builders' = [builders EXCEPT ![o] = NoBuild]
  /\ UNCHANGED <<model, library, query>>

-----------------------------------------------------------------------------
(* The query.                                                              *)

\* The settings are captured before the fingerprint is awaited.
Ask ==
  /\ query.phase = "none"
  /\ \E automatic \in BOOLEAN, task \in Tasks :
       query' = [phase |-> "fingerprint", settings |-> model, automatic |-> automatic, task |-> task]
  /\ UNCHANGED <<model, library, generation, builders>>

Prepared(phase, state, failure) ==
  query' = [phase |-> phase, settings |-> query.settings, automatic |-> query.automatic,
            task |-> query.task, state |-> state, failure |-> failure, generation |-> generation, read |-> TRUE]

ProviderMatches == generation.settings \in Models   \* (mutant)
SameSettings == generation.settings = query.settings

\* The generation is read, unless the sidecar is unreadable, and decides the dense state.
Prepare ==
  /\ query.phase = "fingerprint"
  /\ IF query.settings = "disabled"
     THEN /\ IF generation.settings = "disabled" THEN UNCHANGED <<generation, builders>> ELSE ScheduleRebuild
          /\ Prepared("prepared", "disabled", "none")
     ELSE IF ~SameSettings
     THEN ScheduleRebuild /\ Prepared("prepared", "stale_generation", "drift")
     ELSE /\ UNCHANGED <<generation, builders>>
          /\ IF generation.vectors = "none"
             THEN Prepared("prepared", "unavailable", "provider")
             ELSE IF query.automatic /\ query.settings \notin Calibrated
             THEN Prepared("prepared", "unavailable", "not_calibrated")
             ELSE Prepared("embedding", "ready", "none")
  /\ UNCHANGED <<model, library>>

PrepareUnreadable ==
  /\ query.phase = "fingerprint"
  /\ ScheduleRebuild
  /\ query' = [phase |-> "prepared", settings |-> query.settings, automatic |-> query.automatic,
               task |-> query.task, state |-> IF query.settings = "disabled" THEN "disabled" ELSE "unavailable",
               failure |-> IF query.settings = "disabled" THEN "none" ELSE "provider",
               generation |-> generation, read |-> FALSE]
  /\ UNCHANGED <<model, library>>

QueryEmbedded ==
  /\ query.phase = "embedding"
  /\ query' = [query EXCEPT !.phase = "prepared"]
  /\ UNCHANGED <<model, library, generation, builders>>

QueryFails ==
  /\ query.phase = "embedding"
  /\ query' = [query EXCEPT !.phase = "prepared", !.state = "unavailable", !.failure = "provider"]
  /\ UNCHANGED <<model, library, generation, builders>>

\* A vector counts for the Version whose document the captured generation holds.
Operation ==
  [automatic |-> query.automatic, queryVector |-> query.state = "ready", failure |-> query.failure,
   allowed |-> IF query.automatic /\ query.settings \in Calibrated THEN AllowedKinds ELSE {},
   threshold |-> 80, margin |-> 5]

Ranked ==
  {[query.task[v] EXCEPT !.similarity = IF query.state = "ready" /\ v \in query.generation.documents THEN @ ELSE NoVector]
    : v \in library}

Outcome == Decision(Ranked, Operation, CandidateMax)

\* The Versions are read and the match set is stored in one snapshot.
Match ==
  /\ query.phase = "prepared"
  /\ query' = NoQuery
  /\ UNCHANGED <<model, library, generation, builders>>

\* The check of a stored match set when it is read back.
ValidDecision(d) ==
  LET Selected == {i \in DOMAIN d.candidates : d.candidates[i].selected} IN
  /\ query.state # "ready" => \A i \in DOMAIN d.candidates : d.candidates[i].semantic = NoVector
  /\ query.state = "ready" /\ query.automatic => Operation.allowed # {}
  /\ query.state = "ready" => query.read /\ query.failure = "none"
  /\ query.state \in {"unavailable", "stale_generation"} => query.failure # "none"
  /\ IF d.primary = 0
     THEN d.reasons # {} /\ Selected = {}
     ELSE /\ d.reasons = {} /\ Cardinality(Selected) = 1
          /\ \A i \in Selected : d.candidates[i].v.id = d.primary /\ ~d.candidates[i].rejected

-----------------------------------------------------------------------------
(* The rest of the Host.                                                   *)

ChangeSettings(m) == m # model /\ model' = m /\ UNCHANGED <<library, generation, builders, query>>
Activate(v) == v \notin library /\ library' = library \cup {v} /\ UNCHANGED <<model, generation, builders, query>>
Retire(v) == v \in library /\ library' = library \ {v} /\ UNCHANGED <<model, generation, builders, query>>

RecallNext ==
  \/ RebuildGeneration
  \/ \E o \in Owners : Embedded(o)
  \/ Ask \/ Prepare \/ PrepareUnreadable \/ QueryEmbedded \/ QueryFails \/ Match
  \/ \E m \in Settings : ChangeSettings(m)
  \/ \E v \in Versions : Activate(v) \/ Retire(v)

\* Polls go on and an embedding, bounded by its timeout, ends.
RecallFairness == WF_recall(RebuildGeneration) /\ \A o \in Owners : WF_recall(Embedded(o))

RecallSpec == RecallInit /\ [][RecallNext]_recall
RecallFairSpec == RecallSpec /\ RecallFairness

-----------------------------------------------------------------------------
(* What a recall promises.                                                 *)

OthersOf(p) == Eligible(Ranked, Operation) \ {p}
Clear(p) ==
  /\ p.overlap >= MinimumOverlap /\ p.bm25 > 0
  /\ \A q \in OthersOf(p) : 100 * (p.bm25 - q.bm25) >= RelativeMargin * p.bm25
DenseFirst(p) ==
  /\ p.similarity >= Operation.threshold /\ DenseKindAllowed(p, Operation)
  /\ \A q \in OthersOf(p) : DenseKindAllowed(q, Operation) => p.similarity >= q.similarity
DenseClear(p) ==
  DenseFirst(p) /\ \A q \in OthersOf(p) : DenseKindAllowed(q, Operation) => p.similarity >= q.similarity + Operation.margin

\* A recalled Version breaks no hard filter, and either shares a symptom code, stands clear of every
\* eligible rival in one channel, or leads both when only its focus is deferred: however few
\* candidates the settings ask for, a near tie abstains, and words alone never replace the focus.
AcceptsOnlyClear ==
  query.phase = "prepared" => \A p \in Ranked : p.id = Outcome.primary =>
    /\ p.conflicts = {} /\ p.supported /\ (query.automatic => ~p.vetoed)
    /\ \/ p.exact
       \/ p.focus /\ Clear(p)
       \/ DenseClear(p)
       \/ DenseFirst(p) /\ Clear(p)

\* The stored match set passes the check it is read back with.
DecisionReadable == query.phase = "prepared" => ValidDecision(Outcome)

RecallSound == AcceptsOnlyClear /\ DecisionReadable

\* The query and the documents it is compared with were embedded by one model, whatever settings
\* changed and whichever rebuild ended last while the plan waited.
SameModelSpace ==
  query.phase \in {"embedding", "prepared"} /\ query.state = "ready" => query.generation.vectors = query.settings

\* Once the library and the settings rest, the generation is theirs, whatever rebuild was overtaken.
CaughtUp == generation.settings = model /\ generation.documents = library
RetrievalCatchesUp == []<>CaughtUp
=============================================================================
