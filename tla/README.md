# Verification of dsh-experience-map

This directory holds TLA+ modules that model the Experience Map bundle
(`src/src/`), TLC configurations that check them on small instances, and theorems
about them whose proofs TLAPS checks. `PROJECT.json` lists the components, the
runs, the mutants (a plausible bug per property, which the property must catch),
the source lines every definition stands for, the findings, the hazards and the
theorems.

1. [The system](#1-the-system)
2. [The components](#2-the-components)
3. [The modules](#3-the-modules)
4. [The runs](#4-the-runs)
5. [Fairness](#5-fairness)
6. [The proofs](#6-the-proofs)
7. [Findings](#7-findings)
8. [What is not modelled](#8-what-is-not-modelled)
9. [The plan](#9-the-plan)

To check a module: `tlc -config PlanAdmission.cfg MCPlanAdmission`; to check the
proofs about it: `tlapm PlanAdmission_proofs.tla`.

## 1. The system

The bundle is a plugin of an agent host (the Harness). It keeps *Experiences*,
short structured accounts of how a task was done, in a SQLite database, and
brings them back when a similar task is started: it composes a *plan* of some
Experience versions, has its owner approve it, puts one *Experience Context*
message into the session that runs the task, guides and guards the agent while
it works, verifies the result and settles the *usage* with an outcome. Experiences
come from *Candidates*, which a model proposes from a recorded episode or a
background worker suggests from finished turns, and which the owner reviews.

Three kinds of actors change state.

- **The Host process**: the service (`application/service.ts`), its RPC channel
  to the browser workspace, and the hooks the Harness calls in each session:
  `preStep` before a model step, observers of the Session log, tool guards and
  tool results. Node is single-threaded: handlers interleave at each `await`. It
  owns a projection worker and, for vectors, an embedding child process.
- **The management CLI** (`cli/runner.ts`): a second process on the same
  database and sidecar with the same service code and no live sessions.
- **The Harness and the machine**: the Session log and its surface (what the
  model sees), the background jobs of the agent, their sockets, the model provider.

What they share, and how they interact:

| state | kept by | written by |
| --- | --- | --- |
| the SQLite file | `persistence/repository.ts`, through one `ExperienceDatabase` per process | every command and hook, one `BEGIN IMMEDIATE` transaction each |
| the write queue of a process | `persistence/database.ts` | every write |
| the sidecar file (suggestions, retrieval generations) | `persistence/projection-store.ts` | the projection worker, recalls, the owner's decisions; receipts of saves flow back from the SQLite file |
| the Session log and surface | the Harness | the pre-step (append), retirement (replace), the Agent Loop (send), generations |
| the running session's memory (active entry, guard, effect, owned jobs) | `application/execution-service.ts`, `adapters/web-verifier.ts` | delivery, tool results, verification, settlement |
| the learning rows and the governance of what they may change | `application/learning-projector.ts`, `persistence/repository.ts` | workers of both processes, from the outbox; the owner's reviews and decisions |
| the workspace's view | `client/store.ts` | RPC answers |

What is hard in it: no transaction spans the database, the sidecar and the
Session log; nearly every handler awaits between what it reads and what it writes;
approvals, claims and leases expire by the clock; the pre-step, an upgrade of the
sidecar or a save can be cut anywhere by a crash, an aborted turn or a write that
is refused; two processes write the same rows, and only one of them has the memory
that goes with them; the owner decides on what a window showed some time ago.

## 2. The components

For each: its state, its operations, what makes it correct, and its modules.

**Plan approval and one-time admission** (`planning-service.ts`,
`plan-interaction.ts`, `session-admission.ts`, `repository.ts` 1594–2140,
5880–6260). Usages with their plan revisions, approval requests, admission
attempts, retry bindings and context deliveries, most of them stored as rows and
again in the usage's projection. The owner approves, denies or withdraws in the
browser or answers the Host's question in the session; an approval mints a retry
binding; the pre-step of the exact task claims it under a lease and consumes it.
Correct when an approval delivers context at most once, only while it is current,
a decision is final, and the two copies agree. *PlanAdmission.*

**Plan composition** (`planning-service.ts`, `domain/planning.ts`,
`domain/composition.ts`). From matched versions to what each contributes, what they
require, the removal of equivalents and losers of conflicts, an order, and whether
the plan may be approved. Correct when a plan offered for approval keeps every
declared order, conflict and requirement, although versions and relations are read
in two snapshots. *PlanComposition, Relations.*

**Session admission and context delivery** (`session-admission.ts`,
`context-message.ts`, `session-source.ts`). Deliveries (prepared, appended,
included, interrupted) against the Session log. Correct when a session never
carries two contexts and what a model was shown is on record. *ContextDelivery.*

**Context retirement and Forget** (`context-retirement.ts`, `forget-service.ts`).
Retirement rows, Forget requests with targets and deferred steps. Correct when
nothing is called retired that is still on a surface, workers share their rows,
and none waits for ever. *ContextDelivery.*

**Guided use** (`execution-service.ts`, `web-verifier.ts`, `tool-guard.ts`). The
cursor over the steps with controller revisions, execution correlations,
verification runs, the settlement, and the Host's memory. Correct when only fresh
evidence counts, a settlement is written once, and the guard knows what may still
be running. *GuidedUsage.*

**Database write queue** (`database.ts`). A chain of promises with a counter.
Correct when calls run once and in order, refused ones leave no trace, every
accepted call settles, and close waits for all. *WriteQueue, SerialWrites.*

**Learning outbox and projector** (`learning-projector.ts`, `repository.ts`
3170–3300, 3890–4340). Outbox entries under leases, the checkpoint, and the rows
that are rebuilt as a whole. Correct when an entry has one holder, nothing is
completed that is not projected, and a comparison says the same once its plan is
decided. *LearningOutbox, LearningRows.*

**Candidate workflow and publication** (`candidate-service.ts`,
`candidate-workflow.ts`, `repository.ts` 311–840). Candidates with optimistic
revisions and decided fields; publication of an immutable version. Correct when a
published version says what was reviewed, every command acted on what its actor
last read, and publication gives no two active Experiences one kernel.
*CandidateReview.*

**Candidate proposal by a model** (`candidate-service.ts`, `proposal-llm.ts`,
`structured-generation.ts`). A disclosure, its confirmation, a Session made for the
generation, the stored Candidate. Correct when nothing is sent but what was
disclosed, a command has one run at a time, and a Candidate cites a complete,
persisted Session. *CandidateProposal.*

**Revision proposals and Markdown** (`markdown.ts`, `repository.ts` 2773–3160).
Proposals on a base version with per-change decisions. Correct when the next
version applies the accepted changes to the version it was based on, and the
components, revisions, statements and assessments it shares with others stay
consistent. *ExperienceVersions.*

**Typed relations and overrides** (`repository.ts` 1067–1400, 7561–7781).
Declarations with validators, overrides of conflicts. Correct when what planning
makes of them is what was declared, whatever the order of declarations and
whatever happens to the ends. *Relations.*

**Automatic suggestions** (`experience-projection-worker.ts`,
`projection-store.ts`, `automatic-suggestion.ts`, `suggestion-materializer.ts`,
`semantic-suggestion-consolidation.ts`). A sidecar that one worker fills from
finished turns, with the owner's decisions on its groups. Correct when no finished
turn and no committed save is ever lost, a Session that cannot be read holds up no
other, and a decision is not taken over.
*SuggestionInbox, and the comparison with stored versions in ExperienceVersions.*

**Retrieval projection and semantic worker** (`retrieval-projection.ts`,
`conservative-recall.ts`, `hybrid-retrieval.ts`, `local-embedding.ts`). Disposable
generations of an index, one ranking per plan, one embedding child. Correct when
query and documents are of one model, the generation catches up, an accepted
ranking satisfies its own gates for all scores, and vectors belong to a call of
their requestId. *Recall, HybridRetrieval, EmbeddingWorker.*

**Learning governance** (`repository.ts` 3280–3790, 4340–5050). Reviews of shadow
comparisons, evaluations, promotion, demotion, the gate and its rollout. Correct
when a reorder is authorized by the policy of the moment it is saved, a promotion
rests on a passed evaluation, and the rollout bound holds. *Governance.*

**Service lifecycle and runtime settings** (`index.ts`, `database.ts`,
`projection-store.ts` 1060–1330, `runtime-settings.ts`). Start, upgrade and
quarantine of the sidecar, close in order. Correct when there is one local owner, a
worker never runs on a closed store, no decision of the owner is lost and an
interrupted upgrade is completed by the next start. *HostLifecycle.*

**Workspace client store** (`client/store.ts`). One view, overlapping operations.
Correct when a confirmation of a disclosure serves one proposal of it, and what is
shown beside each other belongs together once operations stop overlapping.
*ClientStore.*

**Workspace user interface** (`client/workspace.tsx`, ...), **RPC, CLI and input
parsing** (`input.ts`, `rpc-channel.ts`, `cli/`), **schema, identifiers and
content policy** (`schema.ts`, `ids.ts`, `content-policy.ts`, ...): they render,
validate and declare, and keep no state of their own. *Not modelled.*

## 3. The modules

An action is one database transaction, or one synchronous stretch of a handler
between two awaits. A transaction that throws is rolled back, so what it would
throw on is a guard, unless the thrower loses something by it. Command receipts,
audit rows, wording and digests of contents are left out unless a property is
about them; there is one local owner, so principals are left out too.

| module | models | composed of |
| --- | --- | --- |
| `PlanAdmission` | plan, decision, question, binding, claim, consume, expiry | its `ConsumeDelivers` is the `PrepareContext` of `ContextDelivery` |
| `ContextDelivery` | pre-step, append, inclusion, retirement, Forget, crash | takes "one delivery per usage" (`OneDelivery`) from `PlanAdmission` |
| `GuidedUsage` | cursor, launches, guard, verification, settlement, restart | begins where a context was delivered |
| `SerialWrites` | what a write queue promises (abstract) | |
| `WriteQueue` | the promise chain of each process and the SQLite lock | `INSTANCE SerialWrites` under a refinement mapping |
| `HostLifecycle` | start, upgrade of the sidecar, quarantine, close, death | |
| `LearningOutbox` | entries, leases, the drains of several processes | |
| `LearningRows` | the rows a drain rebuilds, and the order history proposes | what a `LearningOutbox` drain commits |
| `Governance` | reviews, evaluations, promotion, demotion, gate, rollout | its `rows` are those of `LearningRows`, cut to one comparison |
| `CandidateProposal` | disclosure, confirmation, generation, storing of a Candidate | its `Store` is the end of a proposal in `CandidateReview` |
| `CandidateReview` | field decisions, submission, publication, new evidence | its `Publish` is the `PublishCandidate` of `ExperienceVersions` |
| `ExperienceVersions` | Versions and their shared parts, saves, revisions, Forget | names its state machine `Store...`, so that `MCLibrary` can extend it beside `CandidateReview` |
| `Relations` | declarations, overrides, what planning reads of them | |
| `PlanComposition` | matching, composition, readiness, saving of a plan | `EXTENDS Relations` |
| `ClientStore` | one view and overlapping operations | its `Host` is what the commands above commit |
| `SuggestionInbox` | progress rows, the worker, decisions, receipts, repair | its `Commit` is the `Save` of `ExperienceVersions` |
| `HybridRetrieval` | eligibility, two rankings, fusion, gates (pure) | |
| `Recall` | generations, rebuilds, one query at a time | `EXTENDS HybridRetrieval` |
| `EmbeddingWorker` | calls, turns, one child process | its calls are the embeddings `Recall` awaits |

The `MC...` modules give the constants values. They extend the components that
the runs and the proofs share, and instantiate the others. Some hold several
machines, or one machine under several bounds: a variable `part` is chosen in the initial state,
every action belongs to one part and leaves the variables of the others alone.
The state graph of such a run is the disjoint union of the graphs of its parts
(what a property says of the other parts' variables holds of their initial
states), so a run of it is one run per part; nothing is multiplied, and nothing
is composed by it. The machines are composed by their interfaces and not in one
state space: each transaction is atomic because `WriteQueue` implements
`SerialWrites`. Two are composed in one state space, because the interaction is
the point: in `PlanComposition` the library changes between a plan's snapshots,
in `Recall` rebuilds race the query.

**PlanAdmission.** `usage`, `requests`, `planAttempts`, `claimAttempts`,
`bindings` and `deliveries` are the tables; `usage[u]` is the stored projection
with its own copies, so that a transaction that forgets one of the two is a
reachable disagreement. `asking` is the question the Host awaits, `admission`
the claim a pre-step holds between `claimRetryBinding` and the consuming
`prepareContext`. `PlanTask` is the storing of a planning result; `OwnerApproves`
and `OwnerRefuses` are the browser's decision; `AnswerApproves`, `AnswerRefuses`,
`AnswerAdapts`, `AnswerRecorded` and `AnswerLost` what may become of the
question, whose answer comes after anything else; `ClaimNothing` and
`ClaimBinding` the claim with its sweep of dead bindings; `ConsumeStale`,
`ConsumeSuperseded` and `ConsumeDelivers` the consume; `AdmissionAbandoned` a
pre-step that throws or dies; `VersionReplaced` a Forget or a new version; `Tick`
the clock.

**ContextDelivery.** `delivery`, `started`, `settlement`, `retirements`, `forget`
and `target` are rows, `surface` (current, replaced or absent) is the Harness's
Session surface. `phase[s]` is where a pre-step is (reconcile, close, settle,
admit, activate) and `todo`, `job` what it, or the Forget, has read before an
await. A retirement is the same chain of steps for a session and for a Forget:
request the row (`RequestRetirement`), look for the session (`FoundReplaced`,
`FoundOffline`), replace the message (`Replace`, `ReplaceFails`,
`TraceReplacement`), record it (`FinishReplaced`, `FinishFailed`). The observer
that records an append may lose its write; `HostDies` and `CommandDies` lose all
memory. Two things are wider than the code: the write queue's order between
handlers of one process is not kept, and sessions are independent of each other
except through a Forget. The deferred projection step of a Forget is one outcome.

**GuidedUsage.** One usage in one session. `cursor`, `rows`, `run`,
`settlement` are the latest rows of their tables. `entry`, `effect`, `owned`,
`targets`, `tail` are the Host's entry of the active session, and `verify` the
verifications that have read and not yet written: `Snapshot`, `Observe`, `Judge`,
`RecordVerification`/`VerifyFails` are the stretches of `verify` between its
awaits. A launch stands for its background job. Commands come from the Host
(`here`) or the CLI; only the former touch the memory. Assumed of the Harness:
the agent waits for the result of its last call (`Quiet`), and a job's status
and socket are read truly when they are read. The Host's clean-up after a
settling command is merged with the write it follows.

**SerialWrites and WriteQueue.** The specification says: calls are refused or
accepted, accepted ones are run once, in order, each a transaction; at most
`MaxPending` wait; close follows the last. The implementation has the promise
each call awaits (`predecessor`), the `tail`, the resolved promises and the
counter. `Begin`/`End` are a transaction around the SQLite lock, `Busy` a busy
timeout, `Die` the end of a process anywhere. A second concurrent caller of
`close` and a failing `ROLLBACK` are left out.

**HostLifecycle.** `db` is what the canonical database has; a file of the sidecar
is a record of what an opening looks at (application id, schema version, which
tables and columns exist, legacy retrieval rows, whether it can be read) and of
what must outlive it (the owner's decisions, the requests of finished tasks).
`proc[h]` is where a process is between two transactions of `open` and what it has
read. An older store is brought up to date by `UpgradeDispositions`,
`UpgradeProgress` and `UpgradeRequests`, one transaction each, and put aside by
`Quarantine` when it cannot be read. A start may be refused or fail at any of its
steps, a process disposed or killed at any. The stores a start may find are those
earlier builds left: version 4, 6 or 7, a newer one, a garbled or damaged one, or
none. `overlapped` is a history variable: opening is not serialized between
processes, and what it promises is promised to an opening that is alone.

**LearningOutbox, LearningRows.** In the outbox `state`, `due`, `token` are the
columns of an entry, `rows` and `checkpoint` the projection. A worker's run reads
the clock, then waits up to `MaxWait` for its transaction, then claims; its lease
token is the expiry time, by which `Commit` and `Release` recognise their claim.
The lease length is a setting that may change between runs, so it is any member
of `Leases`. The clock is shared and does not go back. `LearningRows` is what a
projection is made of: each usage with its plan, decision, delivery and outcome
and the time of each, and `Project` the rebuild (`AdaptPlan` dates a pending plan
anew, and with it what its comparison may count): who took part in which result,
what each capability is labelled, and `HistoryOrder`, the order that history would
have given versions of equal relevance.

**Governance.** `rows` are readable comparisons, `reviews` the owner's judgements
with the ranking they were made of, `evaluations` the frozen ones, `capability`
the level with the evaluation it was promoted on and the one evaluated last. A
planning call is `Gate` (what authorizes it, read in advance) and `Save`, which
reads the gate again and takes its place under the rollout limit in one
transaction. `Forget` invalidates comparisons, and demotes.

**CandidateProposal.** `world` holds the versions of the sources, of the settings
and of what the provider resolves, and changes between any two awaits. A run goes
through `ReadSources`, `Prepare`, `Stream`, `Flush`, `Compare`, `Store`, each of which
may fail; `inFlight` is the service's map of runs and is lost by `Restart`, `durable`
is the Session log. A retry of a command joins its run or starts another.

**CandidateReview.** `seen[a]` is the Candidate as one of two windows last read it,
and every command names that revision. A Candidate keeps its fields with the
decisions on them; `calls` are the runs of the proposal service and `open` the model
requests without an answer. `Look` reads the Candidate's view, which resolves the draft
and throws for an edit of a plain field that is of another shape (`Malformed`): no
window is shown such a Candidate, and the window that made it so knows its revision only
from the receipt (`Store`). `Publish` makes a Version of the accepted fields. `session` is what a fresh reading of the
sources gives: they grow or disappear while the model is asked (`Inspect`, `Read`,
`Answer`, `AskFails`).

**ExperienceVersions.** A Version is a record of component revisions, which it
shares with the Versions before it; evidence is attached to a revision by
statements and assessments. `PublishCandidate`, `Save` (new, attach to an existing
Version, or both), `ProposeRevision`, `ProposeMarkdownRevision`,
`DecideRevisionChange`, `PublishRevision` and `ForgetExperience` are its commands. `Show`
and `PreviewForget` are what a window committed to before it sends them.
`SameComparison`, `Attaches` and `TargetUnchanged` are what a save checks of the
comparison with the stored Versions that its window was shown.

**Relations and PlanComposition.** Versions are pairs `<<series, number>>`, so that
a revision and a Forget are visible in a relation that names an older one.
`Declare` checks what the validators check of each type (`ValidDeclaration`,
`CycleFree`); `ValidAt`, `Resolves`, `Closure` and `Lifted` are what planning makes of
a relation later. A plan is `Match` (candidates, their
contributions and the requirements of the first snapshot), `Compose` (equivalents
and losers removed, the topological order, and the approval's preconditions, from
the second snapshot) and `SavePlan`. What the code computes with loops that go on until
nothing changes (closures, reachability, the order) is a number of rounds (`Iterate`)
that is enough for every graph of that size.

**ClientStore.** `view` is `ViewState`, `flight` the operations between their call
and their publishing, `host` what the Host committed. An operation reads what it
captured, and publishes over whatever is there by then. `consent` and `calm` are
history: what each disclosure was used for, and whether operations overlapped
since a refresh that ran alone.

**SuggestionInbox.** `progress[s]` is the row of a session (what was notified, what
was analysed, when to retry), `inbox` and `dispositions` the groups and the
decisions on them, `worker` the drain in progress with the flags that ask for
another. A save is `Resolve`, `Commit` (canonical) and `MarkSaved` (sidecar), with a
crash between any two; `Publish` ends a drain, which repairs what is missing. A read
may fail or lag (`ReadFails`, `ReadLags`); what was read is analysed outside of what
retries a failed read, and a turn in `Oversized`, whose evidence makes no packet within
the limits, ends the drain there (`Captures`).

**HybridRetrieval and Recall.** A Version of the ranking is a record of what its
text decides; eligibility, both rankings, fusion and gates are operators on it. In
`Recall`, `builders[o]` is the rebuild each of two owners has in flight, `generation`
the published one, `query` the plan in progress with what it captured.

**EmbeddingWorker.** `order` is `operationTail`, `stage`, `result` and `pending` what
each call waits for, `child` the process now used, `children` every process with the
calls it was sent, and `answers` the messages under way. An abort or timeout kills the
child at any moment; a killed child may still answer, and its exit, or the failure of a
message sent to it (`SendFails`), may arrive after its replacement was started and fails
whatever is pending then. Answers are matched by `RequestId` alone, which calls may share:
the batches of a rebuild are named by the library and their place.

## 4. The runs

| run | instance | states | shows |
| --- | --- | --- | --- |
| `plan_admission` | 2 usages, 2 sessions, 2 scopes, 2 revisions, 3 claims, clock to 5, cut in two: "race": one usage and no recall key; "keys": two usages, one session, one revision, versions stay current, clock to 3 | 696 812 | rows and projection agree, decisions are final, one delivery, one holder of a claim, one live binding per exact key, delivery only of what is approved and current |
| `context_delivery` | 1 session, 2 usages in turn, a Forget in the Host; with one context also failed replacements and the CLI's Forget (`MCBound`) | 1 577 852 | one active context, retired means off the surface, closing meets only proven contexts, what was sent is recorded |
| `guided_usage` | 1 launch, 2 steps, 3 revisions, cut in two: "verify": an activated usage on its last step; "steps": every move of the Host's owner, and no authentication is seen | 2 179 699 | only fresh evidence counts and success needs all of it (`SuccessEarned`); the guard knows every listening owned job (`EffectKnown`); what ended is never written again (`Finality`) |
| `processes` | "queue": 2 processes, bound 2, 3 calls; "retire": 1 context, 2 rows, Forgets of both processes; "start": 2 processes, 2 starts | 314 946 | chain, order, counter, refinement of `SerialWrites`; shared rows and proofs kept; one owner and whole upgrades; accepted writes and workers end; sessions admit again |
| `learning_outbox` | 3 workers, 2 entries, 2 leases, clock to 4; governance: 4 usages, 2 scopes, rollout of 1; rows: 3 usages, 2 Versions, plans adapted; orders: 3 candidates, all counts to 3 | 819 494 | one holder, only it writes, completed is projected; reorders are authorized; comparisons are legal, and stable once their plans are decided; history only reorders equals |
| `library` | review: 2 commands, 2 windows; store: 3 Versions, 2 proposals; plans: 3 Experiences, up to 3 of 13 relations, one change; generation: 2 changes, 2 runs, 1 restart; tab: 4 operations, 2 in flight | 377 005 | see below |
| `suggestions` | turns, saves, library: 2 sessions, 2 commands, 1 restart; oversized: the second turn of a session cannot be analysed; ranking: 3 Versions of 12 profiles; races: 2 changes, 2 models; embedding: 3 calls, two of one requestId, 2 models, 2 children | 167 023 | no turn and no save is lost and all are worked off, but for the turns behind one that cannot be analysed; a recall's decision is sound; a query and its generation are of one model, vectors are of a call of their requestId; the generation catches up |
| `context_forgotten`, `guided_guard_stale`, `library_kernels`, `suggestions_reconcile`, `ranking_unearned` | see 7 | | violations |

`library` shows: a Candidate passes the checks of the next command, one that cannot be
shown is so by an edit and never accepted with it, it is ready exactly when its fields
are decided, and what is published was reviewed (`CandidateSound`), a command has one
open model request and none once its Candidate is stored (`NotAskedAgain`), no
command acts on a revision its actor did not see (`ActsOnWhatItSaw`); Versions form one chain
per series, consist of accepted changes and are evidenced (`VersionsSound`); they and
the ended proposals are never changed (`HistoryKept`); an approvable plan keeps the order, conflicts and
requirements declared (`PlanKeepsRelations`); what is sent was disclosed, once per
command at a time, and is logged (`ProposalsSound`); a disclosure serves one proposal
and the panels of a calm tab belong together (`TabSound`).

Why the bounds are enough for the cases the properties are about:

- Two sessions are the fewest that race for a binding; three claims let one
  lapse, be replaced and come back; the clock passes the approval's life and two
  leases. Two usages are the fewest that collide on a key; both scopes matter
  because the key of an approval contains the scope, the match of a claim does not.
- Two deliveries let one usage follow another in a session. The three workers of
  "retire" (a session, a Forget in the Host, a Forget in the CLI) meet on one
  context, where they share rows; a second row is there after a failure.
- Two revisions are the fewest at which evidence can be stale; three let a cursor
  of two steps be completed. `Observed = {"auth"}` is one of the three criteria
  that are observed of a serving target: they are handled alike, and preserved
  alike, so one shows what three would. In "steps" none is ever seen, because
  what "steps" adds, the moves of the owner, does not depend on them.
- Bound 2 and three calls fill the queue, refuse one and go on after it. Two starts
  are an interrupted one and its successor, or two that race; every step of the
  upgrades is reached from the stores they begin with.
- Three processes are the fewest where two can hold a claim of the same expiry
  while a third took it between them; two lease lengths make a later claim
  expire earlier. Three decisions promote, demote and promote again; four usages
  leave two to compare before and two to reorder after.
- Two windows and two proposals are the fewest that act on a stale reading; three
  Versions let a save attach to one of two chains of which one has been revised or
  forgotten. Three Experiences and three relations make the smallest cycles, chains
  of requirements, and a conflict with an override between an order's ends.
- Two operations in flight make every pair of the tab's operations overlap; the
  other two bring it to the state they overlap in.
- Two sessions make a late or failing one hold up the other; two commands decide
  one group with both decisions. Three Versions are a winner, its rival and an
  ineligible one; the 12 profiles have every combination of gates a rival can have.
  One turn that cannot be analysed, the second of the second session, has a turn before it
  and a session beside it, whose requests come before or after its own. Three embedding
  calls are one that is aborted, one of another model that waits, and one after the child
  was replaced; two share a requestId, as the batches
  of two rebuilds do, and the third has its own, as a recall has.
- A plan is adapted where it matters (`AdaptInOrder`): when an earlier usage was settled
  since it was dated, and before the rows are built.

Bounds that limit an action (`MaxRev`, `MaxClaims`, `MaxTime`, `MaxRetirements`,
`MaxLaunches`, `MaxCalls`, `MaxStarts`, `MaxVersions`, ...) are guards and named in
their modules. Sessions, deliveries, verifiers, workers and processes are symmetric where a
run says so, and never in a run with a liveness property. The deadlock check is off
in `processes`, where all calls are made and connections closed in the end, and
where the bounded commands of a run are all spent in the end.

## 5. Fairness

Fairness matters to the liveness properties only; safety properties that share a
run with them hold without it. Liveness is checked under:

- `ContextDelivery!Fairness` (in `processes`): weak fairness of the pre-step of each
  session and of the Forget command, as wholes: the event loop resumes an async
  function whose promise is settled. Nothing is assumed of the model, of the owner,
  of triggers, or of the success of an append: how often it fails is limited by
  `MaxRetirements` alone. `SessionsAdmitAgain` supposes triggers that keep coming
  and a Host that stays up in its left-hand side.
- `WriteQueue!Work` in each process: weak fairness, its turn of the event loop. A
  dead process has none. The other process may keep the lock, since the busy
  timeout ends the wait.
- The worker of the suggestions: weak fairness of its timers, of the steps of a drain
  and of its retry. Two assumptions are strong: a rebuild of the retrieval index that
  is tried again and again succeeds (an embedding that fails falls back to a lexical
  generation, so only the sidecar itself can fail it), and so does the read of each
  session (one whose log is never readable is retried for ever and learns nothing). The
  retry timer is fair for each session. That a turn which was read can be analysed is
  not assumed: the property names the sessions that wait behind one that cannot.
  No turn needs to come, no owner to decide and no crash to stay away, except that
  the number of restarts is bounded.
- The rebuilds of `Recall`: weak fairness of the poll's rebuild and of the answer of
  each owner's embedding.

`LearningOutbox` states no liveness: its clock is bounded.

## 6. The proofs

They hold for every value of the constants that satisfies the assumptions in the
module that declares them: that identities are distinct, that bounds are positive,
that settings lie in the ranges `runtime-settings.ts` admits, that the Versions a
recall ranks are finitely many with distinct identifiers, that Experiences and the
components of a Version are finitely many and numbered, that an endpoint of a relation
is a kind and an identifier, and that the drafts, edits, turns and matchings which
arrive are of the types the readers accept. TLC evaluates them on
every run. No theorem assumes anything of the
environment, except `OneHolderInvariant` and `GuardKnows`, whose hypotheses are
discussed below. Each theorem module extends its components; the runs check the
same definitions, on the same components, for small constants.

| theorem module | about |
| --- | --- |
| `PlanAdmission_proofs` | PlanAdmission |
| `ContextDelivery_proofs` | ContextDelivery |
| `GuidedUsage_proofs` | GuidedUsage |
| `WriteQueue_proofs` | WriteQueue with SerialWrites; HostLifecycle |
| `LearningOutbox_proofs` | LearningOutbox; Governance; LearningRows |
| `CandidateReview_proofs` | CandidateReview; CandidateProposal |
| `ExperienceVersions_proofs` | ExperienceVersions; ClientStore; PlanComposition with Relations |
| `SuggestionInbox_proofs` | SuggestionInbox; EmbeddingWorker; Recall with HybridRetrieval |

**PlanAdmission.** `TypeInvariant` proves `[]TypeOK`, and `AdmissionInvariant`
proves `[]AdmissionSound` from the inductive `IInv`: its parts (`OneDelivery`,
`ProjectionReadable`, `ApprovalHasBinding`, `AttemptsOwned`,
`ClaimsExclusive`, `OneAuthorizationPerKey`) with four strengthenings: an unplanned
usage is blank; requests exist up to the present revision, superseded below it;
attempts are numbered as claims; a delivery belongs to a consumed binding. They are
needed because, say, a fresh claim number must be known to have no attempt yet. All
but two of the conjuncts speak of one usage's row: the proof turns them into a
predicate on a row, proves for each kind of write a constant-level lemma about the
row it writes, and lifts it to the tables; `ClaimsExclusive` and
`OneAuthorizationPerKey` relate several sessions or usages and have lemmas of their
own. `DecisionsAreFinal` (`DecisionsFinal`) follows from the same rows: what a step
writes over a decided request, a finished attempt or a consumed binding is what was
there. For the delivering consume it also needs `LeaseHeld` (the attempt of a claimant
whose lease runs may still enter), proved beside `IInv` along the same steps. `DeliveryIsAuthorized` follows too: only `ConsumeDelivers` writes a delivery,
and it is guarded.

**ContextDelivery.** The inductive invariant is
`TypeOK /\ RowsInv /\ TargetsInv /\ LogInv /\ OffInv /\ CloseInv`, proved in that
order, each layer from those before it. `RowsInv`: a pending retirement row is the
last of its delivery, and a worker's job names a row that is there and says what the
worker saw, if that is final. `TargetsInv`: the state of a Forget is what its targets
make of it. `LogInv`: what the delivery row, the log and the surface say of one
message, and what a pre-step between two awaits may still do to it. `OffInv`: a row
says "replaced", a target "retired", a worker "I saw it replaced" only of a message
that is off the surface. `CloseInv`: what a session has already read is still true
of what it is about to close. From them: `OneContextAlways` (`OneActiveContext`),
`RetiredStaysOff` (`RetiredIsOffSurface`), `ClosingIsProven` (`ClosureProven`),
`SentStaysRecorded` (`SentIsRecorded`), and two of the three parts of the run
`processes`' `SharedRowsKept`: `RetirementsAreShared` (`OnePendingRetirement`) and
`ProofsStayFinal` (`ProofsAreFinal`); the third is `RowsAreKept` below.

**GuidedUsage.** `TypeInvariant`. `SuccessIsEarnedAlways` (`SuccessEarned`) rests on
`EvidenceInv`: the revision of a stored run, and that of a verification in flight,
is at most the cursor's, and a pass in flight was seen at a revision between the one
it was read at and the present one; a verification that is to be stored compares the
two, so its passes are fresh. `SettledForGood` (`Finality`) needs no invariant: whoever
settles or moves looks at what it would overwrite, in the same transaction.
`GuardKnows` proves `[]EffectKnown` from `MemoryInv` (owned jobs were launched, one
result is queued at a time, a verification knows the job it looks at) and `GuardInv`:
while the guard is in and knows no effect, every owned job is dead; while a launch is
not recorded yet, too; at most one owned job is alive, it is the last launch, and a
verification in flight looks at that one. Its hypothesis `OneAtATime` (one
verification at a time) is needed: the run `guided_guard_stale` is its violation with
two. The code does not ensure it, which is the finding; without it nothing is claimed.

**WriteQueue.** `QueueCorrect` proves `[](TypeOK /\ QueueInvariant /\
DrainedBeforeClose)`, which is inductive: the promises form one chain over the
accepted calls, calls run in its order, the counter counts the unsettled ones,
the lock is held by a running call. `QueueIsSerial` proves that every step is a
step of `SerialWrites` or a stutter, where the accepted calls are those waiting
or running.

**HostLifecycle.** `StartsStaySound` (`StartsSound`) and `RowsAreKept` (`RowsKept`).
One owner and a store under every worker follow from `Holds`, which says what a
process at each of its steps has open. That an opening which no other overlaps comes
up needs two more parts, which hold while `overlapped` is false: `FilesAlone`, the
shapes in which a file can be left (its tables and columns are those of its version,
and only the file at the path is readable), and `Alone`, what an opening finds at its
next step. They hold together or not at all: a process that dies in an upgrade leaves
one of those shapes, and an opening starts from one. `EmptyOrOurs` (a file that is not
Experience's is empty) is what lets the bootstrap write into it.

**LearningOutbox.** `TypeInvariant`; `ProjectionInvariant` (`CompletedIsProjected`
is inductive, with the lemma that a finite non-empty batch has a greatest
entry); `OneHolderInvariant`: under `LeasesOutliveWaits` (every lease is longer
than a claim can wait for its transaction) no two runs hold an entry. The
inductive invariant `LeaseInv` adds that a run that still has a batch holds each
entry of it or its lease is over, and that a claim that waits read its time at
most `MaxWait` ago: so a fresh token lies in the future and equals none that a
run still holds. The hypothesis is needed: with a wait as long as
the lease TLC finds two runs with one token and three processes. The settings
allow `learningClaimLeaseMs` down to 1000 while `busyTimeoutMs` defaults to 5000,
so a configuration in which it fails can be written; the default lease of 30 000
satisfies it. `HoldersWrite` (`OnlyHolderWrites`) needs no such assumption: an
outcome is written where the token is still the writer's own.

**Governance.** `GovernanceInv` relates the stored rows: what was compared is a saved
plan that was not reordered (`LabelsKept`); an evaluation keeps what it found, since
the plans reviewed for it are saved (`EvaluationsHold`); each promoting decision names
an evaluation that passed, the capability's level is that of its last decision, and
under each decision at most `RolloutLimit` plans of its scope were reordered
(`DecisionsHold`, `CapabilityHolds`, `AppliesHold`). `RankingStaysSound`
(`RankingSound`) reads it off. `AppliesAreAuthorized` (`AppliesAuthorized`) is about
what a gate read before its save: the save compares the ticket with the capability
that is there, and `CapabilityHolds` says that this capability is of the decision in
force. That the evaluation under it still passes is false: `ranking_unearned`.

**LearningRows.** `HistoryInv`: a usage is dated before now, and one that is settled
entered a request of an approved plan. `LearningStaysSound` (`LearningSound`) adds
that each stored comparison is legal: its sources were settled before its plan was
dated, and its order permutes candidates of equal relevance by success. The order is
defined by counting who comes before; that this fills every place of a group once is
shown by lemmas on finite ordered sets (`Ranks`, `NumbersRanked`, `PlacedInOrder`), and
that smoothed rates form a strict order although they are compared without dividing by
their cross products (`RatesOrdered`). `ComparisonsStayStable` (`ComparisonsStable`): what is
settled later is settled no earlier than the date of every plan (`Advances`), so a later
projection counts the same samples, and those of the very date of the plan. An adaptation
moves the date of a plan that is pending to the present one, so that its comparison gains what
was settled in between, and loses nothing (`SampleStays`, `ComparisonGrows`).

**CandidateReview.** The inductive invariant is
`TypesInv /\ RunsInv /\ WindowsTrail /\ StoredInv /\ KernelsDiffer`. `RunsInv`: a run
that reads or asks is one of a command with no Candidate, it asks with what its owner
confirmed, and `open` counts it. `WindowsTrail`: a window knows an earlier
revision of a Candidate or the Candidate as it is, decisions included, which is what
makes a revision number a sufficient guard. `StoredInv`: a Candidate is in a state its
decisions allow, and a published one names a Version whose content is what its
decisions make of its draft. That a Candidate which cannot be shown has an edit of another
shape that counts, and is in review or was disposed of from there, follows from the checks
of `StoredSemantics` (`UnviewableIs`). `StoredIsSound` (`CandidateSound`), `AskedOnce`
(`NotAskedAgain`) and `ReviewsWhatItSaw` (`ActsOnWhatItSaw`) follow.

**CandidateProposal.** `ProposalsStaySound` (`ProposalsSound`) rests on `RunFits`: a
run that goes on is the one the service's map names for its command, it holds the
packet that was confirmed from its second reading on, and its log is a prefix that the
rest of the run completes: as many turns, steps and calls will be ended as were
begun. `StoredFits` says that a stored Candidate names a run that has ended, so
nothing is appended to the log it cites.

**ExperienceVersions.** `StoreStaysSound` proves `[]VersionsSound`. Its parts are
inductive together with `TypesInv` and `RefsInv`, which says what rows refer to: the
current Version of a series is one of its own, a proposal names a Version of its
series, an accepted proposal has every change accepted, and only a published one names
its Version. The proof splits the checked invariants into one predicate per Version or
proposal (`LineageAt`, `ConsistentAt`, `EvidencedAt`, `RevisedAt`, `OnceAt`), shows
that adding any Version keeps those of the others (`Adds`, `AddKeeps`), and is left
with the new one: its number counts its chain because its base is the end of it
(`NextLineage`), and its shared components say what their revisions say because its
base's do. `HistoryIsNeverRewritten` proves `HistoryKept` from the same invariant.
That no two active Experiences share a kernel is *not* provable: it is the finding of
`library_kernels`.

**ClientStore.** `TabStaysSound` (`TabSound`). A confirmation that the view holds is of
the disclosure it shows (`Consented`), which no publishing operation breaks because each
that sets another disclosure clears it. For the panels, `CallsHold` says that while the
tab is calm there is at most one operation in flight, and that one about the execution
still finds the execution it was sent for (`Follows`); without it, what a call
publishes could belong to another usage than the panels it leaves alone.

**PlanComposition and Relations.** `PlansKeepRelations` (`PlanKeepsRelations`) from
`PlanningInv`, which is `LibraryFits` (types, acyclic relations, the kinds of their ends,
what overrides refer to) and `PlanFits`: a matched plan holds one Version of each matched
Experience, none newer than the current one, and a composed plan keeps its promises with
respect to the first `upto` relations, which later steps leave alone because relations
are only appended.
Almost all of the proof is about one step, `Compose`. It needs what the loops compute:

- A round that only adds to a set stops adding after as many rounds as there is room for
  (`Saturates`), so `Reach`, `Closure` and `Reachable` are closed and least
  (`ReachIs`, `ClosureIs`, `ReachableIs`).
- In a finite graph without a cycle some node of every set has no predecessor in it
  (`SomeNodeIsFirst`), so each round of the topological order places one more node:
  all of them once, in the declared order (`TopologicalIs`). `precedes` is acyclic among
  components of the store, and contributions inherit that if no component is offered
  from two Versions (`OrderIs`). Hence `composition_cycle` is never the reason of a failure.
- A component is offered twice only if a requirement brings in another Version of a
  matched Experience, which then was revised in between (`StaleIs`, `DistinctIs`): this
  is the failure `FailsOnlyStale` speaks of.
- Whatever loses a conflict or repeats another is among those eliminated, although the
  winner may be eliminated by a third (`LosersOut`, since preflight and place order all
  contributions strictly). What is kept of the rest is the least set with what was matched
  that the requirements do not lead out of (`KeptIs`): so an import is there for a
  requirement, and a required contribution that is not there was eliminated, for one of
  its own Version or the plan is blocked (`ComposedImports`, `ComposedRequirements`).

**SuggestionInbox.** `NoTurnIsLost` (`TurnsKept`) and `DecisionsStand` (`SavedStays`)
from `Inv`: the progress rows are numbered in the order of their first request, and
what the worker read of a row is an older state of it (`WorkerOk`); a decision is
nobody's, a dismissal or a receipt's (`Stands`), a command has one receipt, and a call
that goes on to mark its decision has committed. The repair applies a sequence of
receipts by a recursive function; what it leaves alone is shown by taking the least
receipt at which it would not.

**EmbeddingWorker.** `VectorsStayOwn` (`VectorsAreOwn`). A call is queued once and at
work only when every earlier one has ended, so the pending request is that of the call at
work; a child has a call in its work once, an answer under way was computed for the call
it names, by that call's model, and is received once. What is received therefore is of
the requestId of the pending call, and a requestId that one call alone has gives it its
own vectors. It does not say that a rebuild gets the vectors of its own model: see
section 7.

**Recall and HybridRetrieval.** `QueriesShareModel` (`SameModelSpace`) from `RecallInv`:
a generation is published whole, with the vectors of the settings its rebuild captured
or none (`OneSpace`), and a ready query has read one of its own settings. `RecallsAreSound`
(`RecallSound`) is about the decision itself, for every score. A ranking is a strict
order of finitely many Versions (`ExceedsOrders`, `PrecedesOrders`), and `InOrder` fills
each place once by the number of those before (`PlacesFilled`, `InOrderIs`); the head of
what `TakeFirst` keeps is the head of the whole (`HeadLeads`). Since `RankingLimit` is at
least 2, the runner-up is always among what is kept, and the margin to it is the margin
to every rival (`LexicalWinner`, `DenseWinner`). `DecisionClear` combines them through
the gates, and `DecisionStored` shows that the explanations are cut and numbered as
`ValidDecision` reads them back.

**What the provers cannot do here.** Liveness under fairness and ENABLED.
The library's induction theorems take an operator as a parameter, which none of the
installed provers instantiates; the arguments above that need induction over numbers
take a least counterexample, or the set of numbers up to which a claim holds, instead
(`WFMin`, `Counting`). No module has a RECURSIVE operator.

**Only model-checked**: the liveness properties (`EverythingEnds`,
`SessionsAdmitAgain`, `TurnsLearned`, `SavesProjected`, `RetrievalCatchesUp`). Every
safety property of the passing runs is proved; `SharedRowsKept` by its three parts.

## 7. Findings

- `context_forgotten`: a context prepared just before a Forget commits is not among
  its targets, is appended and sent afterwards, and the Forget reports completion.
- `guided_guard_stale`: of two verifications of a usage the slower clears the
  effect of a job that was launched after its readback.
- `library_kernels`: a published revision can take the stable kernel of another
  active Experience, after which every command that looks the kernel up throws.
- `suggestions_reconcile`: two saves of one group, both resolved before the first is
  projected, leave receipts that every later repair refuses, and the retrieval
  rebuild behind it never runs.
- `ranking_unearned`: a promoted ranking goes on reordering after it was evaluated
  again and did not pass, and cites that evaluation.

Each is a property quoted from a document, comment or message of the repository,
and TLC's trace is the sequence of calls. The runs of a violation stop at it; the
passing runs of the same machines exclude exactly these cases by the parts of
their properties that name them (`SavesProjected` speaks of receipts that do not
contradict each other).

The models also reach behaviours that contradict no document, worth knowing:

- Admission and guided use: two plans of one task in one session under two scope
  digests of one workspace make each claim throw until one expires; a session that
  finishes a retirement between a Forget's request and its link leaves the target
  pending until the command is repeated; an abort after the settlement takes the
  usage's state back from its terminal value; a usage settled by the CLI keeps its
  guard and entry in the Host; a pass is preserved by the cursor's revision, not by
  the job it was seen of.
- Relations: a cycle is looked for among the ends as they are named, so relations that
  name a Version and its Experience in turn may close one that planning meets.
- Governance: a proposed order equal to the baseline takes a place of the rollout; a
  review whose comparison is of another scope makes evaluations inconclusive; no
  sequence of calls promotes the capability "applicability".
- Starts: two that upgrade a version 4 store at once can leave a version 5 store
  whose progress tables no later start can open; a stale reading of a store can put
  another's fresh one aside; a process that loses the race of the bootstrap fails its
  start and finds the database intact at the next.
- Suggestions: `analyze` is called outside the `try` that retries a failed read
  (`application/experience-projection-worker.ts:202`) and passes on all but refused
  sensitive content (line 270). A turn whose evidence fits no packet
  (`source_unresolvable`, `adapters/extraction-evidence.ts:48` and `:80`) ends the drain
  without `retrySessionJob`; the timer starts the next drain with the same job, and its
  session and all that come after it in `nextSessionJob`'s order learn nothing more. The
  test of a source that was removed (`tests/incremental-suggestion.spec.ts:77`) covers
  failed reads only.
- Retrieval: the batches of a rebuild are named by the library's digest and their offset
  (`application/retrieval-projection.ts:99`), whatever the model, and `receive` compares
  names only (`adapters/local-embedding.ts:255`). After a change of the model, the late
  answer of a child that was killed is taken by the rebuild of the next model, if their vectors
  are of one length; its receipt is made of the caller's own settings (line 123), so
  `sameModel` does not notice, and `SameModelSpace` takes the receipt at its word.
  Recalls have names of their own. The
  exit of a killed child, or the failure of a message to it, can fail the request of its
  successor; a request after a disposal starts a child nobody ends.
- Learning: an adaptation dates a pending plan anew under the same prediction
  (`persistence/repository.ts:1713`, `domain/planning.ts:998`, `persistence/repository.ts:4136`).
  Its comparison then counts what was settled in between, and a review that the owner made
  of it before is no longer of the comparison that is stored (line 4819).
- Candidates: an edit of a plain field with a value of another shape is accepted as a
  decision (`domain/candidate-workflow.ts:247` looks at the shape of components only, and
  the CLI and the RPC pass any value) and committed (`persistence/repository.ts:755`). The
  Candidate's view (line 7341), every listing of Candidates (line 745) and the learning
  projection (line 3788) then resolve the draft and throw, until the field is decided
  again; the command that made the edit reports the failure of its own view.
- Candidates: a provider that resolves another effort than was disclosed fails every
  proposal; a retry after a failed flush sends the same packet again.
- The tab: the preview of a Forget survives the selection of another Experience; a
  refresh that overlaps an operation puts the latest Version beside an older one.

## 8. What is not modelled

Components that keep no state of their own: the workspace user interface, RPC, CLI
and input parsing, the database schema, identifiers and content policy. They
render, validate and declare; what validation refuses is a guard of the commands.

Of the modelled components:

- Admission, delivery, guided use: the branch of a retirement whose event is neither
  on the surface nor replaced (no code under `src/` leads there); parallel tool calls
  of the agent; reuse of ports and machine clocks; validation of preference rows at
  settlement; the resumed pre-step that installs the guard again after a restart. The
  delivery state `delivery_unknown` is declared in the code and never stored.
- Plan composition: enforcement of preferences, verifiers invalidated by
  authentication, the rank of history and the plan's text; ties of ids are broken by
  the order of series.
- Relations: the texts of evidence and reasons of a declaration; one owner declares.
- Candidates and proposals: the listing of all Candidates, which fails with any one view;
  the contents of a packet and of an answer beyond well-formed or not; an assistant
  message cut at the token limit that holds tool calls without results (what counts as
  complete is the logged calls); the inspection is one moment, and unreadable or oversized
  sources, missing services and aborts are a failure at their step.
- Experience versions: the export and import of Markdown beyond which trailing and
  heading lines survive; several kinds and hard scopes at once.
- Suggestions: expiry and the retention window, the reuse of an unchanged comparison,
  the detection switch, groups that can only be dismissed; a turn suggests one kernel.
  Limits that change until a turn can be analysed after all.
- Retrieval: BM25 and vectors are scores; batches, digests of artifacts, cancellation
  at disposal, the files of a model; an abort between the check of the signal and the
  listener of the worker, which leaves a request pending.
- Learning: the other six capabilities appear in `LearningRows` only; thresholds are
  constants; a plan is dated before it is saved; queries that join a running drain. The
  comparisons of `Governance` are not dated anew by an adaptation.
- Starts: disposal of the embedding child; settings changed while a job runs.
- The tab: fields that one operation alone reads and writes, and the `version` that a saved
  suggestion and a published revision show.

## 9. The plan

Every component that keeps state is modelled, fully or with what section 8 leaves
out, and every safety property the passing runs check is proved. What remains are the
compositions that section 3 states by their interfaces (`ConsumeDelivers` and
`PrepareContext`, `Publish` and `PublishCandidate`, `Commit` and `Save`), as
refinements, once one of the two sides changes.
