------------------------ MODULE MCSuggestionInbox ------------------------
(***************************************************************************)
(* Four instances of the inbox, two of the recall, which share only the    *)
(* sidecar's file, and one of the child that embeds for both.              *)
(* "turns": the worker under every failure, two Sessions, no decision.     *)
(* "oversized": the same, and the last turn of one cannot be analysed.     *)
(* "saves": one Session was analysed; two owner commands, every crash and  *)
(* every interleaving with the worker, whose reads do not fail.            *)
(* "library": one save, compared with a Version that is published before   *)
(* and may be forgotten meanwhile.                                         *)
(* "ranking": recall over three Versions in every mixture of the profiles  *)
(* below.  "races": recall of one task while settings and library change.  *)
(* "embedding": three calls, two rebuilds under different models and one   *)
(* recall.                                                                 *)
(***************************************************************************)
EXTENDS SuggestionInbox, EmbeddingWorker, Recall

CONSTANTS s1, s2, c1, c2

VARIABLES part, changes

recalling == <<recall, changes>>
all == <<vars, recalling, embedding, part>>

Profile(kind, focus, bm25, overlap, similarity) ==
  [id |-> 0, kind |-> kind, conflicts |-> {}, focus |-> focus, supported |-> TRUE, vetoed |-> FALSE,
   exact |-> FALSE, bm25 |-> bm25, overlap |-> overlap, similarity |-> similarity]

\* Ties, near ties and clear winners of each channel, and every gate.
Profiles ==
  {Profile("procedure", TRUE, 20, 2, 70), Profile("procedure", TRUE, 19, 2, 86),
   Profile("procedure", TRUE, 0, 0, 90),
   Profile("procedure", FALSE, 40, 2, 86), Profile("procedure", FALSE, 0, 0, 90),
   Profile("diagnostic", TRUE, 40, 1, 90), Profile("diagnostic", FALSE, 40, 2, 90),
   Profile("fact", TRUE, 40, 2, 90),
   [Profile("diagnostic", TRUE, 19, 2, 70) EXCEPT !.exact = TRUE],
   [Profile("procedure", TRUE, 40, 2, 90) EXCEPT !.vetoed = TRUE],
   [Profile("procedure", TRUE, 40, 2, 90) EXCEPT !.conflicts = {"hard_scope_conflict"}],
   [Profile("procedure", TRUE, 20, 2, 86) EXCEPT !.supported = FALSE]}
Plain == [v \in 1..3 |-> [Profile("procedure", TRUE, 20 * v, 2, 60 + 10 * v) EXCEPT !.id = v]]
RecallTasks == {[v \in 1..3 |-> [t[v] EXCEPT !.id = v]] : t \in [1..3 -> Profiles]} \cup {Plain}

MCRequestId == <<"rebuild", "rebuild", "recall">>

MCMaxTurns == [s \in Sessions |-> 2]
MCOversized == {<<s2, 2>>}
MCKernel == [t \in Sessions \X (1..2) |-> IF t = <<s1, 2>> THEN 2 ELSE 1]

Inbox == {"turns", "oversized", "saves", "library"}
Failing == {"turns", "oversized"}
InInbox == part \in Inbox /\ UNCHANGED <<recalling, embedding, part>>
InTurns == part \in Failing /\ UNCHANGED <<recalling, embedding, part>>
InSaves == part = "saves" /\ UNCHANGED <<recalling, embedding, part>>
InLibrary == part = "library" /\ UNCHANGED <<recalling, embedding, part>>

Settled == log[s1] = 2 /\ progress[s1].turns = {1, 2} /\ ~progress[s1].pending
Saving(c) == (part = "saves" \/ (part = "library" /\ c = c1)) /\ Settled
Open == \E c \in Commands : calls[c].phase \in {"resolved", "saved", "lost"}

\* Bounds: only "library" relates groups to Versions, and one at most.
Compared(groups) ==
  \A v \in groups : IF part \in Failing THEN v.how = "plain"
                    ELSE v.how \in {"same", "specialization"} => part = "library" /\ Cardinality(groups) = 1

MCTurnEnds(s) ==
  /\ part \notin Failing => s = s1
  /\ part = "turns" /\ s = s2 => log[s2] = 0
  /\ part = "oversized" /\ s = s1 => log[s1] = 0
  /\ TurnEnds(s) /\ InInbox
MCRetryDue(s) == RetryDue(s) /\ InInbox
MCPoll ==
  /\ part \notin Failing => worker.phase = "idle" /\ (Settled => receipts # <<>>)
  /\ Poll /\ InInbox
MCBackgroundTimer == BackgroundTimer /\ InInbox
MCRetrieval == RetrievalBuilt /\ InInbox
MCRetrievalFails == InTurns /\ RetrievalFails
MCRead(s) == worker.job.session = s /\ Read /\ InInbox
MCReadLags == InTurns /\ ReadLags
MCReadFails == InTurns /\ ReadFails
MCRebuild == Rebuild /\ InInbox /\ Compared(inbox')

MaxChanges == 2
InRecall == part \in {"ranking", "races"} /\ UNCHANGED <<vars, changes, embedding, part>>
InRaces == part = "races" /\ UNCHANGED <<vars, changes, embedding, part>>
Changing == part = "races" /\ changes < MaxChanges /\ changes' = changes + 1 /\ UNCHANGED <<vars, embedding, part>>
Stable == builders["worker"].phase = "idle" /\ generation.vectors = "m1" /\ generation.documents = 1..3

MCRebuildRetrieval == InRecall /\ (part = "ranking" => ~Stable) /\ RebuildGeneration
MCEmbedded(o) == InRecall /\ Embedded(o)
MCAsk == InRecall /\ Ask /\ IF part = "races" THEN query'.task = Plain ELSE Stable

MCInit ==
  /\ Init /\ RecallInit /\ EmbeddingInit /\ changes = 0
  /\ asked = <<1, 2, 1>>
  /\ part \in Inbox \cup {"ranking", "races", "embedding"}
  /\ part \notin {"ranking", "races"} => model = "disabled" /\ library = {}
  /\ part = "ranking" => model = "m1" /\ library = 1..3
  /\ part = "races" => model # "m2" /\ library = {1}

MCNext ==
  \/ \E s \in Sessions : MCTurnEnds(s)
  \/ \E s \in Sessions : MCRetryDue(s)
  \/ MCPoll
  \/ MCBackgroundTimer
  \/ MCRetrieval
  \/ MCRetrievalFails
  \/ \E s \in Sessions : MCRead(s)
  \/ MCReadLags
  \/ MCReadFails
  \/ MCRebuild
  \/ InSaves /\ Settled /\ \E c \in Commands, v \in inbox : Dismiss(c, v)
  \/ (\E c \in Commands, v \in inbox : Saving(c) /\ Resolve(c, v)) /\ InInbox
  \/ (\E c \in Commands : Commit(c)) /\ InInbox
  \/ (\E c \in Commands : MarkSaved(c)) /\ InInbox
  \/ InLibrary /\ log[s1] = 0 /\ published = 0 /\ \E g \in Groups : Publish(g)
  \/ InLibrary /\ Open /\ \E g \in Groups : Forget(g)
  \/ (part \notin Failing => Open) /\ Restart /\ InInbox
  \/ MCRebuildRetrieval
  \/ \E o \in Owners : MCEmbedded(o)
  \/ MCAsk
  \/ InRecall /\ Prepare
  \/ InRaces /\ PrepareUnreadable
  \/ InRecall /\ QueryEmbedded
  \/ InRecall /\ QueryFails
  \/ InRecall /\ Match
  \/ Changing /\ \E m \in Settings : ChangeSettings(m)
  \/ Changing /\ Activate(2)
  \/ Changing /\ Retire(1)
  \/ part = "embedding" /\ EmbeddingNext /\ UNCHANGED <<vars, recalling, part>>

\* The fairness of SuggestionInbox and Recall, of the bounded actions.
MCFairness ==
  /\ WF_all(MCPoll) /\ WF_all(MCBackgroundTimer)
  /\ \A s \in Sessions : WF_all(MCRetryDue(s))
  /\ SF_all(MCRetrieval) /\ WF_all(MCRetrieval \/ MCRetrievalFails) /\ WF_all(MCRebuild)
  /\ WF_all((\E s \in Sessions : MCRead(s)) \/ MCReadLags \/ MCReadFails)
  /\ \A s \in Sessions : SF_all(MCRead(s))
  /\ WF_all(MCRebuildRetrieval) /\ \A o \in Owners : WF_all(MCEmbedded(o))

MCSpec == MCInit /\ [][MCNext]_all
MCFairSpec == MCSpec /\ MCFairness

\* The generation catches up with the library and the settings, although a rebuild that captured older
\* ones may publish last: see Recall (retrieval-projection.ts, rebuild).
GenerationCatchesUp == part \in {"ranking", "races"} => RetrievalCatchesUp
=============================================================================
