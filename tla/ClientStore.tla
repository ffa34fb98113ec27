---------------------------- MODULE ClientStore ----------------------------
(***************************************************************************)
(* The store of the Experience tab (client/store.ts): one view, published  *)
(* after every operation, and the operations that are in flight.  The      *)
(* buttons of the workspace are disabled while `running`, but nothing      *)
(* serializes the operations: the connection resets the store and a        *)
(* settled plan review refreshes it whenever they happen, the first of two *)
(* overlapping operations to end clears `running` for both, and each       *)
(* publishes its answers over what the view holds by then.                 *)
(*                                                                         *)
(* Candidates stand for their Experience and its latest Version as well.   *)
(* The Host processes a call at any moment between its sending and its     *)
(* answer; every command names the revision the view showed.  Fields that  *)
(* one operation alone reads and writes (suggestions, learning, audit,     *)
(* reports, receipts) are left out.                                        *)
(***************************************************************************)
EXTENDS Naturals, FiniteSets

CONSTANTS
  Candidates, TabUsages,
  Undefined,       \* a field of the view that is undefined
  MaxInspections,  \* bound: inspections, which number the disclosures
  MaxTabRev,       \* bound: revisions of a candidate or a usage
  MaxFlight,       \* bound: operations in flight
  MaxOps           \* bound: operations ever started

ASSUME TabAssumption ==
  /\ Undefined \notin Candidates \cup TabUsages
  /\ MaxInspections \in Nat /\ MaxTabRev \in Nat

VARIABLES
  view,       \* ViewState
  flight,     \* the operations in flight
  host,       \* what the Host has committed
  started,    \* operations started so far
  consent,    \* history: what became of the owner's consent, by disclosure
  calm        \* history: since a refresh that ran alone, no operations overlapped

store == <<view, flight, host, started, consent, calm>>

View == [running: BOOLEAN, proposal: {"idle", "generating", "succeeded", "failed"},
         selected: Candidates \cup {Undefined}, rev: 0..MaxTabRev, version: Candidates \cup {Undefined},
         planning: TabUsages \cup {Undefined}, context: TabUsages \cup {Undefined}, execution: TabUsages \cup {Undefined},
         progress: 0..MaxTabRev, inspection: 0..MaxInspections, confirmed: 0..MaxInspections,
         markdown: Candidates \cup {Undefined}, revision: Candidates \cup TabUsages \cup {Undefined},
         preview: Candidates \cup {Undefined}]

initialState ==
  [running |-> FALSE, proposal |-> "idle", selected |-> Undefined, rev |-> 0, version |-> Undefined,
   planning |-> Undefined, context |-> Undefined, execution |-> Undefined, progress |-> 0,
   inspection |-> 0, confirmed |-> 0, markdown |-> Undefined, revision |-> Undefined, preview |-> Undefined]

Kinds == {"refresh", "inspect", "propose", "select", "mutate", "publish", "planTask", "selectPlanning",
          "decidePlanning", "progress", "exportMarkdown", "proposeMarkdown", "revise", "preview", "forget"}
Writes == {"propose", "mutate", "publish", "planTask", "decidePlanning", "progress", "revise", "forget"}

\* What a call names, and what its answers held: the fields of the view they fill.
Operation == [kind: Kinds, alone: BOOLEAN, nr: 1..MaxOps, on: Candidates \cup TabUsages \cup {Undefined}, expected: 0..MaxTabRev,
              stage: {"sent", "committed", "listed", "read"},
              rev: 0..MaxTabRev \cup 0..MaxInspections, version: Candidates \cup {Undefined},
              planned: SUBSET TabUsages, usage: TabUsages \cup {Undefined}, progress: 0..MaxTabRev]

\* The tab is opened on what earlier sessions left.
TabInit ==
  /\ view = initialState
  /\ flight = {}
  /\ \E old \in SUBSET Candidates, planned \in SUBSET TabUsages, latest \in Candidates \cup {Undefined} :
       /\ IF old = {} THEN latest = Undefined ELSE latest \in old
       /\ host = [rev |-> [c \in Candidates |-> IF c \in old THEN 1 ELSE 0], published |-> old,
                  latest |-> latest, planned |-> planned, progress |-> [u \in TabUsages |-> 0],
                  inspections |-> 0, forgotten |-> {}]
  /\ started = 0
  /\ consent = [d \in 1..MaxInspections |-> "none"]
  /\ calm = TRUE

-----------------------------------------------------------------------------
\* Starting an operation: run publishes `running`, and the operation runs up to
\* its first await.

Sent(kind, on, expected) ==
  [kind |-> kind, alone |-> flight = {}, nr |-> started + 1, on |-> on, expected |-> expected,
   stage |-> "sent", rev |-> 0, version |-> Undefined, planned |-> {}, usage |-> view.execution,
   progress |-> 0]

Flies(kind, on, expected) ==
  /\ started < MaxOps /\ Cardinality(flight) < MaxFlight
  /\ started' = started + 1
  /\ flight' = {[o EXCEPT !.alone = FALSE] : o \in flight} \cup {Sent(kind, on, expected)}
  /\ calm' = (calm /\ flight = {})

\* The owner's buttons.
Clicks(kind, on, expected) ==
  /\ ~view.running
  /\ Flies(kind, on, expected)
  /\ view' = [view EXCEPT !.running = TRUE]
  /\ UNCHANGED <<host, consent>>

Refresh == Clicks("refresh", Undefined, 0)
ClickInspect == view.inspection < MaxInspections /\ Clicks("inspect", Undefined, 0)
Select(c) == host.rev[c] > 0 /\ Clicks("select", c, 0)
SelectPlanning(u) == u \in host.planned /\ Clicks("selectPlanning", u, 0)
PlanTask(u) == Clicks("planTask", u, 0)
Mutate == view.selected # Undefined /\ Clicks("mutate", view.selected, view.rev)
ClickPublish == view.selected # Undefined /\ Clicks("publish", view.selected, view.rev)
DecidePlanning == view.planning # Undefined /\ Clicks("decidePlanning", view.planning, 0)
ProgressUsage == view.execution # Undefined /\ Clicks("progress", view.execution, view.progress)
ClickExportMarkdown == view.version # Undefined /\ Clicks("exportMarkdown", view.version, 0)
ProposeMarkdown == view.markdown # Undefined /\ Clicks("proposeMarkdown", view.markdown, 0)
\* decideRevision, publishRevision: of the Markdown proposal, if there is one.
Revise == /\ view.revision # Undefined \/ view.execution # Undefined
          /\ Clicks("revise", IF view.revision # Undefined THEN view.revision ELSE view.execution, 0)
ClickPreviewForget == view.version # Undefined /\ Clicks("preview", view.version, 0)
ClickForget == view.preview # Undefined /\ Clicks("forget", view.preview, 0)

\* The connection was reset, or a plan review was settled: nothing asks whether
\* an operation is running.
BackgroundRefresh(reset) ==
  /\ Flies("refresh", Undefined, 0)
  /\ view' = [(IF reset THEN initialState ELSE view) EXCEPT !.running = TRUE]
  /\ UNCHANGED <<host, consent>>

\* confirmDisclosure, of the box beside the disclosure that is shown.
ConfirmDisclosure(confirmed) ==
  /\ view.inspection > 0 /\ (confirmed <=> view.confirmed = 0)
  /\ view' = [view EXCEPT !.confirmed = IF confirmed THEN view.inspection ELSE 0]
  /\ consent' = [consent EXCEPT ![view.inspection] = IF confirmed THEN "given" ELSE "none"]
  /\ UNCHANGED <<flight, host, started, calm>>

\* (mutant) The confirmation stays until the next inspection.
ConfirmationKept == view.confirmed
\* A confirmation is spent before anything is awaited.
ConfirmationSpent == 0
Confirmed == view.confirmed = view.inspection

\* propose: consent is per disclosure, and sent at most once.
ClickPropose(c) ==
  /\ ~view.running /\ view.inspection > 0 /\ Confirmed
  /\ Flies("propose", c, 0)
  /\ view' = [view EXCEPT !.running = TRUE, !.proposal = "generating", !.confirmed = ConfirmationSpent]
  /\ consent' = [consent EXCEPT ![view.inspection] = IF @ = "given" THEN "spent" ELSE "missing"]
  /\ UNCHANGED host

-----------------------------------------------------------------------------
\* The Host, and the answers.

Moves(o, next) == flight' = (flight \ {o}) \cup {next}

\* Commands name the revision they were made for.
Fits(o) == CASE o.kind \in {"mutate", "publish"} -> host.rev[o.on] = o.expected
             [] o.kind = "progress" -> host.progress[o.on] = o.expected
             [] o.kind = "forget" -> o.on \notin host.forgotten
             [] OTHER -> TRUE

Commits(o) ==
  /\ o.kind \in Writes /\ o.stage = "sent" /\ Fits(o)
  /\ CASE o.kind = "propose" -> host.rev[o.on] = 0 /\ host' = [host EXCEPT !.rev[o.on] = 1]
       [] o.kind = "mutate" -> o.expected < MaxTabRev /\ host' = [host EXCEPT !.rev[o.on] = @ + 1]
       [] o.kind = "publish" -> /\ o.expected < MaxTabRev
                                /\ host' = [host EXCEPT !.rev[o.on] = @ + 1, !.latest = o.on,
                                                        !.published = @ \cup {o.on}]
       [] o.kind = "planTask" -> o.on \notin host.planned
                                 /\ host' = [host EXCEPT !.planned = @ \cup {o.on}]
       [] o.kind = "progress" -> /\ o.expected < MaxTabRev
                                 /\ host' = [host EXCEPT !.progress[o.on] = @ + 1]
       [] o.kind = "forget" -> host' = [host EXCEPT !.forgotten = @ \cup {o.on}]
       [] OTHER -> host' = host
  /\ Moves(o, [o EXCEPT !.stage = "committed"])
  /\ UNCHANGED <<view, started, consent, calm>>

VersionOf(c) == IF c \in host.published THEN c ELSE Undefined

\* The Usage whose progress is read: the one of the call, or, when a revision is
\* decided, the one that was shown when it was.
UsageRead(o) == IF o.kind # "revise" /\ o.on \in TabUsages THEN o.on ELSE o.usage

\* The answers of the reads that follow; a refresh reads its lists first and
\* asks for what is selected only then.
Reads(o) ==
  /\ o.kind # "refresh"
  /\ o.stage = IF o.kind \in Writes THEN "committed" ELSE "sent"
  /\ IF o.kind = "inspect"
       THEN /\ host.inspections < MaxInspections
            /\ host' = [host EXCEPT !.inspections = @ + 1]
       ELSE host' = host
  /\ Moves(o, [o EXCEPT !.stage = "read",
        !.rev = IF o.on \in Candidates THEN host.rev[o.on] ELSE host'.inspections,
        !.version = IF o.on \in Candidates THEN VersionOf(o.on) ELSE Undefined,
        !.usage = UsageRead(o),
        !.progress = IF UsageRead(o) = Undefined THEN 0 ELSE host.progress[UsageRead(o)]])
  /\ UNCHANGED <<view, started, consent, calm>>

RefreshLists(o) ==
  /\ o.kind = "refresh" /\ o.stage = "sent"
  /\ Moves(o, [o EXCEPT !.stage = "listed", !.version = host.latest, !.planned = host.planned,
                        !.on = view.selected,
                        !.rev = IF view.selected = Undefined THEN 0 ELSE host.rev[view.selected]])
  /\ UNCHANGED <<view, host, started, consent, calm>>
RefreshReads(o) ==
  /\ o.kind = "refresh" /\ o.stage = "listed"
  /\ \E u \in TabUsages \cup {Undefined} :
       /\ IF view.planning \in o.planned THEN u = view.planning
          ELSE IF o.planned = {} THEN u = Undefined ELSE u \in o.planned
       /\ Moves(o, [o EXCEPT !.stage = "read", !.usage = u,
                             !.progress = IF u = Undefined THEN 0 ELSE host.progress[u]])
  /\ UNCHANGED <<view, host, started, consent, calm>>

-----------------------------------------------------------------------------
\* Publishing: the answers over the view as it is by then.

\* The plan, its context and its execution are shown together.
Shows(u, progress) ==
  [view EXCEPT !.planning = u, !.context = u, !.execution = u, !.progress = progress]

ShowsCandidate(o) == [view EXCEPT !.selected = o.on, !.rev = o.rev]
Answered(o) ==
  CASE o.kind = "refresh" -> [Shows(o.usage, o.progress) EXCEPT
                               !.selected = o.on, !.rev = o.rev, !.version = o.version]
    [] o.kind = "inspect" -> [view EXCEPT !.inspection = o.rev, !.version = Undefined,
                                          !.proposal = "idle", !.confirmed = 0]
    [] o.kind = "propose" -> [ShowsCandidate(o) EXCEPT !.confirmed = 0, !.proposal = "succeeded"]
    [] o.kind \in {"select", "publish"} -> [ShowsCandidate(o) EXCEPT !.version = o.version]
    [] o.kind = "mutate" -> ShowsCandidate(o)
    [] o.kind \in {"planTask", "selectPlanning", "decidePlanning"} -> Shows(o.on, o.progress)
    [] o.kind = "progress" -> [view EXCEPT !.execution = o.on, !.progress = o.progress]
    [] o.kind = "exportMarkdown" -> [view EXCEPT !.markdown = o.on, !.revision = Undefined]
    [] o.kind = "proposeMarkdown" -> [view EXCEPT !.revision = o.on]
    [] o.kind = "revise" ->
         [view EXCEPT !.execution = IF o.usage = Undefined THEN @ ELSE o.usage,
                      !.progress = IF o.usage = Undefined THEN @ ELSE o.progress,
                      !.revision = IF @ = Undefined THEN Undefined ELSE o.on]
    [] o.kind = "preview" -> [view EXCEPT !.preview = o.on]
    [] o.kind = "forget" -> [view EXCEPT !.preview = Undefined]

Publishes(o) ==
  /\ o.stage = "read"
  /\ view' = [Answered(o) EXCEPT !.running = FALSE]
  /\ flight' = flight \ {o}
  /\ calm' = (calm \/ (o.kind = "refresh" /\ o.alone))
  /\ UNCHANGED <<host, started, consent>>

\* A refused, lost or failing call, at any point: only the error is published.
Fails(o) ==
  /\ view' = [view EXCEPT !.running = FALSE,
                          !.proposal = IF o.kind = "propose" THEN "failed" ELSE @]
  /\ flight' = flight \ {o}
  /\ UNCHANGED <<host, started, consent, calm>>

Owner ==
  \/ Refresh \/ ClickInspect \/ Mutate \/ ClickPublish \/ DecidePlanning \/ ProgressUsage
  \/ ClickExportMarkdown \/ ProposeMarkdown \/ Revise \/ ClickPreviewForget \/ ClickForget
  \/ \E c \in Candidates : Select(c) \/ ClickPropose(c)
  \/ \E u \in TabUsages : SelectPlanning(u) \/ PlanTask(u)
  \/ \E confirmed \in BOOLEAN : ConfirmDisclosure(confirmed)

TabNext ==
  \/ Owner
  \/ \E reset \in BOOLEAN : BackgroundRefresh(reset)
  \/ \E o \in flight :
       Commits(o) \/ Reads(o) \/ RefreshLists(o) \/ RefreshReads(o) \/ Publishes(o) \/ Fails(o)

TabSpec == TabInit /\ [][TabNext]_store

-----------------------------------------------------------------------------
\* Properties.

TabTypeOK == view \in View /\ \A o \in flight : o \in Operation

\* Processing by an external model is consented to for one disclosure and one
\* proposal: whatever is refreshed, reset, inspected again or fails meanwhile,
\* each proposal is sent on a confirmation of its own, given while exactly its
\* disclosure was shown and not withdrawn.
ConsentGiven == \A d \in 1..MaxInspections : consent[d] # "missing"

\* The plan, the context and the execution the tab shows are of one Usage, so
\* that nothing is decided for a Usage that is not shown: while operations do
\* not overlap, and, after some did, from the next refresh that runs alone.
OneUsageShown == calm => view.planning = view.context /\ view.context = view.execution

\* What the tab sends was consented to, and what it shows belongs together.
TabSound == ConsentGiven /\ OneUsageShown
=============================================================================
