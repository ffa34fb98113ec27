-------------------------- MODULE CandidateReview --------------------------
(***************************************************************************)
(* A Candidate from its proposal by the model to the Version it becomes:   *)
(* CandidateProposalService (inspect, confirm, ask, store), the field      *)
(* review of candidate-workflow.ts and the Candidate commands of the       *)
(* repository.  Two actors (two browser windows, or a browser and the      *)
(* CLI) review with what each of them last read.                           *)
(*                                                                         *)
(* A command that is repeated returns its stored receipt and changes       *)
(* nothing: it is a stutter.  A draft has one component, whose content is  *)
(* the stable kernel, and plain fields.                                    *)
(***************************************************************************)
EXTENDS Naturals, Sequences, FiniteSets

CONSTANTS
  Commands,      \* the propose commands; each may give one Candidate
  Actors,        \* windows of the owner
  PlainFields,   \* the fields that are not components
  KernelField,   \* the field of the component
  Contents,      \* what a field can say
  Malformed,     \* a content of another shape than its field has
  Records,       \* the source records of the Episode
  MaxRead,       \* bound: changes of what the Session shows
  MaxRev,        \* bound: revision of a Candidate
  Proposals,     \* the drafts the model can answer with: [draft, missing]
  Edits          \* the values an actor can put in a field

VARIABLES
  session,       \* what a fresh reading of the sources gives: [rev, status]
  calls,         \* the runs of the proposal service, lost with the process
  open,          \* the model requests of each command without an answer
  candidates,    \* the stored Candidates
  experiences,   \* the Experiences: [content, active]
  seen           \* the Candidate each actor last read

vars == <<session, calls, open, candidates, experiences, seen>>

NoCandidate == [state |-> "none"]
Fields == PlainFields \cup {KernelField}
Values == [content: Contents \cup {Malformed}, sources: SUBSET Records]
DraftContents == [Fields -> Values]
Idle == [phase |-> "idle"]

ASSUME ConstantsAssumption ==
  /\ MaxRead \in Nat /\ MaxRev \in Nat \ {0}
  /\ Proposals \subseteq [draft: DraftContents, missing: BOOLEAN]
  /\ Edits \subseteq Values

(***************************************************************************)
(* The draft and its decisions.                                            *)
(***************************************************************************)

\* (mutant) The first decision of a field stays its decision.
FirstDecision(c, f) ==
  LET of == {i \in DOMAIN c.decisions : c.decisions[i].field = f}
  IN IF of = {} THEN 0 ELSE CHOOSE i \in of : \A j \in of : i <= j

\* The place of the decision that counts for a field, 0 without one.
CurrentDecision(c, f) ==
  LET of == {i \in DOMAIN c.decisions : c.decisions[i].field = f}
  IN IF of = {} THEN 0 ELSE CHOOSE i \in of : \A j \in of : j <= i

Decided(c, f, kind) ==
  CurrentDecision(c, f) # 0 /\ c.decisions[CurrentDecision(c, f)].kind = kind

\* The draft with its edits: what is published.
Resolve(c) ==
  [f \in Fields |->
     IF Decided(c, f, "edit") THEN c.decisions[CurrentDecision(c, f)].value ELSE c.draft[f]]

\* A plain field must keep its shape, or resolving the draft throws: the Candidate cannot be
\* shown, nor can the list it is in.
Resolvable(c) == \A f \in PlainFields : Resolve(c)[f].content # Malformed

Unresolved(draft) == {f \in Fields : draft[f].sources = {}}

\* A component needs a content and sources; the sources of plain fields may be missing.
ValidDraft(draft) ==
  /\ \A f \in Fields : draft[f].content # Malformed
  /\ draft[KernelField].sources # {}

\* The projection of the draft that identifies an Experience.
Kernel(draft) == draft[KernelField].content

\* Every decision names the one of its field before it.
ValidChain(c) ==
  \A i \in DOMAIN c.decisions :
    LET before == {j \in 1..(i - 1) : c.decisions[j].field = c.decisions[i].field}
    IN c.decisions[i].supersedes = IF before = {} THEN 0
                                   ELSE CHOOSE j \in before : \A k \in before : k <= j

AllDecided(c) == \A f \in Fields : CurrentDecision(c, f) # 0
NoneRejected(c) == \A f \in Fields : ~Decided(c, f, "reject")

\* What the store checks each time it reads a Candidate, for a command or for a view.
StoredSemantics(c) ==
  /\ (c.state = "published") <=> (c.version # 0)
  /\ (c.state \in {"rejected", "withdrawn"}) <=> c.disposed
  /\ ValidChain(c)
  /\ c.state = "proposed" => c.decisions = <<>>
  /\ ValidDraft(c.draft)
  /\ c.state \in {"accepted", "published"} =>
       AllDecided(c) /\ NoneRejected(c) /\ Resolvable(c) /\ ValidDraft(Resolve(c))

\* The blockers the review shows before it offers to accept.
Ready(c) ==
  /\ c.status = "eligible"
  /\ ~c.missing
  /\ Unresolved(Resolve(c)) = {}
  /\ AllDecided(c)
  /\ NoneRejected(c)

(***************************************************************************)
(* Proposal.                                                               *)
(***************************************************************************)
TypeOK ==
  /\ session \in [rev: 0..MaxRead, status: {"eligible", "candidate_only", "ineligible"}]
  /\ \A p \in Commands :
       /\ calls[p].phase \in {"idle", "inspected", "reading", "asking"}
       /\ open[p] \in Nat
       /\ candidates[p] # NoCandidate =>
            /\ candidates[p].state \in {"proposed", "in_review", "accepted", "published",
                                        "rejected", "withdrawn"}
            /\ candidates[p].rev \in 1..MaxRev
            /\ candidates[p].draft \in DraftContents
            /\ candidates[p].version \in 0..Len(experiences)
  /\ \A i \in DOMAIN experiences : experiences[i].content \in DraftContents
  /\ DOMAIN seen = Actors /\ \A a \in Actors : DOMAIN seen[a] = Commands

Init ==
  /\ session \in [rev: {0}, status: {"eligible", "candidate_only", "ineligible"}]
  /\ calls = [p \in Commands |-> Idle]
  /\ open = [p \in Commands |-> 0]
  /\ candidates = [p \in Commands |-> NoCandidate]
  /\ experiences = <<>>
  /\ seen = [a \in Actors |-> [p \in Commands |-> NoCandidate]]

\* The Session or the outcome records change.
SourcesChange ==
  /\ session.rev < MaxRead
  /\ \E s \in {"eligible", "candidate_only", "ineligible"} :
       session' = [rev |-> session.rev + 1, status |-> s]
  /\ UNCHANGED <<calls, open, candidates, experiences, seen>>

\* The owner is shown the disclosure and the eligibility of what was read.
Inspect(p) ==
  /\ calls[p].phase \in {"idle", "inspected"}
  /\ calls' = [calls EXCEPT ![p] = [phase |-> "inspected", shown |-> session]]
  /\ UNCHANGED <<session, open, candidates, experiences, seen>>

\* (mutant) A second call of the command starts a second run.
NotInFlight(p) == calls[p].phase # "idle"

\* A run of the command is joined, not repeated.
Startable(p) == calls[p].phase = "inspected"

\* Without a receipt of the command.
NotCommitted(p) == candidates[p] = NoCandidate

\* propose: the owner confirmed what was shown.
Propose(p) ==
  /\ NotCommitted(p)
  /\ Startable(p)
  /\ calls' = [calls EXCEPT ![p] = [phase |-> "reading", shown |-> calls[p].shown]]
  /\ UNCHANGED <<session, open, candidates, experiences, seen>>

\* The eligibility that was confirmed is still the one the sources give.
AsConfirmed(p) == session = calls[p].shown /\ session.status # "ineligible"

\* The sources are read again and the model is asked with them, or the run fails.
Read(p) ==
  /\ calls[p].phase = "reading"
  /\ IF AsConfirmed(p)
     THEN /\ calls' = [calls EXCEPT ![p] = [phase |-> "asking", shown |-> calls[p].shown,
                                            read |-> session]]
          /\ open' = [open EXCEPT ![p] = @ + 1]
     ELSE /\ calls' = [calls EXCEPT ![p] = Idle]
          /\ UNCHANGED open
  /\ UNCHANGED <<session, candidates, experiences, seen>>

\* The answer is stored as an unreviewed Candidate.
Answer(p, draft, missing) ==
  /\ calls[p].phase = "asking"
  /\ ValidDraft(draft)
  /\ open' = [open EXCEPT ![p] = @ - 1]
  /\ calls' = [calls EXCEPT ![p] = Idle]
  /\ candidates' = [candidates EXCEPT ![p] =
       IF @ # NoCandidate THEN @
       ELSE [state |-> "proposed", rev |-> 1, draft |-> draft, missing |-> missing,
             status |-> calls[p].read.status, confirmed |-> calls[p].shown, read |-> calls[p].read,
             decisions |-> <<>>, disposed |-> FALSE, version |-> 0]]
  /\ UNCHANGED <<session, experiences, seen>>

\* The request fails, its answer is not valid, or the process dies with it.
AskFails(p) ==
  /\ calls[p].phase \in {"reading", "asking"}
  /\ calls' = [calls EXCEPT ![p] = Idle]
  /\ open' = [open EXCEPT ![p] = 0]
  /\ UNCHANGED <<session, candidates, experiences, seen>>

(***************************************************************************)
(* Review.  An actor acts on the Candidate as it last read it.             *)
(***************************************************************************)
\* The view resolves the draft: a Candidate with an edit of another shape is not shown.
Look(a, p) ==
  /\ candidates[p] # NoCandidate
  /\ Resolvable(candidates[p])
  /\ seen[a][p] # candidates[p]
  /\ seen' = [seen EXCEPT ![a][p] = candidates[p]]
  /\ UNCHANGED <<session, calls, open, candidates, experiences>>

\* (mutant) The revision is compared after the command was applied.
AnyRevision(a, p) == seen[a][p] # NoCandidate

ExpectedRevision(a, p) ==
  /\ candidates[p] # NoCandidate
  /\ seen[a][p] # NoCandidate
  /\ seen[a][p].rev = candidates[p].rev

\* mutateCandidate: the row, its decision and the receipt in one transaction.  The actor
\* knows the new revision from the receipt, unless it goes by the view, which may throw.
Store(a, p, next) ==
  /\ next.rev <= MaxRev
  /\ candidates' = [candidates EXCEPT ![p] = next]
  /\ \/ seen' = [seen EXCEPT ![a][p] = next]
     \/ ~Resolvable(next) /\ UNCHANGED seen
  /\ UNCHANGED <<session, calls, open>>

Submit(a, p) ==
  /\ ExpectedRevision(a, p)
  /\ candidates[p].state = "proposed"
  /\ Store(a, p, [candidates[p] EXCEPT !.state = "in_review", !.rev = @ + 1])
  /\ UNCHANGED experiences

\* An edit of a component must be a component; the value of a plain field is not looked at.
DecideField(a, p, f, kind, value) ==
  /\ ExpectedRevision(a, p)
  /\ candidates[p].state = "in_review"
  /\ kind = "edit" => value.sources # {}
  /\ Store(a, p, [candidates[p] EXCEPT
       !.decisions = Append(@, [field |-> f, kind |-> kind, value |-> value,
                                supersedes |-> CurrentDecision(candidates[p], f)]),
       !.rev = @ + 1])
  /\ UNCHANGED experiences

\* A decision without an edit is about the drafted value.
KeepOrReject(a, p, f, kind) ==
  candidates[p] # NoCandidate /\ DecideField(a, p, f, kind, candidates[p].draft[f])

Acceptable(c) ==
  /\ c.status = "eligible"
  /\ ~c.missing
  /\ AllDecided(c)
  /\ NoneRejected(c)
  /\ Resolvable(c)
  /\ Unresolved(Resolve(c)) = {}
  /\ ValidDraft(Resolve(c))

Accept(a, p) ==
  /\ ExpectedRevision(a, p)
  /\ candidates[p].state = "in_review"
  /\ Acceptable(candidates[p])
  /\ Store(a, p, [candidates[p] EXCEPT !.state = "accepted", !.rev = @ + 1])
  /\ UNCHANGED experiences

Reject(a, p) ==
  /\ ExpectedRevision(a, p)
  /\ candidates[p].state = "in_review"
  /\ Store(a, p, [candidates[p] EXCEPT !.state = "rejected", !.rev = @ + 1, !.disposed = TRUE])
  /\ UNCHANGED experiences

Withdrawable(c) == c.state \notin {"published", "rejected", "withdrawn"}

Withdraw(a, p) ==
  /\ ExpectedRevision(a, p)
  /\ Withdrawable(candidates[p])
  /\ Store(a, p, [candidates[p] EXCEPT !.state = "withdrawn", !.rev = @ + 1, !.disposed = TRUE])
  /\ UNCHANGED experiences

\* An active Experience with the same kernel.
Holds(kernel) ==
  \E i \in DOMAIN experiences : experiences[i].active /\ Kernel(experiences[i].content) = kernel

\* publishCandidate: the Candidate, the Version and its records in one transaction.
Publish(a, p) ==
  /\ ExpectedRevision(a, p)
  /\ candidates[p].state = "accepted"
  /\ LET draft == Resolve(candidates[p]) IN
       /\ ValidDraft(draft)
       /\ candidates[p].status = "eligible" /\ ~candidates[p].missing
       /\ Unresolved(draft) = {}
       /\ ~Holds(Kernel(draft))
       /\ experiences' = Append(experiences, [content |-> draft, active |-> TRUE])
  /\ Store(a, p, [candidates[p] EXCEPT !.state = "published", !.rev = @ + 1,
                                       !.version = Len(experiences) + 1])

\* The owner forgets an Experience.
Forget(i) ==
  /\ experiences[i].active
  /\ experiences' = [experiences EXCEPT ![i].active = FALSE]
  /\ UNCHANGED <<session, calls, open, candidates, seen>>

-----------------------------------------------------------------------------
Next ==
  \/ SourcesChange
  \/ \E p \in Commands :
       \/ Inspect(p) \/ Propose(p) \/ Read(p) \/ AskFails(p)
       \/ \E d \in Proposals : Answer(p, d.draft, d.missing)
       \/ \E a \in Actors :
            \/ Look(a, p) \/ Submit(a, p) \/ Accept(a, p) \/ Reject(a, p)
            \/ Withdraw(a, p) \/ Publish(a, p)
            \/ \E f \in Fields :
                 \/ \E kind \in {"accept", "reject"} : KeepOrReject(a, p, f, kind)
                 \/ \E value \in Edits : DecideField(a, p, f, "edit", value)
  \/ \E i \in DOMAIN experiences : Forget(i)

Spec == Init /\ [][Next]_vars

(***************************************************************************)
(* Properties.                                                             *)
(***************************************************************************)

\* A stored Candidate passes the checks every command makes when it reads it.  Not every one
\* can be shown: one that cannot has an edit of another shape as the decision that counts
\* for a plain field, and it is in review or was disposed of from there.
CandidateStored ==
  \A p \in Commands : candidates[p] # NoCandidate =>
    LET c == candidates[p] IN
    /\ StoredSemantics(c)
    /\ ~Resolvable(c) =>
         /\ c.state \in {"in_review", "rejected", "withdrawn"}
         /\ \E f \in PlainFields : /\ Decided(c, f, "edit")
                                   /\ c.decisions[CurrentDecision(c, f)].value.content = Malformed

\* Every field of a published Version says what the last decision about it said, no field
\* was rejected, and each has a source the owner reviewed.
PublishedIsReviewed ==
  \A p \in Commands : candidates[p] # NoCandidate /\ candidates[p].version # 0 =>
    LET c == candidates[p]
        v == experiences[c.version] IN
    \A f \in Fields : \E i \in DOMAIN c.decisions :
      /\ c.decisions[i].field = f
      /\ \A j \in (i + 1)..Len(c.decisions) : c.decisions[j].field # f
      /\ c.decisions[i].kind # "reject"
      /\ v.content[f].content = c.decisions[i].value.content
      /\ v.content[f].sources # {}

\* What the review calls ready is what acceptance accepts, but for the shape of the edits.
ReadinessAgrees ==
  \A p \in Commands :
    candidates[p] # NoCandidate /\ candidates[p].state = "in_review" /\ Resolvable(candidates[p])
      /\ ValidDraft(Resolve(candidates[p]))
    => (Ready(candidates[p]) <=> Acceptable(candidates[p]))

\* A stored Candidate was extracted from the sources whose disclosure its owner confirmed.
ExtractedAsConfirmed ==
  \A p \in Commands : candidates[p] # NoCandidate => candidates[p].read = candidates[p].confirmed

\* Two active Experiences never have the same stable kernel.
KernelsDiffer ==
  \A i, j \in DOMAIN experiences :
    i # j /\ experiences[i].active /\ experiences[j].active
      => Kernel(experiences[i].content) # Kernel(experiences[j].content)

\* A window knows an earlier revision of a Candidate, or the Candidate as it is: equal
\* revisions are equal Candidates, so comparing the revision is enough.
WindowsTrail ==
  \A a \in Actors, p \in Commands : seen[a][p] # NoCandidate =>
    /\ candidates[p] # NoCandidate
    /\ seen[a][p].rev <= candidates[p].rev
    /\ seen[a][p].rev = candidates[p].rev => seen[a][p] = candidates[p]

\* What review leaves in the store is sound, for every interleaving of the two windows, the
\* model's answers and the changes of the sources.
CandidateSound ==
  /\ TypeOK /\ CandidateStored /\ PublishedIsReviewed /\ ReadinessAgrees
  /\ ExtractedAsConfirmed /\ KernelsDiffer /\ WindowsTrail

\* The model is asked by one run of a command at a time, and never once its Candidate is
\* stored: a repeated command joins the run or is answered from its receipt.
NotAskedAgain ==
  [][\A p \in Commands : open'[p] > open[p] => open[p] = 0 /\ candidates[p] = NoCandidate]_vars

\* A command acts on the Candidate as an actor last read it, adds to the decisions and
\* never rewrites them; what was published, rejected or withdrawn stays as it is.
ActsOnWhatItSaw ==
  [][\A p \in Commands : candidates[p] # NoCandidate /\ candidates'[p] # candidates[p] =>
       LET done == candidates[p].decisions IN
       /\ SubSeq(candidates'[p].decisions, 1, Len(done)) = done
       /\ candidates[p].state \notin {"published", "rejected", "withdrawn"}
       /\ \E a \in Actors : seen[a][p] = candidates[p]
       /\ \A a \in Actors : seen'[a] # seen[a] => seen[a][p] = candidates[p]]_vars
=============================================================================
