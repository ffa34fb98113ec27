------------------------- MODULE ExperienceVersions -------------------------
(***************************************************************************)
(* The Experiences of the store: series of immutable Versions whose        *)
(* components are revisions shared between them, the evidence attached to  *)
(* the revisions, and the commands that add to them: publication of a      *)
(* Candidate, the save of a suggestion, a revision from a usage or from    *)
(* edited Markdown, and Forget.                                            *)
(*                                                                         *)
(* Every command is one transaction.  A window of the owner commits what   *)
(* it was shown, which others may have changed since.  One kind and one    *)
(* hard scope; a command repeated with its id is a stutter.                *)
(***************************************************************************)
EXTENDS Naturals, Sequences, FiniteSets

CONSTANTS
  Components,        \* the components of the kind
  KernelComponents,  \* those of identity class series, which make the stable kernel
  PolicyComponents,  \* those whose text is the materializer's, never evidence
  Replaceable,       \* those a usage may revise: verifier and conditions
  Texts,
  RevisionText,      \* what a usage's revision says
  Sources,
  Drafts,            \* the reviewed contents that can arrive
  Usages,            \* settled usages whose preflight found a Version stale or adaptable
  Windows,
  MaxVersions,       \* bound: Versions of all series
  MaxProposals       \* bound: RevisionProposals

\* The drafts are contents of the kind, and so is what a usage revises.
ASSUME StoreConstants ==
  /\ Drafts \subseteq [Components -> [text: Texts, sources: SUBSET Sources]]
  /\ Replaceable \subseteq Components /\ RevisionText \in Texts

VARIABLES
  versions,     \* Versions in order of creation
  series,       \* [current, rev, state] of each Experience
  evidence,     \* EvidenceStatements
  assessments,  \* EvidenceAssessments: [version, evidence]
  exported,     \* Versions with a Markdown projection receipt
  proposals,    \* RevisionProposals
  shown,        \* the suggestion group a window reviews
  previews      \* the Forget preview a window confirms

storeVars == <<versions, series, evidence, assessments, exported, proposals, shown, previews>>

None == [kind |-> "none"]
NewVersion == Len(versions) + 1
StableKernel(content) == [k \in KernelComponents |-> content[k].text]

\* (mutant) Also the current Versions of retired series.
AnyCurrent == {series[s].current : s \in DOMAIN series}

\* The Versions that retrieval, comparison and saving look at.
ActiveVersions == {series[s].current : s \in {t \in DOMAIN series : series[t].state = "active"}}

KernelOwners(content) ==
  {v \in ActiveVersions : StableKernel(versions[v].content) = StableKernel(content)}

\* The statements about the components of a Version, whichever Version they were made for.
StatementsOf(v, statements) ==
  {e \in statements : e.origin = versions[v].origin[e.component]}

\* Only occurrences give evidence, not the text of the policy.
EvidenceSources(draft, k) == IF k \in PolicyComponents THEN {} ELSE draft[k].sources

Statement(for, origin, k, sources) ==
  [for |-> for, origin |-> origin, component |-> k, sources |-> sources]

StoreInit ==
  /\ versions = <<>> /\ series = <<>>
  /\ evidence = {} /\ assessments = {}
  /\ exported = {} /\ proposals = <<>>
  /\ shown = [w \in Windows |-> None]
  /\ previews = [w \in Windows |-> None]

(***************************************************************************)
(* A new Experience.                                                       *)
(***************************************************************************)
InsertPublishedVersion(content, initial) ==
  /\ NewVersion <= MaxVersions
  /\ versions' = Append(versions,
       [series |-> Len(series) + 1, number |-> 1, previous |-> 0, content |-> content,
        origin |-> [k \in Components |-> NewVersion], initial |-> initial])
  /\ series' = Append(series, [current |-> NewVersion, rev |-> 1, state |-> "active"])
  /\ evidence' = evidence \cup initial
  /\ assessments' = assessments \cup {[version |-> NewVersion, evidence |-> initial]}

\* publishCandidate: the reviewed draft of an accepted Candidate.
PublishCandidate(draft) ==
  /\ KernelOwners(draft) = {}
  /\ InsertPublishedVersion(draft,
       {Statement(NewVersion, NewVersion, k, draft[k].sources) : k \in Components})
  /\ UNCHANGED <<exported, proposals, shown, previews>>

(***************************************************************************)
(* The save of a suggestion.  The group shown compares a draft with the    *)
(* active Versions; the comparison may be off, or may have found nothing.  *)
(***************************************************************************)
Decisions == {"unmatched", "different", "same", "ambiguous"}

\* A group is not offered when it has the kernel of its best match but not its components.
Show(w, draft, decision, target) ==
  /\ decision \in {"same", "ambiguous"} => target \in ActiveVersions
  /\ decision = "unmatched" => target = 0
  /\ decision = "different" => target \in ActiveVersions \cup {0}
  /\ target # 0 /\ StableKernel(versions[target].content) = StableKernel(draft) => decision = "same"
  /\ shown' = [shown EXCEPT ![w] = [kind |-> "group", draft |-> draft, decision |-> decision,
       target |-> target, compared |-> IF decision = "unmatched" THEN {} ELSE ActiveVersions]]
  /\ UNCHANGED <<versions, series, evidence, assessments, exported, proposals, previews>>

\* suggestionSaveEligibility
Eligible(g, choice) ==
  IF g.decision = "ambiguous" THEN choice \in {"attach_existing", "keep_distinct"}
  ELSE choice = "none"

\* assertSuggestionComparisonSnapshot
SameComparison(g) == g.decision # "unmatched" => g.compared = ActiveVersions

Attaches(g, choice) == g.decision = "same" \/ choice = "attach_existing"

\* resolveSemanticDuplicateTarget
TargetUnchanged(g) == g.target \in ActiveVersions

SameTexts(draft, v) == \A k \in Components : draft[k].text = versions[v].content[k].text

\* attachSuggestionEvidence: statements and assessments have deterministic ids.
AttachEvidence(g, v) ==
  LET new == {Statement(v, versions[v].origin[p[1]], p[1], {p[2]}) :
                p \in {q \in Components \X Sources : q[2] \in EvidenceSources(g.draft, q[1])}}
  IN /\ evidence' = evidence \cup new
     /\ assessments' = assessments \cup {[version |-> v, evidence |-> StatementsOf(v, evidence')]}
     /\ UNCHANGED <<versions, series>>

Save(w, choice) ==
  /\ shown[w] # None
  /\ LET g == shown[w]
         owners == KernelOwners(g.draft) IN
       /\ Eligible(g, choice)
       /\ SameComparison(g)
       /\ Cardinality(owners) <= 1
       /\ \/ /\ Attaches(g, choice)
             /\ TargetUnchanged(g)
             /\ owners \subseteq {g.target}
             /\ AttachEvidence(g, g.target)
          \/ /\ ~Attaches(g, choice)
             /\ choice # "keep_distinct"
             /\ \E v \in owners : SameTexts(g.draft, v) /\ AttachEvidence(g, v)
          \/ /\ ~Attaches(g, choice)
             /\ owners = {}
             /\ InsertPublishedVersion(g.draft,
                  {Statement(NewVersion, NewVersion, p[1], {p[2]}) :
                     p \in {q \in Components \X Sources : q[2] \in EvidenceSources(g.draft, q[1])}})
  /\ UNCHANGED <<exported, proposals, shown, previews>>

(***************************************************************************)
(* Revisions.                                                              *)
(***************************************************************************)
Recallable(s) == series[s].state = "active"

StoreProposal(v, usage, changes) ==
  /\ Len(proposals) < MaxProposals
  /\ proposals' = Append(proposals,
       [series |-> versions[v].series, base |-> v, usage |-> usage, changes |-> changes,
        rev |-> 1, state |-> "proposed", published |-> 0])
  /\ UNCHANGED <<versions, series, evidence, assessments, exported, shown, previews>>

Change(text, sources) == [text |-> text, sources |-> sources, decision |-> "pending"]

\* proposeRevision: one proposal of a usage, on the Version it planned with.
ProposeRevision(u, v, sources) ==
  /\ \A i \in DOMAIN proposals : proposals[i].usage # u
  /\ Replaceable # {} /\ sources # {}
  /\ StoreProposal(v, u, [k \in Replaceable |-> Change(RevisionText, sources)])

ExportMarkdown(v) ==
  /\ v \notin exported
  /\ Recallable(versions[v].series)
  /\ exported' = exported \cup {v}
  /\ UNCHANGED <<versions, series, evidence, assessments, proposals, shown, previews>>

\* proposeMarkdownRevision: the components whose body was edited, with their sources.
\* parseExperienceMarkdownRevision: the components whose text the owner changed.  An
\* edit of anything else, and an emptied component, is refused.
Edited(v, texts) == {k \in Components : texts[k] # versions[v].content[k].text}

ProposeMarkdownRevision(v, texts) ==
  /\ v \in exported
  /\ Recallable(versions[v].series)
  /\ series[versions[v].series].current = v
  /\ Edited(v, texts) # {}
  /\ StoreProposal(v, "none", [k \in Edited(v, texts) |-> Change(texts[k], versions[v].content[k].sources)])

Accepted(changes) == \A k \in DOMAIN changes : changes[k].decision = "accepted"

DecideRevisionChange(i, k, decision) ==
  /\ proposals[i].state \notin {"published", "rejected", "withdrawn"}
  /\ proposals[i].changes[k].decision = "pending"
  /\ LET changes == [proposals[i].changes EXCEPT ![k].decision = decision]
         state == IF \E j \in DOMAIN changes : changes[j].decision = "pending" THEN "in_review"
                  ELSE IF Accepted(changes) THEN "accepted" ELSE "rejected"
     IN proposals' = [proposals EXCEPT ![i].changes = changes, ![i].state = state, ![i].rev = @ + 1]
  /\ UNCHANGED <<versions, series, evidence, assessments, exported, shown, previews>>

\* Unchanged components bring the evidence the base was created with.
InitialEvidence(base, changes, minted) ==
  minted \cup {e \in versions[base].initial : e.component \notin DOMAIN changes}

BaseIsCurrent(i) == series[proposals[i].series].current = proposals[i].base

\* (mutant) Every component is written anew.
AllOrigins(base, changes) == [k \in Components |-> NewVersion]

\* Unchanged components keep their revision.
Origins(base, changes) ==
  [k \in Components |-> IF k \in DOMAIN changes THEN NewVersion ELSE versions[base].origin[k]]

\* publishRevision: the tables refuse a second Version of a series with one content.
PublishRevision(i) ==
  LET p == proposals[i]
      base == versions[p.base]
      content == [k \in Components |->
                    IF k \in DOMAIN p.changes
                    THEN [text |-> p.changes[k].text, sources |-> p.changes[k].sources]
                    ELSE base.content[k]]
      minted == {Statement(NewVersion, NewVersion, k, p.changes[k].sources) : k \in DOMAIN p.changes}
      initial == InitialEvidence(p.base, p.changes, minted)
  IN /\ NewVersion <= MaxVersions
     /\ p.state = "accepted"
     /\ BaseIsCurrent(i)
     /\ \A v \in DOMAIN versions : versions[v].series = p.series => versions[v].content # content
     /\ versions' = Append(versions,
          [series |-> p.series, number |-> base.number + 1, previous |-> p.base,
           content |-> content, origin |-> Origins(p.base, p.changes), initial |-> initial])
     /\ series' = [series EXCEPT ![p.series].current = NewVersion, ![p.series].rev = @ + 1]
     /\ evidence' = evidence \cup minted
     /\ assessments' = assessments \cup {[version |-> NewVersion, evidence |-> initial]}
     /\ proposals' = [proposals EXCEPT ![i].state = "published", ![i].rev = @ + 1,
                                       ![i].published = NewVersion]
     /\ UNCHANGED <<exported, shown, previews>>

(***************************************************************************)
(* Forget.                                                                 *)
(***************************************************************************)
Preview(s) == [kind |-> "preview", series |-> s, rev |-> series[s].rev, current |-> series[s].current]

PreviewForget(w, s) ==
  /\ series[s].state = "active"
  /\ previews' = [previews EXCEPT ![w] = Preview(s)]
  /\ UNCHANGED <<versions, series, evidence, assessments, exported, proposals, shown>>

\* forgetExperience: only what the preview showed.
ForgetExperience(w) ==
  /\ previews[w] # None
  /\ LET s == previews[w].series IN
       /\ series[s].state = "active"
       /\ previews[w] = Preview(s)
       /\ series' = [series EXCEPT ![s].state = "retired", ![s].rev = @ + 1]
  /\ UNCHANGED <<versions, evidence, assessments, exported, proposals, shown, previews>>

StoreNext ==
  \/ \E draft \in Drafts : PublishCandidate(draft)
  \/ \E w \in Windows :
       \/ \E draft \in Drafts, decision \in Decisions, target \in ActiveVersions \cup {0} :
            Show(w, draft, decision, target)
       \/ \E choice \in {"none", "attach_existing", "keep_distinct"} : Save(w, choice)
       \/ \E s \in DOMAIN series : PreviewForget(w, s)
       \/ ForgetExperience(w)
  \/ \E v \in DOMAIN versions :
       \/ \E u \in Usages, sources \in SUBSET Sources : ProposeRevision(u, v, sources)
       \/ ExportMarkdown(v)
       \/ \E texts \in [Components -> Texts] : ProposeMarkdownRevision(v, texts)
  \/ \E i \in DOMAIN proposals :
       \/ \E k \in DOMAIN proposals[i].changes, decision \in {"accepted", "rejected"} :
            DecideRevisionChange(i, k, decision)
       \/ PublishRevision(i)

StoreSpec == StoreInit /\ [][StoreNext]_storeVars

(***************************************************************************)
(* Properties.                                                             *)
(***************************************************************************)
StoreTypeOK ==
  /\ \A v \in DOMAIN versions :
       /\ versions[v].series \in DOMAIN series
       /\ versions[v].content \in [Components -> [text: Texts, sources: SUBSET Sources]]
       /\ versions[v].origin \in [Components -> 1..v]
  /\ \A s \in DOMAIN series : series[s].state \in {"active", "retired"} /\ series[s].rev \in Nat
  /\ \A i \in DOMAIN proposals :
       proposals[i].state \in {"proposed", "in_review", "accepted", "rejected", "published"}

\* The Versions of a series are one chain without gap or fork, and its end is the current one.
Lineage ==
  \A v \in DOMAIN versions :
    LET s == versions[v].series IN
    /\ versions[v].number = Cardinality({u \in 1..v : versions[u].series = s})
    /\ versions[v].previous = 0 <=> versions[v].number = 1
    /\ versions[v].previous # 0 =>
         /\ versions[versions[v].previous].series = s
         /\ versions[versions[v].previous].number + 1 = versions[v].number
    /\ series[s].current = v <=> \A u \in DOMAIN versions : versions[u].series = s => u <= v

\* What assertStoredVersionConsistency demands of every Version, before each publication and
\* at every read: a component says what its revision says, the evidence the Version was
\* created with is stored for that revision, and its first assessment names exactly that.
StoreConsistent ==
  \A v \in DOMAIN versions :
    /\ \A k \in Components : versions[v].content[k] = versions[versions[v].origin[k]].content[k]
    /\ versions[v].initial \subseteq StatementsOf(v, evidence)
    /\ [version |-> v, evidence |-> versions[v].initial] \in assessments

\* A component of a Version has evidence, unless no source gave it any.
Evidenced ==
  \A v \in DOMAIN versions, k \in Components \ PolicyComponents :
    versions[v].content[k].sources # {} => \E e \in versions[v].initial : e.component = k

\* A published proposal and its Version name each other, and the Version differs from the
\* base in nothing the owner did not accept.
RevisionsAccepted ==
  /\ \A i \in DOMAIN proposals : proposals[i].published # 0 =>
       LET v == versions[proposals[i].published] IN
       /\ v.previous = proposals[i].base
       /\ \A k \in Components : v.content[k] # versions[v.previous].content[k] =>
            /\ k \in DOMAIN proposals[i].changes
            /\ proposals[i].changes[k].decision = "accepted"
            /\ proposals[i].changes[k].text = v.content[k].text
  /\ \A v \in DOMAIN versions : versions[v].previous # 0 =>
       Cardinality({i \in DOMAIN proposals : proposals[i].published = v}) = 1

\* The store stays sound: chains, shared revisions, evidence and accepted changes.
VersionsSound == StoreTypeOK /\ Lineage /\ StoreConsistent /\ Evidenced /\ RevisionsAccepted

\* Nothing stored is rewritten; a forgotten Experience stays forgotten, and no suggestion
\* adds evidence to a Version that is not current or is forgotten.
HistoryKept ==
  [][/\ SubSeq(versions', 1, Len(versions)) = versions
     /\ evidence \subseteq evidence' /\ assessments \subseteq assessments'
     /\ \A s \in DOMAIN series : series[s].state = "retired" => series'[s].state = "retired"
     /\ \A e \in evidence' \ evidence : e.for \in DOMAIN versions =>
          \E s \in DOMAIN series : series[s].state = "active" /\ series[s].current = e.for
     /\ \A i \in DOMAIN proposals :
          proposals[i].state \in {"published", "rejected"} => proposals'[i] = proposals[i]]_storeVars

\* "Multiple active Experiences share one exact stable kernel" is an error of the store, which
\* fails every later publication or save of that kernel.
OneActivePerKernel ==
  \A u, v \in ActiveVersions :
    StableKernel(versions[u].content) = StableKernel(versions[v].content) => u = v
=============================================================================
