------------------------------ MODULE MCLibrary ------------------------------
(***************************************************************************)
(* The modules of the library on small instances, one of which a behaviour *)
(* takes: a Candidate proposed by a model, the review of Candidates by two *)
(* windows, the Versions of the published Experiences, a plan composed     *)
(* from them, and the tab in which its owner does all that.                *)
(***************************************************************************)
EXTENDS CandidateReview, ExperienceVersions, CandidateProposal, ClientStore, PlanComposition, TLC

CONSTANTS a1, a2, p1, p2

VARIABLE part

all == <<part, vars, storeVars, planning, proposal, store>>

(***************************************************************************)
(* Review: two commands, two windows, a title and a step.                  *)
(***************************************************************************)
V(content, sources) == [content |-> content, sources |-> sources]
D(title, step) == ("title" :> title) @@ ("step" :> step)

MCProposals ==
  {[draft |-> D(V("a", {}), V("a", {"s"})), missing |-> FALSE],
   [draft |-> D(V("a", {"s"}), V("a", {"s"})), missing |-> FALSE],
   [draft |-> D(V("a", {"s"}), V("a", {"s"})), missing |-> TRUE]}

MCEdits == {V("b", {"s"}), V("bad", {"s"})}

Used(p) == calls[p] # Idle \/ candidates[p] # NoCandidate

\* Bound: a Candidate in review is not inspected again and gets three decisions; of two
\* Candidates with one draft, from one reading, one actor accepts every field.
ReviewBound ==
  /\ \A p \in {p1, p2} : candidates[p] # NoCandidate =>
       /\ candidates[p].rev > 1 => calls[p] = Idle /\ session = candidates[p].read
       /\ Len(candidates[p].decisions) <= 3
  /\ Used(p1) /\ Used(p2) =>
       /\ session = [rev |-> 0, status |-> "eligible"]
       /\ Cardinality({a \in {a1, a2} : \E p \in {p1, p2} : seen[a][p] # NoCandidate}) <= 1
       /\ \A p \in {p1, p2} : candidates[p] # NoCandidate =>
            /\ candidates[p].draft = D(V("a", {"s"}), V("a", {"s"}))
            /\ \A i \in DOMAIN candidates[p].decisions : candidates[p].decisions[i].kind = "accept"

(***************************************************************************)
(* Versions: a step that is the kernel and a note, three Versions.         *)
(***************************************************************************)
C(text, sources) == [text |-> text, sources |-> sources]
Draft(step, note) == ("step" :> step) @@ ("note" :> note)

MCDrafts ==
  {Draft(C("a", {"s"}), C("a", {"s"})), Draft(C("b", {"t"}), C("a", {"s"})),
   Draft(C("a", {"t"}), C("b", {"s"}))}

Shown ==
  Cardinality({w \in Windows : shown[w] # None})
    + Cardinality({w \in Windows : previews[w] # None}) + Cardinality(exported)

\* Bound: Experiences, Versions and what was started on them are six in all; two proposals
\* are started with nothing else.
StoreBound ==
  /\ Shown + Len(proposals) + Len(versions) + Len(series) <= 6
  /\ Len(proposals) = 2 => Shown = 0 /\ Len(series) = 1

(***************************************************************************)
(* Plans: three Experiences of two actions each, up to three relations out *)
(* of MCOrder, one matching.                                               *)
(***************************************************************************)
MCText ==
  <<1, 1>> :> <<0, 0, 1>> @@ <<1, 2>> :> <<0, 0, 2>> @@ <<2, 1>> :> <<0, 0, 1>>
    @@ <<2, 2>> :> <<0, 0, 3>> @@ <<3, 1>> :> <<0, 0, 4>> @@ <<3, 2>> :> <<0, 0, 3>>

R(type, source, target) ==
  [type |-> type, source |-> source, target |-> target, scope |-> "task", from |-> 0, to |-> 9, optional |-> <<>>]
Optional(s, a, b) ==
  [R("composes_with", Component(s, a), Component(s, b)) EXCEPT !.optional = <<<<a, 1>>, <<b, 1>>>>]

\* In the order in which the instance declares them.
MCOrder ==
  <<R("requires", Version(2, 1), Component(3, 2)),
    R("requires", Version(1, 1), Version(2, 1)),
    R("requires", Component(1, 1), [kind |-> "condition", id |-> "c"]),
    R("precedes", Component(1, 1), Component(2, 2)),
    R("conflicts_with", Component(2, 1), Component(2, 2)),
    R("conflicts_with", Component(1, 1), Component(2, 2)),
    [R("conflicts_with", Version(3, 1), Version(1, 1)) EXCEPT !.to = 1],
    R("composes_with", Component(1, 1), Component(2, 2)),
    Optional(1, 1, 2),
    Optional(1, 2, 1),
    R("precedes", Component(2, 2), Component(1, 1)),
    R("requires", Component(3, 1), Version(1, 1)),
    R("requires", Version(2, 1), Version(1, 1))>>
MCDeclarations == {MCOrder[i] : i \in DOMAIN MCOrder}
Index(r) == CHOOSE i \in DOMAIN MCOrder : MCOrder[i] = r

M(s, ks) == [series |-> s, selected |-> ks, rejected |-> ks # {1, 2}]
MCMatchings ==
  {<<M(1, {1, 2})>>, <<M(1, {1})>>, <<M(2, {1, 2}), M(1, {1, 2})>>, <<M(3, {1, 2}), M(2, {})>>, <<M(1, {})>>}
MCTasks == {[unknown |-> FALSE, standard |-> TRUE], [unknown |-> TRUE, standard |-> FALSE]}

MCSeries == 1..3
MCRole == <<"step", "step">>

\* Bound: one plan is made, and at most one thing changes before, while or after it is made;
\* the relations are declared in order, at most two of them when something changes.
Changes == current[1] + current[2] + current[3] - 3 + Cardinality(1..3 \ active) + now + Cardinality(overrides)

MCDeclare(r) ==
  /\ plan.phase \in {"none", "matched"}
  /\ \A i \in DOMAIN relations : Index(relations[i]) < Index(r)
  /\ Len(relations) < (IF Changes = 0 THEN 3 ELSE 2)
  /\ plan.phase = "matched" /\ plan.task.unknown => relations = <<>>
  /\ Declare(r)

MayChange == Changes = 0 /\ Len(relations) <= 2 /\ plan.phase \in {"none", "matched", "composed"}

(***************************************************************************)
(* The instance.  Generation: one command and one retry.  The tab: one     *)
(* Candidate that is published and one that is proposed, a Usage and one   *)
(* that is planned.                                                        *)
(***************************************************************************)
MCInit ==
  /\ part \in {"review", "store", "plans", "generation", "tab"}
  /\ Init /\ StoreInit /\ PlanningInit /\ ProposalInit /\ TabInit
  /\ host.published = {"c"} /\ host.planned = {"u"}
  /\ part # "review" => session.status = "eligible"

\* Bound: what is in review is not inspected again; a window is shown what there is room for.
Fresh(ps) == \A p \in ps : candidates[p] # NoCandidate => candidates[p].rev = 1
Room == Shown + Len(proposals) + Len(versions) + Len(series) < 6
Again == IF shown["w"] = None THEN Room ELSE shown["w"].compared # ActiveVersions

InReview == part = "review" /\ UNCHANGED <<part, storeVars, planning, proposal, store>>
InStore == part = "store" /\ UNCHANGED <<part, vars, planning, proposal, store>>
InPlans == part = "plans" /\ UNCHANGED <<part, vars, storeVars, proposal, store>>
InGeneration == part = "generation" /\ UNCHANGED <<part, vars, storeVars, planning, store>>
InTab == part = "tab" /\ UNCHANGED <<part, vars, storeVars, planning, proposal>>

MCNext ==
  \/ InReview /\ Fresh({p1, p2}) /\ SourcesChange
  \/ \E p \in {p1, p2} :
       \/ InReview /\ Fresh({p}) /\ Inspect(p)
       \/ InReview /\ Propose(p)
       \/ InReview /\ Read(p)
       \/ InReview /\ AskFails(p)
       \/ \E d \in MCProposals : InReview /\ Answer(p, d.draft, d.missing)
       \/ \E a \in {a1, a2} :
            \/ InReview /\ Look(a, p)
            \/ InReview /\ Submit(a, p)
            \/ InReview /\ Accept(a, p)
            \/ InReview /\ Reject(a, p)
            \/ InReview /\ Withdraw(a, p)
            \/ InReview /\ Publish(a, p)
            \/ \E f \in {"title", "step"} :
                 \/ \E kind \in {"accept", "reject"} : InReview /\ KeepOrReject(a, p, f, kind)
                 \/ \E value \in MCEdits : InReview /\ DecideField(a, p, f, "edit", value)
  \/ \E i \in DOMAIN experiences : InReview /\ Forget(i)
  \/ \E draft \in MCDrafts : InStore /\ PublishCandidate(draft)
  \/ \E draft \in MCDrafts, decision \in Decisions, target \in ActiveVersions \cup {0} :
       InStore /\ Again /\ Len(proposals) < 2 /\ Show("w", draft, decision, target)
  \/ \E choice \in {"none", "attach_existing", "keep_distinct"} : InStore /\ Save("w", choice)
  \/ \E s \in DOMAIN series : InStore /\ (previews["w"] = None => Room) /\ PreviewForget("w", s)
  \/ InStore /\ ForgetExperience("w")
  \/ \E v \in DOMAIN versions :
       \/ \E u \in Usages, sources \in SUBSET Sources : InStore /\ Room /\ ProposeRevision(u, v, sources)
       \/ InStore /\ ExportMarkdown(v)
       \/ \E texts \in [Components -> Texts] : InStore /\ Room /\ ProposeMarkdownRevision(v, texts)
  \/ \E i \in DOMAIN proposals :
       \/ \E k \in DOMAIN proposals[i].changes, decision \in {"accepted", "rejected"} :
            InStore /\ DecideRevisionChange(i, k, decision)
       \/ InStore /\ PublishRevision(i)
  \/ \E r \in MCDeclarations : InPlans /\ MCDeclare(r) /\ UNCHANGED plan
  \/ \E i \in DOMAIN relations, until \in {1}, scope \in {"task", "other"} :
       InPlans /\ MayChange /\ CreateOverride(i, until, scope) /\ UNCHANGED plan
  \/ \E s \in 1..3 :
       \/ InPlans /\ MayChange /\ ForgetSeries(s) /\ UNCHANGED plan
       \/ \E ks \in {{1}, {2}, {1, 2}} : InPlans /\ MayChange /\ ReviseSeries(s, ks) /\ UNCHANGED plan
  \/ InPlans /\ MayChange /\ Tick /\ UNCHANGED plan
  \/ \E matching \in MCMatchings, task \in MCTasks :
       InPlans /\ plan.phase = "none" /\ (task.unknown => Len(relations) <= 1) /\ Match(matching, task)
  \/ InPlans /\ Compose
  \/ InPlans /\ SavePlan
  \/ InGeneration /\ ProposalNext
  \/ InTab /\ TabNext

MCSpec == MCInit /\ [][MCNext]_all

MCBound == CASE part = "review" -> ReviewBound [] part = "store" -> StoreBound [] OTHER -> TRUE
MCSymmetry == Permutations({a1, a2}) \cup Permutations({p1, p2})
=============================================================================
