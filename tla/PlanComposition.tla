-------------------------- MODULE PlanComposition --------------------------
(***************************************************************************)
(* From the matched Experiences to a plan: what each contributes, what     *)
(* they require in addition, and the composition that removes equivalents  *)
(* and losers of conflicts, orders the rest and decides whether it may be  *)
(* approved.  planning-service.ts matches in one snapshot, waits for the   *)
(* observations, composes from what the store says then, and saves in a    *)
(* transaction of its own: the Experiences and relations change between.   *)
(*                                                                         *)
(* Roles are the contribution types; the texts of a task and of a          *)
(* component are what matching, preflight and equivalence make of them.    *)
(***************************************************************************)
EXTENDS Relations

CONSTANTS
  Text,        \* what the component of a series says at first
  Usable,      \* series whose use mode and scope fit the task
  Expired,     \* Facts whose validity is over
  Matchings,   \* the matchings that can arise: sequences of [series, selected, rejected]
  Tasks        \* [unknown, standard]: a required observation is missing; the risk is standard

VARIABLE plan

planning == <<library, plan>>

NoPlan == [phase |-> "none"]

Types == <<"premise", "constraint", "hypothesis", "step", "recovery", "verification">>

ASSUME PlanningAssumption ==
  /\ Role \in [Slots -> {"none"} \cup {Types[i] : i \in DOMAIN Types}]
  /\ Matchings \subseteq Seq([series : Series, selected : SUBSET Slots, rejected : BOOLEAN])
  /\ Tasks \subseteq [unknown : BOOLEAN, standard : BOOLEAN]

\* The place of a component: its type, then its place in its Version, then its id.
Place(c) == <<CHOOSE i \in DOMAIN Types : Types[i] = Role[c.k], c.k, c.series, c.revision>>

\* Lexicographic order.
Less(a, b) ==
  \E i \in DOMAIN a : a[i] < b[i] /\ \A j \in 1..(i - 1) : a[j] = b[j]

Key(c) == <<Role[c.k], IF c.revision = 1 THEN Text[<<c.series, c.k>>] ELSE <<c.series, c.k, c.revision>>>>

\* A contribution is identified by the revision, whichever Version it is taken from.
Id(c) == <<c.series, c.k, c.revision>>

(***************************************************************************)
(* Preflight.                                                              *)
(***************************************************************************)
Disposition(s, selected, rejected, task) ==
  IF s \in Expired THEN "stale"
  ELSE IF (rejected /\ selected = {}) \/ (task.unknown /\ ~task.standard) THEN "blocked"
  ELSE IF rejected \/ task.unknown THEN "adaptable" ELSE "applicable"

Fitness(disposition) ==
  CASE disposition = "applicable" -> 0 [] disposition = "adaptable" -> 1
    [] disposition = "stale" -> 2 [] disposition = "blocked" -> 5

\* contributionsFor
Contributions(v, selected, disposition) ==
  IF disposition \in {"blocked", "stale"} THEN {}
  ELSE {[series |-> v.series, number |-> v.number, k |-> k, revision |-> v.revised[k]] :
          k \in {j \in selected : Role[j] # "none"}}

BaseOf(matches) ==
  UNION {Contributions(m.view, m.selected, m.disposition) : m \in {matches[i] : i \in DOMAIN matches}}

\* The safety blockers of a preflight; why a candidate was rejected blocks nothing.
Blocking(task) == IF task.unknown /\ ~task.standard THEN {"required_observation_unknown"} ELSE {}

(***************************************************************************)
(* The owner may have said that the task does not need one of two actions. *)
(***************************************************************************)
EndpointContributions(ref, cs) ==
  IF ref.kind = "version" THEN {c \in cs : ref.id = <<c.series, c.number>>}
  ELSE IF ref.kind = "component" THEN {c \in cs : ref.id = <<c.series, c.k>>}
  ELSE {}

\* [anchor, optional] of the declarations that hold for the task, in order of creation.
OptionalDeclarations(cs, versions, at) ==
  LET read == Touching(versions, at)
      ordered == {e.id : e \in UNION {{relations[i].source, relations[i].target} :
                    i \in {j \in read : relations[j].type = "precedes"}}}
      holds(i) ==
        /\ i \in read
        /\ relations[i].type = "composes_with" /\ relations[i].optional # <<>>
        /\ relations[i].scope = "task"
        /\ \E v \in versions : \A o \in {relations[i].optional[1], relations[i].optional[2]} :
             \E c \in cs : c.series = v.series /\ c.number = v.number /\ c.k = o[1] /\ c.revision = o[2]
                           /\ v.series = relations[i].source.id[1]
        /\ <<relations[i].source.id[1], relations[i].optional[2][1]>> \notin ordered
      one(i) == CHOOSE c \in cs : c.series = relations[i].source.id[1] /\ c.k = relations[i].optional[1][1]
                                  /\ c.revision = relations[i].optional[1][2]
      two(i) == CHOOSE c \in cs : c.series = relations[i].source.id[1] /\ c.k = relations[i].optional[2][1]
                                  /\ c.revision = relations[i].optional[2][2]
      go[i \in 0..Len(relations)] ==
        IF i = 0 THEN <<>>
        ELSE IF holds(i) THEN Append(go[i - 1], [anchor |-> one(i), optional |-> two(i)]) ELSE go[i - 1]
  IN go[Len(relations)]

\* Two actions that are each optional for the other are both kept, and block.
OptionalSelection(ds) ==
  LET go[i \in 0..Len(ds)] ==
        IF i = 0 THEN [prunes |-> {}, removed |-> {}, blockers |-> {}]
        ELSE LET g == go[i - 1]
                 d == ds[i]
                 contradicted == \E j \in DOMAIN ds :
                                   ds[j].anchor = d.optional /\ ds[j].optional = d.anchor
             IN IF contradicted /\ d.anchor \notin g.removed
                THEN [g EXCEPT !.blockers = @ \cup {"explicit_optional_contradiction"}]
                ELSE IF d.optional \in g.removed THEN g
                ELSE [g EXCEPT !.prunes = @ \cup {d}, !.removed = @ \cup {d.optional}]
  IN go[Len(ds)]

(***************************************************************************)
(* What the base requires.                                                 *)
(***************************************************************************)
\* planDependency: [reason] or the contributions of the whole Version.
Dependency(v, task) ==
  LET disposition == Disposition(v.series, Slots, FALSE, task) IN
  IF v.series \notin Usable \/ disposition = "blocked" THEN [usable |-> FALSE, gives |-> {}]
  ELSE [usable |-> TRUE, gives |-> Contributions(v, Slots, disposition)]

\* The base contributions of a matched Version stand for it, even if only some were selected.
BaseFor(v, p) == {c \in p.base : c.series = v.series /\ c.number = v.number}

TargetContributions(i, p) ==
  LET v == ViewOf(relations[i].target.id[1]) IN
  IF ~Resolves(relations[i].target) THEN {}
  ELSE IF BaseFor(v, p) # {} THEN BaseFor(v, p)
  ELSE Dependency(v, p.task).gives

\* The contributions that only a requirement brings in.
Imported(required, p) ==
  UNION {TargetContributions(i, p) :
           i \in {j \in required : /\ Resolves(relations[j].target)
                                   /\ BaseFor(ViewOf(relations[j].target.id[1]), p) = {}}}

\* The contributions that the roots reach by the requirements.
Reachable(roots, available, edges) ==
  LET pass == [cs \in SUBSET available |->
                 cs \cup UNION {e.targets \cap available : e \in {f \in edges : f.sources \cap cs # {}}}]
  IN Iterate(pass, roots \cap available, Cardinality(available))

(***************************************************************************)
(* Composition.                                                            *)
(***************************************************************************)
\* The better contribution: its preflight, the rank of its match, its place.
Fit(c, p, imported) ==
  LET of == {i \in DOMAIN p.matches : p.matches[i].view.series = c.series /\ p.matches[i].view.number = c.number}
      rank == IF of = {} THEN Len(p.matches) + 1 ELSE CHOOSE i \in of : TRUE
      disposition ==
        IF of = {} \/ \E d \in imported : d.series = c.series
        THEN Disposition(c.series, Slots, FALSE, p.task)
        ELSE p.matches[rank].disposition
  IN <<Fitness(disposition), rank>> \o Place(c)

Pairs(type, is, cs) ==
  UNION {EndpointContributions(relations[i].source, cs) \X EndpointContributions(relations[i].target, cs) :
           i \in {j \in is : relations[j].type = type}}

\* Kahn's algorithm: always the first by place of those with nothing left before them.
TopologicalOrder(live, before) ==
  LET rest(order) == live \ {order[i] : i \in DOMAIN order}
      ready(order) == {c \in rest(order) : \A b \in rest(order) : <<b, c>> \notin before}
      first(cs) == CHOOSE c \in cs : \A d \in cs \ {c} : Less(Place(c), Place(d))
      place == [order \in Seq(live) |->
                  IF ready(order) = {} THEN order ELSE Append(order, first(ready(order)))]
  IN Iterate(place, <<>>, Cardinality(live))

\* Of several winners over c the one whose conflict is looked at last.
LastWinner(c, winners, touched) ==
  LET late == {w \in winners : Less(Place(c), Place(w))}
      first(w) == CHOOSE i \in touched :
        /\ {<<c, w>>, <<w, c>>} \cap Pairs("conflicts_with", {i}, {c, w}) # {}
        /\ \A j \in touched : {<<c, w>>, <<w, c>>} \cap Pairs("conflicts_with", {j}, {c, w}) # {} => i <= j
  IN IF late # {} THEN CHOOSE w \in late : \A d \in late \ {w} : Less(Place(d), Place(w))
     ELSE CHOOSE w \in winners : \A d \in winners \ {w} :
            Less(<<first(d)>> \o Place(d), <<first(w)>> \o Place(w))

\* (mutant) A required contribution may be replaced by any that says the same.
AnySurvivor(c, w, touched) == w # c

\* A required contribution may only be replaced by one of its Version under a relation of both.
SameDependency(c, w, touched) ==
  /\ c.series = w.series /\ c.number = w.number
  /\ \E i \in touched : c \in EndpointContributions(relations[i].source, {c}) \cup EndpointContributions(relations[i].target, {c})
                     /\ w \in EndpointContributions(relations[i].source, {w}) \cup EndpointContributions(relations[i].target, {w})

Match(matching, task) ==
  /\ plan.phase \in {"none", "saved", "refused", "failed"}
  /\ \A i \in DOMAIN matching : matching[i].series \in active
  /\ LET matches == [i \in DOMAIN matching |->
           [view |-> ViewOf(matching[i].series), selected |-> matching[i].selected,
            rejected |-> matching[i].rejected,
            disposition |-> Disposition(matching[i].series, matching[i].selected, matching[i].rejected, task)]]
     IN plan' = [phase |-> "matched", task |-> task, at |-> now, named |-> overrides,
                 matches |-> matches, base |-> BaseOf(matches)]
  /\ UNCHANGED library

\* The entries of a sequence at some of its places.
Entries(s, places) ==
  [n \in 1..Cardinality(places) |-> s[CHOOSE i \in places : Cardinality({j \in places : j < i}) = n - 1]]

\* The plan made of the ordered contributions; elim names who eliminated each other one.
Composed(p, imported, edges, optional, touched, order, elim) ==
  LET selected == {order[i] : i \in DOMAIN order}
      roots == selected \ imported
      kept == roots \cup Reachable(roots, selected, edges)
      final == Entries(order, {i \in DOMAIN order : order[i] \in kept})
      unmet(e) ==
        /\ e.sources \cap kept # {}
        /\ \/ e.targets = {}
           \/ \E c \in e.targets \ kept :
                ~(c \in DOMAIN elim /\ elim[c] \in selected /\ SameDependency(c, elim[c], touched))
      blockers ==
        optional.blockers
          \cup (IF p.matches = <<>> THEN {} ELSE Blocking(p.task))
          \cup (IF \E e \in edges : unmet(e) THEN {"required_dependency"} ELSE {})
          \cup (IF \E d \in optional.prunes : d.anchor \notin kept
                THEN {"explicit_optional_anchor_not_retained"} ELSE {})
      noMatch == \A i \in DOMAIN p.matches : p.matches[i].selected = {}
  IN [phase |-> "composed", at |-> p.at, task |-> p.task, named |-> p.named, upto |-> Len(relations),
      order |-> final, base |-> p.base, elim |-> elim, pruned |-> optional.removed,
      disposition |-> IF noMatch THEN "no_match" ELSE IF blockers # {} THEN "blocked"
                      ELSE IF \A c \in kept : Role[c.k] # "step" THEN "read_only_only"
                      ELSE "ready_for_approval"]

Failed(reason, p) ==
  [phase |-> "failed", reason |-> reason, matched |-> {p.matches[i].view : i \in DOMAIN p.matches}]

\* What is composed: the base, without what the task does not need, and what it reaches.
Canonical(base, imported, optional, edges) ==
  LET cs == (base \cup imported) \ optional.removed
  IN (cs \ imported) \cup Reachable(cs \ imported, cs, edges)

\* Who eliminates each contribution that loses a conflict or says what a better one says.
Eliminated(canonical, imported, touched, p) ==
  LET fit == [c \in canonical |-> Fit(c, p, imported)]
      conflicts == Pairs("conflicts_with", touched \ Lifted(p.named, p.at), canonical)
      better(a, b) == a # b /\ Less(fit[a], fit[b])
      over == [c \in canonical |-> {w \in canonical : better(w, c) /\ {<<c, w>>, <<w, c>>} \cap conflicts # {}}]
      same == [c \in canonical |-> {w \in canonical : Key(w) = Key(c) /\ better(w, c)}]
  IN [c \in {d \in canonical : over[d] \cup same[d] # {}} |->
        IF over[c] # {} THEN LastWinner(c, over[c], touched)
        ELSE CHOOSE w \in same[c] : \A d \in same[c] \ {w} : better(w, d)]

\* \E binds what is read from the store once.
Compose ==
  /\ plan.phase = "matched"
  /\ LET p == plan
         versions == {p.matches[i].view : i \in DOMAIN p.matches}
         known == Closure({v \in versions : BaseFor(v, p) # {}}, p.at)
         edgesOf(required, all) ==
           {[sources |-> EndpointContributions(relations[i].source, all),
             targets |-> TargetContributions(i, p)] : i \in required}
     IN \E required \in {Requirements(known, p.at)}, touched \in {Touching(known, p.at)},
           optional \in {OptionalSelection(OptionalDeclarations(p.base, versions, p.at))} :
        \E imported \in {Imported(required, p)} :
        \E edges \in {edgesOf(required, p.base \cup imported)} :
        \E canonical \in {Canonical(p.base, imported, optional, edges)} :
        \E elim \in {Eliminated(canonical, imported, touched, p)} :
        \E order \in {TopologicalOrder(canonical \ DOMAIN elim, Pairs("precedes", touched, canonical \ DOMAIN elim))} :
          LET cs == (p.base \cup imported) \ optional.removed IN
          IF Cardinality({Id(c) : c \in cs}) # Cardinality(cs)
          THEN plan' = Failed("plan contribution ids must be unique", p)
          ELSE IF Len(order) # Cardinality(canonical \ DOMAIN elim) THEN plan' = Failed("composition_cycle", p)
          ELSE plan' = Composed(p, imported, edges, optional, touched, order, elim)
  /\ UNCHANGED library

\* createPlanningResult: every selected Version must still be the current one.
SavePlan ==
  /\ plan.phase = "composed"
  /\ plan' = [plan EXCEPT !.phase =
       IF \A i \in DOMAIN plan.order : IsCurrent(plan.order[i].series, plan.order[i].number)
       THEN "saved" ELSE "refused"]
  /\ UNCHANGED library

PlanningInit == LibraryInit /\ plan = NoPlan

PlanningNext ==
  \/ LibraryNext /\ UNCHANGED plan
  \/ \E matching \in Matchings, task \in Tasks : Match(matching, task)
  \/ Compose
  \/ SavePlan

PlanningSpec == PlanningInit /\ [][PlanningNext]_planning

(***************************************************************************)
(* Properties.                                                             *)
(***************************************************************************)
PlanningTypes ==
  /\ current \in [Series -> 1..MaxVersion] /\ active \subseteq Series
  /\ revised \in [Series -> [Slots -> 1..MaxVersion]]
  /\ relations \in Seq(Declarations) /\ now \in 0..MaxTime
  /\ plan.phase \in {"none", "matched", "composed", "saved", "refused", "failed"}

Composite == plan.phase \in {"composed", "saved"}
InPlan == {plan.order[i] : i \in DOMAIN plan.order}
Approvable == Composite /\ plan.disposition = "ready_for_approval"

\* The relations that were valid when the plan was made.
OfPlan(type) ==
  {relations[i] : i \in {j \in 1..plan.upto : relations[j].type = type
                                             /\ relations[j].from <= plan.at /\ plan.at < relations[j].to}}

\* Every pair of contributions in a plan is in the order the owner declared.
OrderKept ==
  Composite => \A r \in OfPlan("precedes"), i, j \in DOMAIN plan.order :
    /\ plan.order[i] \in EndpointContributions(r.source, InPlan)
    /\ plan.order[j] \in EndpointContributions(r.target, InPlan)
    => i < j

\* No plan has both sides of a conflict, unless the task named an override that was valid.
ConflictsResolved ==
  Composite => \A r \in OfPlan("conflicts_with"), c, d \in InPlan :
    c # d /\ c \in EndpointContributions(r.source, InPlan) /\ d \in EndpointContributions(r.target, InPlan)
    => \E o \in plan.named : relations[o.relation] = r /\ o.scope = "task" /\ plan.at < o.until

\* What a contribution of a plan that can be approved requires is in the plan.
RequirementsMet ==
  Approvable => \A r \in OfPlan("requires") :
    EndpointContributions(r.source, InPlan) # {} =>
      /\ r.target.kind \in Parts
      /\ \E c \in InPlan :
           /\ c.series = r.target.id[1]
           /\ r.target.kind = "version" => c.number = r.target.id[2]

\* What nobody matched is in a plan only because something in the plan requires its Version.
ImportsJustified ==
  Composite => \A c \in InPlan \ plan.base :
    \E r \in OfPlan("requires") :
      /\ EndpointContributions(r.source, InPlan) # {}
      /\ r.target.kind \in Parts /\ r.target.id[1] = c.series

\* Nothing is said twice.
SaidOnce == Composite => \A c, d \in InPlan : Key(c) = Key(d) => c = d

\* The relations that were accepted never make a composition fail; a composition fails only
\* because a matched Experience was revised after the matching.
FailsOnlyStale ==
  plan.phase = "failed" =>
    /\ plan.reason # "composition_cycle"
    /\ \E v \in plan.matched : ~IsCurrent(v.series, v.number)

\* The plan keeps what the relations say, for every sequence of declarations, revisions and
\* Forgets between the steps of planning.
PlanKeepsRelations ==
  /\ PlanningTypes /\ RelationsCoherent
  /\ OrderKept /\ ConflictsResolved /\ RequirementsMet /\ ImportsJustified /\ SaidOnce
  /\ FailsOnlyStale
=============================================================================
