----------------------------- MODULE Relations -----------------------------
(***************************************************************************)
(* The typed relations between Experiences: what the owner may declare,    *)
(* overrides of conflicts, and what planning reads of them while the       *)
(* Experiences they name are revised and forgotten.                        *)
(*                                                                         *)
(* A Version is <<series, number>>, a component <<series, k>>: it keeps    *)
(* its identity over the Versions of its series.  A relation is never      *)
(* changed or deleted; what ends is its validity.                          *)
(***************************************************************************)
EXTENDS Naturals, Sequences, FiniteSets

CONSTANTS
  Series,           \* Experiences, in an order
  Slots,            \* the components of each, in their order
  Role,             \* the role of each component
  Outside,          \* things named without being stored: conditions, scopes, entities
  Declarations,     \* the relations the owner tries to declare
  MaxRelations,     \* bound: relations
  MaxVersion,       \* bound: Versions of a series
  MaxTime           \* bound: the clock

ASSUME RelationsAssumption ==
  /\ Series \subseteq Nat /\ IsFiniteSet(Series)
  /\ Slots \subseteq Nat /\ IsFiniteSet(Slots)
  /\ MaxVersion \in Nat \ {0} /\ MaxTime \in Nat
  /\ \A r \in Declarations : \A ref \in {r.source, r.target} : ref = [kind |-> ref.kind, id |-> ref.id]

VARIABLES
  current,     \* the number of the current Version of each series
  active,      \* the series that are not forgotten
  revised,     \* the Version in which each component was last revised
  relations,   \* in order of creation
  overrides,   \* [relation, from, until, scope]
  now

library == <<current, active, revised, relations, overrides, now>>

Version(s, n) == [kind |-> "version", id |-> <<s, n>>]
Component(s, k) == [kind |-> "component", id |-> <<s, k>>]
Experience(s) == [kind |-> "experience", id |-> s]

LibraryInit ==
  /\ current = [s \in Series |-> 1]
  /\ active = Series
  /\ revised = [s \in Series |-> [k \in Slots |-> 1]]
  /\ relations = <<>>
  /\ overrides = {}
  /\ now = 0

(***************************************************************************)
(* What may be declared.                                                   *)
(***************************************************************************)
Parts == {"version", "component"}

\* The kinds a relation of each type may connect.
KindsOf(type) ==
  CASE type = "requires"       -> Parts \X (Parts \cup {"condition"})
    [] type = "precedes"       -> {<<"component", "component">>}
    [] type = "conflicts_with" -> Parts \X Parts
    [] type = "composes_with"  -> {"experience", "component"} \X {"experience", "component"}
    [] type = "specializes"    -> {<<"experience", "experience">>}
    [] type = "supersedes"     -> {<<"version", "version">>}
    [] type = "invalidated_by" -> Parts \X {"evidence", "condition"}
    [] type = "applies_to"     -> {"version"} \X {"scope", "entity"}
    [] type = "failed_under"   -> Parts \X {"usage", "scope"}

\* Endpoints that have a table must be stored.
Stored(ref) ==
  CASE ref.kind = "version"    -> ref.id[2] <= current[ref.id[1]]
    [] ref.kind = "component"  -> TRUE
    [] ref.kind = "experience" -> TRUE
    [] OTHER                   -> ref.id \in Outside

\* isCurrentActiveVersion
IsCurrent(s, n) == s \in active /\ current[s] = n

\* explicit_optional_component: two actions of one current Version, named by their revisions.
ValidOptional(r) ==
  r.optional # <<>> =>
    LET s == r.source.id[1] IN
    /\ r.source.kind = "component" /\ r.target.kind = "component"
    /\ r.source.id # r.target.id
    /\ r.target.id[1] = s /\ s \in active
    /\ \A e \in {r.source, r.target} : Role[e.id[2]] = "step"
    /\ {r.optional[1], r.optional[2]} = {<<e.id[2], revised[s][e.id[2]]>> : e \in {r.source, r.target}}

Opposite(type) == IF type = "conflicts_with" THEN "composes_with" ELSE "conflicts_with"

SamePair(r, q) ==
  \/ q.source = r.source /\ q.target = r.target
  \/ q.source = r.target /\ q.target = r.source

ValidDeclaration(r) ==
  /\ r.source # r.target
  /\ r.to > r.from
  /\ Stored(r.source) /\ Stored(r.target)
  /\ <<r.source.kind, r.target.kind>> \in KindsOf(r.type)
  /\ r.type \in {"conflicts_with", "composes_with"} =>
       \A i \in DOMAIN relations :
         ~(relations[i].type = Opposite(r.type) /\ SamePair(relations[i], r) /\ relations[i].scope = r.scope)
  /\ r.type = "composes_with" => ValidOptional(r)

Acyclics == {"supersedes", "specializes", "requires", "precedes"}

Edges(rs, type) ==
  {<<rs[i].source, rs[i].target>> : i \in {j \in DOMAIN rs : rs[j].type = type}}

\* What n rounds make of x.
Iterate(round, x, n) ==
  LET go[i \in 0..n] == IF i = 0 THEN x ELSE round[go[i - 1]] IN go[n]

\* The nodes that a walk of at most n edges reaches.
Reach(edges, from, n) ==
  LET nodes == from \cup {e[2] : e \in edges}
  IN Iterate([ns \in SUBSET nodes |-> ns \cup {e[2] : e \in {f \in edges : f[1] \in ns}}], from, n)

CycleFree(edges) ==
  \A e \in edges : e[1] \notin Reach(edges, {e[2]}, Cardinality(edges))

\* The relations of the type with the new one have no cycle, or it is rolled back.
GraphAfter(r) == r.type \in Acyclics => CycleFree(Edges(Append(relations, r), r.type))

Declare(r) ==
  /\ Len(relations) < MaxRelations
  /\ ValidDeclaration(r)
  /\ GraphAfter(r)
  /\ relations' = Append(relations, r)
  /\ UNCHANGED <<current, active, revised, overrides, now>>

CreateOverride(i, until, scope) ==
  /\ relations[i].type = "conflicts_with"
  /\ until > now
  /\ overrides' = overrides \cup {[relation |-> i, from |-> now, until |-> until, scope |-> scope]}
  /\ UNCHANGED <<current, active, revised, relations, now>>

(***************************************************************************)
(* What happens to the Experiences meanwhile.                              *)
(***************************************************************************)
ReviseSeries(s, ks) ==
  /\ current[s] < MaxVersion
  /\ s \in active
  /\ current' = [current EXCEPT ![s] = @ + 1]
  /\ revised' = [revised EXCEPT ![s] = [k \in Slots |-> IF k \in ks THEN current[s] + 1 ELSE @[k]]]
  /\ UNCHANGED <<active, relations, overrides, now>>

ForgetSeries(s) ==
  /\ s \in active
  /\ active' = active \ {s}
  /\ UNCHANGED <<current, revised, relations, overrides, now>>

Tick ==
  /\ now < MaxTime
  /\ now' = now + 1
  /\ UNCHANGED <<current, active, revised, relations, overrides>>

LibraryNext ==
  \/ \E r \in Declarations : Declare(r)
  \/ \E i \in DOMAIN relations, until \in 1..MaxTime, scope \in {"task", "other"} :
       CreateOverride(i, until, scope)
  \/ \E s \in Series : ForgetSeries(s) \/ \E ks \in (SUBSET Slots) \ {{}} : ReviseSeries(s, ks)
  \/ Tick

(***************************************************************************)
(* What planning reads: the Versions as it knows them, and the relations   *)
(* that are valid at the time it started.                                  *)
(***************************************************************************)
ViewOf(s) == [series |-> s, number |-> current[s], revised |-> revised[s]]

ValidAt(at) == {i \in DOMAIN relations : relations[i].from <= at /\ at < relations[i].to}

\* An endpoint in a known Version; a component stays itself in every Version of its series.
Known(ref, known) ==
  \E v \in known : \/ ref.kind = "version" /\ ref.id = <<v.series, v.number>>
                   \/ ref.kind = "component" /\ ref.id[1] = v.series

\* resolveRequiredTarget: only the current Version of what is not forgotten.
Resolves(ref) ==
  \/ ref.kind = "version" /\ IsCurrent(ref.id[1], ref.id[2])
  \/ ref.kind = "component" /\ ref.id[1] \in active

Requirements(known, at) ==
  {i \in ValidAt(at) : relations[i].type = "requires" /\ Known(relations[i].source, known)}

\* loadRequiredDependencyClosure: the Versions the base requires, until nothing is added.
Closure(base, at) ==
  LET pass == [known \in SUBSET (base \cup {ViewOf(s) : s \in Series}) |->
                 known \cup {ViewOf(relations[i].target.id[1]) :
                                i \in {j \in Requirements(known, at) : Resolves(relations[j].target)}}]
  IN Iterate(pass, base, Cardinality(Series))

Touching(known, at) ==
  {i \in ValidAt(at) : Known(relations[i].source, known) \/ Known(relations[i].target, known)}

\* The conflicts that overrides named by the task lift, while they are valid and for its scope.
Lifted(named, at) == {o.relation : o \in {p \in named : p.from <= at /\ at < p.until /\ p.scope = "task"}}

(***************************************************************************)
(* No sequence of declarations makes a cycle of one type, or a pair that   *)
(* both conflicts and composes in one scope.                               *)
(***************************************************************************)
RelationsCoherent ==
  /\ \A type \in Acyclics : CycleFree(Edges(relations, type))
  /\ \A i, j \in DOMAIN relations :
       relations[i].type = "conflicts_with" /\ relations[j].type = "composes_with"
         /\ SamePair(relations[i], relations[j]) => relations[i].scope # relations[j].scope
=============================================================================
