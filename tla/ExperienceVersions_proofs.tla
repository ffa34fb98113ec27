---------------------- MODULE ExperienceVersions_proofs ----------------------
(***************************************************************************)
(* The stored Experiences, the tab that shows them and the plans that are  *)
(* composed of them, for any components, contents, windows, usages,        *)
(* relations and tasks and any number of Versions and operations.          *)
(*                                                                         *)
(* ExperienceVersions: history is never rewritten, and what is stored      *)
(* stays sound.  The invariants that the runs check are inductive once it  *)
(* is known what the rows refer to (RefsInv): the current Version of a     *)
(* series is one of its own, a proposal names a Version of its series, an  *)
(* accepted one has every change accepted, and only a published one names  *)
(* its Version.                                                            *)
(*                                                                         *)
(* ClientStore: consent is given for one disclosure and one proposal, and  *)
(* the panels of a calm tab are of one usage.  The invariant says what the *)
(* operations in flight are about, and that while they do not overlap the  *)
(* view has not moved since they were sent.                                *)
(*                                                                         *)
(* Relations and PlanComposition: a plan keeps what the relations say.     *)
(* What the algorithms return (Closure, Reachable, TopologicalOrder) is    *)
(* shown by counting their rounds; that the order never fails rests on the *)
(* relations having no cycle.  The invariant says what was matched, that a *)
(* composed plan keeps the relations there were when it was composed, and  *)
(* that a failed composition has a Version that was revised since.         *)
(***************************************************************************)
EXTENDS ExperienceVersions, ClientStore, PlanComposition, TLAPS, WellFoundedInduction, SequenceTheorems, FiniteSetTheorems

-----------------------------------------------------------------------------
\* What the tables and the windows hold.
Content == [Components -> [text: Texts, sources: SUBSET Sources]]
Statements == [for: Nat, origin: Nat, component: Components, sources: SUBSET Sources]
VersionRow ==
  [series: Nat, number: Nat, previous: Nat, content: Content, origin: [Components -> Nat],
   initial: SUBSET Statements]
SeriesRow == [current: Nat, rev: Nat, state: {"active", "retired"}]
ChangeRow == [text: Texts, sources: SUBSET Sources, decision: {"pending", "accepted", "rejected"}]
Changes == UNION {[D -> ChangeRow] : D \in SUBSET Components}
Proposal ==
  [series: Nat, base: Nat, usage: Usages \cup {"none"}, changes: Changes, rev: Nat,
   state: {"proposed", "in_review", "accepted", "rejected", "published"}, published: Nat]
Group == [kind: {"group"}, draft: Drafts, decision: Decisions, target: Nat, compared: SUBSET Nat]
PreviewRow == [kind: {"preview"}, series: Nat, rev: Nat, current: Nat]

TypesInv ==
  /\ versions \in Seq(VersionRow) /\ series \in Seq(SeriesRow) /\ evidence \subseteq Statements
  /\ proposals \in Seq(Proposal)
  /\ shown \in [Windows -> {None} \cup Group] /\ previews \in [Windows -> {None} \cup PreviewRow]

RefsInv ==
  /\ \A v \in DOMAIN versions :
       /\ versions[v].series \in DOMAIN series
       /\ versions[v].previous # 0 => versions[v].previous \in DOMAIN versions
       /\ versions[v].origin \in [Components -> 1..v]
  /\ \A s \in DOMAIN series :
       series[s].current \in DOMAIN versions /\ versions[series[s].current].series = s
  /\ \A i \in DOMAIN proposals :
       /\ proposals[i].base \in DOMAIN versions
       /\ proposals[i].series = versions[proposals[i].base].series
       /\ proposals[i].state = "accepted" => Accepted(proposals[i].changes)
       /\ proposals[i].published # 0 =>
            proposals[i].state = "published" /\ proposals[i].published \in DOMAIN versions
  /\ \A w \in Windows : previews[w] # None => previews[w].series \in DOMAIN series

Inv == TypesInv /\ RefsInv /\ Lineage /\ StoreConsistent /\ Evidenced /\ RevisionsAccepted

-----------------------------------------------------------------------------
\* The invariants, of one Version or proposal.
LineageAt(v) ==
  LET s == versions[v].series IN
  /\ versions[v].number = Cardinality({u \in 1..v : versions[u].series = s})
  /\ versions[v].previous = 0 <=> versions[v].number = 1
  /\ versions[v].previous # 0 =>
       /\ versions[versions[v].previous].series = s
       /\ versions[versions[v].previous].number + 1 = versions[v].number
  /\ series[s].current = v <=> \A u \in DOMAIN versions : versions[u].series = s => u <= v

ConsistentAt(v) ==
  /\ \A k \in Components : versions[v].content[k] = versions[versions[v].origin[k]].content[k]
  /\ versions[v].initial \subseteq StatementsOf(v, evidence)
  /\ [version |-> v, evidence |-> versions[v].initial] \in assessments

EvidencedAt(v) ==
  \A k \in Components \ PolicyComponents :
    versions[v].content[k].sources # {} => \E e \in versions[v].initial : e.component = k

RevisedAt(i) ==
  proposals[i].published # 0 =>
    LET v == versions[proposals[i].published] IN
    /\ v.previous = proposals[i].base
    /\ \A k \in Components : v.content[k] # versions[v.previous].content[k] =>
         /\ k \in DOMAIN proposals[i].changes
         /\ proposals[i].changes[k].decision = "accepted"
         /\ proposals[i].changes[k].text = v.content[k].text

OnceAt(v) ==
  versions[v].previous # 0 => Cardinality({i \in DOMAIN proposals : proposals[i].published = v}) = 1

LEMMA ByVersion ==
  /\ Lineage <=> \A v \in DOMAIN versions : LineageAt(v)
  /\ StoreConsistent <=> \A v \in DOMAIN versions : ConsistentAt(v)
  /\ Evidenced <=> \A v \in DOMAIN versions : EvidencedAt(v)
  /\ RevisionsAccepted <=> (/\ \A i \in DOMAIN proposals : RevisedAt(i)
                            /\ \A v \in DOMAIN versions : OnceAt(v))
<1>1. Lineage <=> \A v \in DOMAIN versions : LineageAt(v)
  BY Zenon DEF Lineage, LineageAt
<1>2. StoreConsistent <=> \A v \in DOMAIN versions : ConsistentAt(v)
  BY Zenon DEF StoreConsistent, ConsistentAt
<1>3. Evidenced <=> \A v \in DOMAIN versions : EvidencedAt(v)
  BY DEF Evidenced, EvidencedAt
<1>4. RevisionsAccepted <=> (/\ \A i \in DOMAIN proposals : RevisedAt(i)
                             /\ \A v \in DOMAIN versions : OnceAt(v))
  BY Zenon DEF RevisionsAccepted, RevisedAt, OnceAt
<1> QED
  BY <1>1, <1>2, <1>3, <1>4

LEMMA ByVersionNext ==
  /\ Lineage' <=> \A v \in DOMAIN versions' : LineageAt(v)'
  /\ StoreConsistent' <=> \A v \in DOMAIN versions' : ConsistentAt(v)'
  /\ Evidenced' <=> \A v \in DOMAIN versions' : EvidencedAt(v)'
  /\ RevisionsAccepted' <=> (/\ \A i \in DOMAIN proposals' : RevisedAt(i)'
                             /\ \A v \in DOMAIN versions' : OnceAt(v)')
<1>1. Lineage' <=> \A v \in DOMAIN versions' : LineageAt(v)'
  BY Zenon DEF Lineage, LineageAt
<1>2. StoreConsistent' <=> \A v \in DOMAIN versions' : ConsistentAt(v)'
  BY Zenon DEF StoreConsistent, ConsistentAt
<1>3. Evidenced' <=> \A v \in DOMAIN versions' : EvidencedAt(v)'
  BY DEF Evidenced, EvidencedAt
<1>4. RevisionsAccepted' <=> (/\ \A i \in DOMAIN proposals' : RevisedAt(i)'
                              /\ \A v \in DOMAIN versions' : OnceAt(v)')
  BY Zenon DEF RevisionsAccepted, RevisedAt, OnceAt
<1> QED
  BY <1>1, <1>2, <1>3, <1>4

-----------------------------------------------------------------------------
\* The rows are numbered from one.
LEMMA RowsAre ==
  ASSUME TypesInv
  PROVE  /\ Len(versions) \in Nat /\ DOMAIN versions = 1..Len(versions)
         /\ Len(series) \in Nat /\ DOMAIN series = 1..Len(series)
         /\ Len(proposals) \in Nat /\ DOMAIN proposals = 1..Len(proposals)
         /\ \A v \in DOMAIN versions : versions[v] \in VersionRow
         /\ \A s \in DOMAIN series : series[s] \in SeriesRow
         /\ \A i \in DOMAIN proposals : proposals[i] \in Proposal
BY LenProperties, ElementOfSeq DEF TypesInv

\* A sequence with one more element.
LEMMA Appended ==
  ASSUME NEW S, NEW q \in Seq(S), NEW x \in S, NEW r, r = Append(q, x)
  PROVE  /\ r \in Seq(S) /\ Len(r) = Len(q) + 1 /\ DOMAIN r = 1..(Len(q) + 1)
         /\ r[Len(q) + 1] = x /\ \A i \in 1..Len(q) : r[i] = q[i]
         /\ SubSeq(r, 1, Len(q)) = q
<1>1. /\ r \in Seq(S) /\ Len(r) = Len(q) + 1 /\ r[Len(q) + 1] = x
      /\ \A i \in 1..Len(q) : r[i] = q[i]
  BY AppendProperties
<1>2. DOMAIN r = 1..(Len(q) + 1) /\ Len(q) \in Nat
  BY <1>1, LenProperties
<1> PICK u : u = SubSeq(r, 1, Len(q))
  OBVIOUS
<1>3. \A i \in 1..Len(q) : r[i] \in S
  BY <1>1, ElementOfSeq
<1>4. u \in Seq(S) /\ Len(u) = Len(q) /\ \A i \in 1..Len(q) : u[i] = r[i]
  BY <1>2, <1>3, SubSeqProperties
<1>5. u = q
  BY <1>1, <1>4, SeqEqual
<1> QED
  BY <1>1, <1>2, <1>5

\* The Versions of a series up to one of them are finitely many.
LEMMA Finite ==
  ASSUME NEW n \in Nat, NEW S \in SUBSET (1..n)
  PROVE  IsFiniteSet(S)
<1>1. IsFiniteSet(1..n)
  BY FS_Interval
<1> QED
  BY <1>1, FS_Subset

LEMMA InitOk == StoreInit => Inv
<1> SUFFICES ASSUME StoreInit PROVE Inv
  OBVIOUS
<1>1. versions = <<>> /\ series = <<>> /\ proposals = <<>> /\ evidence = {}
  BY DEF StoreInit
<1>2. DOMAIN versions = {} /\ DOMAIN series = {} /\ DOMAIN proposals = {}
  BY <1>1
<1>3. TypesInv
  BY <1>1 DEF StoreInit, TypesInv
<1>4. RefsInv
  BY <1>2 DEF StoreInit, RefsInv
<1>5. Lineage /\ StoreConsistent /\ Evidenced /\ RevisionsAccepted
  BY <1>2 DEF Lineage, StoreConsistent, Evidenced, RevisionsAccepted
<1> QED
  BY <1>3, <1>4, <1>5 DEF Inv

-----------------------------------------------------------------------------
\* A Version is added: to a new series, or after the current Version of its series.
Adds(x) ==
  /\ x \in VersionRow /\ versions' = Append(versions, x)
  /\ series' \in Seq(SeriesRow) /\ DOMAIN series \subseteq DOMAIN series' /\ x.series \in DOMAIN series'
  /\ \A s \in DOMAIN series' : s \in DOMAIN series \/ s = x.series
  /\ \A s \in DOMAIN series' : s # x.series => series'[s].current = series[s].current
  /\ series'[x.series].current = NewVersion
  /\ x.previous # 0 => x.previous \in DOMAIN versions
  /\ x.origin \in [Components -> 1..NewVersion]
  /\ evidence \subseteq evidence' /\ evidence' \subseteq Statements /\ assessments \subseteq assessments'
  /\ UNCHANGED <<shown, previews>>

LEMMA AddedRows ==
  ASSUME TypesInv, NEW x, Adds(x)
  PROVE  /\ Len(versions) \in Nat /\ DOMAIN versions = 1..Len(versions) /\ NewVersion = Len(versions) + 1
         /\ versions' \in Seq(VersionRow) /\ DOMAIN versions' = 1..NewVersion
         /\ versions'[NewVersion] = x /\ \A v \in 1..Len(versions) : versions'[v] = versions[v]
         /\ SubSeq(versions', 1, Len(versions)) = versions
BY RowsAre, Appended DEF TypesInv, Adds, NewVersion

LEMMA OldLineage ==
  ASSUME TypesInv, RefsInv, Lineage, NEW x, Adds(x), NEW v \in DOMAIN versions
  PROVE  LineageAt(v)'
<1> PICK n : n = Len(versions)
  OBVIOUS
<1> PICK s : s = versions[v].series
  OBVIOUS
<1>1. /\ n \in Nat /\ v \in 1..n /\ DOMAIN versions = 1..n /\ DOMAIN versions' = 1..(n + 1)
      /\ versions'[n + 1] = x /\ \A u \in 1..n : versions'[u] = versions[u]
  BY AddedRows
<1>2. LineageAt(v) /\ s \in DOMAIN series
  BY ByVersion DEF RefsInv
<1>3. {u \in 1..v : versions'[u].series = s} = {u \in 1..v : versions[u].series = s}
  BY <1>1
<1>4. versions[v].previous # 0 => versions'[versions[v].previous] = versions[versions[v].previous]
  BY <1>1 DEF RefsInv
<1>5. series'[s].current = v <=> \A u \in DOMAIN versions' : versions'[u].series = s => u <= v
  <2>1. CASE s = x.series
    <3>1. series'[s].current = n + 1
      BY <2>1 DEF Adds, NewVersion
    <3>2. n + 1 \in DOMAIN versions' /\ versions'[n + 1].series = s /\ ~(n + 1 <= v)
      BY <1>1, <2>1
    <3> QED
      BY <1>1, <3>1, <3>2
  <2>2. CASE s # x.series
    <3>1. series'[s].current = series[s].current
      BY <1>2, <2>2 DEF Adds
    <3>2. series[s].current = v <=> \A u \in 1..n : versions[u].series = s => u <= v
      BY <1>1, <1>2 DEF LineageAt
    <3>3. \A u \in 1..(n + 1) : u \in 1..n \/ u = n + 1
      BY <1>1
    <3> QED
      BY <1>1, <2>2, <3>1, <3>2, <3>3
  <2> QED
    BY <2>1, <2>2
<1>6. versions'[v] = versions[v]
  BY <1>1
<1> QED
  BY <1>2, <1>3, <1>4, <1>5, <1>6 DEF LineageAt

LEMMA OldConsistent ==
  ASSUME TypesInv, RefsInv, StoreConsistent, Evidenced, NEW x, Adds(x), NEW v \in DOMAIN versions
  PROVE  ConsistentAt(v)' /\ EvidencedAt(v)'
<1>1. /\ DOMAIN versions = 1..Len(versions) /\ \A u \in DOMAIN versions : versions'[u] = versions[u]
      /\ Len(versions) \in Nat
  BY AddedRows
<1>2. ConsistentAt(v) /\ EvidencedAt(v)
  BY ByVersion
<1>3. \A k \in Components : versions[v].origin[k] \in DOMAIN versions
  BY <1>1 DEF RefsInv
<1>4. \A k \in Components : versions'[v].content[k] = versions'[versions'[v].origin[k]].content[k]
  BY <1>1, <1>2, <1>3 DEF ConsistentAt
<1>5. versions'[v].initial \subseteq StatementsOf(v, evidence)'
  BY <1>1, <1>2 DEF ConsistentAt, StatementsOf, Adds
<1>6. [version |-> v, evidence |-> versions'[v].initial] \in assessments'
  BY <1>1, <1>2 DEF ConsistentAt, Adds
<1>7. EvidencedAt(v)'
  BY <1>1, <1>2 DEF EvidencedAt
<1> QED
  BY <1>4, <1>5, <1>6, <1>7 DEF ConsistentAt

LEMMA OldRevised ==
  ASSUME TypesInv, RefsInv, RevisionsAccepted, NEW x, Adds(x), NEW i \in DOMAIN proposals,
         proposals'[i] = proposals[i]
  PROVE  RevisedAt(i)'
<1>1. \A u \in DOMAIN versions : versions'[u] = versions[u]
  BY AddedRows
<1>2. RevisedAt(i)
  BY ByVersion
<1>3. proposals[i].base \in DOMAIN versions /\ (proposals[i].published # 0 => proposals[i].published \in DOMAIN versions)
  BY DEF RefsInv
<1> QED
  BY <1>1, <1>2, <1>3 DEF RevisedAt

\* The first Version of a new series.
LEMMA FirstLineage ==
  ASSUME TypesInv, RefsInv, NEW x, Adds(x), x.series \notin DOMAIN series, x.number = 1, x.previous = 0,
         NEW m \in Nat, m = NewVersion
  PROVE  LineageAt(m)'
<1> PICK n : n = Len(versions)
  OBVIOUS
<1>1. /\ n \in Nat /\ DOMAIN versions = 1..n /\ NewVersion = n + 1 /\ DOMAIN versions' = 1..(n + 1)
      /\ versions'[n + 1] = x /\ \A u \in 1..n : versions'[u] = versions[u]
  BY AddedRows
<1>2. \A u \in 1..(n + 1) : versions'[u].series = x.series <=> u = n + 1
  <2>1. \A u \in 1..(n + 1) : u \in 1..n \/ u = n + 1
    BY <1>1
  <2>2. \A u \in 1..n : versions[u].series # x.series
    BY <1>1 DEF RefsInv
  <2> QED
    BY <1>1, <2>1, <2>2
<1>3. {u \in 1..(n + 1) : versions'[u].series = x.series} = {n + 1}
  BY <1>1, <1>2
<1>4. Cardinality({n + 1}) = 1
  BY FS_Singleton
<1>5. series'[x.series].current = n + 1
  BY <1>1 DEF Adds
<1>6. \A u \in DOMAIN versions' : versions'[u].series = x.series => u <= n + 1
  BY <1>1
<1> QED
  BY <1>1, <1>3, <1>4, <1>5, <1>6 DEF LineageAt

\* The next Version of a series, after its current one.
LEMMA NextLineage ==
  ASSUME TypesInv, RefsInv, Lineage, NEW x, Adds(x), NEW b \in DOMAIN versions, x.previous = b,
         x.series = versions[b].series, series[x.series].current = b, x.number = versions[b].number + 1,
         NEW m \in Nat, m = NewVersion
  PROVE  LineageAt(m)'
<1> PICK n : n = Len(versions)
  OBVIOUS
<1> PICK s : s = x.series
  OBVIOUS
<1>1. /\ n \in Nat /\ DOMAIN versions = 1..n /\ NewVersion = n + 1 /\ DOMAIN versions' = 1..(n + 1)
      /\ versions'[n + 1] = x /\ \A u \in 1..n : versions'[u] = versions[u]
  BY AddedRows
<1>2. LineageAt(b)
  BY ByVersion
<1> PICK S : S = {u \in 1..b : versions[u].series = s}
  OBVIOUS
<1>3. \A u \in 1..n : versions[u].series = s => u <= b
  BY <1>1, <1>2 DEF LineageAt
<1>4. {u \in 1..(n + 1) : versions'[u].series = s} = S \cup {n + 1}
  <2>1. \A u \in 1..(n + 1) : u \in 1..n \/ u = n + 1
    BY <1>1
  <2>2. b \in 1..n
    BY <1>1
  <2>3. ASSUME NEW u PROVE u \in 1..(n + 1) /\ versions'[u].series = s <=> u \in S \cup {n + 1}
    BY <1>1, <1>3, <2>1, <2>2
  <2> QED
    BY <2>3
<1>5. IsFiniteSet(S) /\ n + 1 \notin S /\ b \in S
  <2>1. b \in 1..n
    BY <1>1
  <2>2. b \in Nat /\ S \in SUBSET (1..b)
    BY <1>1, <2>1
  <2>3. IsFiniteSet(S)
    BY <2>2, Finite
  <2>4. n + 1 \notin S /\ b \in S
    BY <1>1, <2>1, <2>2
  <2> QED
    BY <2>3, <2>4
<1>6. Cardinality(S \cup {n + 1}) = Cardinality(S) + 1 /\ Cardinality(S) \in Nat /\ Cardinality(S) # 0
  BY <1>5, FS_AddElement, FS_CardinalityType, FS_EmptySet
<1>7. versions[b].number = Cardinality(S)
  BY <1>2 DEF LineageAt
<1>8. series'[s].current = n + 1
  BY <1>1 DEF Adds
<1>9. \A u \in DOMAIN versions' : versions'[u].series = s => u <= n + 1
  BY <1>1
<1>10. versions'[m].number = Cardinality({u \in 1..m : versions'[u].series = s})
  BY <1>1, <1>4, <1>6, <1>7
<1>11. versions'[m].previous = b /\ b # 0 /\ versions'[m].number # 1
  BY <1>1, <1>6, <1>7
<1>12. versions'[b] = versions[b] /\ versions'[m].series = s
  BY <1>1
<1> QED
  <2>1. versions'[m].previous = 0 <=> versions'[m].number = 1
    BY <1>11
  <2>2. versions'[versions'[m].previous].series = s
        /\ versions'[versions'[m].previous].number + 1 = versions'[m].number
    BY <1>1, <1>11, <1>12
  <2>3. series'[s].current = m <=> \A u \in DOMAIN versions' : versions'[u].series = s => u <= m
    BY <1>1, <1>8, <1>9
  <2> QED
    BY <1>10, <1>12, <2>1, <2>2, <2>3 DEF LineageAt

-----------------------------------------------------------------------------
\* The proposals and what they refer to.
ProposalRefs(i) ==
  /\ proposals[i].base \in DOMAIN versions
  /\ proposals[i].series = versions[proposals[i].base].series
  /\ proposals[i].state = "accepted" => Accepted(proposals[i].changes)
  /\ proposals[i].published # 0 =>
       proposals[i].state = "published" /\ proposals[i].published \in DOMAIN versions

ProposalsInv ==
  /\ proposals \in Seq(Proposal)
  /\ \A i \in DOMAIN proposals : ProposalRefs(i) /\ RevisedAt(i)
  /\ \A v \in DOMAIN versions : OnceAt(v)

LEMMA ProposalsAre == Inv => ProposalsInv
<1> SUFFICES ASSUME Inv PROVE ProposalsInv
  OBVIOUS
<1>1. \A i \in DOMAIN proposals : ProposalRefs(i)
  BY DEF Inv, RefsInv, ProposalRefs
<1> QED
  BY <1>1, ByVersion DEF Inv, TypesInv, ProposalsInv

LEMMA AddKeeps ==
  ASSUME Inv, NEW x, Adds(x), NEW m \in Nat, m = NewVersion,
         LineageAt(m)', ConsistentAt(m)', EvidencedAt(m)', ProposalsInv'
  PROVE  Inv'
<1> USE DEF Inv
<1>1. /\ Len(versions) \in Nat /\ DOMAIN versions = 1..Len(versions) /\ m = Len(versions) + 1
      /\ versions' \in Seq(VersionRow) /\ DOMAIN versions' = 1..m
      /\ versions'[m] = x /\ \A v \in DOMAIN versions : versions'[v] = versions[v]
  BY AddedRows
<1>2. \A v \in DOMAIN versions' : v \in DOMAIN versions \/ v = m
  BY <1>1
<1>3. TypesInv'
  BY <1>1 DEF TypesInv, Adds, ProposalsInv
<1>4. RefsInv'
  <2>1. ASSUME NEW v \in DOMAIN versions'
        PROVE  /\ versions'[v].series \in DOMAIN series'
               /\ versions'[v].previous # 0 => versions'[v].previous \in DOMAIN versions'
               /\ versions'[v].origin \in [Components -> 1..v]
    <3>1. CASE v \in DOMAIN versions
      BY <1>1, <3>1 DEF RefsInv, Adds
    <3>2. CASE v = m
      BY <1>1, <3>2 DEF Adds
    <3> QED
      BY <1>2, <3>1, <3>2
  <2>2. ASSUME NEW s \in DOMAIN series'
        PROVE  series'[s].current \in DOMAIN versions' /\ versions'[series'[s].current].series = s
    <3>1. CASE s = x.series
      BY <1>1, <3>1 DEF Adds
    <3>2. CASE s # x.series
      <4>1. s \in DOMAIN series /\ series'[s].current = series[s].current
        BY <3>2 DEF Adds
      <4> QED
        BY <1>1, <4>1 DEF RefsInv
    <3> QED
      BY <3>1, <3>2
  <2>3. \A i \in DOMAIN proposals' : ProposalRefs(i)'
    BY DEF ProposalsInv
  <2>4. \A w \in Windows : previews'[w] # None => previews'[w].series \in DOMAIN series'
    BY DEF RefsInv, Adds
  <2> QED
    BY <2>1, <2>2, <2>3, <2>4 DEF RefsInv, ProposalRefs
<1>5. \A v \in DOMAIN versions' : LineageAt(v)' /\ ConsistentAt(v)' /\ EvidencedAt(v)'
  <2>1. \A v \in DOMAIN versions : LineageAt(v)' /\ ConsistentAt(v)' /\ EvidencedAt(v)'
    BY OldLineage, OldConsistent
  <2> QED
    BY <1>2, <2>1
<1>6. Lineage' /\ StoreConsistent' /\ Evidenced' /\ RevisionsAccepted'
  BY <1>5, ByVersionNext DEF ProposalsInv
<1> QED
  BY <1>3, <1>4, <1>6

\* What a step leaves of a proposal and of the Versions it names.
LEMMA ProposalKept ==
  ASSUME Inv, NEW x, Adds(x), NEW i \in DOMAIN proposals, proposals'[i] = proposals[i]
  PROVE  ProposalRefs(i)' /\ RevisedAt(i)'
<1>1. ProposalRefs(i)
  BY ProposalsAre DEF ProposalsInv
<1>2. DOMAIN versions \subseteq DOMAIN versions' /\ \A v \in DOMAIN versions : versions'[v] = versions[v]
  BY AddedRows DEF Inv
<1>3. ProposalRefs(i)'
  BY <1>1, <1>2 DEF ProposalRefs, Accepted
<1> QED
  BY <1>3, OldRevised DEF Inv

\* A first Version has no proposal.
LEMMA InsertStep ==
  ASSUME Inv, NEW content \in Content, NEW initial \in SUBSET Statements,
         InsertPublishedVersion(content, initial), UNCHANGED <<exported, proposals, shown, previews>>,
         \A e \in initial : e.origin = NewVersion,
         \A k \in Components \ PolicyComponents :
           content[k].sources # {} => \E e \in initial : e.component = k
  PROVE  Inv'
<1> USE DEF Inv
<1> PICK m : m = NewVersion
  OBVIOUS
<1> PICK t : t = Len(series) + 1
  OBVIOUS
<1> PICK x : x = [series |-> t, number |-> 1, previous |-> 0, content |-> content,
                  origin |-> [k \in Components |-> m], initial |-> initial]
  OBVIOUS
<1> PICK r : r = [current |-> m, rev |-> 1, state |-> "active"]
  OBVIOUS
<1>1. /\ versions' = Append(versions, x) /\ series' = Append(series, r)
      /\ evidence' = evidence \cup initial
      /\ assessments' = assessments \cup {[version |-> m, evidence |-> initial]}
      /\ UNCHANGED <<proposals, shown, previews>>
  BY DEF InsertPublishedVersion
<1>2. m \in Nat /\ m = Len(versions) + 1 /\ t \in Nat /\ DOMAIN series = 1..Len(series) /\ t \notin DOMAIN series
  BY RowsAre DEF NewVersion
<1>3. x \in VersionRow /\ r \in SeriesRow
  BY <1>2 DEF VersionRow, SeriesRow, Content
<1>4. /\ series' \in Seq(SeriesRow) /\ DOMAIN series' = 1..t /\ series'[t] = r
      /\ \A s \in DOMAIN series : series'[s] = series[s]
  BY <1>1, <1>2, <1>3, Appended DEF TypesInv
<1>5. Adds(x)
  <2>1. x.origin \in [Components -> 1..NewVersion]
    BY <1>2, RowsAre
  <2> QED
    BY <1>1, <1>2, <1>3, <1>4, <2>1 DEF Adds, TypesInv
<1>6. DOMAIN versions' = 1..m /\ versions'[m] = x /\ DOMAIN versions = 1..Len(versions)
  BY <1>2, <1>5, AddedRows
<1>7. LineageAt(m)'
  BY <1>2, <1>5, FirstLineage
<1>8. ConsistentAt(m)'
  <2>1. \A k \in Components : versions'[m].origin[k] = m
    BY <1>6
  <2>2. \A e \in initial : e \in evidence' /\ e.component \in Components /\ e.origin = m
    BY <1>1 DEF Statements
  <2>3. \A e \in initial : e \in evidence' /\ e.origin = versions'[m].origin[e.component]
    BY <2>1, <2>2
  <2>4. versions'[m].initial = initial
    BY <1>6
  <2>5. versions'[m].initial \subseteq StatementsOf(m, evidence)'
    BY <2>3, <2>4 DEF StatementsOf
  <2>6. \A k \in Components : versions'[m].content[k] = versions'[versions'[m].origin[k]].content[k]
    BY <2>1
  <2> QED
    BY <1>1, <2>4, <2>5, <2>6 DEF ConsistentAt
<1>9. EvidencedAt(m)'
  BY <1>6 DEF EvidencedAt
<1>10. ProposalsInv'
  <2>1. \A i \in DOMAIN proposals' : ProposalRefs(i)' /\ RevisedAt(i)'
    BY <1>1, <1>5, ProposalKept
  <2>2. \A v \in DOMAIN versions' : OnceAt(v)'
    <3>1. \A v \in DOMAIN versions : OnceAt(v) /\ versions'[v] = versions[v]
      BY <1>5, ByVersion, AddedRows
    <3>2. \A v \in DOMAIN versions : OnceAt(v)'
      BY <1>1, <3>1 DEF OnceAt
    <3>3. OnceAt(m)'
      BY <1>6 DEF OnceAt
    <3>4. \A v \in DOMAIN versions' : v \in DOMAIN versions \/ v = m
      BY <1>2, <1>6
    <3> QED
      BY <3>2, <3>3, <3>4
  <2> QED
    BY <1>1, <2>1, <2>2 DEF ProposalsInv, TypesInv
<1> QED
  BY <1>2, <1>5, <1>7, <1>8, <1>9, <1>10, AddKeeps

\* A revision of the current Version: its proposal has every change accepted.
LEMMA PublishStep ==
  ASSUME Inv, NEW i \in DOMAIN proposals, PublishRevision(i)
  PROVE  Inv'
<1> USE DEF Inv
<1> PICK m : m = NewVersion
  OBVIOUS
<1> PICK p : p = proposals[i]
  OBVIOUS
<1> PICK b : b = p.base
  OBVIOUS
<1> PICK D : D = DOMAIN p.changes
  OBVIOUS
<1>c. PICK content : content = [k \in Components |->
                      IF k \in D THEN [text |-> p.changes[k].text, sources |-> p.changes[k].sources]
                      ELSE versions[b].content[k]]
  OBVIOUS
<1>o. PICK origin : origin = [k \in Components |-> IF k \in D THEN m ELSE versions[b].origin[k]]
  OBVIOUS
<1>t. PICK minted : minted = {Statement(m, m, k, p.changes[k].sources) : k \in D}
  OBVIOUS
<1>n. PICK initial : initial = minted \cup {e \in versions[b].initial : e.component \notin D}
  OBVIOUS
<1>x. PICK x : x = [series |-> p.series, number |-> versions[b].number + 1, previous |-> b,
                  content |-> content, origin |-> origin, initial |-> initial]
  OBVIOUS
<1>q. PICK q : q = [p EXCEPT !.state = "published", !.rev = @ + 1, !.published = m]
  OBVIOUS
<1>1. /\ p.state = "accepted" /\ series[p.series].current = b
      /\ versions' = Append(versions, x)
      /\ series' = [series EXCEPT ![p.series].current = m, ![p.series].rev = @ + 1]
      /\ evidence' = evidence \cup minted
      /\ assessments' = assessments \cup {[version |-> m, evidence |-> initial]}
      /\ UNCHANGED <<exported, shown, previews>>
  BY <1>c, <1>o, <1>t, <1>n, <1>x DEF PublishRevision, BaseIsCurrent, Origins, InitialEvidence
<1>2. proposals' = [proposals EXCEPT ![i] = q]
  BY <1>q DEF PublishRevision
<1>3. /\ m \in Nat /\ m = Len(versions) + 1 /\ Len(versions) \in Nat /\ DOMAIN versions = 1..Len(versions)
      /\ DOMAIN series = 1..Len(series) /\ Len(series) \in Nat
      /\ p \in Proposal
  BY RowsAre DEF NewVersion
<1>4. /\ b \in DOMAIN versions /\ p.series = versions[b].series /\ Accepted(p.changes) /\ p.published = 0
      /\ p.series \in DOMAIN series /\ versions[b] \in VersionRow
  BY <1>1, RowsAre DEF RefsInv
<1>5. D \subseteq Components /\ p.changes \in [D -> ChangeRow]
  BY <1>3 DEF Proposal, Changes
<1>6. /\ versions[b].origin \in [Components -> 1..b] /\ versions[b].content \in Content
      /\ versions[b].initial \subseteq Statements
  BY <1>4 DEF RefsInv, VersionRow
<1>7. x \in VersionRow
  <2>1. content \in Content
    BY <1>5, <1>6, <1>c DEF Content, ChangeRow
  <2>2. origin \in [Components -> Nat]
    BY <1>3, <1>4, <1>6, <1>o
  <2>3. minted \subseteq Statements
    BY <1>3, <1>5, <1>t DEF Statement, Statements, ChangeRow
  <2>4. initial \subseteq Statements
    BY <1>6, <1>n, <2>3
  <2>5. p.series \in Nat /\ versions[b].number + 1 \in Nat /\ b \in Nat
    BY <1>3, <1>4 DEF VersionRow
  <2> QED
    BY <1>x, <2>1, <2>2, <2>4, <2>5 DEF VersionRow
<1>8. /\ series' \in Seq(SeriesRow) /\ DOMAIN series' = DOMAIN series /\ series'[p.series].current = m
      /\ \A s \in DOMAIN series : s # p.series => series'[s] = series[s]
  <2> PICK r : r = series[p.series]
    OBVIOUS
  <2> PICK z : z = [r EXCEPT !.current = m, !.rev = r.rev + 1]
    OBVIOUS
  <2>r. r \in SeriesRow
    BY <1>4, RowsAre
  <2>1. z \in SeriesRow /\ z.current = m
    <3>1. r.rev + 1 \in Nat
      BY <2>r DEF SeriesRow
    <3>2. z \in SeriesRow
      BY <1>3, <2>r, <3>1 DEF SeriesRow
    <3>3. z.current = m
      BY <2>r DEF SeriesRow
    <3> QED
      BY <3>2, <3>3
  <2>2. series' = [series EXCEPT ![p.series] = z]
    BY <1>1
  <2>3. series' \in Seq(SeriesRow)
    <3>1. series \in Seq(SeriesRow) /\ p.series \in 1..Len(series)
      BY <1>3, <1>4 DEF TypesInv
    <3> QED
      BY <2>1, <2>2, <3>1, ExceptSeq
  <2>4. series'[p.series].current = m
    BY <1>4, <2>1, <2>2
  <2> QED
    BY <1>4, <2>2, <2>3, <2>4
<1>9. Adds(x)
  <2>1. \A k \in Components : origin[k] \in 1..m
    BY <1>3, <1>4, <1>6, <1>o
  <2>2. x.origin \in [Components -> 1..NewVersion]
    BY <1>o, <1>x, <2>1
  <2>3. evidence' \subseteq Statements
    BY <1>1, <1>7, <1>n, <1>x DEF VersionRow, TypesInv
  <2>4. x.series = p.series /\ x.previous = b
    BY <1>x
  <2> QED
    BY <1>1, <1>4, <1>7, <1>8, <2>2, <2>3, <2>4 DEF Adds
<1>10. DOMAIN versions' = 1..m /\ versions'[m] = x /\ \A v \in DOMAIN versions : versions'[v] = versions[v]
  BY <1>3, <1>9, AddedRows
<1>11. LineageAt(m)'
  <2>1. /\ x.previous = b /\ x.series = versions[b].series /\ series[x.series].current = b
        /\ x.number = versions[b].number + 1
    BY <1>1, <1>4, <1>x
  <2> QED
    BY <1>3, <1>4, <1>9, <2>1, NextLineage
<1>12. ConsistentAt(b) /\ EvidencedAt(b)
  BY <1>4, ByVersion
<1>13. ConsistentAt(m)'
  <2>1. ASSUME NEW k \in Components
        PROVE  content[k] = versions'[origin[k]].content[k]
    <3>1. CASE k \in D
      BY <1>10, <1>o, <1>x, <3>1
    <3>2. CASE k \notin D
      <4>1. origin[k] = versions[b].origin[k] /\ content[k] = versions[b].content[k]
        BY <1>c, <1>o, <3>2
      <4>2. origin[k] \in DOMAIN versions
        BY <1>3, <1>4, <1>6, <4>1
      <4>3. versions[b].content[k] = versions[versions[b].origin[k]].content[k]
        BY <1>12 DEF ConsistentAt
      <4>4. versions'[origin[k]] = versions[origin[k]]
        BY <1>10, <4>2
      <4> QED
        BY <4>1, <4>3, <4>4
    <3> QED
      BY <3>1, <3>2
  <2>2. ASSUME NEW e \in initial
        PROVE  e \in evidence' /\ e.origin = origin[e.component]
    <3>1. CASE e \in minted
      BY <1>1, <1>5, <1>o, <1>t, <3>1 DEF Statement
    <3>2. CASE e \notin minted
      <4>1. e \in versions[b].initial /\ e.component \notin D /\ e.component \in Components
        BY <1>6, <1>n, <3>2 DEF Statements
      <4>2. e \in evidence /\ e.origin = versions[b].origin[e.component]
        BY <1>12, <4>1 DEF ConsistentAt, StatementsOf
      <4>3. origin[e.component] = versions[b].origin[e.component] /\ e \in evidence'
        BY <1>1, <1>o, <4>1, <4>2
      <4> QED
        BY <4>2, <4>3
    <3> QED
      BY <3>1, <3>2
  <2>3. versions'[m].initial = initial /\ versions'[m].origin = origin /\ versions'[m].content = content
    BY <1>10, <1>x
  <2>4. versions'[m].initial \subseteq StatementsOf(m, evidence)'
    BY <2>2, <2>3 DEF StatementsOf
  <2>5. [version |-> m, evidence |-> versions'[m].initial] \in assessments'
    BY <1>1, <2>3
  <2> QED
    BY <2>1, <2>3, <2>4, <2>5 DEF ConsistentAt
<1>14. EvidencedAt(m)'
  <2>1. ASSUME NEW k \in Components \ PolicyComponents, content[k].sources # {}
        PROVE  \E e \in initial : e.component = k
    <3>1. CASE k \in D
      <4>1. Statement(m, m, k, p.changes[k].sources) \in initial
        BY <1>n, <1>t, <3>1
      <4> QED
        BY <4>1 DEF Statement
    <3>2. CASE k \notin D
      BY <1>12, <1>c, <1>n, <2>1, <3>2 DEF EvidencedAt
    <3> QED
      BY <3>1, <3>2
  <2> QED
    BY <1>10, <1>x, <2>1 DEF EvidencedAt
<1>15. q \in Proposal /\ q.published = m /\ q.state = "published" /\ q.base = b /\ q.series = p.series
       /\ q.changes = p.changes
  <2>1. q = [p EXCEPT !.state = "published", !.rev = p.rev + 1, !.published = m]
    BY <1>q
  <2>2. p.rev + 1 \in Nat
    BY <1>3 DEF Proposal
  <2>3. q \in Proposal
    BY <1>3, <2>1, <2>2 DEF Proposal
  <2>4. q.published = m
    BY <1>3, <2>1 DEF Proposal
  <2>5. q.state = "published"
    BY <1>3, <2>1 DEF Proposal
  <2>6. q.base = p.base /\ q.series = p.series /\ q.changes = p.changes
    BY <1>3, <2>1 DEF Proposal
  <2> QED
    BY <2>3, <2>4, <2>5, <2>6
<1>16. /\ proposals' \in Seq(Proposal) /\ DOMAIN proposals' = DOMAIN proposals /\ proposals'[i] = q
       /\ \A j \in DOMAIN proposals : j # i => proposals'[j] = proposals[j]
  BY <1>2, <1>15, ExceptSeq DEF TypesInv
<1>17. ProposalRefs(i)' /\ RevisedAt(i)'
  <2>1. m \in DOMAIN versions' /\ b \in DOMAIN versions' /\ versions'[b] = versions[b]
    BY <1>3, <1>4, <1>10
  <2>2. ProposalRefs(i)'
    BY <1>4, <1>15, <1>16, <2>1 DEF ProposalRefs
  <2>3. ASSUME NEW k \in Components, content[k] # versions[b].content[k]
        PROVE  k \in D /\ p.changes[k].decision = "accepted" /\ p.changes[k].text = content[k].text
    BY <1>4, <1>c, <2>3 DEF Accepted
  <2>4. versions'[m].previous = b /\ versions'[m].content = content
    BY <1>10, <1>x
  <2> QED
    BY <1>15, <1>16, <2>1, <2>2, <2>3, <2>4 DEF RevisedAt
<1>18. \A j \in DOMAIN proposals : proposals[j].published # m
  BY <1>3 DEF RefsInv
<1>19. OnceAt(m)'
  <2>1. {j \in DOMAIN proposals' : proposals'[j].published = m} = {i}
    BY Zenon, <1>15, <1>16, <1>18
  <2>2. Cardinality({i}) = 1
    BY FS_Singleton
  <2> QED
    BY <2>1, <2>2 DEF OnceAt
<1>20. ASSUME NEW v \in DOMAIN versions PROVE OnceAt(v)'
  <2>1. v # 0 /\ v # m
    BY <1>3
  <2>a. proposals'[i].published # v /\ proposals[i].published # v
    BY <1>4, <1>15, <1>16, <2>1
  <2>b. \A j \in DOMAIN proposals : proposals'[j].published = v <=> proposals[j].published = v
    BY <1>16, <2>a
  <2>2. {j \in DOMAIN proposals' : proposals'[j].published = v} = {j \in DOMAIN proposals : proposals[j].published = v}
    BY <1>16, <2>b
  <2> QED
    BY <1>10, <2>2, ByVersion DEF OnceAt
<1>21. ProposalsInv'
  <2>1. ASSUME NEW j \in DOMAIN proposals' PROVE ProposalRefs(j)' /\ RevisedAt(j)'
    BY <1>9, <1>16, <1>17, ProposalKept
  <2>2. \A v \in DOMAIN versions' : v \in DOMAIN versions \/ v = m
    BY <1>3, <1>10
  <2> QED
    BY <1>16, <1>19, <1>20, <2>1, <2>2 DEF ProposalsInv
<1> QED
  BY <1>3, <1>9, <1>11, <1>13, <1>14, <1>21, AddKeeps

-----------------------------------------------------------------------------
\* The steps that add no Version.
LEMMA StayKeeps ==
  ASSUME Inv, versions' = versions,
         series' \in Seq(SeriesRow), DOMAIN series' = DOMAIN series,
         \A s \in DOMAIN series : series'[s].current = series[s].current,
         evidence \subseteq evidence', evidence' \subseteq Statements, assessments \subseteq assessments',
         ProposalsInv',
         shown' \in [Windows -> {None} \cup Group], previews' \in [Windows -> {None} \cup PreviewRow],
         \A w \in Windows : previews'[w] # None => previews'[w].series \in DOMAIN series
  PROVE  Inv'
<1> USE DEF Inv
<1>1. TypesInv'
  BY DEF TypesInv, ProposalsInv
<1>2. RefsInv'
  <2>1. \A i \in DOMAIN proposals' : ProposalRefs(i)'
    BY DEF ProposalsInv
  <2>2. \A v \in DOMAIN versions' :
          /\ versions'[v].series \in DOMAIN series'
          /\ versions'[v].previous # 0 => versions'[v].previous \in DOMAIN versions'
          /\ versions'[v].origin \in [Components -> 1..v]
    BY DEF RefsInv
  <2>3. \A s \in DOMAIN series' :
          series'[s].current \in DOMAIN versions' /\ versions'[series'[s].current].series = s
    BY DEF RefsInv
  <2> QED
    BY <2>1, <2>2, <2>3 DEF RefsInv, ProposalRefs
<1>3. ASSUME NEW v \in DOMAIN versions PROVE LineageAt(v)' /\ ConsistentAt(v)' /\ EvidencedAt(v)'
  <2>1. LineageAt(v) /\ ConsistentAt(v) /\ EvidencedAt(v) /\ versions[v].series \in DOMAIN series
    BY ByVersion DEF RefsInv
  <2>2. LineageAt(v)'
    BY <2>1 DEF LineageAt
  <2>3. ConsistentAt(v)'
    BY <2>1 DEF ConsistentAt, StatementsOf
  <2>4. EvidencedAt(v)'
    BY <2>1 DEF EvidencedAt
  <2> QED
    BY <2>2, <2>3, <2>4
<1> QED
  BY <1>1, <1>2, <1>3, ByVersionNext DEF ProposalsInv

LEMMA ProposalsSame ==
  ASSUME Inv, UNCHANGED <<versions, proposals>>
  PROVE  ProposalsInv'
<1>1. ProposalsInv
  BY ProposalsAre
<1> QED
  BY <1>1 DEF ProposalsInv, ProposalRefs, RevisedAt, OnceAt, Accepted

\* A step that touches neither the rows nor what is derived from them.
LEMMA RowsSame ==
  ASSUME Inv, UNCHANGED <<versions, series, evidence, assessments, proposals>>,
         shown' \in [Windows -> {None} \cup Group], previews' \in [Windows -> {None} \cup PreviewRow],
         \A w \in Windows : previews'[w] # None => previews'[w].series \in DOMAIN series
  PROVE  Inv'
<1>1. series \in Seq(SeriesRow) /\ evidence \subseteq Statements
  BY DEF Inv, TypesInv
<1> QED
  BY <1>1, StayKeeps, ProposalsSame

LEMMA NoneIsNoRow ==
  /\ \A g \in Group : g # None
  /\ \A r \in PreviewRow : r # None
<1>1. None.kind = "none" /\ "none" # "group" /\ "none" # "preview"
  BY DEF None
<1> QED
  BY <1>1 DEF Group, PreviewRow

\* What the windows and the series hold.
LEMMA WindowsAre ==
  ASSUME Inv
  PROVE  /\ \A w \in Windows : shown[w] \in {None} \cup Group /\ previews[w] \in {None} \cup PreviewRow
         /\ shown \in [Windows -> {None} \cup Group] /\ previews \in [Windows -> {None} \cup PreviewRow]
         /\ \A w \in Windows : previews[w] # None => previews[w].series \in DOMAIN series
         /\ ActiveVersions \subseteq DOMAIN versions /\ DOMAIN versions \subseteq Nat
         /\ series \in Seq(SeriesRow) /\ evidence \subseteq Statements
<1>1. ActiveVersions \subseteq DOMAIN versions
  BY DEF Inv, RefsInv, ActiveVersions
<1> QED
  BY <1>1, RowsAre DEF Inv, TypesInv, RefsInv

LEMMA ShowStep ==
  ASSUME Inv, NEW w \in Windows, NEW draft \in Drafts, NEW decision \in Decisions,
         NEW target \in ActiveVersions \cup {0}, Show(w, draft, decision, target)
  PROVE  Inv'
<1> PICK g : g = [kind |-> "group", draft |-> draft, decision |-> decision,
                  target |-> target, compared |-> IF decision = "unmatched" THEN {} ELSE ActiveVersions]
  OBVIOUS
<1>1. shown' = [shown EXCEPT ![w] = g]
  BY DEF Show
<1>2. g \in Group
  BY WindowsAre DEF Group
<1> QED
  BY <1>1, <1>2, WindowsAre, RowsSame DEF Show

LEMMA ExportStep ==
  ASSUME Inv, NEW v, ExportMarkdown(v)
  PROVE  Inv'
BY WindowsAre, RowsSame DEF ExportMarkdown

LEMMA PreviewStep ==
  ASSUME Inv, NEW w \in Windows, NEW s \in DOMAIN series, PreviewForget(w, s)
  PROVE  Inv'
<1> PICK r : r = Preview(s)
  OBVIOUS
<1>1. previews' = [previews EXCEPT ![w] = r] /\ r.series = s
  BY DEF PreviewForget, Preview
<1>2. r \in PreviewRow
  <2>1. series[s] \in SeriesRow /\ s \in Nat
    BY RowsAre DEF Inv
  <2> QED
    BY <2>1 DEF Preview, PreviewRow, SeriesRow
<1>3. \A z \in Windows : previews'[z] # None => previews'[z].series \in DOMAIN series
  BY <1>1, WindowsAre
<1> QED
  BY <1>1, <1>2, <1>3, WindowsAre, RowsSame DEF PreviewForget

LEMMA ForgetStep ==
  ASSUME Inv, NEW w \in Windows, ForgetExperience(w)
  PROVE  Inv'
<1> PICK s : s = previews[w].series
  OBVIOUS
<1> PICK r : r = series[s]
  OBVIOUS
<1> PICK z : z = [r EXCEPT !.state = "retired", !.rev = r.rev + 1]
  OBVIOUS
<1>1. series' = [series EXCEPT ![s] = z] /\ UNCHANGED <<versions, evidence, assessments, proposals, shown, previews>>
  BY DEF ForgetExperience
<1>2. s \in DOMAIN series /\ r \in SeriesRow
  BY WindowsAre, RowsAre DEF ForgetExperience, Inv
<1>3. z \in SeriesRow
  <2>1. r.rev + 1 \in Nat
    BY <1>2 DEF SeriesRow
  <2> QED
    BY <1>2, <2>1 DEF SeriesRow
<1>4. z.current = r.current
  BY <1>2 DEF SeriesRow
<1>5. series' \in Seq(SeriesRow) /\ DOMAIN series' = DOMAIN series
  <2>1. series \in Seq(SeriesRow) /\ s \in 1..Len(series)
    BY <1>2, RowsAre DEF Inv, TypesInv
  <2> QED
    BY <1>1, <1>3, <2>1, ExceptSeq
<1>6. \A t \in DOMAIN series : series'[t].current = series[t].current
  BY <1>1, <1>4
<1> QED
  BY <1>1, <1>5, <1>6, WindowsAre, ProposalsSame, StayKeeps

\* Evidence is attached to the revisions of a stored Version.
LEMMA AttachStep ==
  ASSUME Inv, NEW g, NEW v \in DOMAIN versions, AttachEvidence(g, v),
         UNCHANGED <<proposals, shown, previews>>
  PROVE  Inv'
<1> PICK new : new = {Statement(v, versions[v].origin[p[1]], p[1], {p[2]}) :
                p \in {q \in Components \X Sources : q[2] \in EvidenceSources(g.draft, q[1])}}
  OBVIOUS
<1>1. evidence' = evidence \cup new /\ assessments \subseteq assessments' /\ UNCHANGED <<versions, series>>
  BY DEF AttachEvidence
<1>2. new \subseteq Statements
  <2>1. versions[v].origin \in [Components -> Nat] /\ v \in Nat
    BY RowsAre DEF Inv, VersionRow
  <2> QED
    BY <2>1 DEF Statement, Statements
<1> QED
  BY <1>1, <1>2, WindowsAre, ProposalsSame, StayKeeps

\* A reviewed draft, with a statement for every component.
LEMMA PublishCandidateStep ==
  ASSUME Inv, NEW draft \in Drafts, PublishCandidate(draft)
  PROVE  Inv'
<1> PICK m : m = NewVersion
  OBVIOUS
<1> PICK initial : initial = {Statement(m, m, k, draft[k].sources) : k \in Components}
  OBVIOUS
<1>1. InsertPublishedVersion(draft, initial) /\ UNCHANGED <<exported, proposals, shown, previews>>
  BY DEF PublishCandidate
<1>2. draft \in Content /\ m \in Nat
  BY RowsAre, StoreConstants DEF Content, NewVersion, Inv
<1>3. initial \in SUBSET Statements
  BY <1>2 DEF Content, Statement, Statements
<1>4. \A e \in initial : e.origin = NewVersion
  BY DEF Statement
<1>5. ASSUME NEW k \in Components PROVE \E e \in initial : e.component = k
  <2>1. Statement(m, m, k, draft[k].sources) \in initial
    OBVIOUS
  <2> QED
    BY <2>1 DEF Statement
<1> QED
  BY <1>1, <1>2, <1>3, <1>4, <1>5, InsertStep

\* A suggestion: evidence for the Version it was compared with, or a Version of its own with a
\* statement for every source.
LEMMA SaveStep ==
  ASSUME Inv, NEW w \in Windows, NEW choice, Save(w, choice)
  PROVE  Inv'
<1> PICK g : g = shown[w]
  OBVIOUS
<1> PICK m : m = NewVersion
  OBVIOUS
<1> PICK initial : initial = {Statement(m, m, p[1], {p[2]}) :
                     p \in {q \in Components \X Sources : q[2] \in EvidenceSources(g.draft, q[1])}}
  OBVIOUS
<1>1. g \in Group
  BY WindowsAre DEF Save
<1>2. g.draft \in Content /\ m \in Nat
  BY <1>1, RowsAre, StoreConstants DEF Group, Content, NewVersion, Inv
<1>3. UNCHANGED <<exported, proposals, shown, previews>>
  BY DEF Save
<1>4. \/ g.target \in ActiveVersions /\ AttachEvidence(g, g.target)
      \/ \E v \in KernelOwners(g.draft) : AttachEvidence(g, v)
      \/ InsertPublishedVersion(g.draft, initial)
  BY DEF Save, TargetUnchanged
<1>5. CASE g.target \in ActiveVersions /\ AttachEvidence(g, g.target)
  BY <1>3, <1>5, WindowsAre, AttachStep
<1>6. ASSUME NEW v \in KernelOwners(g.draft), AttachEvidence(g, v) PROVE Inv'
  <2>1. v \in DOMAIN versions
    BY WindowsAre DEF KernelOwners
  <2> QED
    BY <1>3, <1>6, <2>1, AttachStep
<1>7. CASE InsertPublishedVersion(g.draft, initial)
  <2>1. initial \in SUBSET Statements
    BY <1>2 DEF Statement, Statements
  <2>2. \A e \in initial : e.origin = NewVersion
    BY DEF Statement
  <2>3. ASSUME NEW k \in Components \ PolicyComponents, g.draft[k].sources # {}
        PROVE  \E e \in initial : e.component = k
    <3>1. PICK s \in Sources : s \in g.draft[k].sources
      BY <1>2, <2>3 DEF Content
    <3>2. PICK p : p = <<k, s>>
      OBVIOUS
    <3>3. p \in Components \X Sources /\ p[1] = k /\ p[2] \in EvidenceSources(g.draft, p[1])
      BY <3>1, <3>2 DEF EvidenceSources
    <3>4. Statement(m, m, p[1], {p[2]}) \in initial
      BY <3>3
    <3> QED
      BY <3>3, <3>4 DEF Statement
  <2> QED
    BY <1>2, <1>3, <1>7, <2>1, <2>2, <2>3, InsertStep
<1> QED
  BY <1>4, <1>5, <1>6, <1>7

\* A proposal is drafted: nothing is decided or published of it.
LEMMA ProposeStep ==
  ASSUME Inv, NEW v \in DOMAIN versions, NEW usage \in Usages \cup {"none"}, NEW changes \in Changes,
         StoreProposal(v, usage, changes), UNCHANGED <<versions>>
  PROVE  Inv'
<1> USE DEF Inv
<1> PICK p : p = [series |-> versions[v].series, base |-> v, usage |-> usage, changes |-> changes,
                  rev |-> 1, state |-> "proposed", published |-> 0]
  OBVIOUS
<1> PICK n : n = Len(proposals) + 1
  OBVIOUS
<1>1. proposals' = Append(proposals, p) /\ UNCHANGED <<series, evidence, assessments, shown, previews>>
  BY DEF StoreProposal
<1>2. p \in Proposal
  <2>1. versions[v].series \in Nat /\ v \in Nat
    BY RowsAre DEF VersionRow
  <2> QED
    BY <2>1 DEF Proposal
<1>3. /\ Len(proposals) \in Nat /\ DOMAIN proposals = 1..Len(proposals)
      /\ \A u \in DOMAIN versions : u # 0
  BY RowsAre
<1>4. /\ proposals' \in Seq(Proposal) /\ DOMAIN proposals' = 1..n /\ proposals'[n] = p
      /\ \A i \in DOMAIN proposals : proposals'[i] = proposals[i]
  BY <1>1, <1>2, <1>3, Appended DEF TypesInv
<1>5. ProposalsInv
  BY ProposalsAre
<1>6. ASSUME NEW i \in DOMAIN proposals' PROVE ProposalRefs(i)' /\ RevisedAt(i)'
  <2>1. CASE i \in DOMAIN proposals
    BY <1>4, <1>5, <2>1 DEF ProposalsInv, ProposalRefs, RevisedAt, Accepted
  <2>2. CASE i = n
    BY <1>4, <2>2 DEF ProposalRefs, RevisedAt
  <2>3. i \in DOMAIN proposals \/ i = n
    BY <1>3, <1>4
  <2> QED
    BY <2>1, <2>2, <2>3
<1>7. ASSUME NEW u \in DOMAIN versions' PROVE OnceAt(u)'
  <2>1. \A i \in DOMAIN proposals' : i \in DOMAIN proposals \/ proposals'[i].published = 0
    BY <1>3, <1>4
  <2>2. {i \in DOMAIN proposals' : proposals'[i].published = u} = {i \in DOMAIN proposals : proposals[i].published = u}
    BY <1>3, <1>4, <2>1
  <2> QED
    BY <1>5, <2>2 DEF ProposalsInv, OnceAt
<1>8. ProposalsInv'
  BY <1>4, <1>6, <1>7 DEF ProposalsInv
<1> QED
  BY <1>1, <1>8, WindowsAre, StayKeeps

\* A change is decided: the proposal is accepted only once all its changes are.
LEMMA DecideStep ==
  ASSUME Inv, NEW i \in DOMAIN proposals, NEW k \in DOMAIN proposals[i].changes,
         NEW decision \in {"accepted", "rejected"}, DecideRevisionChange(i, k, decision)
  PROVE  Inv'
<1> USE DEF Inv
<1> PICK p : p = proposals[i]
  OBVIOUS
<1> PICK c : c = [p.changes EXCEPT ![k].decision = decision]
  OBVIOUS
<1> PICK state : state = IF \E j \in DOMAIN c : c[j].decision = "pending" THEN "in_review"
                         ELSE IF Accepted(c) THEN "accepted" ELSE "rejected"
  OBVIOUS
<1> PICK q : q = [p EXCEPT !.changes = c, !.state = state, !.rev = p.rev + 1]
  OBVIOUS
<1>1. /\ proposals' = [proposals EXCEPT ![i] = q]
      /\ UNCHANGED <<versions, series, evidence, assessments, shown, previews>>
      /\ p.state # "published"
  BY Zenon DEF DecideRevisionChange
<1>2. p \in Proposal /\ Len(proposals) \in Nat /\ DOMAIN proposals = 1..Len(proposals)
  BY RowsAre
<1>3. ProposalRefs(i) /\ \A j \in DOMAIN proposals : ProposalRefs(j) /\ RevisedAt(j)
  BY ProposalsAre DEF ProposalsInv
<1>4. p.published = 0
  BY <1>1, <1>3 DEF ProposalRefs
<1>5. c \in Changes
  <2>1. PICK D \in SUBSET Components : p.changes \in [D -> ChangeRow]
    BY <1>2 DEF Proposal, Changes
  <2> PICK z : z = [p.changes[k] EXCEPT !.decision = decision]
    OBVIOUS
  <2>2. z \in ChangeRow
    BY <2>1 DEF ChangeRow
  <2>3. c = [p.changes EXCEPT ![k] = z]
    OBVIOUS
  <2>4. c \in [D -> ChangeRow]
    BY <2>1, <2>2, <2>3
  <2> QED
    BY <2>4 DEF Changes
<1>6. state \in {"in_review", "accepted", "rejected"} /\ (state = "accepted" => Accepted(c))
  OBVIOUS
<1>7. q \in Proposal
  <2>1. p.rev + 1 \in Nat
    BY <1>2 DEF Proposal
  <2> QED
    BY <1>2, <1>5, <1>6, <2>1 DEF Proposal
<1>8. /\ q.base = p.base /\ q.series = p.series /\ q.published = 0
      /\ q.state = state /\ q.changes = c
  <2>1. q.base = p.base /\ q.series = p.series /\ q.published = p.published
    BY <1>2 DEF Proposal
  <2>2. q.state = state
    BY <1>2 DEF Proposal
  <2>3. q.changes = c
    BY <1>2 DEF Proposal
  <2> QED
    BY <1>4, <2>1, <2>2, <2>3
<1>9. /\ proposals' \in Seq(Proposal) /\ DOMAIN proposals' = DOMAIN proposals /\ proposals'[i] = q
      /\ \A j \in DOMAIN proposals : j # i => proposals'[j] = proposals[j]
  <2>1. proposals \in Seq(Proposal) /\ i \in 1..Len(proposals)
    BY <1>2 DEF TypesInv
  <2> QED
    BY <1>1, <1>7, <2>1, ExceptSeq
<1>10. ASSUME NEW j \in DOMAIN proposals' PROVE ProposalRefs(j)' /\ RevisedAt(j)'
  <2>1. CASE j = i
    <3>1. state = "accepted" => Accepted(c)
      BY <1>6
    <3>2. ProposalRefs(i)'
      <4>1. /\ proposals'[i].base = p.base /\ proposals'[i].series = p.series
            /\ proposals'[i].published = 0 /\ proposals'[i].state = state /\ proposals'[i].changes = c
        BY <1>8, <1>9
      <4>2. versions' = versions
        BY <1>1
      <4>3. p.base \in DOMAIN versions /\ p.series = versions[p.base].series
        BY <1>3 DEF ProposalRefs
      <4> QED
        BY <3>1, <4>1, <4>2, <4>3 DEF ProposalRefs, Accepted
    <3>3. RevisedAt(i)'
      BY <1>8, <1>9 DEF RevisedAt
    <3> QED
      BY <2>1, <3>2, <3>3
  <2>2. CASE j # i
    <3>1. proposals'[j] = proposals[j] /\ ProposalRefs(j) /\ RevisedAt(j)
      BY <1>3, <1>9, <2>2
    <3>v. versions' = versions
      BY <1>1
    <3>2. ProposalRefs(j)'
      BY <3>1, <3>v DEF ProposalRefs, Accepted
    <3>3. RevisedAt(j)'
      BY <3>1, <3>v DEF RevisedAt
    <3> QED
      BY <3>2, <3>3
  <2> QED
    BY <2>1, <2>2
<1>11. ASSUME NEW u \in DOMAIN versions' PROVE OnceAt(u)'
  <2>1. \A j \in DOMAIN proposals : proposals'[j].published = proposals[j].published
    BY <1>4, <1>8, <1>9
  <2>2. {j \in DOMAIN proposals' : proposals'[j].published = u} = {j \in DOMAIN proposals : proposals[j].published = u}
    BY <1>9, <2>1
  <2> QED
    BY <1>1, <2>2, ProposalsAre DEF ProposalsInv, OnceAt
<1>12. ProposalsInv'
  BY <1>9, <1>10, <1>11 DEF ProposalsInv
<1> QED
  BY <1>1, <1>12, WindowsAre, StayKeeps

-----------------------------------------------------------------------------
LEMMA NextOk ==
  ASSUME Inv, [StoreNext]_storeVars
  PROVE  Inv'
<1>1. ASSUME NEW draft \in Drafts, PublishCandidate(draft) PROVE Inv'
  BY <1>1, PublishCandidateStep
<1>2. ASSUME NEW w \in Windows, NEW draft \in Drafts, NEW decision \in Decisions,
             NEW target \in ActiveVersions \cup {0}, Show(w, draft, decision, target)
      PROVE  Inv'
  BY <1>2, ShowStep
<1>3. ASSUME NEW w \in Windows, NEW choice, Save(w, choice) PROVE Inv'
  BY <1>3, SaveStep
<1>4. ASSUME NEW w \in Windows, NEW s \in DOMAIN series, PreviewForget(w, s) PROVE Inv'
  BY <1>4, PreviewStep
<1>5. ASSUME NEW w \in Windows, ForgetExperience(w) PROVE Inv'
  BY <1>5, ForgetStep
<1>6. ASSUME NEW v \in DOMAIN versions, NEW u \in Usages, NEW sources \in SUBSET Sources,
             ProposeRevision(u, v, sources)
      PROVE  Inv'
  <2> PICK changes : changes = [k \in Replaceable |-> Change(RevisionText, sources)]
    OBVIOUS
  <2>1. Change(RevisionText, sources) \in ChangeRow
    BY StoreConstants DEF Change, ChangeRow
  <2>2. changes \in [Replaceable -> ChangeRow] /\ Replaceable \in SUBSET Components
    BY <2>1, StoreConstants
  <2>3. changes \in Changes
    BY <2>2 DEF Changes
  <2>4. StoreProposal(v, u, changes)
    BY <1>6 DEF ProposeRevision
  <2>5. UNCHANGED <<versions>>
    BY <2>4 DEF StoreProposal
  <2> QED
    BY <2>3, <2>4, <2>5, ProposeStep
<1>7. ASSUME NEW v \in DOMAIN versions, ExportMarkdown(v) PROVE Inv'
  BY <1>7, ExportStep
<1>8. ASSUME NEW v \in DOMAIN versions, NEW texts \in [Components -> Texts], ProposeMarkdownRevision(v, texts)
      PROVE  Inv'
  <2> PICK E : E = Edited(v, texts)
    OBVIOUS
  <2> PICK changes : changes = [k \in E |-> Change(texts[k], versions[v].content[k].sources)]
    OBVIOUS
  <2>1. versions[v].content \in [Components -> [text: Texts, sources: SUBSET Sources]]
    BY RowsAre DEF Inv, VersionRow, Content
  <2>2. E \in SUBSET Components
    BY DEF Edited
  <2>3. changes \in [E -> ChangeRow]
    BY <2>1, <2>2 DEF Change, ChangeRow
  <2>4. changes \in Changes
    BY <2>2, <2>3 DEF Changes
  <2>5. StoreProposal(v, "none", changes)
    BY <1>8 DEF ProposeMarkdownRevision
  <2>6. UNCHANGED <<versions>>
    BY <2>5 DEF StoreProposal
  <2> QED
    BY <2>4, <2>5, <2>6, ProposeStep
<1>9. ASSUME NEW i \in DOMAIN proposals, NEW k \in DOMAIN proposals[i].changes,
             NEW decision \in {"accepted", "rejected"}, DecideRevisionChange(i, k, decision)
      PROVE  Inv'
  BY <1>9, DecideStep
<1>10. ASSUME NEW i \in DOMAIN proposals, PublishRevision(i) PROVE Inv'
  BY <1>10, PublishStep
<1>11. ASSUME UNCHANGED storeVars PROVE Inv'
  <2>1. UNCHANGED <<versions, series, evidence, assessments, proposals, shown, previews>>
    BY <1>11 DEF storeVars
  <2> QED
    BY <2>1, WindowsAre, RowsSame
<1> QED
  BY <1>1, <1>2, <1>3, <1>4, <1>5, <1>6, <1>7, <1>8, <1>9, <1>10, <1>11 DEF StoreNext

-----------------------------------------------------------------------------
\* What a step leaves of the history.
VersionsKept == SubSeq(versions', 1, Len(versions)) = versions
EvidenceGrows == evidence \subseteq evidence' /\ assessments \subseteq assessments'
RetiredStay ==
  \A s \in DOMAIN series : series[s].state = "retired" => series'[s].state = "retired"
EvidenceIsCurrent ==
  \A e \in evidence' \ evidence : e.for \in DOMAIN versions =>
    \E s \in DOMAIN series : series[s].state = "active" /\ series[s].current = e.for
EndedStay ==
  \A i \in DOMAIN proposals :
    proposals[i].state \in {"published", "rejected"} => proposals'[i] = proposals[i]

HistoryStep == VersionsKept /\ EvidenceGrows /\ RetiredStay /\ EvidenceIsCurrent /\ EndedStay

LEMMA SameVersions ==
  ASSUME Inv, UNCHANGED versions
  PROVE  VersionsKept
<1>1. versions \in Seq(VersionRow) /\ Len(versions) \in Nat
  BY RowsAre DEF Inv, TypesInv
<1> PICK u : u = SubSeq(versions, 1, Len(versions))
  OBVIOUS
<1>2. \A i \in 1..Len(versions) : versions[i] \in VersionRow
  BY <1>1, ElementOfSeq
<1>3. u \in Seq(VersionRow) /\ Len(u) = Len(versions) /\ \A i \in 1..Len(versions) : u[i] = versions[i]
  BY <1>1, <1>2, SubSeqProperties
<1>4. u = versions
  BY <1>1, <1>3, SeqEqual
<1> QED
  BY <1>4 DEF VersionsKept

LEMMA SameRows ==
  ASSUME Inv, UNCHANGED <<versions, series, evidence, assessments>>, EndedStay
  PROVE  HistoryStep
BY SameVersions DEF HistoryStep, EvidenceGrows, RetiredStay, EvidenceIsCurrent

LEMMA InsertHistory ==
  ASSUME Inv, NEW content \in Content, NEW initial \in SUBSET Statements,
         InsertPublishedVersion(content, initial), UNCHANGED proposals,
         \A e \in initial : e.for = NewVersion
  PROVE  HistoryStep
<1> USE DEF Inv
<1> PICK m : m = NewVersion
  OBVIOUS
<1> PICK x : x = [series |-> Len(series) + 1, number |-> 1, previous |-> 0, content |-> content,
                  origin |-> [k \in Components |-> m], initial |-> initial]
  OBVIOUS
<1> PICK r : r = [current |-> m, rev |-> 1, state |-> "active"]
  OBVIOUS
<1>1. /\ versions' = Append(versions, x) /\ series' = Append(series, r)
      /\ evidence' = evidence \cup initial /\ assessments \subseteq assessments'
  BY DEF InsertPublishedVersion
<1>2. m \in Nat /\ m \notin DOMAIN versions /\ DOMAIN series = 1..Len(series) /\ Len(series) + 1 \in Nat
  BY RowsAre DEF NewVersion
<1>3. x \in VersionRow /\ r \in SeriesRow
  BY <1>2 DEF VersionRow, SeriesRow, Content
<1>4. VersionsKept
  <2>1. versions \in Seq(VersionRow)
    BY DEF TypesInv
  <2> QED
    BY <1>1, <1>3, <2>1, Appended DEF VersionsKept
<1>5. RetiredStay
  <2>1. \A s \in DOMAIN series : series'[s] = series[s]
    BY <1>1, <1>2, <1>3, Appended DEF TypesInv
  <2> QED
    BY <2>1 DEF RetiredStay
<1>6. EvidenceIsCurrent
  BY <1>1, <1>2 DEF EvidenceIsCurrent
<1> QED
  BY <1>1, <1>4, <1>5, <1>6 DEF HistoryStep, EvidenceGrows, EndedStay

LEMMA AttachHistory ==
  ASSUME Inv, NEW g, NEW v \in ActiveVersions, AttachEvidence(g, v), UNCHANGED proposals
  PROVE  HistoryStep
<1>1. /\ evidence \subseteq evidence' /\ \A e \in evidence' \ evidence : e.for = v
      /\ assessments \subseteq assessments' /\ UNCHANGED <<versions, series>>
  BY DEF AttachEvidence, Statement
<1>2. PICK s \in DOMAIN series : series[s].state = "active" /\ series[s].current = v
  BY DEF ActiveVersions
<1>3. EvidenceIsCurrent
  BY <1>1, <1>2 DEF EvidenceIsCurrent
<1> QED
  BY <1>1, <1>3, SameVersions DEF HistoryStep, EvidenceGrows, RetiredStay, EndedStay

LEMMA SaveHistory ==
  ASSUME Inv, NEW w \in Windows, NEW choice, Save(w, choice)
  PROVE  HistoryStep
<1> PICK g : g = shown[w]
  OBVIOUS
<1> PICK m : m = NewVersion
  OBVIOUS
<1> PICK initial : initial = {Statement(m, m, p[1], {p[2]}) :
                     p \in {q \in Components \X Sources : q[2] \in EvidenceSources(g.draft, q[1])}}
  OBVIOUS
<1>1. g \in Group
  BY WindowsAre DEF Save
<1>2. g.draft \in Content /\ m \in Nat
  BY <1>1, RowsAre, StoreConstants DEF Group, Content, NewVersion, Inv
<1>3. UNCHANGED proposals
  BY DEF Save
<1>4. \/ g.target \in ActiveVersions /\ AttachEvidence(g, g.target)
      \/ \E v \in KernelOwners(g.draft) : AttachEvidence(g, v)
      \/ InsertPublishedVersion(g.draft, initial)
  BY DEF Save, TargetUnchanged
<1>5. CASE InsertPublishedVersion(g.draft, initial)
  <2>1. initial \in SUBSET Statements /\ \A e \in initial : e.for = NewVersion
    BY <1>2 DEF Statement, Statements
  <2> QED
    BY <1>2, <1>3, <1>5, <2>1, InsertHistory
<1>6. KernelOwners(g.draft) \subseteq ActiveVersions
  BY DEF KernelOwners
<1> QED
  BY <1>3, <1>4, <1>5, <1>6, AttachHistory

LEMMA PublishHistory ==
  ASSUME Inv, NEW i \in DOMAIN proposals, PublishRevision(i)
  PROVE  HistoryStep
<1> USE DEF Inv
<1> PICK m : m = NewVersion
  OBVIOUS
<1> PICK s : s = proposals[i].series
  OBVIOUS
<1>1. PICK x : versions' = Append(versions, x)
  BY Zenon DEF PublishRevision
<1>2. /\ proposals[i].state = "accepted"
      /\ proposals' = [proposals EXCEPT ![i].state = "published", ![i].rev = @ + 1, ![i].published = m]
      /\ series' = [series EXCEPT ![s].current = m, ![s].rev = @ + 1]
      /\ assessments \subseteq assessments' /\ evidence \subseteq evidence'
  BY DEF PublishRevision
<1>3. \A e \in evidence' \ evidence : e.for = m
  BY DEF PublishRevision, Statement
<1>4. m \notin DOMAIN versions /\ \A t \in DOMAIN series : series[t] \in SeriesRow
  BY RowsAre DEF NewVersion
<1>5. VersionsKept
  <2>1. /\ versions \in Seq(VersionRow) /\ versions \in Seq(VersionRow \cup {x}) /\ x \in VersionRow \cup {x}
    BY SeqMonotonic DEF TypesInv
  <2> QED
    BY <1>1, <2>1, Appended DEF VersionsKept
<1>6. RetiredStay
  BY <1>2, <1>4 DEF RetiredStay, SeriesRow
<1>7. EvidenceIsCurrent
  BY <1>3, <1>4 DEF EvidenceIsCurrent
<1>8. EndedStay
  BY <1>2 DEF EndedStay
<1> QED
  BY <1>2, <1>5, <1>6, <1>7, <1>8 DEF HistoryStep, EvidenceGrows

LEMMA ForgetHistory ==
  ASSUME Inv, NEW w \in Windows, ForgetExperience(w)
  PROVE  HistoryStep
<1>1. UNCHANGED <<versions, evidence, assessments, proposals>>
  BY DEF ForgetExperience
<1>2. RetiredStay
  <2>1. \A s \in DOMAIN series : series[s] \in SeriesRow
    BY RowsAre DEF Inv
  <2> QED
    BY <2>1 DEF ForgetExperience, RetiredStay, SeriesRow
<1> QED
  BY <1>1, <1>2, SameVersions DEF HistoryStep, EvidenceGrows, EvidenceIsCurrent, EndedStay

LEMMA ProposeHistory ==
  ASSUME Inv, NEW v, NEW usage, NEW changes, StoreProposal(v, usage, changes)
  PROVE  HistoryStep
<1>1. PICK p : proposals' = Append(proposals, p)
  BY Zenon DEF StoreProposal
<1>2. proposals \in Seq(Proposal \cup {p}) /\ p \in Proposal \cup {p}
  BY SeqMonotonic DEF Inv, TypesInv
<1>3. \A i \in DOMAIN proposals : proposals'[i] = proposals[i]
  BY <1>1, <1>2, Appended, RowsAre DEF Inv
<1>4. EndedStay
  BY <1>3 DEF EndedStay
<1> QED
  BY <1>4, SameRows DEF StoreProposal

LEMMA DecideHistory ==
  ASSUME Inv, NEW i \in DOMAIN proposals, NEW k, NEW decision, DecideRevisionChange(i, k, decision)
  PROVE  HistoryStep
<1>1. EndedStay
  BY DEF DecideRevisionChange, EndedStay
<1> QED
  BY <1>1, SameRows DEF DecideRevisionChange

LEMMA NextHistory ==
  ASSUME Inv, [StoreNext]_storeVars
  PROVE  HistoryStep
<1>1. ASSUME NEW draft \in Drafts, PublishCandidate(draft) PROVE HistoryStep
  <2> PICK m : m = NewVersion
    OBVIOUS
  <2> PICK initial : initial = {Statement(m, m, k, draft[k].sources) : k \in Components}
    OBVIOUS
  <2>1. InsertPublishedVersion(draft, initial) /\ UNCHANGED proposals
    BY <1>1 DEF PublishCandidate
  <2>2. draft \in Content /\ m \in Nat
    BY RowsAre, StoreConstants DEF Content, NewVersion, Inv
  <2>3. initial \in SUBSET Statements /\ \A e \in initial : e.for = NewVersion
    BY <2>2 DEF Content, Statement, Statements
  <2> QED
    BY <2>1, <2>2, <2>3, InsertHistory
<1>2. ASSUME NEW w \in Windows, NEW draft, NEW decision, NEW target, Show(w, draft, decision, target)
      PROVE  HistoryStep
  BY <1>2, SameRows DEF Show, EndedStay
<1>3. ASSUME NEW w \in Windows, NEW choice, Save(w, choice) PROVE HistoryStep
  BY <1>3, SaveHistory
<1>4. ASSUME NEW w, NEW s, PreviewForget(w, s) PROVE HistoryStep
  BY <1>4, SameRows DEF PreviewForget, EndedStay
<1>5. ASSUME NEW w \in Windows, ForgetExperience(w) PROVE HistoryStep
  BY <1>5, ForgetHistory
<1>6. ASSUME NEW v, NEW u, NEW sources, ProposeRevision(u, v, sources) PROVE HistoryStep
  BY <1>6, ProposeHistory DEF ProposeRevision
<1>7. ASSUME NEW v, ExportMarkdown(v) PROVE HistoryStep
  BY <1>7, SameRows DEF ExportMarkdown, EndedStay
<1>8. ASSUME NEW v, NEW texts, ProposeMarkdownRevision(v, texts) PROVE HistoryStep
  BY <1>8, ProposeHistory DEF ProposeMarkdownRevision
<1>9. ASSUME NEW i \in DOMAIN proposals, NEW k, NEW decision, DecideRevisionChange(i, k, decision)
      PROVE  HistoryStep
  BY <1>9, DecideHistory
<1>10. ASSUME NEW i \in DOMAIN proposals, PublishRevision(i) PROVE HistoryStep
  BY <1>10, PublishHistory
<1>11. ASSUME UNCHANGED storeVars PROVE HistoryStep
  BY <1>11, SameRows DEF storeVars, EndedStay
<1> QED
  BY <1>1, <1>2, <1>3, <1>4, <1>5, <1>6, <1>7, <1>8, <1>9, <1>10, <1>11 DEF StoreNext

LEMMA InvIsSound == Inv => VersionsSound
<1> SUFFICES ASSUME Inv PROVE StoreTypeOK
  BY DEF Inv, VersionsSound
<1>1. ASSUME NEW v \in DOMAIN versions
      PROVE  /\ versions[v].series \in DOMAIN series
             /\ versions[v].content \in [Components -> [text: Texts, sources: SUBSET Sources]]
             /\ versions[v].origin \in [Components -> 1..v]
  BY RowsAre DEF Inv, RefsInv, VersionRow, Content
<1>2. \A s \in DOMAIN series : series[s].state \in {"active", "retired"} /\ series[s].rev \in Nat
  BY RowsAre DEF Inv, SeriesRow
<1>3. ASSUME NEW i \in DOMAIN proposals
      PROVE  proposals[i].state \in {"proposed", "in_review", "accepted", "rejected", "published"}
  BY RowsAre DEF Inv, Proposal
<1> QED
  BY <1>1, <1>2, <1>3 DEF StoreTypeOK

LEMMA InvHolds == StoreSpec => []Inv
<1>1. Inv /\ [StoreNext]_storeVars => Inv'
  BY NextOk
<1> QED
  BY <1>1, InitOk, PTL DEF StoreSpec

\* In any store, whatever its windows confirm late: the Versions of a series are one chain that
\* ends in the current one, what a Version says is what its revisions say, with the evidence it
\* was created with, and a revision changes exactly what the owner accepted.
THEOREM StoreStaysSound ==
  StoreSpec => []VersionsSound
<1> QED
  BY InvHolds, InvIsSound, PTL

\* No step of any store rewrites a Version, its evidence or an ended proposal, revives a
\* forgotten Experience, or adds evidence to a Version that is not an active current one.
THEOREM HistoryIsNeverRewritten ==
  StoreSpec => HistoryKept
<1>1. Inv /\ [StoreNext]_storeVars => HistoryStep
  BY NextHistory
<1>2. HistoryStep =>
        /\ SubSeq(versions', 1, Len(versions)) = versions
        /\ evidence \subseteq evidence' /\ assessments \subseteq assessments'
        /\ \A s \in DOMAIN series : series[s].state = "retired" => series'[s].state = "retired"
        /\ \A e \in evidence' \ evidence : e.for \in DOMAIN versions =>
             \E s \in DOMAIN series : series[s].state = "active" /\ series[s].current = e.for
        /\ \A i \in DOMAIN proposals :
             proposals[i].state \in {"published", "rejected"} => proposals'[i] = proposals[i]
  BY DEF HistoryStep, VersionsKept, EvidenceGrows, RetiredStay, EvidenceIsCurrent, EndedStay
<1> QED
  BY <1>1, <1>2, InvHolds, PTL DEF StoreSpec, HistoryKept

-----------------------------------------------------------------------------
(* The Experience tab.  A confirmation that the view holds is of the       *)
(* disclosure it shows and was given for it (Consented); while operations  *)
(* do not overlap there is one in flight, and a call about the execution   *)
(* still finds the one it was sent for (Together).                         *)

Things == Candidates \cup TabUsages \cup {Undefined}
Shown == TabUsages \cup {Undefined}
Views == [running : BOOLEAN, proposal : {"idle", "generating", "succeeded", "failed"},
          selected : Candidates \cup {Undefined}, rev : Nat, version : Things,
          planning : Shown, context : Shown, execution : Shown,
          progress : Nat, inspection : 0..MaxInspections, confirmed : 0..MaxInspections,
          markdown : Things, revision : Things, preview : Things]
Ops == [kind : Kinds, alone : BOOLEAN, nr : Nat, on : Things, expected : Nat,
        stage : {"sent", "committed", "listed", "read"},
        rev : Nat, version : Things, planned : SUBSET TabUsages, usage : Shown, progress : Nat]
HostRows == [rev : [Candidates -> Nat], published : SUBSET Things, latest : Things, planned : SUBSET TabUsages,
             progress : [TabUsages -> Nat], inspections : 0..MaxInspections, forgotten : SUBSET Things]

TabTypes ==
  /\ view \in Views /\ flight \subseteq Ops /\ host \in HostRows /\ started \in Nat
  /\ consent \in [1..MaxInspections -> {"none", "given", "spent"}]
  /\ calm \in BOOLEAN

\* What each kind of call is about.
About(kind, on) ==
  /\ kind \in {"propose", "select", "mutate", "publish"} => on \in Candidates
  /\ kind \in {"planTask", "selectPlanning", "decidePlanning", "progress"} => on \in TabUsages
  /\ kind = "refresh" => on \in Candidates \cup {Undefined}
  /\ kind = "inspect" => on = Undefined

Consented(v, given) == v.confirmed # 0 => v.confirmed = v.inspection /\ given[v.confirmed] = "given"

Together(v) == v.planning = v.context /\ v.context = v.execution

\* A call about the execution that is shown.
Follows(o, v) == /\ o.kind = "progress" => o.on = v.execution
                 /\ o.kind = "revise" => o.usage = v.execution

CallsHold ==
  /\ \A o \in flight : About(o.kind, o.on) /\ (o.kind = "inspect" => o.rev \in 0..MaxInspections)
  /\ \A o \in flight : o.alone => flight = {o}
  /\ calm => /\ \A o, p \in flight : o = p
             /\ \A o \in flight : Follows(o, view)

TabInv == TabTypes /\ CallsHold /\ Consented(view, consent) /\ (calm => Together(view))

LEMMA InitialStateTyped ==
  /\ initialState \in Views
  /\ Together(initialState) /\ initialState.confirmed = 0
  /\ [initialState EXCEPT !.running = TRUE] \in Views
  /\ Together([initialState EXCEPT !.running = TRUE]) /\ [initialState EXCEPT !.running = TRUE].confirmed = 0
<1>1. 0 \in 0..MaxInspections
  BY TabAssumption DEF TabAssumption
<1> QED BY <1>1 DEF initialState, Views, Things, Shown, Together

LEMMA TabInitInv == TabInit => TabInv
<1> SUFFICES ASSUME TabInit PROVE TabInv
  OBVIOUS
<1>1. view \in Views /\ Together(view) /\ view.confirmed = 0
  BY InitialStateTyped DEF TabInit
<1>2. host \in HostRows
  <2>1. PICK old \in SUBSET Candidates, planned \in SUBSET TabUsages, latest \in Candidates \cup {Undefined} :
          host = [rev |-> [c \in Candidates |-> IF c \in old THEN 1 ELSE 0], published |-> old,
                  latest |-> latest, planned |-> planned, progress |-> [u \in TabUsages |-> 0],
                  inspections |-> 0, forgotten |-> {}]
    BY DEF TabInit
  <2>2. 0 \in 0..MaxInspections
    BY TabAssumption DEF TabAssumption
  <2> QED BY <2>1, <2>2 DEF HostRows, Things
<1>3. flight = {} /\ started = 0 /\ calm = TRUE /\ consent \in [1..MaxInspections -> {"none", "given", "spent"}]
  BY DEF TabInit
<1> QED BY <1>1, <1>2, <1>3 DEF TabInv, TabTypes, CallsHold, Consented

-----------------------------------------------------------------------------
\* An operation starts.
LEMMA FliesHold ==
  ASSUME TabInv, NEW kind \in Kinds, NEW on \in Things, NEW expected \in Nat, Flies(kind, on, expected),
         About(kind, on), host' = host,
         kind = "progress" => on = view'.execution, kind = "revise" => view'.execution = view.execution
  PROVE  /\ flight' \subseteq Ops /\ started' \in Nat /\ calm' \in BOOLEAN /\ CallsHold'
         /\ calm' => calm
<1> DEFINE new == Sent(kind, on, expected)
           rest == {[o EXCEPT !.alone = FALSE] : o \in flight}
<1>1. flight \subseteq Ops /\ view \in Views /\ started \in Nat
  BY DEF TabInv, TabTypes
<1>2. /\ new \in Ops /\ new.kind = kind /\ new.on = on /\ new.usage = view.execution /\ new.rev = 0
      /\ new.alone = (flight = {})
  <2> DEFINE first == flight = {}
             usage == view.execution
             nr == started + 1
  <2>1. new = [kind |-> kind, alone |-> first, nr |-> nr, on |-> on, expected |-> expected,
               stage |-> "sent", rev |-> 0, version |-> Undefined, planned |-> {}, usage |-> usage, progress |-> 0]
    BY DEF Sent
  <2>2. first \in BOOLEAN /\ usage \in Shown /\ nr \in Nat /\ Undefined \in Things
    BY <1>1 DEF Views, Things
  <2> HIDE DEF first, usage, nr, new
  <2>3. new \in Ops /\ new.kind = kind /\ new.on = on /\ new.usage = usage /\ new.rev = 0 /\ new.alone = first
    BY <2>1, <2>2 DEF Ops
  <2> QED BY <2>3 DEF first, usage
<1>3. ASSUME NEW o \in flight
      PROVE  LET r == [o EXCEPT !.alone = FALSE] IN r \in Ops /\ r.kind = o.kind /\ r.on = o.on /\ r.rev = o.rev /\ ~r.alone
  BY <1>1 DEF Ops
<1>4. flight' = rest \cup {new} /\ started' = started + 1 /\ calm' = (calm /\ flight = {})
  BY DEF Flies
<1> HIDE DEF new
<1>5. \A o \in rest : /\ o \in Ops /\ About(o.kind, o.on) /\ (o.kind = "inspect" => o.rev \in 0..MaxInspections)
                      /\ ~o.alone
  BY <1>3 DEF TabInv, CallsHold
<1>6. flight = {} => rest = {}
  OBVIOUS
<1>7. 0 \in 0..MaxInspections
  BY TabAssumption DEF TabAssumption
<1> HIDE DEF rest
<1>8. \A o \in flight' : About(o.kind, o.on) /\ (o.kind = "inspect" => o.rev \in 0..MaxInspections)
  BY <1>2, <1>4, <1>5, <1>7
<1>9. \A o \in flight' : o.alone => flight' = {o}
  BY <1>2, <1>4, <1>5, <1>6
<1>10. calm' => flight' = {new} /\ Follows(new, view')
  BY <1>2, <1>4, <1>6 DEF Follows
<1>11. CallsHold'
  BY <1>8, <1>9, <1>10 DEF CallsHold
<1>12. calm' \in BOOLEAN
  BY <1>4 DEF TabInv, TabTypes
<1>13. flight' \subseteq Ops
  BY <1>2, <1>4, <1>5
<1>14. started' \in Nat
  BY <1>1, <1>4
<1>15. calm' => calm
  BY <1>4
<1> QED BY <1>11, <1>12, <1>13, <1>14, <1>15

LEMMA ClicksInv ==
  ASSUME TabInv, NEW kind \in Kinds, NEW on \in Things, NEW expected \in Nat, Clicks(kind, on, expected),
         About(kind, on), kind = "progress" => on = view.execution
  PROVE  TabInv'
<1>1. view \in Views /\ view' = [view EXCEPT !.running = TRUE] /\ UNCHANGED <<host, consent>> /\ Flies(kind, on, expected)
  BY DEF Clicks, TabInv, TabTypes
<1>2. /\ view' \in Views /\ view'.execution = view.execution /\ view'.context = view.context
      /\ view'.planning = view.planning /\ view'.confirmed = view.confirmed /\ view'.inspection = view.inspection
  BY <1>1 DEF Views
<1>3. /\ flight' \subseteq Ops /\ started' \in Nat /\ calm' \in BOOLEAN /\ CallsHold'
      /\ calm' => calm
  BY <1>1, <1>2, FliesHold
<1> QED BY <1>1, <1>2, <1>3 DEF TabInv, TabTypes, Consented, Together

LEMMA OwnerClicksInv ==
  ASSUME TabInv,
         \/ Refresh \/ ClickInspect \/ Mutate \/ ClickPublish \/ DecidePlanning \/ ProgressUsage
         \/ ClickExportMarkdown \/ ProposeMarkdown \/ Revise \/ ClickPreviewForget \/ ClickForget
         \/ \E c \in Candidates : Select(c)
         \/ \E u \in TabUsages : SelectPlanning(u) \/ PlanTask(u)
  PROVE  TabInv'
<1>1. /\ view \in Views /\ host \in HostRows
  BY DEF TabInv, TabTypes
<1>2. /\ view.selected \in Candidates \cup {Undefined} /\ view.rev \in Nat /\ view.version \in Things
      /\ view.planning \in Shown /\ view.execution \in Shown /\ view.progress \in Nat /\ view.markdown \in Things
      /\ view.revision \in Things /\ view.preview \in Things
  BY <1>1 DEF Views
<1>3. PICK kind \in Kinds, on \in Things, expected \in Nat :
        Clicks(kind, on, expected) /\ About(kind, on) /\ (kind = "progress" => on = view.execution)
  <2> USE DEF Kinds, About
  <2>1. CASE Refresh \/ ClickInspect
    BY <2>1 DEF Refresh, ClickInspect, Things
  <2>2. CASE Mutate
    BY <2>2, <1>2 DEF Mutate, Things
  <2>3. CASE ClickPublish
    BY <2>3, <1>2 DEF ClickPublish, Things
  <2>4. CASE DecidePlanning
    BY <2>4, <1>2 DEF DecidePlanning, Things, Shown
  <2>5. CASE ProgressUsage
    BY <2>5, <1>2 DEF ProgressUsage, Things, Shown
  <2>6. CASE ClickExportMarkdown
    BY <2>6, <1>2 DEF ClickExportMarkdown
  <2>7. CASE ProposeMarkdown
    BY <2>7, <1>2 DEF ProposeMarkdown
  <2>8. CASE Revise
    BY <2>8, <1>2 DEF Revise, Things, Shown
  <2>9. CASE ClickPreviewForget
    BY <2>9, <1>2 DEF ClickPreviewForget
  <2>10. CASE ClickForget
    BY <2>10, <1>2 DEF ClickForget
  <2>11. CASE \E c \in Candidates : Select(c)
    BY <2>11 DEF Select, Things
  <2>12. CASE \E u \in TabUsages : SelectPlanning(u) \/ PlanTask(u)
    BY <2>12 DEF SelectPlanning, PlanTask, Things
  <2> QED BY <2>1, <2>2, <2>3, <2>4, <2>5, <2>6, <2>7, <2>8, <2>9, <2>10, <2>11, <2>12
<1> QED BY <1>3, ClicksInv

LEMMA BackgroundRefreshInv ==
  ASSUME TabInv, NEW reset \in BOOLEAN, BackgroundRefresh(reset)
  PROVE  TabInv'
<1> DEFINE refreshed == [view EXCEPT !.running = TRUE]
           cleared == [initialState EXCEPT !.running = TRUE]
<1>1. view \in Views /\ UNCHANGED <<host, consent>> /\ Flies("refresh", Undefined, 0)
  BY DEF BackgroundRefresh, TabInv, TabTypes
<1>2. /\ refreshed \in Views /\ refreshed.execution = view.execution /\ refreshed.context = view.context
      /\ refreshed.planning = view.planning /\ refreshed.confirmed = view.confirmed /\ refreshed.inspection = view.inspection
  BY <1>1 DEF Views
<1>3. cleared \in Views /\ Together(cleared) /\ cleared.confirmed = 0
  BY InitialStateTyped
<1>4. view' = refreshed \/ view' = cleared
  BY DEF BackgroundRefresh
<1> HIDE DEF refreshed, cleared
<1>5. /\ flight' \subseteq Ops /\ started' \in Nat /\ calm' \in BOOLEAN /\ CallsHold'
      /\ calm' => calm
  BY <1>1, FliesHold DEF Kinds, Things, About
<1>6. view' \in Views /\ Consented(view, consent)' /\ (calm' => Together(view)')
  BY <1>1, <1>2, <1>3, <1>4, <1>5 DEF TabInv, Consented, Together
<1> QED BY <1>1, <1>5, <1>6 DEF TabInv, TabTypes

\* A disclosure that is confirmed is the one that is shown.
LEMMA ConfirmInv ==
  ASSUME TabInv, NEW confirmed \in BOOLEAN, ConfirmDisclosure(confirmed)
  PROVE  TabInv'
<1> DEFINE n == IF confirmed THEN view.inspection ELSE 0
           w == IF confirmed THEN "given" ELSE "none"
<1>1. /\ view \in Views /\ view' = [view EXCEPT !.confirmed = n] /\ view.inspection # 0
      /\ consent' = [consent EXCEPT ![view.inspection] = w] /\ UNCHANGED <<flight, host, started, calm>>
  BY DEF ConfirmDisclosure, TabInv, TabTypes
<1>2. n \in 0..MaxInspections /\ view.inspection \in 1..MaxInspections
  BY <1>1, TabAssumption DEF Views, TabAssumption
<1>3. w \in {"none", "given", "spent"} /\ (n # 0 => n = view.inspection /\ w = "given")
  OBVIOUS
<1> HIDE DEF n, w
<1>4. /\ view' \in Views /\ view'.execution = view.execution /\ view'.context = view.context
      /\ view'.planning = view.planning /\ view'.confirmed = n /\ view'.inspection = view.inspection
  BY <1>1, <1>2 DEF Views
<1>5. /\ consent' \in [1..MaxInspections -> {"none", "given", "spent"}] /\ consent'[view.inspection] = w
  BY <1>1, <1>2, <1>3 DEF TabInv, TabTypes
<1>6. Consented(view, consent)'
  BY <1>3, <1>4, <1>5 DEF Consented
<1>7. CallsHold' /\ (calm' => Together(view)')
  BY <1>1, <1>4 DEF TabInv, CallsHold, Together, Follows
<1> QED BY <1>1, <1>4, <1>5, <1>6, <1>7 DEF TabInv, TabTypes

\* A proposal spends the confirmation that was given for what is shown.
LEMMA ProposeInv ==
  ASSUME TabInv, NEW c \in Candidates, ClickPropose(c)
  PROVE  TabInv'
<1> DEFINE w == IF consent[view.inspection] = "given" THEN "spent" ELSE "missing"
<1>1. /\ view \in Views /\ view' = [view EXCEPT !.running = TRUE, !.proposal = "generating", !.confirmed = 0]
      /\ view.inspection # 0 /\ view.confirmed = view.inspection
      /\ consent' = [consent EXCEPT ![view.inspection] = w]
      /\ UNCHANGED host /\ Flies("propose", c, 0)
  BY DEF ClickPropose, TabInv, TabTypes, Views, Confirmed, ConfirmationSpent
<1>2. view.inspection \in 1..MaxInspections /\ 0 \in 0..MaxInspections
  BY <1>1, TabAssumption DEF Views, TabAssumption
<1>3. w = "spent"
  BY <1>1 DEF TabInv, Consented
<1>4. consent' \in [1..MaxInspections -> {"none", "given", "spent"}]
  BY <1>1, <1>2, <1>3 DEF TabInv, TabTypes
<1>5. /\ view' \in Views /\ view'.execution = view.execution /\ view'.context = view.context
      /\ view'.planning = view.planning /\ view'.confirmed = 0
  BY <1>1, <1>2 DEF Views
<1>6. /\ flight' \subseteq Ops /\ started' \in Nat /\ calm' \in BOOLEAN /\ CallsHold'
      /\ calm' => calm
  BY <1>1, FliesHold DEF Kinds, Things, About
<1>7. Consented(view, consent)' /\ (calm' => Together(view)')
  BY <1>5, <1>6 DEF TabInv, Consented, Together
<1> QED BY <1>1, <1>4, <1>5, <1>6, <1>7 DEF TabInv, TabTypes

-----------------------------------------------------------------------------
\* An operation goes on: it stays the same call.
LEMMA MovesHold ==
  ASSUME TabInv, NEW o \in flight, NEW next \in Ops, Moves(o, next),
         next.kind = o.kind, next.alone = o.alone, About(next.kind, next.on),
         next.kind = "inspect" => next.rev \in 0..MaxInspections,
         o.kind = "progress" => next.on = o.on, o.kind = "revise" => next.usage = o.usage,
         host' \in HostRows, UNCHANGED <<view, started, consent, calm>>
  PROVE  TabInv'
<1>1. flight' = (flight \ {o}) \cup {next}
  BY DEF Moves
<1>2. flight' \subseteq Ops
  BY <1>1 DEF TabInv, TabTypes
<1>3. \A p \in flight' : About(p.kind, p.on) /\ (p.kind = "inspect" => p.rev \in 0..MaxInspections)
  BY <1>1 DEF TabInv, CallsHold
<1>4. \A p \in flight' : p.alone => flight' = {p}
  BY <1>1 DEF TabInv, CallsHold
<1>5. calm' => flight' = {next} /\ Follows(next, view)
  BY <1>1 DEF TabInv, CallsHold, Follows
<1>6. CallsHold'
  BY <1>3, <1>4, <1>5 DEF CallsHold
<1> QED BY <1>2, <1>6 DEF TabInv, TabTypes, Consented, Together

\* What the Host has committed is typed.
LEMMA CommitsInv ==
  ASSUME TabInv, NEW o \in flight, Commits(o)
  PROVE  TabInv'
<1>1. o \in Ops /\ host \in HostRows /\ About(o.kind, o.on)
  BY DEF TabInv, TabTypes, CallsHold
<1>2. /\ host.rev \in [Candidates -> Nat] /\ host.published \in SUBSET Things /\ host.planned \in SUBSET TabUsages
      /\ host.progress \in [TabUsages -> Nat] /\ host.forgotten \in SUBSET Things /\ o.on \in Things
  BY <1>1 DEF HostRows, Ops
<1>3. host' \in HostRows
  <2>1. CASE o.kind = "propose"
    <3> DEFINE r == [host.rev EXCEPT ![o.on] = 1]
    <3>1. r \in [Candidates -> Nat] /\ host' = [host EXCEPT !.rev = r]
      BY <1>2, <2>1 DEF Commits
    <3> HIDE DEF r
    <3> QED BY <1>1, <3>1 DEF HostRows
  <2>2. CASE o.kind = "mutate"
    <3> DEFINE r == [host.rev EXCEPT ![o.on] = host.rev[o.on] + 1]
    <3>1. host' = [host EXCEPT !.rev = r]
      BY <2>2 DEF Commits
    <3>2. r \in [Candidates -> Nat]
      BY <1>1, <1>2, <2>2 DEF About
    <3> HIDE DEF r
    <3> QED BY <1>1, <3>1, <3>2 DEF HostRows
  <2>3. CASE o.kind = "publish"
    <3> DEFINE r == [host.rev EXCEPT ![o.on] = host.rev[o.on] + 1]
               p == host.published \cup {o.on}
    <3>1. host' = [host EXCEPT !.rev = r, !.latest = o.on, !.published = p]
      BY <2>3 DEF Commits
    <3>2. r \in [Candidates -> Nat] /\ p \in SUBSET Things
      BY <1>1, <1>2, <2>3 DEF About
    <3> HIDE DEF r, p
    <3> QED BY <1>1, <1>2, <3>1, <3>2 DEF HostRows
  <2>4. CASE o.kind = "planTask"
    <3> DEFINE p == host.planned \cup {o.on}
    <3>1. p \in SUBSET TabUsages /\ host' = [host EXCEPT !.planned = p]
      BY <1>1, <1>2, <2>4 DEF Commits, About
    <3> HIDE DEF p
    <3> QED BY <1>1, <3>1 DEF HostRows
  <2>5. CASE o.kind = "progress"
    <3> DEFINE r == [host.progress EXCEPT ![o.on] = host.progress[o.on] + 1]
    <3>1. host' = [host EXCEPT !.progress = r]
      BY <2>5 DEF Commits
    <3>2. r \in [TabUsages -> Nat]
      BY <1>1, <1>2, <2>5 DEF About
    <3> HIDE DEF r
    <3> QED BY <1>1, <3>1, <3>2 DEF HostRows
  <2>6. CASE o.kind = "forget"
    <3> DEFINE p == host.forgotten \cup {o.on}
    <3>1. p \in SUBSET Things /\ host' = [host EXCEPT !.forgotten = p]
      BY <1>2, <2>6 DEF Commits
    <3> HIDE DEF p
    <3> QED BY <1>1, <3>1 DEF HostRows
  <2>7. CASE o.kind \notin {"propose", "mutate", "publish", "planTask", "progress", "forget"}
    BY <1>1, <2>7 DEF Commits
  <2> QED BY <2>1, <2>2, <2>3, <2>4, <2>5, <2>6, <2>7
<1> DEFINE next == [o EXCEPT !.stage = "committed"]
<1>4. /\ next \in Ops /\ next.kind = o.kind /\ next.alone = o.alone /\ next.on = o.on /\ next.usage = o.usage
      /\ next.rev = o.rev
  BY <1>1 DEF Ops
<1>5. Moves(o, next) /\ UNCHANGED <<view, started, consent, calm>>
  BY DEF Commits
<1> HIDE DEF next
<1> QED BY <1>1, <1>3, <1>4, <1>5, MovesHold DEF TabInv, CallsHold

LEMMA ReadsHold ==
  ASSUME TabInv, NEW o \in flight, Reads(o)
  PROVE  TabInv'
<1> DEFINE rev == IF o.on \in Candidates THEN host.rev[o.on] ELSE host'.inspections
           version == IF o.on \in Candidates THEN VersionOf(o.on) ELSE Undefined
           progress == IF UsageRead(o) = Undefined THEN 0 ELSE host.progress[UsageRead(o)]
           next == [o EXCEPT !.stage = "read", !.rev = rev, !.version = version, !.usage = UsageRead(o),
                             !.progress = progress]
<1>1. o \in Ops /\ host \in HostRows /\ About(o.kind, o.on)
  BY DEF TabInv, TabTypes, CallsHold
<1>2. host' \in HostRows
  <2>1. host.inspections \in 0..MaxInspections
    BY <1>1 DEF HostRows
  <2>2. CASE host' = host
    BY <1>1, <2>2
  <2>3. CASE host' = [host EXCEPT !.inspections = @ + 1] /\ host.inspections < MaxInspections
    <3> DEFINE n == host.inspections + 1
    <3>1. n \in 0..MaxInspections /\ host' = [host EXCEPT !.inspections = n]
      BY <2>1, <2>3, TabAssumption DEF TabAssumption
    <3> HIDE DEF n
    <3> QED BY <1>1, <3>1 DEF HostRows
  <2> QED BY <2>2, <2>3 DEF Reads
<1>3. UsageRead(o) \in Shown /\ (o.kind = "revise" => UsageRead(o) = o.usage)
  BY <1>1 DEF UsageRead, Ops, Shown
<1>4. rev \in Nat /\ version \in Things /\ progress \in Nat
  BY <1>1, <1>2, <1>3 DEF HostRows, Shown, Things, VersionOf
<1>5. o.kind = "inspect" => rev \in 0..MaxInspections
  BY <1>1, <1>2, TabAssumption DEF About, HostRows, TabAssumption
<1>6. Moves(o, next) /\ UNCHANGED <<view, started, consent, calm>>
  BY DEF Reads
<1> HIDE DEF rev, version, progress
<1>7. /\ next \in Ops /\ next.kind = o.kind /\ next.alone = o.alone /\ next.on = o.on /\ next.usage = UsageRead(o)
      /\ next.rev = rev
  BY <1>1, <1>3, <1>4 DEF Ops
<1> HIDE DEF next
<1> QED BY <1>1, <1>2, <1>3, <1>5, <1>6, <1>7, MovesHold

LEMMA RefreshesHold ==
  ASSUME TabInv, NEW o \in flight, RefreshLists(o) \/ RefreshReads(o)
  PROVE  TabInv'
<1>1. o \in Ops /\ host \in HostRows /\ About(o.kind, o.on) /\ o.kind = "refresh" /\ view \in Views
      /\ UNCHANGED <<view, host, started, consent, calm>>
  BY DEF TabInv, TabTypes, CallsHold, RefreshLists, RefreshReads
<1>2. CASE RefreshLists(o)
  <2> DEFINE rev == IF view.selected = Undefined THEN 0 ELSE host.rev[view.selected]
             next == [o EXCEPT !.stage = "listed", !.version = host.latest, !.planned = host.planned,
                               !.on = view.selected, !.rev = rev]
  <2>1. Moves(o, next)
    BY <1>2 DEF RefreshLists
  <2>2. view.selected \in Candidates \cup {Undefined} /\ rev \in Nat /\ host.latest \in Things
        /\ host.planned \in SUBSET TabUsages
    BY <1>1 DEF Views, HostRows
  <2> HIDE DEF rev
  <2>3. next \in Ops /\ next.kind = o.kind /\ next.alone = o.alone /\ next.on = view.selected
    BY <1>1, <2>2 DEF Ops, Things
  <2>4. About(next.kind, next.on)
    BY <1>1, <2>2, <2>3 DEF About
  <2> HIDE DEF next
  <2> QED BY <1>1, <2>1, <2>3, <2>4, MovesHold
<1>3. CASE RefreshReads(o)
  <2>1. PICK u \in TabUsages \cup {Undefined} :
          Moves(o, [o EXCEPT !.stage = "read", !.usage = u,
                             !.progress = IF u = Undefined THEN 0 ELSE host.progress[u]])
    BY <1>3 DEF RefreshReads
  <2> DEFINE progress == IF u = Undefined THEN 0 ELSE host.progress[u]
             next == [o EXCEPT !.stage = "read", !.usage = u, !.progress = progress]
  <2>2. progress \in Nat /\ Moves(o, next)
    BY <1>1, <2>1 DEF HostRows
  <2> HIDE DEF progress
  <2>3. next \in Ops /\ next.kind = o.kind /\ next.alone = o.alone /\ next.on = o.on
    BY <1>1, <2>2 DEF Ops, Shown
  <2> HIDE DEF next
  <2> QED BY <1>1, <2>2, <2>3, MovesHold
<1> QED BY <1>2, <1>3

-----------------------------------------------------------------------------
\* What an operation publishes: a view that shows one Usage, if it did before
\* and the call is still about it.
LEMMA AnsweredHolds ==
  ASSUME view \in Views, NEW o \in Ops, About(o.kind, o.on), o.kind = "inspect" => o.rev \in 0..MaxInspections
  PROVE  /\ Answered(o) \in Views
         /\ \/ Answered(o).confirmed = 0
            \/ Answered(o).confirmed = view.confirmed /\ Answered(o).inspection = view.inspection
         /\ o.kind = "refresh" \/ (Together(view) /\ Follows(o, view)) => Together(Answered(o))
<1> USE DEF Answered
<1>0. 0 \in 0..MaxInspections
  BY TabAssumption DEF TabAssumption
<1>1. /\ o.on \in Things /\ o.rev \in Nat /\ o.version \in Things /\ o.usage \in Shown /\ o.progress \in Nat
      /\ Undefined \in Things
  BY DEF Ops, Things
<1>2. ASSUME NEW u \in Shown, NEW progress \in Nat
      PROVE  LET v == Shows(u, progress) IN /\ v \in Views /\ Together(v)
                                            /\ v.confirmed = view.confirmed /\ v.inspection = view.inspection
  BY DEF Shows, Views, Together
<1>3. CASE o.kind = "refresh"
  <2> DEFINE v == Shows(o.usage, o.progress)
             w == [v EXCEPT !.selected = o.on, !.rev = o.rev, !.version = o.version]
  <2>1. v \in Views /\ Together(v) /\ v.confirmed = view.confirmed /\ v.inspection = view.inspection
    BY <1>1, <1>2
  <2>2. o.on \in Candidates \cup {Undefined}
    BY <1>3 DEF About
  <2>3. Answered(o) = w
    BY <1>3
  <2> HIDE DEF v
  <2>4. w \in Views /\ Together(w) /\ w.confirmed = v.confirmed /\ w.inspection = v.inspection
    BY <1>1, <2>1, <2>2 DEF Views, Together
  <2> HIDE DEF Answered, w
  <2> QED BY <2>1, <2>3, <2>4
<1>4. CASE o.kind \in {"planTask", "selectPlanning", "decidePlanning"}
  <2>1. Answered(o) = Shows(o.on, o.progress) /\ o.on \in Shown
    BY <1>4 DEF About, Shown
  <2> HIDE DEF Answered
  <2> QED BY <1>1, <1>2, <2>1
<1>5. CASE o.kind = "inspect"
  <2> DEFINE w == [view EXCEPT !.inspection = o.rev, !.version = Undefined, !.proposal = "idle", !.confirmed = 0]
  <2>1. Answered(o) = w /\ o.rev \in 0..MaxInspections
    BY <1>5
  <2>2. w \in Views /\ w.confirmed = 0 /\ (Together(view) => Together(w))
    BY <1>0, <1>1, <2>1 DEF Views, Together
  <2> HIDE DEF w, Answered
  <2> QED BY <1>5, <2>1, <2>2
<1>6. CASE o.kind \in {"propose", "select", "publish", "mutate"}
  <2> DEFINE s == [view EXCEPT !.selected = o.on, !.rev = o.rev]
             p == [s EXCEPT !.confirmed = 0, !.proposal = "succeeded"]
             q == [s EXCEPT !.version = o.version]
  <2>1. Answered(o) \in {s, p, q}
    BY <1>6 DEF ShowsCandidate
  <2>2. o.on \in Candidates
    BY <1>6 DEF About
  <2>3. s \in Views /\ s.confirmed = view.confirmed /\ s.inspection = view.inspection /\ (Together(view) => Together(s))
    BY <1>1, <2>2 DEF Views, Together
  <2> HIDE DEF s
  <2>4. p \in Views /\ p.confirmed = 0 /\ (Together(s) => Together(p))
    BY <1>0, <2>3 DEF Views, Together
  <2>5. q \in Views /\ q.confirmed = s.confirmed /\ q.inspection = s.inspection /\ (Together(s) => Together(q))
    BY <1>1, <2>3 DEF Views, Together
  <2> HIDE DEF Answered, p, q
  <2> QED BY <1>6, <2>1, <2>3, <2>4, <2>5
<1>7. CASE o.kind = "progress"
  <2> DEFINE w == [view EXCEPT !.execution = o.on, !.progress = o.progress]
  <2>1. Answered(o) = w /\ o.on \in Shown
    BY <1>7 DEF About, Shown
  <2>2. /\ w \in Views /\ w.confirmed = view.confirmed /\ w.inspection = view.inspection
        /\ Together(view) /\ o.on = view.execution => Together(w)
    BY <1>1, <2>1 DEF Views, Together
  <2> HIDE DEF w, Answered
  <2> QED BY <1>7, <2>1, <2>2 DEF Follows
<1>8. CASE o.kind = "revise"
  <2> DEFINE e == IF o.usage = Undefined THEN view.execution ELSE o.usage
             n == IF o.usage = Undefined THEN view.progress ELSE o.progress
             r == IF view.revision = Undefined THEN Undefined ELSE o.on
             w == [view EXCEPT !.execution = e, !.progress = n, !.revision = r]
  <2>1. Answered(o) = w
    BY <1>8
  <2>2. e \in Shown /\ n \in Nat /\ r \in Things /\ (o.usage = view.execution => e = view.execution)
    BY <1>1 DEF Views
  <2> HIDE DEF e, n, r
  <2>3. /\ w \in Views /\ w.confirmed = view.confirmed /\ w.inspection = view.inspection
        /\ Together(view) /\ e = view.execution => Together(w)
    BY <2>2 DEF Views, Together
  <2> HIDE DEF w, Answered
  <2> QED BY <1>8, <2>1, <2>2, <2>3 DEF Follows
<1>9. CASE o.kind \in {"exportMarkdown", "proposeMarkdown", "preview", "forget"}
  <2> DEFINE a == [view EXCEPT !.markdown = o.on, !.revision = Undefined]
             b == [view EXCEPT !.revision = o.on]
             c == [view EXCEPT !.preview = o.on]
             d == [view EXCEPT !.preview = Undefined]
  <2>1. Answered(o) \in {a, b, c, d}
    BY <1>9
  <2>2. a \in Views /\ a.confirmed = view.confirmed /\ a.inspection = view.inspection /\ (Together(view) => Together(a))
    BY <1>1 DEF Views, Together
  <2>3. b \in Views /\ b.confirmed = view.confirmed /\ b.inspection = view.inspection /\ (Together(view) => Together(b))
    BY <1>1 DEF Views, Together
  <2>4. c \in Views /\ c.confirmed = view.confirmed /\ c.inspection = view.inspection /\ (Together(view) => Together(c))
    BY <1>1 DEF Views, Together
  <2>5. d \in Views /\ d.confirmed = view.confirmed /\ d.inspection = view.inspection /\ (Together(view) => Together(d))
    BY <1>1 DEF Views, Together
  <2> HIDE DEF a, b, c, d, Answered
  <2> QED BY <1>9, <2>1, <2>2, <2>3, <2>4, <2>5
<1> QED
  BY <1>3, <1>4, <1>5, <1>6, <1>7, <1>8, <1>9 DEF Ops, Kinds

\* The calls that are left when one has ended.
LEMMA EndHolds ==
  ASSUME TabInv, NEW o \in flight, flight' = flight \ {o},
         view' \in Views, Consented(view, consent)', calm' \in BOOLEAN,
         calm' => \/ flight' = {} /\ Together(view)'
                  \/ calm /\ Together(view)',
         UNCHANGED <<host, started, consent>>
  PROVE  TabInv'
<1>1. calm => flight' = {}
  BY DEF TabInv, CallsHold
<1>2. CallsHold'
  BY <1>1 DEF TabInv, CallsHold
<1> QED BY <1>2 DEF TabInv, TabTypes

LEMMA PublishesInv ==
  ASSUME TabInv, NEW o \in flight, Publishes(o)
  PROVE  TabInv'
<1> DEFINE v == Answered(o)
<1>1. /\ view \in Views /\ o \in Ops /\ About(o.kind, o.on) /\ (o.kind = "inspect" => o.rev \in 0..MaxInspections)
      /\ o.alone => flight = {o}
      /\ calm => Follows(o, view) /\ Together(view)
  BY DEF TabInv, TabTypes, CallsHold
<1>2. /\ v \in Views
      /\ v.confirmed = 0 \/ (v.confirmed = view.confirmed /\ v.inspection = view.inspection)
      /\ o.kind = "refresh" \/ (Together(view) /\ Follows(o, view)) => Together(v)
  BY <1>1, AnsweredHolds
<1>3. /\ view' = [v EXCEPT !.running = FALSE] /\ flight' = flight \ {o} /\ UNCHANGED <<host, started, consent>>
      /\ calm' = (calm \/ (o.kind = "refresh" /\ o.alone))
  BY DEF Publishes
<1> HIDE DEF v
<1>4. view' \in Views /\ view'.confirmed = v.confirmed /\ view'.inspection = v.inspection /\ (Together(v) => Together(view)')
  BY <1>2, <1>3 DEF Views, Together
<1>5. Consented(view, consent)'
  BY <1>2, <1>3, <1>4 DEF TabInv, Consented
<1>6. calm' \in BOOLEAN
  BY <1>1, <1>3 DEF TabInv, TabTypes, Ops
<1>7. calm' => \/ flight' = {} /\ Together(view)'
               \/ calm /\ Together(view)'
  BY <1>1, <1>2, <1>3, <1>4
<1> QED BY <1>3, <1>4, <1>5, <1>6, <1>7, EndHolds

LEMMA FailsInv ==
  ASSUME TabInv, NEW o \in flight, Fails(o)
  PROVE  TabInv'
<1> DEFINE p == IF o.kind = "propose" THEN "failed" ELSE view.proposal
<1>1. /\ view \in Views /\ view' = [view EXCEPT !.running = FALSE, !.proposal = p] /\ flight' = flight \ {o}
      /\ UNCHANGED <<host, started, consent, calm>>
  BY DEF Fails, TabInv, TabTypes
<1>2. p \in {"idle", "generating", "succeeded", "failed"}
  BY <1>1 DEF Views
<1> HIDE DEF p
<1>3. /\ view' \in Views /\ view'.execution = view.execution /\ view'.context = view.context
      /\ view'.planning = view.planning /\ view'.confirmed = view.confirmed /\ view'.inspection = view.inspection
  BY <1>1, <1>2 DEF Views
<1>4. Consented(view, consent)' /\ (calm' => calm /\ Together(view)') /\ calm' \in BOOLEAN
  BY <1>1, <1>3 DEF TabInv, TabTypes, Consented, Together
<1> QED BY <1>1, <1>3, <1>4, EndHolds

LEMMA TabStepInv ==
  ASSUME TabInv, [TabNext]_store
  PROVE  TabInv'
<1>1. CASE UNCHANGED store
  BY <1>1 DEF store, TabInv, TabTypes, CallsHold, Consented, Together, Follows
<1>2. CASE TabNext
  BY <1>2, OwnerClicksInv, ProposeInv, ConfirmInv, BackgroundRefreshInv, CommitsInv, ReadsHold, RefreshesHold,
     PublishesInv, FailsInv DEF TabNext, Owner
<1> QED BY <1>1, <1>2

\* Whatever overlaps, fails or is reset, a proposal is sent on a confirmation of
\* its own disclosure, and while operations do not overlap the tab shows the
\* plan, the context and the execution of one Usage.
THEOREM TabStaysSound == TabSpec => []TabSound
<1>1. TabInv => TabSound
  BY DEF TabInv, TabTypes, TabSound, ConsentGiven, OneUsageShown, Together
<1>2. TabInv /\ [TabNext]_store => TabInv'
  BY TabStepInv
<1> QED BY <1>1, <1>2, TabInitInv, PTL DEF TabSpec

LEMMA Least ==
  ASSUME NEW S \in SUBSET Nat, S # {}
  PROVE  \E m \in S : \A x \in S : m <= x
<1>1. PICK m \in S : \A x \in S : <<x, m>> \notin OpToRel(<, Nat)
  BY NatLessThanWellFounded, WFMin
<1>2. \A x \in S : ~(x < m)
  BY <1>1 DEF OpToRel
<1> QED
  BY <1>2

-----------------------------------------------------------------------------
(* Rounds.  What n rounds make of something, and when they have made all   *)
(* that more of them would.                                                *)

\* Counting up reaches every number.
LEMMA Counting ==
  ASSUME NEW S \in SUBSET Nat, 0 \in S, \A n \in S : n + 1 \in S
  PROVE  S = Nat
<1> SUFFICES ASSUME Nat \ S # {} PROVE FALSE
  OBVIOUS
<1>1. PICK m \in Nat \ S : \A x \in Nat \ S : m <= x
  BY Least
<1>2. m # 0
  BY <1>1
<1>3. m - 1 \in Nat /\ m - 1 \in S
  BY <1>1, <1>2
<1>4. (m - 1) + 1 = m
  BY <1>1
<1> QED
  BY <1>1, <1>3, <1>4

LEMMA IterateIs ==
  ASSUME NEW S, NEW round \in [S -> S], NEW x \in S
  PROVE  /\ Iterate(round, x, 0) = x
         /\ \A n \in Nat : /\ Iterate(round, x, n) \in S
                           /\ Iterate(round, x, n + 1) = round[Iterate(round, x, n)]
<1> DEFINE Body(f, i) == IF i = 0 THEN x ELSE round[f[i - 1]]
           go(n) == CHOOSE f : f = [i \in 0..n |-> Body(f, i)]
           Defined == {n \in Nat : \E f : f = [i \in 0..n |-> Body(f, i)]}
<1>1. 0 \in Defined
  <2>1. [i \in 0..0 |-> x] = [i \in 0..0 |-> Body([j \in 0..0 |-> x], i)]
    OBVIOUS
  <2> QED
    BY <2>1
<1>2. ASSUME NEW n \in Defined PROVE n + 1 \in Defined
  <2>1. PICK f : f = [i \in 0..n |-> Body(f, i)]
    OBVIOUS
  <2> DEFINE g == [i \in 0..(n + 1) |-> IF i = n + 1 THEN round[f[n]] ELSE f[i]]
  <2>2. ASSUME NEW i \in 0..(n + 1) PROVE g[i] = Body(g, i)
    <3>1. CASE i = n + 1
      BY <3>1
    <3>2. CASE i # n + 1 /\ i = 0
      BY <2>1, <3>2
    <3>3. CASE i # n + 1 /\ i # 0
      <4>1. i \in 0..n /\ i - 1 \in 0..(n + 1) /\ i - 1 # n + 1
        BY <3>3
      <4>2. g[i - 1] = f[i - 1] /\ g[i] = f[i]
        BY <3>3, <4>1
      <4>3. f[i] = round[f[i - 1]]
        BY <2>1, <3>3, <4>1
      <4> QED
        BY <3>3, <4>2, <4>3
    <3> QED
      BY <3>1, <3>2, <3>3
  <2>3. g = [i \in 0..(n + 1) |-> g[i]]
    OBVIOUS
  <2>4. [i \in 0..(n + 1) |-> g[i]] = [i \in 0..(n + 1) |-> Body(g, i)]
    <3> HIDE DEF g, Body
    <3> QED
      BY <2>2
  <2> HIDE DEF g, Body
  <2> QED
    BY <2>3, <2>4
<1>3. Defined = Nat
  <2> HIDE DEF Defined
  <2>1. Defined \in SUBSET Nat
    BY DEF Defined
  <2> QED
    BY <1>1, <1>2, <2>1, Counting
<1>4. ASSUME NEW n \in Nat PROVE go(n) = [i \in 0..n |-> Body(go(n), i)]
  <2>1. n \in Defined
    BY <1>3
  <2> QED
    BY <2>1
<1>5. \A n \in Nat : Iterate(round, x, n) = go(n)[n]
  BY DEF Iterate
<1> HIDE DEF go, Defined
<1>6. \A n \in Nat : go(n)[0] = x
  <2> TAKE n \in Nat
  <2>1. 0 \in 0..n /\ go(n) = [i \in 0..n |-> Body(go(n), i)]
    BY <1>4
  <2> QED
    BY <2>1
<1>7. \A n \in Nat : \A i \in 0..n : i # 0 => go(n)[i] = round[go(n)[i - 1]]
  <2> TAKE n \in Nat
  <2> TAKE i \in 0..n
  <2>1. go(n) = [j \in 0..n |-> Body(go(n), j)]
    BY <1>4
  <2> QED
    BY <2>1
<1>8. ASSUME NEW n \in Nat PROVE go(n + 1)[n] = go(n)[n]
  <2> DEFINE Same == {i \in Nat : i <= n => go(n + 1)[i] = go(n)[i]}
  <2>1. 0 \in Same
    BY <1>6
  <2>2. ASSUME NEW i \in Same PROVE i + 1 \in Same
    <3> SUFFICES ASSUME i + 1 <= n PROVE go(n + 1)[i + 1] = go(n)[i + 1]
      OBVIOUS
    <3>1. i + 1 \in 0..n /\ i + 1 \in 0..(n + 1) /\ i + 1 # 0 /\ (i + 1) - 1 = i /\ n + 1 \in Nat
      OBVIOUS
    <3>2. go(n + 1)[i] = go(n)[i]
      OBVIOUS
    <3>3. go(n + 1)[i + 1] = round[go(n + 1)[i]] /\ go(n)[i + 1] = round[go(n)[i]]
      BY <1>7, <3>1
    <3> QED
      BY <3>2, <3>3
  <2>3. Same = Nat
    <3> HIDE DEF Same
    <3>1. Same \in SUBSET Nat
      BY DEF Same
    <3> QED
      BY <2>1, <2>2, <3>1, Counting
  <2> QED
    BY <2>3
<1>9. ASSUME NEW n \in Nat PROVE Iterate(round, x, n + 1) = round[Iterate(round, x, n)]
  <2>1. n + 1 \in Nat /\ n + 1 \in 0..(n + 1) /\ n + 1 # 0 /\ (n + 1) - 1 = n
    OBVIOUS
  <2>2. go(n + 1)[n + 1] = round[go(n + 1)[n]]
    BY <1>7, <2>1
  <2> QED
    BY <1>5, <1>8, <2>1, <2>2
<1>10. Iterate(round, x, 0) = x
  BY <1>5, <1>6
<1> DEFINE Typed == {n \in Nat : Iterate(round, x, n) \in S}
<1>11. Typed = Nat
  <2>1. 0 \in Typed
    BY <1>10
  <2>2. \A n \in Typed : n + 1 \in Typed
    BY <1>9
  <2> HIDE DEF Typed
  <2>3. Typed \in SUBSET Nat
    BY DEF Typed
  <2> QED
    BY <2>1, <2>2, <2>3, Counting
<1> QED
  BY <1>9, <1>10, <1>11

\* Rounds that only add, and the sets that a round does not leave.
Adding(U) == {round \in [SUBSET U -> SUBSET U] : \A X \in SUBSET U : X \subseteq round[X]}
Closed(round, Z) == \A X \in SUBSET Z : round[X] \subseteq Z

\* A round that only adds has nothing left to add after as many rounds as there are
\* things to be added; and what it made is in every set that a round does not leave.
LEMMA Saturates ==
  ASSUME NEW U, NEW round \in Adding(U),
         NEW x \in SUBSET U, IsFiniteSet(U \ x), NEW n \in Nat, Cardinality(U \ x) <= n,
         NEW all, all = Iterate(round, x, n)
  PROVE  /\ x \subseteq all /\ all \in SUBSET U
         /\ round[all] = all
         /\ \A Z \in SUBSET U : x \subseteq Z /\ Closed(round, Z) => all \subseteq Z
<1> USE DEF Adding
<1> DEFINE at(i) == Iterate(round, x, i)
<1>1. at(0) = x /\ \A i \in Nat : at(i) \in SUBSET U /\ at(i + 1) = round[at(i)]
  BY IterateIs
<1> HIDE DEF at
<1> DEFINE Above == {i \in Nat : x \subseteq at(i)}
<1>2. Above = Nat
  <2>1. 0 \in Above
    BY <1>1
  <2>2. \A i \in Above : i + 1 \in Above
    BY <1>1
  <2> HIDE DEF Above
  <2>3. Above \in SUBSET Nat
    BY DEF Above
  <2> QED
    BY <2>1, <2>2, <2>3, Counting
<1> DEFINE new(i) == at(i) \ x
           Grown == {i \in Nat : round[at(i)] = at(i) \/ Cardinality(new(i)) >= i}
<1>3. \A i \in Nat : /\ IsFiniteSet(new(i)) /\ Cardinality(new(i)) \in Nat
                     /\ new(i) \in SUBSET (U \ x) /\ Cardinality(new(i)) <= Cardinality(U \ x)
  <2> TAKE i \in Nat
  <2>1. new(i) \in SUBSET (U \ x)
    BY <1>1
  <2> HIDE DEF new
  <2> QED
    BY <2>1, FS_Subset, FS_CardinalityType
<1>4. 0 \in Grown
  <2>1. Cardinality(new(0)) \in Nat
    BY <1>3
  <2> QED
    BY <2>1
<1>5. ASSUME NEW i \in Grown PROVE i + 1 \in Grown
  <2>1. CASE round[at(i)] = at(i)
    <3>1. at(i + 1) = at(i)
      BY <1>1, <2>1
    <3> QED
      BY <2>1, <3>1
  <2>2. CASE round[at(i)] # at(i)
    <3>1. i \in Nat /\ i + 1 \in Nat /\ Cardinality(new(i)) >= i
      BY <2>2
    <3>2. new(i) \in SUBSET new(i + 1) /\ new(i) # new(i + 1)
      <4>1. at(i) \subseteq at(i + 1) /\ at(i) # at(i + 1) /\ x \subseteq at(i)
        BY <1>1, <1>2, <2>2
      <4> QED
        BY <4>1
    <3>3. IsFiniteSet(new(i + 1)) /\ Cardinality(new(i + 1)) \in Nat /\ Cardinality(new(i)) \in Nat
      BY <1>3, <3>1
    <3> HIDE DEF new
    <3>4. Cardinality(new(i)) <= Cardinality(new(i + 1)) /\ Cardinality(new(i)) # Cardinality(new(i + 1))
      BY <3>2, <3>3, FS_Subset
    <3>5. Cardinality(new(i + 1)) >= i + 1
      BY <3>1, <3>3, <3>4
    <3> QED
      BY <3>1, <3>5
  <2> QED
    BY <2>1, <2>2
<1>6. Grown = Nat
  <2> HIDE DEF Grown
  <2>1. Grown \in SUBSET Nat
    BY DEF Grown
  <2> QED
    BY <1>4, <1>5, <2>1, Counting
<1>7. round[at(n)] = at(n)
  <2> SUFFICES ASSUME round[at(n)] # at(n) PROVE FALSE
    OBVIOUS
  <2>1. Cardinality(new(n)) >= n
    BY <1>6
  <2>2. Cardinality(new(n)) = Cardinality(U \ x)
    <3>1. Cardinality(U \ x) \in Nat /\ Cardinality(new(n)) \in Nat /\ Cardinality(new(n)) <= Cardinality(U \ x)
      BY <1>3, FS_CardinalityType
    <3> QED
      BY <2>1, <3>1
  <2>3. new(n) = U \ x
    <3>1. new(n) \in SUBSET (U \ x)
      BY <1>3
    <3> HIDE DEF new
    <3> QED
      BY <2>2, <3>1, FS_Subset
  <2>4. at(n) = U
    BY <1>1, <1>2, <2>3
  <2> QED
    BY <1>1, <2>4
<1>8. ASSUME NEW Z \in SUBSET U, x \subseteq Z, Closed(round, Z)
      PROVE  at(n) \subseteq Z
  <2> DEFINE Inside == {i \in Nat : at(i) \subseteq Z}
  <2>1. 0 \in Inside
    BY <1>1, <1>8
  <2>2. \A i \in Inside : i + 1 \in Inside
    BY <1>1, <1>8 DEF Closed
  <2>3. Inside = Nat
    <3> HIDE DEF Inside
    <3>1. Inside \in SUBSET Nat
      BY DEF Inside
    <3> QED
      BY <2>1, <2>2, <3>1, Counting
  <2> QED
    BY <2>3
<1> QED
  BY <1>1, <1>2, <1>7, <1>8 DEF at

\* The values of a function are no more than what they are of.
LEMMA ImageFinite ==
  ASSUME NEW f, IsFiniteSet(DOMAIN f)
  PROVE  /\ IsFiniteSet({f[a] : a \in DOMAIN f})
         /\ Cardinality({f[a] : a \in DOMAIN f}) <= Cardinality(DOMAIN f)
<1> DEFINE S == DOMAIN f
           T == {f[a] : a \in S}
           g == [a \in S |-> f[a]]
<1>1. g \in Surjection(S, T)
  BY DEF Surjection
<1> HIDE DEF g, T, S
<1>2. IsFiniteSet(T) /\ Cardinality(T) <= Cardinality(S)
  BY <1>1, FS_Surjection DEF S
<1> QED
  BY <1>2 DEF S, T

\* What is reached is closed, and no more than what every closed set has.
LEMMA ReachIs ==
  ASSUME NEW edges, IsFiniteSet(edges), NEW from
  PROVE  LET reached == Reach(edges, from, Cardinality(edges))
         IN  /\ from \subseteq reached /\ reached \subseteq from \cup {e[2] : e \in edges}
             /\ \A e \in edges : e[1] \in reached => e[2] \in reached
             /\ \A Z : from \subseteq Z /\ (\A e \in edges : e[1] \in Z => e[2] \in Z) => reached \subseteq Z
<1> DEFINE ends == [e \in edges |-> e[2]]
           nodes == from \cup {e[2] : e \in edges}
           round == [ns \in SUBSET nodes |-> ns \cup {e[2] : e \in {f \in edges : f[1] \in ns}}]
           size == Cardinality(edges)
           reached == Reach(edges, from, Cardinality(edges))
<1>1. /\ IsFiniteSet({e[2] : e \in edges}) /\ Cardinality({e[2] : e \in edges}) <= Cardinality(edges)
      /\ Cardinality(edges) \in Nat
  <2>1. DOMAIN ends = edges /\ {ends[e] : e \in DOMAIN ends} = {e[2] : e \in edges}
    OBVIOUS
  <2> HIDE DEF ends
  <2> QED
    BY <2>1, ImageFinite, FS_CardinalityType
<1>2. /\ IsFiniteSet(nodes \ from) /\ Cardinality(nodes \ from) <= Cardinality(edges)
  <2>1. nodes \ from \in SUBSET {e[2] : e \in edges}
    OBVIOUS
  <2>2. /\ IsFiniteSet(nodes \ from) /\ Cardinality(nodes \ from) <= Cardinality({e[2] : e \in edges})
    BY <1>1, <2>1, FS_Subset
  <2>3. Cardinality(nodes \ from) \in Nat /\ Cardinality({e[2] : e \in edges}) \in Nat
    BY <1>1, <2>2, FS_CardinalityType
  <2> HIDE DEF nodes
  <2> QED
    BY <1>1, <2>2, <2>3
<1>3. round \in Adding(nodes)
  BY DEF Adding
<1>4. reached = Iterate(round, from, size)
  BY DEF Reach
<1>5. from \in SUBSET nodes
  OBVIOUS
<1>6. size \in Nat /\ Cardinality(nodes \ from) <= size
  BY <1>1, <1>2
<1> HIDE DEF round, nodes, reached, size
<1>7. /\ from \subseteq reached /\ reached \in SUBSET nodes /\ round[reached] = reached
      /\ \A Z \in SUBSET nodes : from \subseteq Z /\ Closed(round, Z) => reached \subseteq Z
  BY <1>2, <1>3, <1>4, <1>5, <1>6, Saturates
<1>8. \A e \in edges : e[1] \in reached => e[2] \in reached
  BY <1>7 DEF round
<1>9. ASSUME NEW Z, from \subseteq Z, \A e \in edges : e[1] \in Z => e[2] \in Z
      PROVE  reached \subseteq Z
  <2> DEFINE Y == Z \cap nodes
  <2>1. Y \in SUBSET nodes /\ from \subseteq Y
    BY <1>5, <1>9
  <2>2. Closed(round, Y)
    BY <1>9 DEF round, nodes, Closed
  <2> HIDE DEF Y
  <2>3. reached \subseteq Y
    BY <1>7, <2>1, <2>2
  <2> QED
    BY <2>3 DEF Y
<1> QED
  BY <1>7, <1>8, <1>9 DEF reached, nodes, size

\* Where nothing is first there is a cycle: of the nodes from which most is reached, one before
\* it reaches more.
LEMMA SomeNodeIsFirst ==
  ASSUME NEW edges, IsFiniteSet(edges), CycleFree(edges), NEW N, N # {}
  PROVE  \E x \in N : \A y \in N : <<y, x>> \notin edges
<1> SUFFICES ASSUME \A x \in N : \E y \in N : <<y, x>> \in edges PROVE FALSE
  OBVIOUS
<1> DEFINE D(x) == Reach(edges, {x}, Cardinality(edges))
           ends == [e \in edges |-> e[2]]
           most == Cardinality(edges) + 1
           S == {most - Cardinality(D(x)) : x \in N}
<1>1. \A x : /\ x \in D(x) /\ D(x) \subseteq {x} \cup {e[2] : e \in edges}
             /\ \A e \in edges : e[1] \in D(x) => e[2] \in D(x)
             /\ \A Z : {x} \subseteq Z /\ (\A e \in edges : e[1] \in Z => e[2] \in Z) => D(x) \subseteq Z
  BY ReachIs
<1>2. \A y, x : <<y, x>> \in edges => y \notin D(x)
  <2> SUFFICES ASSUME NEW y, NEW x, <<y, x>> \in edges PROVE y \notin D(x)
    OBVIOUS
  <2>1. <<y, x>>[1] = y /\ <<y, x>>[2] = x
    OBVIOUS
  <2> QED
    BY <2>1 DEF CycleFree
<1> HIDE DEF D
<1>3. /\ IsFiniteSet({e[2] : e \in edges}) /\ Cardinality({e[2] : e \in edges}) <= Cardinality(edges)
      /\ Cardinality(edges) \in Nat /\ Cardinality({e[2] : e \in edges}) \in Nat
  <2>1. DOMAIN ends = edges /\ {ends[e] : e \in DOMAIN ends} = {e[2] : e \in edges}
    OBVIOUS
  <2> HIDE DEF ends
  <2> QED
    BY <2>1, ImageFinite, FS_CardinalityType
<1>4. \A x : IsFiniteSet(D(x)) /\ Cardinality(D(x)) \in Nat /\ Cardinality(D(x)) <= most
  <2> TAKE x
  <2> DEFINE T == {e[2] : e \in edges}
             W == T \cup {x}
  <2>1. IsFiniteSet(T) /\ Cardinality(T) <= Cardinality(edges) /\ Cardinality(T) \in Nat
    BY <1>3
  <2> HIDE DEF T
  <2>2. IsFiniteSet(W) /\ Cardinality(W) = IF x \in T THEN Cardinality(T) ELSE Cardinality(T) + 1
    BY <2>1, FS_AddElement
  <2>3. D(x) \in SUBSET W
    BY <1>1 DEF T
  <2> HIDE DEF W
  <2>4. IsFiniteSet(D(x)) /\ Cardinality(D(x)) <= Cardinality(W)
    BY <2>2, <2>3, FS_Subset
  <2>5. Cardinality(D(x)) \in Nat
    BY <2>4, FS_CardinalityType
  <2>6. Cardinality(W) \in Nat /\ Cardinality(W) <= most
    BY <1>3, <2>1, <2>2
  <2>7. most \in Nat
    BY <1>3
  <2> HIDE DEF most
  <2> QED
    BY <2>4, <2>5, <2>6, <2>7
<1>5. most \in Nat
  BY <1>3
<1> HIDE DEF most
<1>6. S \in SUBSET Nat /\ S # {}
  BY <1>4, <1>5
<1>7. PICK m \in S : \A n \in S : m <= n
  <2> HIDE DEF S
  <2> QED
    BY <1>6, Least
<1>8. PICK x \in N : m = most - Cardinality(D(x))
  OBVIOUS
<1>9. PICK y \in N : <<y, x>> \in edges
  OBVIOUS
<1>10. D(x) \in SUBSET D(y) /\ D(x) # D(y)
  <2>1. y \in D(y) /\ y \notin D(x)
    BY <1>1, <1>2, <1>9
  <2>2. <<y, x>>[1] = y /\ <<y, x>>[2] = x
    OBVIOUS
  <2>3. x \in D(y)
    BY <1>1, <1>9, <2>1, <2>2
  <2>4. {x} \subseteq D(y) /\ \A e \in edges : e[1] \in D(y) => e[2] \in D(y)
    BY <1>1, <2>3
  <2>5. D(x) \subseteq D(y)
    BY <1>1, <2>4
  <2> QED
    BY <2>1, <2>5
<1>11. Cardinality(D(x)) <= Cardinality(D(y)) /\ Cardinality(D(x)) # Cardinality(D(y))
  BY <1>4, <1>10, FS_Subset
<1>12. most - Cardinality(D(x)) <= most - Cardinality(D(y))
  BY <1>7, <1>8
<1>13. Cardinality(D(x)) \in Nat /\ Cardinality(D(y)) \in Nat
  BY <1>4
<1> QED
  BY <1>5, <1>11, <1>12, <1>13

-----------------------------------------------------------------------------
(* Orders of places.  Tuples of numbers are ordered by the first place in  *)
(* which they differ.                                                      *)

Tuples(n) == [1..n -> Nat]

LEMMA LessOrders ==
  ASSUME NEW n \in Nat
  PROVE  /\ \A a \in Tuples(n) : ~Less(a, a)
         /\ \A a, b \in Tuples(n) : a # b => Less(a, b) \/ Less(b, a)
         /\ \A a, b \in Tuples(n) : ~(Less(a, b) /\ Less(b, a))
         /\ \A a, b, c \in Tuples(n) : Less(a, b) /\ Less(b, c) => Less(a, c)
<1>1. \A a \in Tuples(n) : DOMAIN a = 1..n /\ \A i \in 1..n : a[i] \in Nat
  BY DEF Tuples
<1>2. \A a \in Tuples(n) : ~Less(a, a)
  BY <1>1 DEF Less
<1>3. ASSUME NEW a \in Tuples(n), NEW b \in Tuples(n), a # b PROVE Less(a, b) \/ Less(b, a)
  <2> DEFINE S == {i \in 1..n : a[i] # b[i]}
  <2>1. S \in SUBSET Nat /\ S # {}
    BY <1>3 DEF Tuples
  <2>2. PICK i \in S : \A j \in S : i <= j
    <3> HIDE DEF S
    <3> QED
      BY <2>1, Least
  <2>3. \A j \in 1..(i - 1) : a[j] = b[j]
    <3> TAKE j \in 1..(i - 1)
    <3>1. i \in 1..n /\ j \in 1..n /\ ~(i <= j)
      OBVIOUS
    <3> QED
      BY <2>2, <3>1
  <2>4. i \in 1..n /\ a[i] \in Nat /\ b[i] \in Nat /\ a[i] # b[i]
    BY <1>1
  <2>5. a[i] < b[i] \/ b[i] < a[i]
    BY <2>4
  <2> QED
    BY <1>1, <2>3, <2>4, <2>5 DEF Less
<1>4. ASSUME NEW a \in Tuples(n), NEW b \in Tuples(n), NEW c \in Tuples(n), Less(a, b), Less(b, c)
      PROVE  Less(a, c)
  <2>1. PICK i \in 1..n : a[i] < b[i] /\ \A j \in 1..(i - 1) : a[j] = b[j]
    BY <1>1, <1>4 DEF Less
  <2>2. PICK k \in 1..n : b[k] < c[k] /\ \A j \in 1..(k - 1) : b[j] = c[j]
    BY <1>1, <1>4 DEF Less
  <2>3. a[i] \in Nat /\ b[i] \in Nat /\ c[i] \in Nat /\ a[k] \in Nat /\ b[k] \in Nat /\ c[k] \in Nat
    BY <1>1
  <2>4. CASE i < k
    <3>1. b[i] = c[i] /\ \A j \in 1..(i - 1) : b[j] = c[j]
      <4>1. i \in 1..(k - 1) /\ \A j \in 1..(i - 1) : j \in 1..(k - 1)
        BY <2>4
      <4> QED
        BY <2>2, <4>1
    <3>2. a[i] < c[i] /\ \A j \in 1..(i - 1) : a[j] = c[j]
      BY <2>1, <2>3, <3>1
    <3> QED
      BY <1>1, <3>2 DEF Less
  <2>5. CASE i = k
    <3>1. a[i] < c[i] /\ \A j \in 1..(i - 1) : a[j] = c[j]
      BY <2>1, <2>2, <2>3, <2>5
    <3> QED
      BY <1>1, <3>1 DEF Less
  <2>6. CASE i > k
    <3>1. a[k] = b[k] /\ \A j \in 1..(k - 1) : a[j] = b[j]
      <4>1. k \in 1..(i - 1) /\ \A j \in 1..(k - 1) : j \in 1..(i - 1)
        BY <2>6
      <4> QED
        BY <2>1, <4>1
    <3>2. a[k] < c[k] /\ \A j \in 1..(k - 1) : a[j] = c[j]
      BY <2>2, <2>3, <3>1
    <3> QED
      BY <1>1, <3>2 DEF Less
  <2> QED
    BY <2>4, <2>5, <2>6
<1>5. \A a, b \in Tuples(n) : ~(Less(a, b) /\ Less(b, a))
  BY <1>2, <1>4
<1> QED
  BY <1>2, <1>3, <1>4, <1>5

\* Of finitely many things that are ordered by tuples, one is first.
LEMMA FirstOfMany ==
  ASSUME NEW S, IsFiniteSet(S), S # {}, NEW n \in Nat, NEW place \in [S -> Tuples(n)],
         \A c, d \in S : place[c] = place[d] => c = d
  PROVE  \E c \in S : \A d \in S \ {c} : Less(place[c], place[d])
<1> DEFINE before(c) == {d \in S : Less(place[d], place[c])}
           Sizes == {Cardinality(before(c)) : c \in S}
<1>1. \A c \in S : IsFiniteSet(before(c)) /\ Cardinality(before(c)) \in Nat
  <2> TAKE c \in S
  <2>1. before(c) \in SUBSET S
    OBVIOUS
  <2> HIDE DEF before
  <2> QED
    BY <2>1, FS_Subset, FS_CardinalityType
<1>2. Sizes \in SUBSET Nat /\ Sizes # {}
  <2> HIDE DEF before
  <2> QED
    BY <1>1
<1>3. PICK m \in Sizes : \A k \in Sizes : m <= k
  <2> HIDE DEF Sizes
  <2> QED
    BY <1>2, Least
<1>4. PICK c \in S : m = Cardinality(before(c))
  OBVIOUS
<1>5. before(c) = {}
  <2> SUFFICES ASSUME NEW d \in before(c) PROVE FALSE
    OBVIOUS
  <2>1. d \in S /\ Less(place[d], place[c]) /\ \A e \in S : place[e] \in Tuples(n)
    OBVIOUS
  <2>2. before(d) \in SUBSET before(c) /\ d \notin before(d)
    BY <2>1, LessOrders
  <2>3. before(d) # before(c)
    <3> HIDE DEF before
    <3> QED
      BY <2>2
  <2>4. Cardinality(before(c)) <= Cardinality(before(d))
    <3>1. Cardinality(before(d)) \in Sizes
      BY <2>1
    <3> HIDE DEF Sizes, before
    <3> QED
      BY <1>3, <1>4, <3>1
  <2>5. /\ Cardinality(before(d)) <= Cardinality(before(c))
        /\ Cardinality(before(c)) = Cardinality(before(d)) => before(c) = before(d)
        /\ Cardinality(before(c)) \in Nat /\ Cardinality(before(d)) \in Nat
    <3> HIDE DEF before
    <3> QED
      BY <1>1, <2>1, <2>2, FS_Subset
  <2> HIDE DEF before
  <2> QED
    BY <2>3, <2>4, <2>5
<1>6. ASSUME NEW d \in S \ {c} PROVE Less(place[c], place[d])
  <2>1. place[c] # place[d] /\ place[c] \in Tuples(n) /\ place[d] \in Tuples(n)
    BY <1>6
  <2>2. ~Less(place[d], place[c])
    BY <1>5, <1>6
  <2> QED
    BY <2>1, <2>2, LessOrders
<1> QED
  BY <1>6

-----------------------------------------------------------------------------
(* What the algorithms of planning return.                                 *)

\* The base is known, and with every requirement of what is known its target.
LEMMA ClosureIs ==
  ASSUME active \subseteq Series, NEW base, NEW at, NEW known, known = Closure(base, at)
  PROVE  /\ base \subseteq known
         /\ \A i \in Requirements(known, at) :
              Resolves(relations[i].target) => ViewOf(relations[i].target.id[1]) \in known
<1> DEFINE viewsOf == [s \in Series |-> ViewOf(s)]
           views == {ViewOf(s) : s \in Series}
           U == base \cup views
           pass == [ks \in SUBSET (base \cup views) |->
                      ks \cup {ViewOf(relations[i].target.id[1]) :
                                 i \in {j \in Requirements(ks, at) : Resolves(relations[j].target)}}]
           size == Cardinality(Series)
<1>1. IsFiniteSet(views) /\ Cardinality(views) <= size /\ size \in Nat
  <2>1. DOMAIN viewsOf = Series /\ {viewsOf[s] : s \in DOMAIN viewsOf} = views
    OBVIOUS
  <2> HIDE DEF viewsOf, views
  <2> QED
    BY <2>1, ImageFinite, FS_CardinalityType, RelationsAssumption
<1>2. IsFiniteSet(U \ base) /\ Cardinality(U \ base) <= size
  <2>1. U \ base \in SUBSET views
    OBVIOUS
  <2> HIDE DEF U, views
  <2>2. IsFiniteSet(U \ base) /\ Cardinality(U \ base) <= Cardinality(views)
    BY <1>1, <2>1, FS_Subset
  <2>3. Cardinality(U \ base) \in Nat /\ Cardinality(views) \in Nat
    BY <1>1, <2>2, FS_CardinalityType
  <2> HIDE DEF size
  <2> QED
    BY <1>1, <2>2, <2>3
<1>3. \A r : Resolves(r) => r.id[1] \in Series
  BY DEF Resolves, IsCurrent
<1>4. pass \in Adding(U)
  <2>1. \A ks \in SUBSET U : pass[ks] \in SUBSET U /\ ks \subseteq pass[ks]
    BY <1>3
  <2>2. pass = [ks \in SUBSET U |-> pass[ks]]
    OBVIOUS
  <2> HIDE DEF pass, U
  <2> QED
    BY <2>1, <2>2 DEF Adding
<1>5. known = Iterate(pass, base, size)
  BY DEF Closure
<1>6. base \in SUBSET U
  OBVIOUS
<1> HIDE DEF pass, U, size
<1>7. base \subseteq known /\ known \in SUBSET U /\ pass[known] = known
  BY <1>1, <1>2, <1>4, <1>5, <1>6, Saturates
<1>8. pass[known] = known \cup {ViewOf(relations[i].target.id[1]) :
                                  i \in {j \in Requirements(known, at) : Resolves(relations[j].target)}}
  BY <1>7 DEF pass, U
<1> QED
  BY <1>7, <1>8

\* What is reached has its roots and all that it requires of what is available, and no more than
\* every set that has them.
LEMMA ReachableIs ==
  ASSUME NEW available, IsFiniteSet(available), NEW roots, NEW edges,
         NEW reached, reached = Reachable(roots, available, edges)
  PROVE  /\ roots \cap available \subseteq reached /\ reached \subseteq available
         /\ \A e \in edges : e.sources \cap reached # {} => e.targets \cap available \subseteq reached
         /\ \A Z \in SUBSET available :
              /\ roots \cap available \subseteq Z
              /\ \A e \in edges : e.sources \cap Z # {} => e.targets \cap available \subseteq Z
              => reached \subseteq Z
<1> DEFINE pass == [cs \in SUBSET available |->
                      cs \cup UNION {e.targets \cap available : e \in {f \in edges : f.sources \cap cs # {}}}]
           from == roots \cap available
           size == Cardinality(available)
<1>1. from \in SUBSET available
  OBVIOUS
<1>2. IsFiniteSet(available \ from) /\ Cardinality(available \ from) <= size /\ size \in Nat
  <2>1. available \ from \in SUBSET available
    OBVIOUS
  <2> HIDE DEF from
  <2> QED
    BY <2>1, FS_Subset, FS_CardinalityType
<1>3. pass \in Adding(available)
  BY DEF Adding
<1>4. reached = Iterate(pass, from, size)
  BY DEF Reachable
<1> HIDE DEF pass, from, size
<1>5. /\ from \subseteq reached /\ reached \in SUBSET available /\ pass[reached] = reached
      /\ \A Z \in SUBSET available : from \subseteq Z /\ Closed(pass, Z) => reached \subseteq Z
  <2>1. from \subseteq reached /\ reached \in SUBSET available /\ pass[reached] = reached
    BY <1>1, <1>2, <1>3, <1>4, Saturates
  <2>2. \A Z \in SUBSET available : from \subseteq Z /\ Closed(pass, Z) => reached \subseteq Z
    BY <1>1, <1>2, <1>3, <1>4, Saturates
  <2> QED
    BY <2>1, <2>2
<1>6. \A e \in edges : e.sources \cap reached # {} => e.targets \cap available \subseteq reached
  BY <1>5 DEF pass
<1>7. ASSUME NEW Z \in SUBSET available, from \subseteq Z,
             \A e \in edges : e.sources \cap Z # {} => e.targets \cap available \subseteq Z
      PROVE  reached \subseteq Z
  <2>1. Closed(pass, Z)
    <3> SUFFICES ASSUME NEW X \in SUBSET Z, NEW c \in pass[X], c \notin X PROVE c \in Z
      BY DEF Closed
    <3>1. PICK e \in edges : e.sources \cap X # {} /\ c \in e.targets \cap available
      BY DEF pass
    <3> QED
      BY <1>7, <3>1
  <2> QED
    BY <1>5, <1>7, <2>1
<1> QED
  BY <1>5, <1>6, <1>7 DEF from

Enumerates(at, places) ==
  /\ at \in [1..Cardinality(places) -> places]
  /\ \A i \in places : \E n \in 1..Cardinality(places) : at[n] = i
  /\ \A m, n \in 1..Cardinality(places) : at[m] < at[n] => m < n

\* The entries at some places are the entries at each, in their order.
LEMMA EntriesAre ==
  ASSUME NEW s, NEW places \in SUBSET Nat, IsFiniteSet(places)
  PROVE  \E at : Enumerates(at, places) /\ Entries(s, places) = [n \in 1..Cardinality(places) |-> s[at[n]]]
<1> DEFINE below(i) == {j \in places : j < i}
           size == Cardinality(places)
           rank == [i \in places |-> Cardinality(below(i))]
           at == [n \in 1..size |-> CHOOSE i \in places : Cardinality(below(i)) = n - 1]
<1>1. size \in Nat
  BY FS_CardinalityType
<1>2. \A i \in places : IsFiniteSet(below(i)) /\ Cardinality(below(i)) \in Nat /\ Cardinality(below(i)) < size
  <2> TAKE i \in places
  <2>1. below(i) \in SUBSET places /\ below(i) # places
    <3>1. i \notin below(i)
      OBVIOUS
    <3> HIDE DEF below
    <3>2. below(i) # places
      BY <3>1
    <3> QED
      BY <3>2 DEF below
  <2> HIDE DEF below
  <2>2. IsFiniteSet(below(i)) /\ Cardinality(below(i)) <= size /\ Cardinality(below(i)) # size
    BY <2>1, FS_Subset
  <2>3. Cardinality(below(i)) \in Nat
    BY <2>2, FS_CardinalityType
  <2> HIDE DEF size
  <2> QED
    BY <1>1, <2>2, <2>3
<1>3. \A i, k \in places : i < k => Cardinality(below(i)) < Cardinality(below(k))
  <2> SUFFICES ASSUME NEW i \in places, NEW k \in places, i < k
               PROVE  Cardinality(below(i)) < Cardinality(below(k))
    OBVIOUS
  <2>1. below(i) \in SUBSET below(k) /\ i \in below(k) /\ i \notin below(i)
    <3>1. \A j \in places : j < i => j < k
      <4> TAKE j \in places
      <4>1. i \in Nat /\ j \in Nat /\ k \in Nat
        OBVIOUS
      <4> QED
        BY <4>1
    <3>2. below(i) \in SUBSET below(k)
      BY <3>1
    <3>3. ~(i < i)
      <4>1. i \in Nat
        OBVIOUS
      <4> QED
        BY <4>1
    <3> QED
      BY <3>2, <3>3
  <2> HIDE DEF below
  <2>2. below(i) # below(k)
    BY <2>1
  <2>3. Cardinality(below(i)) <= Cardinality(below(k)) /\ Cardinality(below(i)) # Cardinality(below(k))
    BY <1>2, <2>1, <2>2, FS_Subset
  <2> QED
    BY <1>2, <2>3
<1> HIDE DEF below
<1>4. rank \in Injection(places, 0..(size - 1))
  <2>1. rank \in [places -> 0..(size - 1)]
    <3> HIDE DEF size
    <3> QED
      BY <1>1, <1>2
  <2>2. ASSUME NEW i \in places, NEW k \in places, i # k PROVE rank[i] # rank[k]
    <3>1. i \in Nat /\ k \in Nat
      OBVIOUS
    <3>2. i < k \/ k < i
      BY <2>2, <3>1
    <3>3. Cardinality(below(i)) \in Nat /\ Cardinality(below(k)) \in Nat
      BY <1>2
    <3> QED
      BY <1>3, <3>2, <3>3
  <2> HIDE DEF rank, size
  <2> QED
    BY <2>1, <2>2 DEF Injection, IsInjective
<1>5. IsFiniteSet(0..(size - 1)) /\ Cardinality(0..(size - 1)) = size
  <2> HIDE DEF size
  <2>1. 0 \in Int /\ size - 1 \in Int
    BY <1>1
  <2>2. /\ IsFiniteSet(0..(size - 1))
        /\ Cardinality(0..(size - 1)) = IF 0 > size - 1 THEN 0 ELSE (size - 1) - 0 + 1
    BY <2>1, FS_Interval
  <2> QED
    BY <1>1, <2>2
<1>6. rank \in Surjection(places, 0..(size - 1))
  <2> HIDE DEF rank
  <2> QED
    BY <1>4, <1>5, FS_Injection
<1>7. \A n \in 1..size : \E i \in places : Cardinality(below(i)) = n - 1
  <2> TAKE n \in 1..size
  <2>1. n - 1 \in 0..(size - 1)
    <3> HIDE DEF size
    <3> QED
      BY <1>1
  <2>2. PICK i \in places : rank[i] = n - 1
    <3> HIDE DEF rank, size
    <3> QED
      BY <1>6, <2>1 DEF Surjection
  <2> QED
    BY <2>2
<1>8. \A n \in 1..size : at[n] \in places /\ Cardinality(below(at[n])) = n - 1
  BY <1>7
<1>9. at \in [1..size -> places]
  BY <1>8
<1>10. \A i \in places : \E n \in 1..size : at[n] = i
  <2> TAKE i \in places
  <2> DEFINE n == Cardinality(below(i)) + 1
  <2>1. n \in 1..size /\ n - 1 = Cardinality(below(i))
    <3> HIDE DEF size
    <3> QED
      BY <1>1, <1>2
  <2> HIDE DEF n
  <2>2. at[n] \in places /\ Cardinality(below(at[n])) = Cardinality(below(i))
    BY <1>8, <2>1
  <2> HIDE DEF at
  <2>3. at[n] \in Nat /\ i \in Nat /\ Cardinality(below(i)) \in Nat
    BY <1>2, <2>2
  <2>4. ~(at[n] < i) /\ ~(i < at[n])
    BY <1>3, <2>2, <2>3
  <2> QED
    BY <2>1, <2>3, <2>4
<1>11. \A m, n \in 1..size : at[m] < at[n] => m < n
  <2> SUFFICES ASSUME NEW m \in 1..size, NEW n \in 1..size, at[m] < at[n] PROVE m < n
    OBVIOUS
  <2>1. Cardinality(below(at[m])) = m - 1 /\ Cardinality(below(at[n])) = n - 1
    BY <1>8
  <2>2. Cardinality(below(at[m])) < Cardinality(below(at[n]))
    BY <1>3, <1>8
  <2> QED
    BY <2>1, <2>2
<1>12. Entries(s, places) = [n \in 1..size |-> s[at[n]]]
  BY DEF Entries, below
<1> QED
  BY <1>9, <1>10, <1>11, <1>12 DEF Enumerates

\* A sequence without repetitions is as long as what it is made of, if it is all of it.
LEMMA LengthIs ==
  ASSUME NEW live, NEW order \in Seq(live), \A i, j \in DOMAIN order : order[i] = order[j] => i = j,
         live \subseteq {order[i] : i \in DOMAIN order}
  PROVE  Len(order) = Cardinality(live)
<1>1. DOMAIN order = 1..Len(order) /\ Len(order) \in Nat /\ order \in [1..Len(order) -> live]
  BY LenProperties
<1>2. order \in Bijection(1..Len(order), live)
  <2>1. \A x, y \in 1..Len(order) : order[x] = order[y] => x = y
    BY <1>1
  <2>2. \A c \in live : \E i \in 1..Len(order) : order[i] = c
    BY <1>1
  <2> QED
    BY <1>1, <2>1, <2>2 DEF Bijection, Injection, Surjection, IsInjective
<1>3. IsFiniteSet(1..Len(order)) /\ Cardinality(1..Len(order)) = Len(order)
  <2>1. /\ IsFiniteSet(1..Len(order))
        /\ Cardinality(1..Len(order)) = IF 1 > Len(order) THEN 0 ELSE Len(order) - 1 + 1
    BY <1>1, FS_Interval
  <2> QED
    BY <1>1, <2>1
<1>4. ExistsBijection(1..Len(order), live)
  BY <1>2 DEF ExistsBijection
<1> QED
  BY <1>3, <1>4, FS_Bijection

\* Where in every part something has nothing before it, everything is placed, after what is
\* before it.
LEMMA TopologicalIs ==
  ASSUME NEW live, IsFiniteSet(live), NEW before,
         \A c \in live : Place(c) \in Tuples(4),
         \A c, d \in live : Place(c) = Place(d) => c = d,
         \A N \in SUBSET live : N # {} => \E c \in N : \A b \in N : <<b, c>> \notin before,
         NEW order, order = TopologicalOrder(live, before)
  PROVE  /\ order \in Seq(live)
         /\ Len(order) = Cardinality(live)
         /\ \A i, j \in DOMAIN order : <<order[i], order[j]>> \in before => i < j
<1> DEFINE rest(o) == live \ {o[i] : i \in DOMAIN o}
           ready(o) == {c \in rest(o) : \A b \in rest(o) : <<b, c>> \notin before}
           first(cs) == CHOOSE c \in cs : \A d \in cs \ {c} : Less(Place(c), Place(d))
           place == [o \in Seq(live) |-> IF ready(o) = {} THEN o ELSE Append(o, first(ready(o)))]
           size == Cardinality(live)
           at(n) == Iterate(place, <<>>, n)
           Sorted(o) == /\ \A i, j \in DOMAIN o : o[i] = o[j] => i = j
                        /\ \A j \in DOMAIN o, b \in live : <<b, o[j]>> \in before =>
                             \E i \in DOMAIN o : i < j /\ o[i] = b
           Good == {n \in Nat : Sorted(at(n)) /\ (rest(at(n)) = {} \/ Len(at(n)) = n)}
<1>1. \A cs \in SUBSET live : cs # {} => first(cs) \in cs
  <2> SUFFICES ASSUME NEW cs \in SUBSET live, cs # {} PROVE first(cs) \in cs
    OBVIOUS
  <2> DEFINE f == [c \in cs |-> Place(c)]
  <2>1. f \in [cs -> Tuples(4)] /\ \A c, d \in cs : f[c] = f[d] => c = d
    OBVIOUS
  <2>2. IsFiniteSet(cs) /\ 4 \in Nat
    BY FS_Subset
  <2> HIDE DEF f
  <2>3. \E c \in cs : \A d \in cs \ {c} : Less(f[c], f[d])
    BY <2>1, <2>2, FirstOfMany
  <2>4. \E c \in cs : \A d \in cs \ {c} : Less(Place(c), Place(d))
    BY <2>3 DEF f
  <2> QED
    BY <2>4
<1>2. \A o : ready(o) \in SUBSET live /\ ready(o) \subseteq rest(o)
  OBVIOUS
<1>3. \A o : rest(o) # {} => ready(o) # {}
  <2> SUFFICES ASSUME NEW o, rest(o) # {} PROVE ready(o) # {}
    OBVIOUS
  <2>1. rest(o) \in SUBSET live
    OBVIOUS
  <2>2. \E c \in rest(o) : \A b \in rest(o) : <<b, c>> \notin before
    <3> HIDE DEF rest
    <3> QED
      BY <2>1
  <2> HIDE DEF rest
  <2> QED
    BY <2>2
<1> HIDE DEF first, ready
<1>4. place \in [Seq(live) -> Seq(live)]
  <2>1. \A o \in Seq(live) : (IF ready(o) = {} THEN o ELSE Append(o, first(ready(o)))) \in Seq(live)
    <3> TAKE o \in Seq(live)
    <3>1. CASE ready(o) = {}
      BY <3>1
    <3>2. CASE ready(o) # {}
      <4>1. first(ready(o)) \in live
        BY <1>1, <1>2, <3>2
      <4>2. Append(o, first(ready(o))) \in Seq(live)
        BY <4>1, AppendProperties
      <4> QED
        BY <3>2, <4>2
    <3> QED
      BY <3>1, <3>2
  <2> QED
    BY <2>1
<1>5. <<>> \in Seq(live)
  OBVIOUS
<1>6. at(0) = <<>> /\ \A n \in Nat : at(n) \in Seq(live) /\ at(n + 1) = place[at(n)]
  <2> DEFINE S == Seq(live)
             empty == <<>>
  <2>1. place \in [S -> S] /\ empty \in S
    BY <1>4, <1>5
  <2>2. \A n : at(n) = Iterate(place, empty, n)
    OBVIOUS
  <2> HIDE DEF place, S, at, empty
  <2>3. at(0) = empty /\ \A n \in Nat : at(n) \in S /\ at(n + 1) = place[at(n)]
    BY <2>1, <2>2, IterateIs
  <2> QED
    BY <2>3 DEF S, empty
<1> HIDE DEF at
<1>7. 0 \in Good
  BY <1>6
<1>8. ASSUME NEW n \in Good PROVE n + 1 \in Good
  <2> DEFINE o == at(n)
             c == first(ready(o))
  <2>1. n \in Nat /\ n + 1 \in Nat /\ o \in Seq(live) /\ Sorted(o) /\ (rest(o) = {} \/ Len(o) = n)
    <3> HIDE DEF rest, Sorted
    <3>1. n \in Nat /\ Sorted(o) /\ (rest(o) = {} \/ Len(o) = n)
      BY Zenon
    <3> HIDE DEF Good
    <3>2. o \in Seq(live)
      BY <1>6, <3>1
    <3>3. n + 1 \in Nat
      BY <3>1
    <3> QED
      BY <3>1, <3>2, <3>3
  <2>2. at(n + 1) = IF ready(o) = {} THEN o ELSE Append(o, c)
    BY <1>6, <2>1
  <2>3. CASE rest(o) = {}
    <3>1. ready(o) = {}
      BY <1>2, <2>3
    <3>2. at(n + 1) = o
      BY <2>2, <3>1
    <3> QED
      BY <2>1, <2>3, <3>2
  <2>4. CASE rest(o) # {}
    <3>1. Len(o) = n /\ at(n + 1) = Append(o, c)
      BY <1>3, <2>1, <2>2, <2>4
    <3>2. c \in ready(o)
      BY <1>1, <1>2, <1>3, <2>4
    <3>3. c \in live /\ (\A i \in DOMAIN o : o[i] # c)
          /\ \A b \in live : <<b, c>> \in before => \E i \in DOMAIN o : o[i] = b
      <4> HIDE DEF c
      <4> QED
        BY <3>2 DEF ready
    <3> HIDE DEF o, c
    <3> DEFINE q == Append(o, c)
    <3>4. /\ DOMAIN o = 1..n /\ DOMAIN q = 1..(n + 1) /\ Len(q) = n + 1
          /\ q[n + 1] = c /\ \A i \in 1..n : q[i] = o[i]
      BY <2>1, <3>1, <3>3, AppendProperties, LenProperties
    <3> HIDE DEF q
    <3>5. \A i, j \in DOMAIN q : q[i] = q[j] => i = j
      <4> SUFFICES ASSUME NEW i \in 1..(n + 1), NEW j \in 1..(n + 1), q[i] = q[j] PROVE i = j
        BY <3>4
      <4>1. (i \in 1..n \/ i = n + 1) /\ (j \in 1..n \/ j = n + 1)
        BY <2>1
      <4> QED
        BY <2>1, <3>3, <3>4, <4>1
    <3>6. \A j \in DOMAIN q, b \in live : <<b, q[j]>> \in before => \E i \in DOMAIN q : i < j /\ q[i] = b
      <4> SUFFICES ASSUME NEW j \in 1..(n + 1), NEW b \in live, <<b, q[j]>> \in before
                   PROVE  \E i \in 1..(n + 1) : i < j /\ q[i] = b
        BY <3>4
      <4>1. CASE j \in 1..n
        <5>1. PICK i \in 1..n : i < j /\ o[i] = b
          BY <2>1, <3>4, <4>1
        <5>2. i \in 1..(n + 1) /\ q[i] = b
          BY <2>1, <3>4, <5>1
        <5> QED
          BY <5>1, <5>2
      <4>2. CASE j = n + 1
        <5>1. PICK i \in 1..n : o[i] = b
          BY <3>3, <3>4, <4>2
        <5>2. i \in 1..(n + 1) /\ q[i] = b /\ i < j
          BY <2>1, <3>4, <4>2, <5>1
        <5> QED
          BY <5>2
      <4> QED
        BY <2>1, <4>1, <4>2
    <3>7. at(n + 1) = q
      BY <3>1 DEF q
    <3>8. Len(at(n + 1)) = n + 1 /\ Sorted(at(n + 1))
      <4> HIDE DEF at
      <4> QED
        BY <3>4, <3>5, <3>6, <3>7
    <3> QED
      BY <2>1, <3>8
  <2> QED
    BY <2>3, <2>4
<1>9. Good = Nat
  <2>1. Good \in SUBSET Nat
    OBVIOUS
  <2> HIDE DEF Good
  <2> QED
    BY <1>7, <1>8, <2>1, Counting
<1>10. size \in Nat
  BY FS_CardinalityType
<1>11. order = at(size)
  BY DEF TopologicalOrder, at, place, ready, first
<1> HIDE DEF size, place
<1>12. order \in Seq(live) /\ Sorted(order) /\ (rest(order) = {} \/ Len(order) = size)
  <2> HIDE DEF rest, Sorted
  <2> QED
    BY <1>6, <1>9, <1>10, <1>11
<1>13. Len(order) = size
  <2>1. CASE rest(order) = {}
    <3>1. live \subseteq {order[i] : i \in DOMAIN order}
      BY <2>1
    <3> QED
      BY <1>12, <3>1, LengthIs DEF size
  <2> QED
    BY <1>12, <2>1
<1>14. ASSUME NEW i \in DOMAIN order, NEW j \in DOMAIN order, <<order[i], order[j]>> \in before
       PROVE  i < j
  <2>1. order[i] \in live
    BY <1>12
  <2>2. PICK k \in DOMAIN order : k < j /\ order[k] = order[i]
    BY <1>12, <1>14, <2>1
  <2> QED
    BY <1>12, <2>2
<1> QED
  BY <1>12, <1>13, <1>14 DEF size

-----------------------------------------------------------------------------
(* What contributions are: finitely many, ordered by their places, and by  *)
(* how well they fit.                                                      *)

Dispositions == {"applicable", "adaptable", "stale", "blocked"}

VersionViews == [series : Series, number : 1..MaxVersion, revised : [Slots -> 1..MaxVersion]]

AllContributions ==
  {c \in [series : Series, number : 1..MaxVersion, k : Slots, revision : 1..MaxVersion] : Role[c.k] # "none"}

\* The library as the planner finds it.
LibraryTypes ==
  /\ current \in [Series -> 1..MaxVersion] /\ active \subseteq Series
  /\ revised \in [Series -> [Slots -> 1..MaxVersion]]
  /\ relations \in Seq(Declarations)

LEMMA ViewsAre ==
  ASSUME LibraryTypes
  PROVE  \A s \in Series : /\ ViewOf(s) \in VersionViews
                           /\ ViewOf(s).series = s /\ ViewOf(s).number = current[s]
                           /\ ViewOf(s).revised = revised[s]
  BY DEF LibraryTypes, ViewOf, VersionViews

LEMMA ContributionsAre ==
  ASSUME NEW v \in VersionViews, NEW selected \in SUBSET Slots, NEW disposition
  PROVE  \A c \in Contributions(v, selected, disposition) :
           /\ c \in AllContributions
           /\ c.series = v.series /\ c.number = v.number /\ c.revision = v.revised[c.k]
<1> SUFFICES ASSUME NEW c \in Contributions(v, selected, disposition)
             PROVE  /\ c \in AllContributions
                    /\ c.series = v.series /\ c.number = v.number /\ c.revision = v.revised[c.k]
  OBVIOUS
<1>1. PICK k \in selected : /\ Role[k] # "none"
                            /\ c = [series |-> v.series, number |-> v.number, k |-> k, revision |-> v.revised[k]]
  BY DEF Contributions
<1>2. v.series \in Series /\ v.number \in 1..MaxVersion /\ v.revised[k] \in 1..MaxVersion
  BY DEF VersionViews
<1> QED
  BY <1>1, <1>2 DEF AllContributions

LEMMA SameContribution ==
  \A c, d \in AllContributions : Id(c) = Id(d) /\ c.number = d.number => c = d
  BY DEF AllContributions, Id

LEMMA FinitelyMany == IsFiniteSet(AllContributions)
<1> DEFINE N == 1..MaxVersion
           P == (Series \X N) \X (Slots \X N)
           f == [x \in P |-> [series |-> x[1][1], number |-> x[1][2], k |-> x[2][1], revision |-> x[2][2]]]
           F == {f[x] : x \in DOMAIN f}
<1>1. IsFiniteSet(N)
  <2>1. 1 \in Int /\ MaxVersion \in Int
    BY RelationsAssumption
  <2> QED
    BY <2>1, FS_Interval
<1>2. IsFiniteSet(Series) /\ IsFiniteSet(Slots)
  BY RelationsAssumption
<1> HIDE DEF N
<1>3. IsFiniteSet(Series \X N) /\ IsFiniteSet(Slots \X N)
  BY <1>1, <1>2, FS_Product
<1>4. IsFiniteSet(P)
  BY <1>3, FS_Product
<1>5. DOMAIN f = P
  OBVIOUS
<1>6. IsFiniteSet(F)
  <2> HIDE DEF f, P
  <2> QED
    BY <1>4, <1>5, ImageFinite
<1>7. AllContributions \in SUBSET F
  <2> SUFFICES ASSUME NEW c \in AllContributions PROVE c \in F
    OBVIOUS
  <2>1. c = [series |-> c.series, number |-> c.number, k |-> c.k, revision |-> c.revision]
        /\ c.series \in Series /\ c.number \in N /\ c.k \in Slots /\ c.revision \in N
    BY DEF AllContributions, N
  <2>2. <<<<c.series, c.number>>, <<c.k, c.revision>>>> \in P
    BY <2>1
  <2>3. f[<<<<c.series, c.number>>, <<c.k, c.revision>>>>] = c
    BY <2>1, <2>2
  <2> QED
    BY <1>5, <2>2, <2>3
<1> HIDE DEF F
<1> QED
  BY <1>6, <1>7, FS_Subset

\* A place is a tuple of numbers, and the place of no other revision.
LEMMA PlaceIs ==
  /\ \A c \in AllContributions : Place(c) \in Tuples(4)
  /\ \A c, d \in AllContributions : Place(c) = Place(d) => Id(c) = Id(d)
<1>1. ASSUME NEW c \in AllContributions PROVE Place(c) \in Tuples(4)
  <2> DEFINE type == CHOOSE i \in DOMAIN Types : Types[i] = Role[c.k]
  <2>1. c.series \in Nat /\ c.k \in Nat /\ c.revision \in Nat /\ c.k \in Slots /\ Role[c.k] # "none"
    <3>1. c.series \in Series /\ c.k \in Slots /\ c.revision \in 1..MaxVersion /\ Role[c.k] # "none"
      BY DEF AllContributions
    <3>2. Series \subseteq Nat /\ Slots \subseteq Nat /\ MaxVersion \in Nat
      BY RelationsAssumption
    <3>3. c.revision \in Nat
      BY <3>1, <3>2
    <3> QED
      BY <3>1, <3>2, <3>3
  <2>2. \E i \in DOMAIN Types : Types[i] = Role[c.k]
    BY <2>1, PlanningAssumption
  <2>3. type \in DOMAIN Types
    BY <2>2
  <2>4. DOMAIN Types \subseteq Nat
    BY DEF Types
  <2>5. type \in Nat
    BY <2>3, <2>4
  <2> HIDE DEF type
  <2>6. <<type, c.k, c.series, c.revision>> \in [1..4 -> Nat]
    BY <2>1, <2>5
  <2> QED
    BY <2>6 DEF Place, Tuples, type
<1>2. ASSUME NEW c, NEW d, Place(c) = Place(d) PROVE Id(c) = Id(d)
  BY <1>2 DEF Place, Id
<1> QED
  BY <1>1, <1>2

LEMMA DispositionIs == \A s, selected, rejected, task : Disposition(s, selected, rejected, task) \in Dispositions
  BY DEF Disposition, Dispositions

LEMMA FitnessIs == \A d \in Dispositions : Fitness(d) \in Nat
  BY DEF Dispositions, Fitness

\* What the matching found.
Matches(p) ==
  /\ p.matches \in Seq([view : VersionViews, selected : SUBSET Slots, rejected : BOOLEAN, disposition : Dispositions])
  /\ p.base = BaseOf(p.matches)
  /\ \A i, j \in DOMAIN p.matches :
       p.matches[i].view.series = p.matches[j].view.series => p.matches[i].view = p.matches[j].view
  /\ \A i \in DOMAIN p.matches : p.matches[i].view.number <= current[p.matches[i].view.series]

LEMMA JoinIs ==
  ASSUME NEW a \in Nat, NEW b \in Nat, NEW t \in Tuples(4)
  PROVE  /\ <<a, b>> \o t \in Tuples(6)
         /\ \A i \in 1..4 : (<<a, b>> \o t)[i + 2] = t[i]
<1> DEFINE s == <<a, b>>
<1>1. s \in Seq(Nat) /\ Len(s) = 2
  OBVIOUS
<1>2. t \in Seq(Nat) /\ Len(t) = 4
  <2>1. t \in Seq(Nat) /\ DOMAIN t = 1..4
    BY SeqDef DEF Tuples
  <2>2. DOMAIN t = 1..Len(t) /\ Len(t) \in Nat
    BY <2>1, LenProperties
  <2>3. 4 \in 1..Len(t) /\ (Len(t) >= 1 => Len(t) \in 1..4)
    BY <2>1, <2>2
  <2> QED
    BY <2>1, <2>2, <2>3
<1> HIDE DEF s
<1>3. /\ s \o t \in Seq(Nat) /\ Len(s \o t) = Len(s) + Len(t)
      /\ \A i \in 1..(Len(s) + Len(t)) : (s \o t)[i] = IF i <= Len(s) THEN s[i] ELSE t[i - Len(s)]
  BY <1>1, <1>2, ConcatProperties
<1>4. s \o t \in [1..6 -> Nat]
  <2>1. Len(s \o t) = 6
    BY <1>1, <1>2, <1>3
  <2>2. s \o t \in [1..Len(s \o t) -> Nat]
    BY <1>3, LenProperties
  <2> QED
    BY <2>1, <2>2
<1>5. \A i \in 1..4 : (s \o t)[i + 2] = t[i]
  <2> TAKE i \in 1..4
  <2>1. i + 2 \in 1..(Len(s) + Len(t)) /\ ~(i + 2 <= Len(s)) /\ (i + 2) - Len(s) = i
    BY <1>1, <1>2
  <2> QED
    BY <1>3, <2>1
<1> QED
  BY <1>4, <1>5 DEF s, Tuples

LEMMA FitIs ==
  ASSUME NEW p, Matches(p), NEW imported
  PROVE  /\ \A c \in AllContributions : Fit(c, p, imported) \in Tuples(6)
         /\ \A c, d \in AllContributions : Fit(c, p, imported) = Fit(d, p, imported) => Id(c) = Id(d)
<1>1. ASSUME NEW c \in AllContributions
      PROVE  /\ Fit(c, p, imported) \in Tuples(6)
             /\ \A i \in 1..4 : Fit(c, p, imported)[i + 2] = Place(c)[i]
  <2> DEFINE of == {i \in DOMAIN p.matches : p.matches[i].view.series = c.series /\ p.matches[i].view.number = c.number}
             rank == IF of = {} THEN Len(p.matches) + 1 ELSE CHOOSE i \in of : TRUE
             disposition ==
               IF of = {} \/ \E d \in imported : d.series = c.series
               THEN Disposition(c.series, Slots, FALSE, p.task)
               ELSE p.matches[rank].disposition
  <2>1. /\ DOMAIN p.matches = 1..Len(p.matches) /\ Len(p.matches) \in Nat
        /\ \A i \in DOMAIN p.matches : p.matches[i].disposition \in Dispositions
    <3> DEFINE S == [view : VersionViews, selected : SUBSET Slots, rejected : BOOLEAN, disposition : Dispositions]
    <3>1. p.matches \in Seq(S)
      BY DEF Matches
    <3>2. \A m \in S : m.disposition \in Dispositions
      OBVIOUS
    <3> HIDE DEF S
    <3> QED
      BY <3>1, <3>2, LenProperties, ElementOfSeq
  <2>2. of # {} => rank \in DOMAIN p.matches
    OBVIOUS
  <2>3. rank \in Nat
    <3> HIDE DEF of
    <3>1. CASE of = {}
      BY <2>1, <3>1
    <3>2. CASE of # {}
      BY <2>1, <2>2, <3>2
    <3> QED
      BY <3>1, <3>2
  <2>4. disposition \in Dispositions
    <3> HIDE DEF of, rank
    <3> QED
      BY <2>1, <2>2, DispositionIs
  <2>5. Fit(c, p, imported) = <<Fitness(disposition), rank>> \o Place(c)
    BY DEF Fit
  <2> HIDE DEF of, rank, disposition
  <2>6. Fitness(disposition) \in Nat /\ Place(c) \in Tuples(4)
    BY <2>4, FitnessIs, PlaceIs
  <2> DEFINE a == Fitness(disposition)
             t == Place(c)
             fit == Fit(c, p, imported)
  <2>7. fit = <<a, rank>> \o t
    BY <2>5
  <2> HIDE DEF a, t, fit
  <2>8. a \in Nat /\ t \in Tuples(4)
    BY <2>6 DEF a, t
  <2>9. fit \in Tuples(6) /\ \A i \in 1..4 : fit[i + 2] = t[i]
    BY <2>3, <2>7, <2>8, JoinIs
  <2> QED
    BY <2>9 DEF fit, t
<1>2. ASSUME NEW c \in AllContributions, NEW d \in AllContributions, Fit(c, p, imported) = Fit(d, p, imported)
      PROVE  Id(c) = Id(d)
  <2>1. Place(c) \in Tuples(4) /\ Place(d) \in Tuples(4)
    BY PlaceIs
  <2>2. \A i \in 1..4 : Place(c)[i] = Place(d)[i]
    BY <1>1, <1>2
  <2>3. Place(c) = Place(d)
    BY <2>1, <2>2 DEF Tuples
  <2> QED
    BY <2>3, PlaceIs
<1> QED
  BY <1>1, <1>2

-----------------------------------------------------------------------------
(* What a composition works with, read from the store once, and what it    *)
(* makes of it.                                                            *)

Versions(p) == {p.matches[i].view : i \in DOMAIN p.matches}

All(w) == w.p.base \cup w.imported

Live(w) == w.canonical \ DOMAIN w.elim

Work(w) ==
  /\ Matches(w.p)
  /\ w.known = Closure({v \in Versions(w.p) : BaseFor(v, w.p) # {}}, w.p.at)
  /\ w.required = Requirements(w.known, w.p.at)
  /\ w.touched = Touching(w.known, w.p.at)
  /\ w.imported = Imported(w.required, w.p)
  /\ w.edges = {[sources |-> EndpointContributions(relations[i].source, All(w)),
                 targets |-> TargetContributions(i, w.p)] : i \in w.required}
  /\ w.canonical = Canonical(w.p.base, w.imported, w.optional, w.edges)
  /\ w.elim = Eliminated(w.canonical, w.imported, w.touched, w.p)
  /\ w.order = TopologicalOrder(Live(w), Pairs("precedes", w.touched, Live(w)))

\* What the owner does not need is left out.
Offered(w) == All(w) \ w.optional.removed

\* No revision is offered in two Versions.
Distinct(w) == \A c, d \in Offered(w) : Id(c) = Id(d) => c = d

RelationsFit ==
  \A i \in DOMAIN relations :
    /\ relations[i].source # relations[i].target
    /\ <<relations[i].source.kind, relations[i].target.kind>> \in KindsOf(relations[i].type)

LEMMA MatchIs ==
  ASSUME NEW p, Matches(p), NEW i \in DOMAIN p.matches
  PROVE  /\ p.matches[i].view \in VersionViews /\ p.matches[i].selected \in SUBSET Slots
         /\ p.matches[i].disposition \in Dispositions
<1> DEFINE S == [view : VersionViews, selected : SUBSET Slots, rejected : BOOLEAN, disposition : Dispositions]
<1>1. p.matches \in Seq(S)
  BY DEF Matches
<1>2. \A m \in S : m.view \in VersionViews /\ m.selected \in SUBSET Slots /\ m.disposition \in Dispositions
  OBVIOUS
<1> HIDE DEF S
<1>3. p.matches[i] \in S
  BY <1>1, LenProperties, ElementOfSeq
<1> QED
  BY <1>2, <1>3

LEMMA BaseIs ==
  ASSUME NEW p, Matches(p)
  PROVE  \A c \in p.base :
           /\ c \in AllContributions
           /\ \E v \in Versions(p) : /\ v \in VersionViews /\ c.series = v.series /\ c.number = v.number
                                     /\ c.revision = v.revised[c.k]
<1> SUFFICES ASSUME NEW c \in p.base
             PROVE  /\ c \in AllContributions
                    /\ \E v \in Versions(p) : /\ v \in VersionViews /\ c.series = v.series /\ c.number = v.number
                                              /\ c.revision = v.revised[c.k]
  OBVIOUS
<1>1. PICK i \in DOMAIN p.matches :
        c \in Contributions(p.matches[i].view, p.matches[i].selected, p.matches[i].disposition)
  BY DEF Matches, BaseOf
<1>2. p.matches[i].view \in VersionViews /\ p.matches[i].selected \in SUBSET Slots
  BY MatchIs
<1> QED
  BY <1>1, <1>2, ContributionsAre DEF Versions

LEMMA DependencyIs ==
  ASSUME NEW v \in VersionViews, NEW task
  PROVE  \A c \in Dependency(v, task).gives :
           /\ c \in AllContributions
           /\ c.series = v.series /\ c.number = v.number /\ c.revision = v.revised[c.k]
<1> DEFINE disposition == Disposition(v.series, Slots, FALSE, task)
<1>1. Dependency(v, task).gives \subseteq Contributions(v, Slots, disposition)
  BY DEF Dependency
<1>2. Slots \in SUBSET Slots
  OBVIOUS
<1> HIDE DEF disposition
<1> QED
  BY <1>1, <1>2, ContributionsAre

LEMMA ResolvedIs ==
  ASSUME LibraryTypes, NEW ref, Resolves(ref)
  PROVE  /\ ref.id[1] \in Series /\ ref.kind \in Parts
         /\ ref.kind = "version" => current[ref.id[1]] = ref.id[2]
  BY DEF LibraryTypes, Resolves, IsCurrent, Parts

LEMMA ImportedIs ==
  ASSUME LibraryTypes, NEW p, NEW required
  PROVE  \A c \in Imported(required, p) : \E i \in required :
           /\ Resolves(relations[i].target) /\ c.series = relations[i].target.id[1]
           /\ c \in AllContributions /\ c.series \in Series
           /\ c \in TargetContributions(i, p) /\ c \in Dependency(ViewOf(c.series), p.task).gives
           /\ BaseFor(ViewOf(c.series), p) = {}
           /\ c.number = current[c.series] /\ c.revision = revised[c.series][c.k]
<1> SUFFICES ASSUME NEW c \in Imported(required, p)
             PROVE  \E i \in required :
                      /\ Resolves(relations[i].target) /\ c.series = relations[i].target.id[1]
                      /\ c \in AllContributions /\ c.series \in Series
                      /\ c \in TargetContributions(i, p) /\ c \in Dependency(ViewOf(c.series), p.task).gives
                      /\ BaseFor(ViewOf(c.series), p) = {}
                      /\ c.number = current[c.series] /\ c.revision = revised[c.series][c.k]
  OBVIOUS
<1>1. PICK i \in required : /\ Resolves(relations[i].target)
                            /\ BaseFor(ViewOf(relations[i].target.id[1]), p) = {}
                            /\ c \in TargetContributions(i, p)
  BY DEF Imported
<1> DEFINE s == relations[i].target.id[1]
<1>2. s \in Series
  BY <1>1, ResolvedIs
<1>3. c \in Dependency(ViewOf(s), p.task).gives
  BY <1>1 DEF TargetContributions
<1>4. ViewOf(s) \in VersionViews /\ ViewOf(s).series = s /\ ViewOf(s).number = current[s] /\ ViewOf(s).revised = revised[s]
  BY <1>2, ViewsAre
<1>5. c \in AllContributions /\ c.series = s /\ c.number = current[s] /\ c.revision = revised[s][c.k]
  BY <1>3, <1>4, DependencyIs
<1> QED
  BY <1>1, <1>2, <1>3, <1>5

\* What is offered is of Versions that are known.
LEMMA OfferedIs ==
  ASSUME LibraryTypes, NEW w, Work(w)
  PROVE  \A c \in All(w) :
           /\ c \in AllContributions
           /\ \E v \in w.known : v.series = c.series /\ v.number = c.number
<1> DEFINE matched == {v \in Versions(w.p) : BaseFor(v, w.p) # {}}
<1>1. /\ matched \subseteq w.known
      /\ \A i \in w.required : Resolves(relations[i].target) => ViewOf(relations[i].target.id[1]) \in w.known
  <2>1. w.known = Closure(matched, w.p.at) /\ w.required = Requirements(w.known, w.p.at) /\ active \subseteq Series
    BY DEF Work, LibraryTypes
  <2> HIDE DEF matched
  <2> QED
    BY <2>1, ClosureIs
<1>2. ASSUME NEW c \in w.p.base
      PROVE  c \in AllContributions /\ \E v \in w.known : v.series = c.series /\ v.number = c.number
  <2>1. Matches(w.p)
    BY DEF Work
  <2>2. PICK v \in Versions(w.p) : c.series = v.series /\ c.number = v.number
    BY <2>1, BaseIs
  <2>3. v \in w.known
    BY <1>1, <2>2 DEF BaseFor
  <2> QED
    BY <2>1, <2>2, <2>3, BaseIs
<1>3. ASSUME NEW c \in w.imported
      PROVE  c \in AllContributions /\ \E v \in w.known : v.series = c.series /\ v.number = c.number
  <2>1. w.imported = Imported(w.required, w.p)
    BY DEF Work
  <2>2. PICK i \in w.required :
          /\ Resolves(relations[i].target) /\ c.series = relations[i].target.id[1]
          /\ c \in AllContributions /\ c.series \in Series /\ c.number = current[c.series]
    BY <2>1, ImportedIs
  <2>3. ViewOf(c.series) \in w.known
    BY <1>1, <2>2
  <2> QED
    BY <2>2, <2>3, ViewsAre
<1> QED
  BY <1>2, <1>3 DEF All

\* The endpoint of a contribution that is offered is known.
LEMMA EndpointKnown ==
  ASSUME LibraryTypes, NEW w, Work(w), NEW cs \in SUBSET All(w), NEW ref, NEW c \in EndpointContributions(ref, cs)
  PROVE  Known(ref, w.known)
<1>1. c \in All(w) /\ \/ ref.kind = "version" /\ ref.id = <<c.series, c.number>>
                      \/ ref.kind = "component" /\ ref.id = <<c.series, c.k>>
  BY DEF EndpointContributions
<1>2. PICK v \in w.known : v.series = c.series /\ v.number = c.number
  BY <1>1, OfferedIs
<1> QED
  BY <1>1, <1>2 DEF Known

LEMMA OfferedFinite ==
  ASSUME LibraryTypes, NEW w, Work(w), NEW S \in SUBSET All(w)
  PROVE  IsFiniteSet(S)
<1>1. S \in SUBSET AllContributions
  BY OfferedIs
<1> QED
  BY <1>1, FinitelyMany, FS_Subset

LEMMA CanonicalIs ==
  ASSUME LibraryTypes, NEW w, Work(w)
  PROVE  w.canonical \subseteq Offered(w) /\ Offered(w) \subseteq All(w)
<1> DEFINE cs == Offered(w)
           reached == Reachable(cs \ w.imported, cs, w.edges)
<1>1. cs \in SUBSET All(w)
  BY DEF Offered
<1>2. IsFiniteSet(cs)
  BY <1>1, OfferedFinite
<1>3. w.canonical = (cs \ w.imported) \cup reached
  BY DEF Work, Canonical, Offered, All
<1> HIDE DEF cs
<1>4. reached \subseteq cs
  BY <1>2, ReachableIs
<1> QED
  BY <1>1, <1>3, <1>4 DEF cs

\* A composition that fails for its identifiers has a Version that was revised since.
LEMMA StaleIs ==
  ASSUME LibraryTypes, NEW w, Work(w), ~Distinct(w)
  PROVE  \E v \in Versions(w.p) : v \in VersionViews /\ v.number <= current[v.series] /\ ~IsCurrent(v.series, v.number)
<1>1. PICK c \in Offered(w), d \in Offered(w) : Id(c) = Id(d) /\ c # d
  BY DEF Distinct
<1>2. c \in AllContributions /\ d \in AllContributions /\ c.number # d.number /\ c.series = d.series
  <2>1. c \in AllContributions /\ d \in AllContributions
    BY <1>1, CanonicalIs, OfferedIs
  <2> QED
    BY <1>1, <2>1, SameContribution DEF Id
<1>3. Matches(w.p) /\ w.imported = Imported(w.required, w.p)
  BY DEF Work
<1>4. ASSUME NEW a, NEW b, a \in w.p.base, b \in w.imported, a.series = b.series, a.number # b.number
      PROVE  \E v \in Versions(w.p) : v \in VersionViews /\ v.number <= current[v.series] /\ ~IsCurrent(v.series, v.number)
  <2>1. PICK i \in DOMAIN w.p.matches :
          LET v == w.p.matches[i].view IN v \in VersionViews /\ a.series = v.series /\ a.number = v.number
    BY <1>3, <1>4, BaseIs DEF Versions
  <2> DEFINE v == w.p.matches[i].view
  <2>2. v \in Versions(w.p) /\ v \in VersionViews /\ v.number <= current[v.series]
    BY <1>3, <2>1 DEF Versions, Matches
  <2>3. b.number = current[b.series]
    BY <1>3, <1>4, ImportedIs
  <2>4. ~IsCurrent(v.series, v.number)
    BY <1>4, <2>1, <2>3 DEF IsCurrent
  <2> QED
    BY <2>2, <2>4
<1>5. CASE c \in w.p.base /\ d \in w.p.base
  <2>1. PICK i \in DOMAIN w.p.matches :
          c.series = w.p.matches[i].view.series /\ c.number = w.p.matches[i].view.number
    BY <1>3, <1>5, BaseIs DEF Versions
  <2>2. PICK j \in DOMAIN w.p.matches :
          d.series = w.p.matches[j].view.series /\ d.number = w.p.matches[j].view.number
    BY <1>3, <1>5, BaseIs DEF Versions
  <2> QED
    BY <1>2, <1>3, <2>1, <2>2 DEF Matches
<1>6. CASE c \in w.imported /\ d \in w.imported
  BY <1>2, <1>3, <1>6, ImportedIs
<1>7. c \in All(w) /\ d \in All(w)
  BY <1>1, CanonicalIs
<1> QED
  BY <1>2, <1>4, <1>5, <1>6, <1>7 DEF All

\* The code counts identifiers.
LEMMA DistinctIs ==
  ASSUME LibraryTypes, NEW w, Work(w)
  PROVE  Distinct(w) <=> Cardinality({Id(c) : c \in Offered(w)}) = Cardinality(Offered(w))
<1> DEFINE S == Offered(w)
           T == {Id(c) : c \in Offered(w)}
           f == [c \in S |-> Id(c)]
<1>1. IsFiniteSet(S)
  BY CanonicalIs, OfferedFinite
<1>2. f \in Surjection(S, T)
  BY DEF Surjection
<1>3. Distinct(w) <=> f \in Injection(S, T)
  <2>1. f \in [S -> T]
    OBVIOUS
  <2> QED
    BY <2>1 DEF Distinct, Injection, IsInjective
<1> HIDE DEF f, S, T
<1>4. Cardinality(T) = Cardinality(S) <=> f \in Injection(S, T)
  BY <1>1, <1>2, FS_Surjection
<1> QED
  BY <1>3, <1>4 DEF S, T

\* Of two that are not both kept, because they conflict or say the same, one is eliminated.
LEMMA LosersOut ==
  ASSUME LibraryTypes, NEW w, Work(w), Distinct(w), NEW c \in Live(w), NEW d \in Live(w), c # d
  PROVE  /\ Key(c) # Key(d)
         /\ <<c, d>> \notin Pairs("conflicts_with", w.touched \ Lifted(w.p.named, w.p.at), w.canonical)
<1> DEFINE canonical == w.canonical
           fit == [x \in canonical |-> Fit(x, w.p, w.imported)]
           conflicts == Pairs("conflicts_with", w.touched \ Lifted(w.p.named, w.p.at), canonical)
           better(a, b) == a # b /\ Less(fit[a], fit[b])
           over == [x \in canonical |-> {y \in canonical : better(y, x) /\ {<<x, y>>, <<y, x>>} \cap conflicts # {}}]
           same == [x \in canonical |-> {y \in canonical : Key(y) = Key(x) /\ better(y, x)}]
<1>1. DOMAIN w.elim = {x \in canonical : over[x] \cup same[x] # {}}
  <2>1. w.elim = Eliminated(canonical, w.imported, w.touched, w.p)
    BY DEF Work
  <2> QED
    BY <2>1 DEF Eliminated
<1>2. c \in canonical /\ d \in canonical /\ c \in AllContributions /\ d \in AllContributions /\ Id(c) # Id(d)
  <2>1. c \in canonical /\ d \in canonical /\ c \in Offered(w) /\ d \in Offered(w)
    BY CanonicalIs DEF Live
  <2> QED
    BY <2>1, CanonicalIs, OfferedIs DEF Distinct
<1>3. better(c, d) \/ better(d, c)
  <2>1. Matches(w.p)
    BY DEF Work
  <2>2. fit[c] \in Tuples(6) /\ fit[d] \in Tuples(6) /\ fit[c] # fit[d]
    BY <1>2, <2>1, FitIs
  <2>3. 6 \in Nat
    OBVIOUS
  <2> HIDE DEF fit
  <2>4. Less(fit[c], fit[d]) \/ Less(fit[d], fit[c])
    BY <2>2, <2>3, LessOrders
  <2> QED
    BY <2>4
<1> HIDE DEF fit, conflicts
<1>4. over[c] \cup same[c] = {} /\ over[d] \cup same[d] = {}
  BY <1>1, <1>2 DEF Live
<1> HIDE DEF canonical
<1>5. Key(c) # Key(d)
  BY <1>2, <1>3, <1>4
<1>6. <<c, d>> \notin conflicts
  BY <1>2, <1>3, <1>4
<1> QED
  BY <1>5, <1>6 DEF conflicts, canonical

\* The relations of a type are finitely many.
LEMMA EdgesFinite ==
  ASSUME NEW rs \in Seq(Declarations), NEW type
  PROVE  IsFiniteSet(Edges(rs, type))
<1> DEFINE is == {j \in DOMAIN rs : rs[j].type = type}
           f == [i \in is |-> <<rs[i].source, rs[i].target>>]
<1>1. IsFiniteSet(is)
  <2>1. DOMAIN rs = 1..Len(rs) /\ Len(rs) \in Int /\ 1 \in Int
    BY LenProperties
  <2>2. IsFiniteSet(1..Len(rs))
    BY <2>1, FS_Interval
  <2>3. is \in SUBSET (1..Len(rs))
    BY <2>1
  <2> HIDE DEF is
  <2> QED
    BY <2>2, <2>3, FS_Subset
<1>2. DOMAIN f = is /\ {f[i] : i \in DOMAIN f} = Edges(rs, type)
  BY DEF Edges
<1> HIDE DEF f, is
<1> QED
  BY <1>1, <1>2, ImageFinite

\* A precedence between contributions is one between their components.
LEMMA PrecedesIs ==
  ASSUME LibraryTypes, RelationsFit, NEW is \in SUBSET DOMAIN relations, NEW cs,
         NEW c, NEW d, <<c, d>> \in Pairs("precedes", is, cs)
  PROVE  /\ c \in cs /\ d \in cs
         /\ <<Component(c.series, c.k), Component(d.series, d.k)>> \in Edges(relations, "precedes")
<1>1. PICK i \in is : /\ relations[i].type = "precedes"
                      /\ c \in EndpointContributions(relations[i].source, cs)
                      /\ d \in EndpointContributions(relations[i].target, cs)
  BY DEF Pairs
<1>2. <<relations[i].source.kind, relations[i].target.kind>> = <<"component", "component">>
  BY <1>1 DEF RelationsFit, KindsOf
<1>3. relations[i].source.kind = "component" /\ relations[i].target.kind = "component"
  BY <1>2
<1>4. /\ c \in cs /\ relations[i].source.id = <<c.series, c.k>>
      /\ d \in cs /\ relations[i].target.id = <<d.series, d.k>>
  BY <1>1, <1>3 DEF EndpointContributions
<1>5. relations[i] \in Declarations
  BY LenProperties, ElementOfSeq DEF LibraryTypes
<1>6. \A ref \in {relations[i].source, relations[i].target} : ref = [kind |-> ref.kind, id |-> ref.id]
  BY <1>5, RelationsAssumption
<1>7. relations[i].source = Component(c.series, c.k) /\ relations[i].target = Component(d.series, d.k)
  BY <1>3, <1>4, <1>6 DEF Component
<1>8. <<relations[i].source, relations[i].target>> \in Edges(relations, "precedes")
  BY <1>1 DEF Edges
<1> QED
  BY <1>4, <1>7, <1>8

\* Where the relations have no cycle, all that is left is placed, in their order.
LEMMA OrderIs ==
  ASSUME LibraryTypes, RelationsFit, CycleFree(Edges(relations, "precedes")), NEW w, Work(w), Distinct(w)
  PROVE  /\ w.order \in Seq(Live(w)) /\ Len(w.order) = Cardinality(Live(w))
         /\ \A i, j \in DOMAIN w.order :
              <<w.order[i], w.order[j]>> \in Pairs("precedes", w.touched, Live(w)) => i < j
<1> DEFINE live == Live(w)
           before == Pairs("precedes", w.touched, live)
           node == [c \in live |-> Component(c.series, c.k)]
           edges == Edges(relations, "precedes")
<1>1. live \in SUBSET Offered(w) /\ live \in SUBSET All(w)
  BY CanonicalIs DEF Live
<1>2. IsFiniteSet(live) /\ live \subseteq AllContributions
  BY <1>1, OfferedFinite, OfferedIs
<1>3. /\ \A c \in live : Place(c) \in Tuples(4)
      /\ \A c, d \in live : Place(c) = Place(d) => c = d
  BY <1>1, <1>2, PlaceIs DEF Distinct
<1>4. w.touched \in SUBSET DOMAIN relations
  BY DEF Work, Touching, ValidAt
<1>5. ASSUME NEW N \in SUBSET live, N # {}
      PROVE  \E c \in N : \A b \in N : <<b, c>> \notin before
  <2> DEFINE nodes == {node[c] : c \in N}
  <2>1. nodes # {} /\ IsFiniteSet(edges)
    BY <1>5, EdgesFinite DEF LibraryTypes
  <2> HIDE DEF nodes, edges, node
  <2>2. PICK x \in nodes : \A y \in nodes : <<y, x>> \notin edges
    BY <2>1, SomeNodeIsFirst DEF edges
  <2>3. PICK c \in N : x = node[c]
    BY DEF nodes
  <2>4. ASSUME NEW b \in N PROVE <<b, c>> \notin before
    <3> SUFFICES ASSUME <<b, c>> \in before PROVE FALSE
      OBVIOUS
    <3>1. <<Component(b.series, b.k), Component(c.series, c.k)>> \in edges
      BY <1>4, PrecedesIs DEF edges
    <3>2. <<node[b], node[c]>> \in edges
      BY <3>1 DEF node
    <3> QED
      BY <2>2, <2>3, <3>2 DEF nodes
  <2> QED
    BY <2>4
<1>6. w.order = TopologicalOrder(live, before)
  BY DEF Work
<1> HIDE DEF live, before
<1>7. /\ w.order \in Seq(live) /\ Len(w.order) = Cardinality(live)
      /\ \A i, j \in DOMAIN w.order : <<w.order[i], w.order[j]>> \in before => i < j
  BY <1>2, <1>3, <1>5, <1>6, TopologicalIs
<1> QED
  BY <1>7 DEF live, before

-----------------------------------------------------------------------------
(* The plan that is composed.                                              *)

Selected(w) == {w.order[i] : i \in DOMAIN w.order}
Roots(w) == Selected(w) \ w.imported
Kept(w) == Roots(w) \cup Reachable(Roots(w), Selected(w), w.edges)

LEMMA KeptIs ==
  ASSUME LibraryTypes, NEW w, Work(w), w.order \in Seq(Live(w))
  PROVE  /\ Kept(w) \subseteq Selected(w) /\ Selected(w) \subseteq Live(w) /\ Roots(w) \subseteq Kept(w)
         /\ \A e \in w.edges : e.sources \cap Kept(w) # {} => e.targets \cap Selected(w) \subseteq Kept(w)
         /\ \A Z \in SUBSET Selected(w) :
              /\ Roots(w) \subseteq Z
              /\ \A e \in w.edges : e.sources \cap Z # {} => e.targets \cap Selected(w) \subseteq Z
              => Kept(w) \subseteq Z
<1> DEFINE S == Selected(w)
           R == Roots(w)
           reached == Reachable(R, S, w.edges)
<1>1. S \subseteq Live(w) /\ R \subseteq S
  BY DEF Selected, Roots
<1>2. IsFiniteSet(S)
  <2>1. S \in SUBSET All(w)
    BY <1>1, CanonicalIs DEF Live
  <2> QED
    BY <2>1, OfferedFinite
<1> HIDE DEF S, R
<1>3. /\ R \cap S \subseteq reached /\ reached \subseteq S
      /\ \A e \in w.edges : e.sources \cap reached # {} => e.targets \cap S \subseteq reached
      /\ \A Z \in SUBSET S :
           /\ R \cap S \subseteq Z
           /\ \A e \in w.edges : e.sources \cap Z # {} => e.targets \cap S \subseteq Z
           => reached \subseteq Z
  BY <1>2, ReachableIs
<1>4. Kept(w) = reached
  BY <1>1, <1>3 DEF Kept, R, S
<1> HIDE DEF reached
<1>5. R \cap S = R
  BY <1>1
<1> QED
  BY <1>1, <1>3, <1>4, <1>5 DEF R, S

\* What is put together of it.
Plans(w, q) ==
  /\ q.phase = "composed" /\ q.at = w.p.at /\ q.named = w.p.named /\ q.base = w.p.base
  /\ q.upto = Len(relations)
  /\ {q.order[i] : i \in DOMAIN q.order} = Kept(w)
  /\ \E at \in [DOMAIN q.order -> DOMAIN w.order] : \A i, j \in DOMAIN q.order :
       q.order[i] = w.order[at[i]] /\ (at[i] < at[j] => i < j)
  /\ q.disposition = "ready_for_approval" =>
       \A e \in w.edges : e.sources \cap Kept(w) # {} =>
         /\ e.targets # {}
         /\ \A c \in e.targets \ Kept(w) :
              c \in DOMAIN w.elim /\ w.elim[c] \in Selected(w) /\ SameDependency(c, w.elim[c], w.touched)

LEMMA PlansIs ==
  ASSUME LibraryTypes, NEW w, Work(w), w.order \in Seq(Live(w)),
         NEW q, q = Composed(w.p, w.imported, w.edges, w.optional, w.touched, w.order, w.elim)
  PROVE  Plans(w, q)
<1> DEFINE kept == Kept(w)
           places == {i \in DOMAIN w.order : w.order[i] \in kept}
           size == Cardinality(places)
           unmet(e) ==
             /\ e.sources \cap kept # {}
             /\ \/ e.targets = {}
                \/ \E c \in e.targets \ kept :
                     ~(c \in DOMAIN w.elim /\ w.elim[c] \in Selected(w) /\ SameDependency(c, w.elim[c], w.touched))
<1>1. /\ q.phase = "composed" /\ q.at = w.p.at /\ q.named = w.p.named /\ q.base = w.p.base
      /\ q.upto = Len(relations) /\ q.order = Entries(w.order, places)
  BY DEF Composed, Kept, Roots, Selected
<1>2. q.disposition = "ready_for_approval" => \A e \in w.edges : ~unmet(e)
  BY DEF Composed, Kept, Roots, Selected
<1> HIDE DEF kept
<1>3. DOMAIN w.order = 1..Len(w.order) /\ Len(w.order) \in Nat
  BY LenProperties
<1>4. places \in SUBSET Nat /\ IsFiniteSet(places)
  <2>1. places \in SUBSET (1..Len(w.order)) /\ 1 \in Int /\ Len(w.order) \in Int
    BY <1>3
  <2>2. IsFiniteSet(1..Len(w.order))
    BY <2>1, FS_Interval
  <2>3. (1..Len(w.order)) \subseteq Nat
    BY <1>3
  <2> HIDE DEF places
  <2> QED
    BY <2>1, <2>2, <2>3, FS_Subset
<1>5. PICK at : Enumerates(at, places) /\ q.order = [n \in 1..Cardinality(places) |-> w.order[at[n]]]
  <2> HIDE DEF places
  <2>1. \E at : Enumerates(at, places) /\ Entries(w.order, places) = [n \in 1..Cardinality(places) |-> w.order[at[n]]]
    BY <1>4, EntriesAre
  <2> QED
    BY <1>1, <2>1
<1>6. DOMAIN q.order = 1..size /\ \A n \in 1..size : q.order[n] = w.order[at[n]] /\ at[n] \in places
  <2> HIDE DEF places
  <2> QED
    BY <1>5 DEF Enumerates
<1>7. {q.order[i] : i \in DOMAIN q.order} = kept
  <2>1. ASSUME NEW i \in DOMAIN q.order PROVE q.order[i] \in kept
    BY <1>6
  <2>2. ASSUME NEW c \in kept PROVE \E i \in DOMAIN q.order : q.order[i] = c
    <3>1. c \in Selected(w)
      BY KeptIs DEF kept
    <3>2. PICK i \in places : w.order[i] = c
      BY <3>1 DEF Selected
    <3>3. PICK n \in 1..size : at[n] = i
      <4> HIDE DEF places
      <4> QED
        BY <1>5 DEF Enumerates
    <3> HIDE DEF places, size
    <3> QED
      BY <1>6, <3>2, <3>3
  <2> QED
    BY <2>1, <2>2
<1>8. /\ at \in [DOMAIN q.order -> DOMAIN w.order]
      /\ \A i, j \in DOMAIN q.order : q.order[i] = w.order[at[i]] /\ (at[i] < at[j] => i < j)
  <2>1. places \subseteq DOMAIN w.order
    OBVIOUS
  <2> HIDE DEF places
  <2>2. at \in [1..size -> places] /\ \A m, n \in 1..size : at[m] < at[n] => m < n
    BY <1>5 DEF Enumerates
  <2> HIDE DEF size
  <2> QED
    BY <1>6, <2>1, <2>2
<1>9. \A e \in w.edges : ~unmet(e) /\ e.sources \cap kept # {} =>
        /\ e.targets # {}
        /\ \A c \in e.targets \ kept :
             c \in DOMAIN w.elim /\ w.elim[c] \in Selected(w) /\ SameDependency(c, w.elim[c], w.touched)
  OBVIOUS
<1> HIDE DEF unmet
<1> QED
  BY <1>1, <1>2, <1>7, <1>8, <1>9 DEF Plans, kept

-----------------------------------------------------------------------------
(* It keeps what the relations say.                                        *)

InOrder(q) == {q.order[i] : i \in DOMAIN q.order}

Valid(q, type) ==
  {relations[i] : i \in {j \in 1..q.upto : relations[j].type = type
                                          /\ relations[j].from <= q.at /\ q.at < relations[j].to}}

KeepsOrder(q) ==
  \A r \in Valid(q, "precedes"), i, j \in DOMAIN q.order :
    /\ q.order[i] \in EndpointContributions(r.source, InOrder(q))
    /\ q.order[j] \in EndpointContributions(r.target, InOrder(q))
    => i < j

ResolvesConflicts(q) ==
  \A r \in Valid(q, "conflicts_with"), c, d \in InOrder(q) :
    c # d /\ c \in EndpointContributions(r.source, InOrder(q)) /\ d \in EndpointContributions(r.target, InOrder(q))
    => \E o \in q.named : relations[o.relation] = r /\ o.scope = "task" /\ q.at < o.until

MeetsRequirements(q) ==
  \A r \in Valid(q, "requires") :
    EndpointContributions(r.source, InOrder(q)) # {} =>
      /\ r.target.kind \in Parts
      /\ \E c \in InOrder(q) :
           /\ c.series = r.target.id[1]
           /\ r.target.kind = "version" => c.number = r.target.id[2]

JustifiesImports(q) ==
  \A c \in InOrder(q) \ q.base :
    \E r \in Valid(q, "requires") :
      /\ EndpointContributions(r.source, InOrder(q)) # {}
      /\ r.target.kind \in Parts /\ r.target.id[1] = c.series

SaysOnce(q) == \A c, d \in InOrder(q) : Key(c) = Key(d) => c = d

\* What is an endpoint is one in every set that has it.
LEMMA EndpointIn ==
  ASSUME NEW ref, NEW cs, NEW ds, NEW c \in EndpointContributions(ref, cs)
  PROVE  c \in cs /\ (c \in ds => c \in EndpointContributions(ref, ds))
  BY DEF EndpointContributions

LEMMA TargetIs ==
  ASSUME LibraryTypes, NEW p, NEW i, NEW c \in TargetContributions(i, p)
  PROVE  /\ Resolves(relations[i].target) /\ relations[i].target.id[1] \in Series
         /\ c.series = relations[i].target.id[1] /\ c.number = current[c.series]
<1> DEFINE s == relations[i].target.id[1]
           v == ViewOf(s)
<1>1. Resolves(relations[i].target) /\ (c \in BaseFor(v, p) \/ c \in Dependency(v, p.task).gives)
  BY DEF TargetContributions
<1>2. s \in Series
  BY <1>1, ResolvedIs
<1>3. v \in VersionViews /\ v.series = s /\ v.number = current[s]
  BY <1>2, ViewsAre
<1> HIDE DEF s, v
<1>4. c.series = s /\ c.number = current[s]
  BY <1>1, <1>3, DependencyIs DEF BaseFor
<1> QED
  BY <1>1, <1>2, <1>4 DEF s

\* The relations that hold for the plan and touch it are those that were read.
LEMMA ValidRead ==
  ASSUME LibraryTypes, NEW w, Work(w), NEW q, q.at = w.p.at, q.upto = Len(relations),
         NEW type, NEW r \in Valid(q, type)
  PROVE  \E x \in ValidAt(w.p.at) :
           /\ r = relations[x] /\ relations[x].type = type
           /\ Known(r.source, w.known) \/ Known(r.target, w.known) => x \in w.touched
           /\ Known(r.source, w.known) /\ type = "requires" => x \in w.required
<1>1. PICK x \in 1..Len(relations) : /\ r = relations[x] /\ relations[x].type = type
                                     /\ relations[x].from <= w.p.at /\ w.p.at < relations[x].to
  BY DEF Valid
<1>2. x \in DOMAIN relations
  BY <1>1, LenProperties DEF LibraryTypes
<1>3. x \in ValidAt(w.p.at)
  BY <1>1, <1>2 DEF ValidAt
<1>4. w.touched = Touching(w.known, w.p.at) /\ w.required = Requirements(w.known, w.p.at)
  BY DEF Work
<1> QED
  BY <1>1, <1>3, <1>4 DEF Touching, Requirements

\* What the lemmas about a composed plan assume of it.
Composing(w, q) ==
  /\ LibraryTypes /\ RelationsFit /\ CycleFree(Edges(relations, "precedes"))
  /\ Work(w) /\ Distinct(w) /\ Plans(w, q)

LEMMA InPlanIs ==
  ASSUME NEW w, NEW q, Composing(w, q)
  PROVE  /\ w.order \in Seq(Live(w)) /\ InOrder(q) = Kept(w)
         /\ Kept(w) \subseteq Selected(w) /\ Selected(w) \subseteq Live(w)
         /\ Live(w) \subseteq w.canonical /\ w.canonical \subseteq All(w)
         /\ q.at = w.p.at /\ q.named = w.p.named /\ q.base = w.p.base /\ q.upto = Len(relations)
<1>1. w.order \in Seq(Live(w))
  BY OrderIs DEF Composing
<1> QED
  BY <1>1, KeptIs, CanonicalIs DEF Composing, Plans, InOrder, Live

\* A relation of the plan with an endpoint in it was read.
LEMMA ReadIs ==
  ASSUME NEW w, NEW q, Composing(w, q), NEW type, NEW r \in Valid(q, type), NEW c,
         c \in EndpointContributions(r.source, InOrder(q)) \/ c \in EndpointContributions(r.target, InOrder(q))
  PROVE  \E x \in w.touched :
           /\ r = relations[x] /\ relations[x].type = type /\ x \in ValidAt(w.p.at)
           /\ c \in EndpointContributions(r.source, InOrder(q)) /\ type = "requires" => x \in w.required
<1>1. InOrder(q) \in SUBSET All(w) /\ q.at = w.p.at /\ q.upto = Len(relations)
  BY InPlanIs
<1>2. LibraryTypes /\ Work(w)
  BY DEF Composing
<1>3. /\ c \in EndpointContributions(r.source, InOrder(q)) => Known(r.source, w.known)
      /\ c \in EndpointContributions(r.target, InOrder(q)) => Known(r.target, w.known)
  BY <1>1, <1>2, EndpointKnown
<1> QED
  BY <1>1, <1>2, <1>3, ValidRead

LEMMA ComposedOrder ==
  ASSUME NEW w, NEW q, Composing(w, q)
  PROVE  KeepsOrder(q)
<1> SUFFICES ASSUME NEW r \in Valid(q, "precedes"), NEW i \in DOMAIN q.order, NEW j \in DOMAIN q.order,
                    q.order[i] \in EndpointContributions(r.source, InOrder(q)),
                    q.order[j] \in EndpointContributions(r.target, InOrder(q))
             PROVE  i < j
  BY DEF KeepsOrder
<1>1. PICK x \in w.touched : r = relations[x] /\ relations[x].type = "precedes"
  BY ReadIs
<1>2. q.order[i] \in Live(w) /\ q.order[j] \in Live(w)
  BY InPlanIs, EndpointIn
<1>3. <<q.order[i], q.order[j]>> \in Pairs("precedes", w.touched, Live(w))
  <2>1. q.order[i] \in EndpointContributions(r.source, Live(w)) /\ q.order[j] \in EndpointContributions(r.target, Live(w))
    BY <1>2, EndpointIn
  <2> QED
    BY <1>1, <2>1 DEF Pairs
<1>4. PICK at \in [DOMAIN q.order -> DOMAIN w.order] : \A m, n \in DOMAIN q.order :
        q.order[m] = w.order[at[m]] /\ (at[m] < at[n] => m < n)
  BY DEF Composing, Plans
<1>5. at[i] < at[j]
  <2>1. at[i] \in DOMAIN w.order /\ at[j] \in DOMAIN w.order
    BY <1>4
  <2>2. <<w.order[at[i]], w.order[at[j]]>> \in Pairs("precedes", w.touched, Live(w))
    BY <1>3, <1>4
  <2> QED
    BY <2>1, <2>2, OrderIs DEF Composing
<1> QED
  BY <1>4, <1>5

LEMMA ComposedConflicts ==
  ASSUME NEW w, NEW q, Composing(w, q)
  PROVE  ResolvesConflicts(q)
<1> SUFFICES ASSUME NEW r \in Valid(q, "conflicts_with"), NEW c \in InOrder(q), NEW d \in InOrder(q), c # d,
                    c \in EndpointContributions(r.source, InOrder(q)),
                    d \in EndpointContributions(r.target, InOrder(q))
             PROVE  \E o \in q.named : relations[o.relation] = r /\ o.scope = "task" /\ q.at < o.until
  BY DEF ResolvesConflicts
<1>1. PICK x \in w.touched : r = relations[x] /\ relations[x].type = "conflicts_with"
  BY ReadIs
<1>2. c \in Live(w) /\ d \in Live(w) /\ c \in w.canonical /\ d \in w.canonical
  BY InPlanIs
<1>3. x \in Lifted(w.p.named, w.p.at)
  <2> SUFFICES ASSUME x \notin Lifted(w.p.named, w.p.at) PROVE FALSE
    OBVIOUS
  <2>1. c \in EndpointContributions(r.source, w.canonical) /\ d \in EndpointContributions(r.target, w.canonical)
    BY <1>2, EndpointIn
  <2>2. <<c, d>> \in Pairs("conflicts_with", w.touched \ Lifted(w.p.named, w.p.at), w.canonical)
    BY <1>1, <2>1 DEF Pairs
  <2> QED
    BY <1>2, <2>2, LosersOut DEF Composing
<1>4. PICK o \in w.p.named : o.relation = x /\ w.p.at < o.until /\ o.scope = "task"
  BY <1>3 DEF Lifted
<1>5. q.named = w.p.named /\ q.at = w.p.at
  BY InPlanIs
<1> QED
  BY <1>1, <1>4, <1>5

LEMMA ComposedRequirements ==
  ASSUME NEW w, NEW q, Composing(w, q), q.disposition = "ready_for_approval"
  PROVE  MeetsRequirements(q)
<1> SUFFICES ASSUME NEW r \in Valid(q, "requires"), EndpointContributions(r.source, InOrder(q)) # {}
             PROVE  /\ r.target.kind \in Parts
                    /\ \E c \in InOrder(q) :
                         /\ c.series = r.target.id[1]
                         /\ r.target.kind = "version" => c.number = r.target.id[2]
  BY DEF MeetsRequirements
<1>1. PICK b : b \in EndpointContributions(r.source, InOrder(q))
  OBVIOUS
<1>2. PICK x \in w.required : r = relations[x]
  BY <1>1, ReadIs
<1> DEFINE e == [sources |-> EndpointContributions(relations[x].source, All(w)),
                 targets |-> TargetContributions(x, w.p)]
<1>3. LibraryTypes /\ Work(w) /\ w.order \in Seq(Live(w)) /\ InOrder(q) = Kept(w) /\ Kept(w) \subseteq Selected(w)
      /\ Selected(w) \subseteq All(w)
  BY InPlanIs DEF Composing
<1>4. e \in w.edges
  BY <1>3 DEF Work
<1>5. e.sources \cap Kept(w) # {}
  <2>1. b \in Kept(w) /\ b \in All(w)
    BY <1>1, <1>3, EndpointIn
  <2>2. b \in EndpointContributions(r.source, All(w))
    BY <1>1, <2>1, EndpointIn
  <2> QED
    BY <1>2, <2>1, <2>2
<1>6. e.targets = TargetContributions(x, w.p)
  OBVIOUS
<1> HIDE DEF e
<1>7. /\ e.targets # {}
      /\ \A c \in e.targets \ Kept(w) :
           c \in DOMAIN w.elim /\ w.elim[c] \in Selected(w) /\ SameDependency(c, w.elim[c], w.touched)
  BY <1>4, <1>5 DEF Composing, Plans
<1>8. PICK t : t \in e.targets
  BY <1>7
<1>9. /\ Resolves(r.target) /\ r.target.id[1] \in Series
      /\ t.series = r.target.id[1] /\ t.number = current[t.series]
  BY <1>2, <1>3, <1>6, <1>8, TargetIs
<1>10. r.target.kind \in Parts /\ (r.target.kind = "version" => t.number = r.target.id[2])
  BY <1>3, <1>9, ResolvedIs
<1>11. \E c \in Kept(w) : c.series = t.series /\ c.number = t.number
  <2>1. CASE t \in Kept(w)
    BY <2>1
  <2>2. CASE t \notin Kept(w)
    <3> DEFINE u == w.elim[t]
    <3>1. u \in Selected(w) /\ u.series = t.series /\ u.number = t.number
      BY <1>7, <1>8, <2>2 DEF SameDependency
    <3> HIDE DEF u
    <3>2. u \in Kept(w)
      <4>1. CASE u \notin w.imported
        BY <1>3, <3>1, <4>1, KeptIs DEF Roots
      <4>2. CASE u \in w.imported
        <5>1. BaseFor(ViewOf(u.series), w.p) = {} /\ u \in Dependency(ViewOf(u.series), w.p.task).gives
          <6>1. w.imported = Imported(w.required, w.p)
            BY <1>3 DEF Work
          <6> DEFINE p == w.p
                     required == w.required
          <6>2. LibraryTypes /\ u \in Imported(required, p)
            BY <1>3, <4>2, <6>1
          <6> HIDE DEF p, required
          <6>3. PICK i \in required :
                  BaseFor(ViewOf(u.series), p) = {} /\ u \in Dependency(ViewOf(u.series), p.task).gives
            BY <6>2, ImportedIs
          <6> QED
            BY <6>3 DEF p
        <5>2. u \in TargetContributions(x, w.p)
          BY <1>2, <1>9, <3>1, <5>1 DEF TargetContributions
        <5> QED
          BY <1>3, <1>4, <1>5, <1>6, <3>1, <5>2, KeptIs
      <4> QED
        BY <4>1, <4>2
    <3> QED
      BY <3>1, <3>2
  <2> QED
    BY <2>1, <2>2
<1> QED
  BY <1>3, <1>9, <1>10, <1>11

LEMMA ComposedImports ==
  ASSUME NEW w, NEW q, Composing(w, q)
  PROVE  JustifiesImports(q)
<1> DEFINE Justified(c) == \E r \in Valid(q, "requires") :
                             /\ EndpointContributions(r.source, InOrder(q)) # {}
                             /\ r.target.kind \in Parts /\ r.target.id[1] = c.series
           Z == {c \in Kept(w) : c \in w.p.base \/ Justified(c)}
<1>1. LibraryTypes /\ Work(w) /\ w.order \in Seq(Live(w)) /\ InOrder(q) = Kept(w) /\ Kept(w) \subseteq Selected(w)
      /\ Selected(w) \subseteq All(w) /\ q.base = w.p.base /\ q.at = w.p.at /\ q.upto = Len(relations)
  BY InPlanIs DEF Composing
<1>2. Roots(w) \subseteq Z
  <2>1. Roots(w) \subseteq Kept(w)
    BY <1>1, KeptIs
  <2>2. Roots(w) \subseteq w.p.base
    BY <1>1 DEF Roots, All
  <2> QED
    BY <2>1, <2>2
<1>3. ASSUME NEW e \in w.edges, e.sources \cap Z # {}, NEW c \in e.targets \cap Selected(w)
      PROVE  c \in Z
  <2>1. PICK x \in w.required : /\ e.sources = EndpointContributions(relations[x].source, All(w))
                                /\ e.targets = TargetContributions(x, w.p)
    <3>1. PICK x \in w.required : e = [sources |-> EndpointContributions(relations[x].source, All(w)),
                                       targets |-> TargetContributions(x, w.p)]
      BY <1>1 DEF Work
    <3> QED
      BY <3>1
  <2>2. PICK b \in Z : b \in e.sources
    BY <1>3
  <2>3. b \in Kept(w) /\ c \in Kept(w)
    <3>1. b \in Kept(w)
      BY <2>2
    <3> QED
      BY <1>1, <1>3, <2>2, <3>1, KeptIs
  <2>4. b \in EndpointContributions(relations[x].source, InOrder(q))
    BY <1>1, <2>1, <2>2, <2>3, EndpointIn
  <2>5. relations[x].target.kind \in Parts /\ relations[x].target.id[1] = c.series
    BY <1>1, <1>3, <2>1, TargetIs, ResolvedIs
  <2>6. relations[x] \in Valid(q, "requires")
    <3>1. x \in ValidAt(w.p.at) /\ relations[x].type = "requires"
      BY <1>1 DEF Work, Requirements
    <3>2. x \in 1..Len(relations) /\ relations[x].from <= w.p.at /\ w.p.at < relations[x].to
      BY <1>1, <3>1, LenProperties DEF ValidAt, LibraryTypes
    <3> QED
      BY <1>1, <3>1, <3>2 DEF Valid
  <2>7. Justified(c)
    BY <2>4, <2>5, <2>6
  <2> HIDE DEF Justified
  <2> QED
    BY <2>3, <2>7
<1>4. Kept(w) \subseteq Z
  <2>1. Z \in SUBSET Selected(w)
    BY <1>1
  <2> HIDE DEF Z
  <2> QED
    BY <1>1, <1>2, <1>3, <2>1, KeptIs
<1>5. \A c \in InOrder(q) \ q.base : Justified(c)
  <2> HIDE DEF Justified
  <2> QED
    BY <1>1, <1>4
<1> QED
  BY <1>5 DEF JustifiesImports

LEMMA ComposedOnce ==
  ASSUME NEW w, NEW q, Composing(w, q)
  PROVE  SaysOnce(q)
  BY InPlanIs, LosersOut DEF SaysOnce, Composing

-----------------------------------------------------------------------------
(* The invariant: what is declared fits together, what was matched is of   *)
(* Versions there were, and what was composed keeps the relations there    *)
(* were then.                                                              *)

LibraryFits ==
  /\ PlanningTypes /\ RelationsCoherent /\ RelationsFit
  /\ \A o \in overrides : o.relation \in DOMAIN relations

Keeps(q) ==
  /\ KeepsOrder(q) /\ ResolvesConflicts(q) /\ JustifiesImports(q) /\ SaysOnce(q)
  /\ q.disposition = "ready_for_approval" => MeetsRequirements(q)

Named(q) == \A o \in q.named : o.relation \in DOMAIN relations

Stale(v) == v \in VersionViews /\ v.number <= current[v.series] /\ ~IsCurrent(v.series, v.number)

PlanFits ==
  /\ plan.phase = "matched" => Matches(plan) /\ Named(plan)
  /\ plan.phase = "composed" =>
       plan = [phase |-> plan.phase, at |-> plan.at, task |-> plan.task, named |-> plan.named, upto |-> plan.upto,
               order |-> plan.order, base |-> plan.base, elim |-> plan.elim, pruned |-> plan.pruned,
               disposition |-> plan.disposition]
  /\ Composite => plan.upto \in 0..Len(relations) /\ Named(plan) /\ Keeps(plan)
  /\ plan.phase = "failed" => plan.reason # "composition_cycle" /\ \E v \in plan.matched : Stale(v)

PlanningInv == LibraryFits /\ PlanFits

LEMMA InvKeepsRelations == PlanningInv => PlanKeepsRelations
<1> SUFFICES ASSUME PlanningInv PROVE PlanKeepsRelations
  OBVIOUS
<1>1. PlanningTypes /\ RelationsCoherent
  BY DEF PlanningInv, LibraryFits
<1>2. Composite => Keeps(plan)
  BY DEF PlanningInv, PlanFits
<1>3. InPlan = InOrder(plan) /\ \A type : OfPlan(type) = Valid(plan, type)
  BY DEF InPlan, InOrder, OfPlan, Valid
<1>4. OrderKept
  BY <1>2, <1>3 DEF OrderKept, Keeps, KeepsOrder
<1>5. ConflictsResolved
  BY <1>2, <1>3 DEF ConflictsResolved, Keeps, ResolvesConflicts
<1>6. RequirementsMet
  BY <1>2, <1>3 DEF RequirementsMet, Approvable, Keeps, MeetsRequirements
<1>7. ImportsJustified
  BY <1>2, <1>3 DEF ImportsJustified, Keeps, JustifiesImports
<1>8. SaidOnce
  BY <1>2, <1>3 DEF SaidOnce, Keeps, SaysOnce
<1>9. FailsOnlyStale
  BY DEF PlanningInv, PlanFits, Stale, FailsOnlyStale
<1> QED
  BY <1>1, <1>4, <1>5, <1>6, <1>7, <1>8, <1>9 DEF PlanKeepsRelations

LEMMA PlanningInvInit == PlanningInit => PlanningInv
<1> SUFFICES ASSUME PlanningInit PROVE PlanningInv
  OBVIOUS
<1>1. /\ current = [s \in Series |-> 1] /\ active = Series /\ revised = [s \in Series |-> [k \in Slots |-> 1]]
      /\ relations = <<>> /\ overrides = {} /\ now = 0 /\ plan = [phase |-> "none"]
  BY DEF PlanningInit, LibraryInit, NoPlan
<1>2. 1 \in 1..MaxVersion /\ 0 \in 0..MaxTime
  BY RelationsAssumption
<1>3. PlanningTypes
  <2>1. current \in [Series -> 1..MaxVersion] /\ [k \in Slots |-> 1] \in [Slots -> 1..MaxVersion]
    BY <1>1, <1>2
  <2>2. revised \in [Series -> [Slots -> 1..MaxVersion]]
    BY <1>1, <2>1
  <2>3. relations \in Seq(Declarations)
    BY <1>1, EmptySeq
  <2>4. plan.phase = "none" /\ active \subseteq Series /\ now \in 0..MaxTime
    BY <1>1, <1>2
  <2> QED
    BY <2>1, <2>2, <2>3, <2>4 DEF PlanningTypes
<1>4. DOMAIN relations = {}
  BY <1>1
<1>5. RelationsCoherent
  BY <1>4 DEF RelationsCoherent, CycleFree, Edges
<1>6. RelationsFit
  BY <1>4 DEF RelationsFit
<1>7. LibraryFits
  BY <1>1, <1>3, <1>5, <1>6 DEF LibraryFits
<1>8. PlanFits
  <2>1. plan.phase = "none"
    BY <1>1
  <2> QED
    BY <2>1 DEF PlanFits, Composite
<1> QED
  BY <1>7, <1>8 DEF PlanningInv

\* While relations are added, Versions made and Experiences forgotten, a plan stays what it was.
LEMMA PlanStays ==
  ASSUME PlanFits, LibraryFits, UNCHANGED plan, LibraryFits',
         \A i \in DOMAIN relations : i \in DOMAIN relations' /\ relations'[i] = relations[i],
         \A s \in Series : current[s] <= current'[s],
         \A s \in Series : s \in active' /\ s \notin active => FALSE
  PROVE  PlanFits'
<1>1. /\ relations \in Seq(Declarations) /\ relations' \in Seq(Declarations)
      /\ current \in [Series -> 1..MaxVersion] /\ current' \in [Series -> 1..MaxVersion] /\ active \subseteq Series
  BY DEF LibraryFits, PlanningTypes
<1>2. /\ DOMAIN relations = 1..Len(relations) /\ Len(relations) \in Nat
      /\ DOMAIN relations' = 1..Len(relations') /\ Len(relations') \in Nat
  BY <1>1, LenProperties
<1>3. Len(relations) <= Len(relations')
  <2>1. Len(relations) >= 1 => Len(relations) \in DOMAIN relations
    BY <1>2
  <2> QED
    BY <1>2, <2>1
<1>4. \A s \in Series : current[s] \in Nat /\ current'[s] \in Nat
  <2>1. (1..MaxVersion) \subseteq Nat
    BY RelationsAssumption
  <2> QED
    BY <1>1, <2>1
<1>5. plan.phase = "matched" => (Matches(plan) /\ Named(plan))'
  <2> SUFFICES ASSUME plan.phase = "matched" PROVE (Matches(plan) /\ Named(plan))'
    OBVIOUS
  <2>1. Matches(plan) /\ Named(plan)
    BY DEF PlanFits
  <2>2. Named(plan)'
    BY <2>1 DEF Named
  <2>3. ASSUME NEW i \in DOMAIN plan.matches
        PROVE  plan.matches[i].view.number <= current'[plan.matches[i].view.series]
    <3>1. plan.matches[i].view \in VersionViews
      BY <2>1, MatchIs
    <3>2. plan.matches[i].view.series \in Series /\ plan.matches[i].view.number \in 1..MaxVersion
      BY <3>1 DEF VersionViews
    <3>3. plan.matches[i].view.number <= current[plan.matches[i].view.series]
      BY <2>1 DEF Matches
    <3>4. plan.matches[i].view.number \in Nat
      BY <3>2, RelationsAssumption
    <3> QED
      BY <1>4, <3>2, <3>3, <3>4
  <2> QED
    BY <2>1, <2>2, <2>3 DEF Matches
<1>6. Composite => (plan.upto \in 0..Len(relations) /\ Named(plan) /\ Keeps(plan))'
  <2> SUFFICES ASSUME Composite PROVE (plan.upto \in 0..Len(relations) /\ Named(plan) /\ Keeps(plan))'
    OBVIOUS
  <2>1. plan.upto \in 0..Len(relations) /\ Named(plan) /\ Keeps(plan)
    BY DEF PlanFits
  <2>2. \A j \in 1..plan.upto : j \in DOMAIN relations /\ relations'[j] = relations[j]
    BY <1>2, <2>1
  <2>3. \A type : Valid(plan, type)' = Valid(plan, type)
    BY <2>2 DEF Valid
  <2>4. InOrder(plan)' = InOrder(plan)
    BY DEF InOrder
  <2>5. \A o \in plan.named : relations'[o.relation] = relations[o.relation]
    BY <2>1 DEF Named
  <2>6. KeepsOrder(plan)'
    BY <2>1, <2>3, <2>4 DEF Keeps, KeepsOrder
  <2>7. ResolvesConflicts(plan)'
    BY <2>1, <2>3, <2>4, <2>5 DEF Keeps, ResolvesConflicts
  <2>8. JustifiesImports(plan)'
    BY <2>1, <2>3, <2>4 DEF Keeps, JustifiesImports
  <2>9. SaysOnce(plan)'
    BY <2>1, <2>4 DEF Keeps, SaysOnce
  <2>10. plan.disposition = "ready_for_approval" => MeetsRequirements(plan)'
    BY <2>1, <2>3, <2>4 DEF Keeps, MeetsRequirements
  <2>11. (plan.upto \in 0..Len(relations) /\ Named(plan))'
    BY <1>2, <1>3, <2>1 DEF Named
  <2> QED
    BY <2>6, <2>7, <2>8, <2>9, <2>10, <2>11 DEF Keeps
<1>7. plan.phase = "failed" => plan.reason # "composition_cycle" /\ (\E v \in plan.matched : Stale(v))'
  <2> SUFFICES ASSUME plan.phase = "failed"
               PROVE  plan.reason # "composition_cycle" /\ (\E v \in plan.matched : Stale(v))'
    OBVIOUS
  <2>1. PICK v \in plan.matched : Stale(v)
    BY DEF PlanFits
  <2>2. v \in VersionViews /\ v.series \in Series /\ v.number \in Nat
    BY <2>1, RelationsAssumption DEF Stale, VersionViews
  <2>3. current[v.series] \in Nat /\ current'[v.series] \in Nat /\ current[v.series] <= current'[v.series]
    BY <1>4, <2>2
  <2>4. v.number <= current[v.series] /\ (v.series \notin active \/ current[v.series] # v.number)
    BY <2>1 DEF Stale, IsCurrent
  <2>5. v.series \notin active' \/ current'[v.series] # v.number
    BY <2>2, <2>3, <2>4
  <2>6. Stale(v)'
    BY <2>2, <2>3, <2>4, <2>5 DEF Stale, IsCurrent
  <2> QED
    BY <2>6 DEF PlanFits
<1> QED
  BY <1>5, <1>6, <1>7 DEF PlanFits, Composite

LEMMA DeclareFits ==
  ASSUME LibraryFits, NEW r \in Declarations, Declare(r), UNCHANGED plan
  PROVE  LibraryFits' /\ \A i \in DOMAIN relations : i \in DOMAIN relations' /\ relations'[i] = relations[i]
<1>1. /\ relations \in Seq(Declarations) /\ relations' = Append(relations, r)
      /\ ValidDeclaration(r) /\ GraphAfter(r) /\ UNCHANGED <<current, active, revised, overrides, now>>
  BY DEF LibraryFits, PlanningTypes, Declare
<1> DEFINE n == Len(relations) + 1
<1>2. /\ relations' \in Seq(Declarations) /\ n \in Nat /\ DOMAIN relations = 1..Len(relations)
      /\ DOMAIN relations' = 1..n /\ relations'[n] = r
      /\ \A i \in DOMAIN relations : i \in DOMAIN relations' /\ relations'[i] = relations[i]
  <2>1. /\ relations' \in Seq(Declarations) /\ Len(relations') = n /\ relations'[n] = r
        /\ \A i \in 1..Len(relations) : relations'[i] = relations[i]
    BY <1>1, AppendProperties
  <2>2. /\ DOMAIN relations = 1..Len(relations) /\ Len(relations) \in Nat
        /\ DOMAIN relations' = 1..Len(relations')
    BY <1>1, <2>1, LenProperties
  <2> QED
    BY <2>1, <2>2
<1>3. \A i \in DOMAIN relations' : i \in DOMAIN relations \/ i = n
  BY <1>2
<1>4. r.source # r.target /\ <<r.source.kind, r.target.kind>> \in KindsOf(r.type)
  BY <1>1 DEF ValidDeclaration
<1>5. RelationsFit'
  <2> SUFFICES ASSUME NEW i \in DOMAIN relations'
               PROVE  /\ relations'[i].source # relations'[i].target
                      /\ <<relations'[i].source.kind, relations'[i].target.kind>> \in KindsOf(relations'[i].type)
    BY DEF RelationsFit
  <2> QED
    BY <1>2, <1>3, <1>4 DEF LibraryFits, RelationsFit
<1>6. ASSUME NEW type \in Acyclics PROVE CycleFree(Edges(relations', type))
  <2>1. CASE r.type = type
    BY <1>1, <2>1 DEF GraphAfter
  <2>2. CASE r.type # type
    <3> DEFINE Of(rs) == {j \in DOMAIN rs : rs[j].type = type}
    <3>1. Of(relations') = Of(relations)
      BY <1>2, <1>3, <2>2
    <3>2. \A i \in Of(relations) : relations'[i] = relations[i]
      BY <1>2
    <3> HIDE DEF Of
    <3>3. {<<relations'[i].source, relations'[i].target>> : i \in Of(relations')}
            = {<<relations[i].source, relations[i].target>> : i \in Of(relations)}
      BY <3>1, <3>2
    <3>4. Edges(relations', type) = Edges(relations, type)
      BY <3>3 DEF Edges, Of
    <3> QED
      BY <3>4 DEF LibraryFits, RelationsCoherent
  <2> QED
    BY <2>1, <2>2
<1>7. ASSUME NEW i \in DOMAIN relations', NEW j \in DOMAIN relations',
             relations'[i].type = "conflicts_with", relations'[j].type = "composes_with",
             SamePair(relations'[i], relations'[j])
      PROVE  relations'[i].scope # relations'[j].scope
  <2>1. r.type \in {"conflicts_with", "composes_with"} =>
          \A k \in DOMAIN relations :
            ~(relations[k].type = Opposite(r.type) /\ SamePair(relations[k], r) /\ relations[k].scope = r.scope)
    BY <1>1 DEF ValidDeclaration
  <2>2. CASE i \in DOMAIN relations /\ j \in DOMAIN relations
    BY <1>2, <1>7, <2>2 DEF LibraryFits, RelationsCoherent
  <2>3. CASE i \in DOMAIN relations /\ j = n
    <3>1. r.type = "composes_with" /\ relations[i].type = "conflicts_with" /\ SamePair(relations[i], r)
      BY <1>2, <1>7, <2>3
    <3>2. relations[i].scope # r.scope
      BY <2>1, <2>3, <3>1 DEF Opposite
    <3> QED
      BY <1>2, <2>3, <3>2
  <2>4. CASE i = n /\ j \in DOMAIN relations
    <3>1. r.type = "conflicts_with" /\ relations[j].type = "composes_with" /\ SamePair(r, relations[j])
      BY <1>2, <1>7, <2>4
    <3>2. SamePair(relations[j], r)
      BY <3>1 DEF SamePair
    <3>3. relations[j].scope # r.scope
      BY <2>1, <2>4, <3>1, <3>2 DEF Opposite
    <3> QED
      BY <1>2, <2>4, <3>3
  <2> QED
    BY <1>2, <1>3, <1>7, <2>2, <2>3, <2>4
<1>8. RelationsCoherent'
  BY <1>6, <1>7 DEF RelationsCoherent
<1>9. /\ (\A o \in overrides : o.relation \in DOMAIN relations)'
      /\ (now \in 0..MaxTime /\ current \in [Series -> 1..MaxVersion] /\ active \subseteq Series
           /\ revised \in [Series -> [Slots -> 1..MaxVersion]])'
  BY <1>1, <1>2 DEF LibraryFits, PlanningTypes
<1>10. PlanningTypes'
  BY <1>2, <1>9 DEF PlanningTypes, LibraryFits
<1> QED
  BY <1>2, <1>5, <1>8, <1>9, <1>10 DEF LibraryFits

LEMMA LibraryStep ==
  ASSUME PlanningInv, LibraryNext, UNCHANGED plan
  PROVE  PlanningInv'
<1>1. LibraryFits /\ PlanFits
  BY DEF PlanningInv
<1>2. CASE \E r \in Declarations : Declare(r)
  <2>1. PICK r \in Declarations : Declare(r)
    BY <1>2
  <2>2. LibraryFits' /\ \A i \in DOMAIN relations : i \in DOMAIN relations' /\ relations'[i] = relations[i]
    BY <1>1, <2>1, DeclareFits
  <2>3. current' = current /\ active' = active
    BY <2>1 DEF Declare
  <2>4. \A s \in Series : current[s] <= current'[s]
    BY <1>1, <2>3, RelationsAssumption DEF LibraryFits, PlanningTypes
  <2> QED
    BY <1>1, <2>2, <2>3, <2>4, PlanStays DEF PlanningInv
<1>3. ASSUME UNCHANGED relations,
             PlanningTypes', \A o \in overrides' : o.relation \in DOMAIN relations,
             \A s \in Series : current[s] <= current'[s],
             active' \subseteq active
      PROVE  PlanningInv'
  <2>1. RelationsCoherent' /\ RelationsFit'
    <3>1. RelationsCoherent' <=> RelationsCoherent
      BY <1>3 DEF RelationsCoherent
    <3>2. RelationsFit' <=> RelationsFit
      BY <1>3 DEF RelationsFit
    <3> QED
      BY <1>1, <3>1, <3>2 DEF LibraryFits
  <2>2. LibraryFits'
    BY <1>3, <2>1 DEF LibraryFits
  <2> QED
    BY <1>1, <1>3, <2>2, PlanStays DEF PlanningInv
<1>4. ASSUME UNCHANGED current PROVE \A s \in Series : current[s] <= current'[s]
  BY <1>1, <1>4, RelationsAssumption DEF LibraryFits, PlanningTypes
<1>5. CASE \E i \in DOMAIN relations, until \in 1..MaxTime, scope \in {"task", "other"} :
             CreateOverride(i, until, scope)
  <2>1. PICK i \in DOMAIN relations, until \in 1..MaxTime, scope \in {"task", "other"} :
          CreateOverride(i, until, scope)
    BY <1>5
  <2>2. /\ UNCHANGED <<current, active, revised, relations, now>>
        /\ overrides' = overrides \cup {[relation |-> i, from |-> now, until |-> until, scope |-> scope]}
    BY <2>1 DEF CreateOverride
  <2>3. PlanningTypes'
    BY <1>1, <2>2 DEF LibraryFits, PlanningTypes
  <2>4. \A o \in overrides' : o.relation \in DOMAIN relations
    BY <1>1, <2>2 DEF LibraryFits
  <2> QED
    BY <1>3, <1>4, <2>2, <2>3, <2>4
<1>6. ASSUME NEW s \in Series, ForgetSeries(s) PROVE PlanningInv'
  <2>1. UNCHANGED <<current, revised, relations, overrides, now>> /\ active' = active \ {s}
    BY <1>6 DEF ForgetSeries
  <2>2. PlanningTypes'
    BY <1>1, <2>1 DEF LibraryFits, PlanningTypes
  <2>3. \A o \in overrides' : o.relation \in DOMAIN relations
    BY <1>1, <2>1 DEF LibraryFits
  <2> QED
    BY <1>3, <1>4, <2>1, <2>2, <2>3
<1>7. ASSUME NEW s \in Series, NEW ks \in SUBSET Slots, ReviseSeries(s, ks) PROVE PlanningInv'
  <2>1. /\ UNCHANGED <<active, relations, overrides, now>> /\ current[s] < MaxVersion
        /\ current' = [current EXCEPT ![s] = @ + 1]
        /\ revised' = [revised EXCEPT ![s] = [k \in Slots |-> IF k \in ks THEN current[s] + 1 ELSE @[k]]]
    BY <1>7 DEF ReviseSeries
  <2>2. /\ current \in [Series -> 1..MaxVersion] /\ revised \in [Series -> [Slots -> 1..MaxVersion]]
        /\ active \subseteq Series /\ relations \in Seq(Declarations) /\ now \in 0..MaxTime
    BY <1>1 DEF LibraryFits, PlanningTypes
  <2>3. MaxVersion \in Nat /\ current[s] \in 1..MaxVersion
    BY <2>2, RelationsAssumption
  <2>4. current[s] + 1 \in 1..MaxVersion
    BY <2>1, <2>3
  <2>5. current' \in [Series -> 1..MaxVersion]
    BY <2>1, <2>2, <2>4
  <2>6. [k \in Slots |-> IF k \in ks THEN current[s] + 1 ELSE revised[s][k]] \in [Slots -> 1..MaxVersion]
    BY <2>2, <2>4
  <2>7. revised' \in [Series -> [Slots -> 1..MaxVersion]]
    BY <2>1, <2>2, <2>6
  <2>8. PlanningTypes'
    BY <1>1, <2>1, <2>2, <2>5, <2>7 DEF LibraryFits, PlanningTypes
  <2>9. \A t \in Series : current[t] <= current'[t]
    <3> TAKE t \in Series
    <3>1. current[t] \in Nat /\ current[t] <= current[t] + 1
      BY <2>2, <2>3
    <3>2. current'[t] = IF t = s THEN current[s] + 1 ELSE current[t]
      BY <2>1, <2>2
    <3> QED
      BY <3>1, <3>2
  <2>10. \A o \in overrides' : o.relation \in DOMAIN relations
    BY <1>1, <2>1 DEF LibraryFits
  <2> QED
    BY <1>3, <2>1, <2>8, <2>9, <2>10
<1>8. CASE Tick
  <2>1. UNCHANGED <<current, active, revised, relations, overrides>> /\ now < MaxTime /\ now' = now + 1
    BY <1>8 DEF Tick
  <2>2. PlanningTypes'
    BY <1>1, <2>1, RelationsAssumption DEF LibraryFits, PlanningTypes
  <2>3. \A o \in overrides' : o.relation \in DOMAIN relations
    BY <1>1, <2>1 DEF LibraryFits
  <2> QED
    BY <1>3, <1>4, <2>1, <2>2, <2>3
<1> QED
  BY <1>2, <1>5, <1>6, <1>7, <1>8 DEF LibraryNext

\* The library is not changed by a step of planning.
LEMMA LibrarySame ==
  ASSUME PlanningInv, UNCHANGED library, plan'.phase \in {"matched", "composed", "saved", "refused", "failed"}
  PROVE  LibraryFits'
<1>1. LibraryFits /\ UNCHANGED <<current, active, revised, relations, overrides, now>>
  BY DEF PlanningInv, library
<1>2. PlanningTypes'
  BY <1>1 DEF LibraryFits, PlanningTypes
<1>3. RelationsCoherent' /\ RelationsFit'
  <2>1. (RelationsCoherent' <=> RelationsCoherent) /\ (RelationsFit' <=> RelationsFit)
    BY <1>1 DEF RelationsCoherent, RelationsFit
  <2> QED
    BY <1>1, <2>1 DEF LibraryFits
<1>4. (\A o \in overrides : o.relation \in DOMAIN relations)'
  BY <1>1 DEF LibraryFits
<1> QED
  BY <1>2, <1>3, <1>4 DEF LibraryFits

LEMMA MatchStep ==
  ASSUME PlanningInv, NEW matching \in Matchings, NEW task \in Tasks, Match(matching, task)
  PROVE  PlanningInv'
<1> DEFINE dispositionOf(i) ==
             Disposition(matching[i].series, matching[i].selected, matching[i].rejected, task)
           matches == [i \in DOMAIN matching |->
             [view |-> ViewOf(matching[i].series), selected |-> matching[i].selected,
              rejected |-> matching[i].rejected, disposition |-> dispositionOf(i)]]
           q == [phase |-> "matched", task |-> task, at |-> now, named |-> overrides,
                 matches |-> matches, base |-> BaseOf(matches)]
           S == [view : VersionViews, selected : SUBSET Slots, rejected : BOOLEAN, disposition : Dispositions]
           M == [series : Series, selected : SUBSET Slots, rejected : BOOLEAN]
<1>1. plan' = q /\ UNCHANGED library
  BY DEF Match
<1>2. LibraryFits /\ LibraryTypes
  BY DEF PlanningInv, LibraryFits, PlanningTypes, LibraryTypes
<1>3. matching \in Seq(M)
  BY PlanningAssumption
<1>4. DOMAIN matching = 1..Len(matching) /\ Len(matching) \in Nat /\ \A i \in DOMAIN matching : matching[i] \in M
  <2> HIDE DEF M
  <2> QED
    BY <1>3, LenProperties, ElementOfSeq
<1>5. \A i \in DOMAIN matching :
        /\ matching[i].series \in Series
        /\ ViewOf(matching[i].series) \in VersionViews /\ ViewOf(matching[i].series).series = matching[i].series
        /\ ViewOf(matching[i].series).number = current[matching[i].series]
  BY <1>2, <1>4, ViewsAre
<1>6. DOMAIN matches = DOMAIN matching /\ \A i \in DOMAIN matching : matches[i].view = ViewOf(matching[i].series)
  OBVIOUS
<1>7. matches \in Seq(S)
  <2>1. \A i \in DOMAIN matching : matches[i] \in S
    <3> TAKE i \in DOMAIN matching
    <3>1. dispositionOf(i) \in Dispositions
      BY DispositionIs
    <3> HIDE DEF dispositionOf
    <3> QED
      BY <1>4, <1>5, <3>1
  <2> HIDE DEF S
  <2>2. matches \in [1..Len(matching) -> S]
    BY <1>4, <2>1
  <2> HIDE DEF matches
  <2> QED
    BY <1>4, <2>2, SeqDef
<1> HIDE DEF matches
<1>8. q.matches = matches /\ q.base = BaseOf(matches) /\ q.phase = "matched" /\ q.named = overrides
  OBVIOUS
<1> HIDE DEF q
<1>9. Matches(q)
  <2>1. \A i, j \in DOMAIN matches :
          matches[i].view.series = matches[j].view.series => matches[i].view = matches[j].view
    BY <1>5, <1>6
  <2>2. \A i \in DOMAIN matches : matches[i].view.number <= current[matches[i].view.series]
    <3> TAKE i \in DOMAIN matches
    <3>1. current[matching[i].series] \in Nat
      <4>1. current[matching[i].series] \in 1..MaxVersion
        BY <1>2, <1>5, <1>6 DEF LibraryTypes
      <4> QED
        BY <4>1, RelationsAssumption
    <3> QED
      BY <1>5, <1>6, <3>1
  <2> QED
    BY <1>7, <1>8, <2>1, <2>2 DEF Matches
<1>10. Matches(plan)' /\ Named(plan)'
  <2>1. /\ plan'.matches = q.matches /\ plan'.base = q.base /\ plan'.named = overrides
        /\ UNCHANGED current /\ UNCHANGED relations
    BY <1>1, <1>8 DEF library
  <2>2. Matches(plan)'
    BY <1>9, <2>1 DEF Matches
  <2>3. Named(plan)'
    BY <1>2, <2>1 DEF Named, LibraryFits
  <2> QED
    BY <2>2, <2>3
<1>11. PlanFits'
  BY <1>1, <1>8, <1>10 DEF PlanFits, Composite
<1>12. LibraryFits'
  BY <1>1, <1>8, LibrarySame
<1> QED
  BY <1>11, <1>12 DEF PlanningInv

LEMMA SavePlanStep ==
  ASSUME PlanningInv, SavePlan
  PROVE  PlanningInv'
<1> DEFINE outcome == IF \A i \in DOMAIN plan.order : IsCurrent(plan.order[i].series, plan.order[i].number)
                      THEN "saved" ELSE "refused"
<1>1. plan.phase = "composed" /\ plan' = [plan EXCEPT !.phase = outcome] /\ UNCHANGED library
  BY DEF SavePlan
<1>2. outcome \in {"saved", "refused"}
  OBVIOUS
<1> HIDE DEF outcome
<1>3. /\ plan'.phase = outcome /\ plan'.at = plan.at /\ plan'.named = plan.named /\ plan'.upto = plan.upto
      /\ plan'.order = plan.order /\ plan'.base = plan.base /\ plan'.disposition = plan.disposition
  BY <1>1 DEF PlanningInv, PlanFits
<1>4. plan.upto \in 0..Len(relations) /\ Named(plan) /\ Keeps(plan)
  BY <1>1 DEF PlanningInv, PlanFits, Composite
<1>5. UNCHANGED relations
  BY <1>1 DEF library
<1>6. InOrder(plan)' = InOrder(plan) /\ \A type : Valid(plan, type)' = Valid(plan, type)
  BY <1>3, <1>5 DEF InOrder, Valid
<1>7. Keeps(plan)'
  <2>1. KeepsOrder(plan)'
    BY <1>3, <1>4, <1>6 DEF Keeps, KeepsOrder
  <2>2. ResolvesConflicts(plan)'
    BY <1>3, <1>4, <1>5, <1>6 DEF Keeps, ResolvesConflicts
  <2>3. JustifiesImports(plan)'
    BY <1>3, <1>4, <1>6 DEF Keeps, JustifiesImports
  <2>4. SaysOnce(plan)'
    BY <1>4, <1>6 DEF Keeps, SaysOnce
  <2>5. plan'.disposition = "ready_for_approval" => MeetsRequirements(plan)'
    BY <1>3, <1>4, <1>6 DEF Keeps, MeetsRequirements
  <2> QED
    BY <2>1, <2>2, <2>3, <2>4, <2>5 DEF Keeps
<1>8. (plan.upto \in 0..Len(relations) /\ Named(plan))'
  BY <1>3, <1>4, <1>5 DEF Named
<1>9. PlanFits'
  BY <1>2, <1>3, <1>7, <1>8 DEF PlanFits, Composite
<1>10. LibraryFits'
  BY <1>1, <1>2, <1>3, LibrarySame
<1> QED
  BY <1>9, <1>10 DEF PlanningInv

LEMMA ComposeStep ==
  ASSUME PlanningInv, Compose
  PROVE  PlanningInv'
<1> DEFINE p == plan
           matched == {p.matches[i].view : i \in DOMAIN p.matches}
           known == Closure({v \in matched : BaseFor(v, p) # {}}, p.at)
           edgesOf(required, all) ==
             {[sources |-> EndpointContributions(relations[i].source, all),
               targets |-> TargetContributions(i, p)] : i \in required}
           placed(canonical, elim, touched) ==
             TopologicalOrder(canonical \ DOMAIN elim, Pairs("precedes", touched, canonical \ DOMAIN elim))
           outcome(imported, edges, optional, touched, canonical, elim, order) ==
             LET cs == (p.base \cup imported) \ optional.removed IN
             IF Cardinality({Id(c) : c \in cs}) # Cardinality(cs)
             THEN plan' = Failed("plan contribution ids must be unique", p)
             ELSE IF Len(order) # Cardinality(canonical \ DOMAIN elim) THEN plan' = Failed("composition_cycle", p)
             ELSE plan' = Composed(p, imported, edges, optional, touched, order, elim)
<1>1. \E required \in {Requirements(known, p.at)}, touched \in {Touching(known, p.at)},
         optional \in {OptionalSelection(OptionalDeclarations(p.base, matched, p.at))} :
      \E imported \in {Imported(required, p)} :
      \E edges \in {edgesOf(required, p.base \cup imported)} :
      \E canonical \in {Canonical(p.base, imported, optional, edges)} :
      \E elim \in {Eliminated(canonical, imported, touched, p)} :
      \E order \in {placed(canonical, elim, touched)} :
        outcome(imported, edges, optional, touched, canonical, elim, order)
  BY DEF Compose
<1> HIDE DEF outcome, placed, edgesOf, known, matched
<1>2. PICK required, touched, optional, imported, edges, canonical, elim, order :
        /\ required = Requirements(known, p.at) /\ touched = Touching(known, p.at)
        /\ optional = OptionalSelection(OptionalDeclarations(p.base, matched, p.at))
        /\ imported = Imported(required, p) /\ edges = edgesOf(required, p.base \cup imported)
        /\ canonical = Canonical(p.base, imported, optional, edges)
        /\ elim = Eliminated(canonical, imported, touched, p)
        /\ order = placed(canonical, elim, touched)
        /\ outcome(imported, edges, optional, touched, canonical, elim, order)
  BY <1>1
<1>3. plan.phase = "matched" /\ UNCHANGED library
  BY DEF Compose
<1> DEFINE w == [p |-> plan, known |-> known, required |-> required, touched |-> touched, optional |-> optional,
                 imported |-> imported, edges |-> edges, canonical |-> canonical, elim |-> elim, order |-> order]
<1>4. Matches(plan) /\ Named(plan) /\ LibraryTypes /\ RelationsFit /\ CycleFree(Edges(relations, "precedes"))
  BY <1>3 DEF PlanningInv, PlanFits, LibraryFits, PlanningTypes, LibraryTypes, RelationsCoherent, Acyclics
<1>5. Work(w)
  BY <1>2, <1>4 DEF Work, Versions, All, Live, placed, edgesOf, known, matched
<1>6. /\ w.p = plan /\ w.imported = imported /\ w.edges = edges /\ w.optional = optional /\ w.touched = touched
      /\ w.order = order /\ w.elim = elim
      /\ Live(w) = canonical \ DOMAIN elim /\ Offered(w) = (plan.base \cup imported) \ optional.removed
  BY DEF Live, Offered, All
<1>7. IF Cardinality({Id(c) : c \in Offered(w)}) # Cardinality(Offered(w))
      THEN plan' = Failed("plan contribution ids must be unique", plan)
      ELSE IF Len(w.order) # Cardinality(Live(w)) THEN plan' = Failed("composition_cycle", plan)
      ELSE plan' = Composed(w.p, w.imported, w.edges, w.optional, w.touched, w.order, w.elim)
  <2>1. outcome(w.imported, w.edges, w.optional, w.touched, w.canonical, w.elim, w.order)
    BY <1>2
  <2> HIDE DEF w
  <2> QED
    BY <1>6, <2>1 DEF outcome, Live, Offered, All
<1>8. w.p = plan
  BY <1>6
<1> HIDE DEF w
<1>9. UNCHANGED <<current, active, revised, relations, overrides, now>>
  BY <1>3 DEF library
<1>10. CASE ~Distinct(w)
  <2>1. plan' = Failed("plan contribution ids must be unique", plan)
    BY <1>4, <1>5, <1>7, <1>10, DistinctIs
  <2>2. plan'.phase = "failed" /\ plan'.reason = "plan contribution ids must be unique"
        /\ plan'.matched = Versions(plan)
    BY <2>1 DEF Failed, Versions
  <2>3. PICK v \in Versions(plan) : Stale(v)
    BY <1>4, <1>5, <1>8, <1>10, StaleIs DEF Stale
  <2>4. Stale(v)'
    BY <1>9, <2>3 DEF Stale, IsCurrent
  <2>5. PlanFits'
    BY <2>2, <2>4 DEF PlanFits, Composite
  <2>6. LibraryFits'
    BY <1>3, <2>2, LibrarySame
  <2> QED
    BY <2>5, <2>6 DEF PlanningInv
<1>11. CASE Distinct(w)
  <2> DEFINE q == Composed(w.p, w.imported, w.edges, w.optional, w.touched, w.order, w.elim)
  <2>1. w.order \in Seq(Live(w)) /\ Len(w.order) = Cardinality(Live(w))
    BY <1>4, <1>5, <1>11, OrderIs
  <2>2. plan' = q
    BY <1>4, <1>5, <1>7, <1>11, <2>1, DistinctIs
  <2>3. q = [phase |-> q.phase, at |-> q.at, task |-> q.task, named |-> q.named, upto |-> q.upto,
             order |-> q.order, base |-> q.base, elim |-> q.elim, pruned |-> q.pruned,
             disposition |-> q.disposition]
    BY DEF Composed
  <2>4. Plans(w, q)
    BY <1>4, <1>5, <2>1, PlansIs
  <2> HIDE DEF q
  <2>5. Composing(w, q)
    BY <1>4, <1>5, <1>11, <2>4 DEF Composing
  <2>6. Keeps(q)
    BY <2>5, ComposedOrder, ComposedConflicts, ComposedRequirements, ComposedImports, ComposedOnce DEF Keeps
  <2>7. q.phase = "composed" /\ q.upto = Len(relations) /\ q.named = plan.named
    BY <1>8, <2>4 DEF Plans
  <2>8. q.upto \in 0..Len(relations) /\ Named(q)
    BY <1>4, <2>7, LenProperties DEF Named, LibraryTypes
  <2>9. /\ plan'.phase = q.phase /\ plan'.at = q.at /\ plan'.named = q.named /\ plan'.upto = q.upto
        /\ plan'.order = q.order /\ plan'.base = q.base /\ plan'.disposition = q.disposition
    BY <2>2
  <2>10. InOrder(plan)' = InOrder(q) /\ \A type : Valid(plan, type)' = Valid(q, type)
    BY <1>9, <2>9 DEF InOrder, Valid
  <2>11. Keeps(plan)'
    <3>1. KeepsOrder(plan)'
      BY <2>6, <2>9, <2>10 DEF Keeps, KeepsOrder
    <3>2. ResolvesConflicts(plan)'
      BY <1>9, <2>6, <2>9, <2>10 DEF Keeps, ResolvesConflicts
    <3>3. JustifiesImports(plan)'
      BY <2>6, <2>9, <2>10 DEF Keeps, JustifiesImports
    <3>4. SaysOnce(plan)'
      BY <2>6, <2>10 DEF Keeps, SaysOnce
    <3>5. plan'.disposition = "ready_for_approval" => MeetsRequirements(plan)'
      BY <2>6, <2>9, <2>10 DEF Keeps, MeetsRequirements
    <3> QED
      BY <3>1, <3>2, <3>3, <3>4, <3>5 DEF Keeps
  <2>12. (plan.upto \in 0..Len(relations) /\ Named(plan))'
    BY <1>9, <2>8, <2>9 DEF Named
  <2>13. plan'.phase = "composed" =>
           plan' = [phase |-> plan'.phase, at |-> plan'.at, task |-> plan'.task, named |-> plan'.named,
                    upto |-> plan'.upto, order |-> plan'.order, base |-> plan'.base, elim |-> plan'.elim,
                    pruned |-> plan'.pruned, disposition |-> plan'.disposition]
    BY <2>2, <2>3
  <2>14. plan'.phase = "composed"
    BY <2>7, <2>9
  <2>15. PlanFits'
    BY <2>11, <2>12, <2>13, <2>14 DEF PlanFits
  <2>16. LibraryFits'
    BY <1>3, <2>14, LibrarySame
  <2> QED
    BY <2>15, <2>16 DEF PlanningInv
<1> QED
  BY <1>10, <1>11

LEMMA PlanningInvStep == PlanningInv /\ [PlanningNext]_planning => PlanningInv'
<1> SUFFICES ASSUME PlanningInv, [PlanningNext]_planning PROVE PlanningInv'
  OBVIOUS
<1>1. CASE LibraryNext /\ UNCHANGED plan
  BY <1>1, LibraryStep
<1>2. CASE \E matching \in Matchings, task \in Tasks : Match(matching, task)
  BY <1>2, MatchStep
<1>3. CASE Compose
  BY <1>3, ComposeStep
<1>4. CASE SavePlan
  BY <1>4, SavePlanStep
<1>5. CASE UNCHANGED planning
  <2>1. UNCHANGED <<current, active, revised, relations, overrides, now, plan>> /\ LibraryFits /\ PlanFits
    BY <1>5 DEF planning, library, PlanningInv
  <2>2. LibraryFits'
    <3>1. (RelationsCoherent' <=> RelationsCoherent) /\ (RelationsFit' <=> RelationsFit)
      BY <2>1 DEF RelationsCoherent, RelationsFit
    <3>2. PlanningTypes'
      BY <2>1 DEF PlanningTypes, LibraryFits
    <3> QED
      BY <2>1, <3>1, <3>2 DEF LibraryFits
  <2>3. \A s \in Series : current[s] <= current'[s]
    BY <2>1, RelationsAssumption DEF LibraryFits, PlanningTypes
  <2> QED
    BY <2>1, <2>2, <2>3, PlanStays DEF PlanningInv
<1> QED
  BY <1>1, <1>2, <1>3, <1>4, <1>5 DEF PlanningNext

\* A plan has no two sides of a conflict that no override lifts, says nothing twice, is in the
\* order the owner declared, has what it requires if it can be approved, and nothing that neither
\* the task nor a requirement brought in; and a composition fails only over a Version that was
\* revised since: composeUsagePlan and createPlanningResult, whatever is declared, revised and
\* forgotten between the steps of planning.
THEOREM PlansKeepRelations == PlanningSpec => []PlanKeepsRelations
<1>1. PlanningInit => PlanningInv
  BY PlanningInvInit
<1>2. PlanningInv /\ [PlanningNext]_planning => PlanningInv'
  BY PlanningInvStep
<1>3. PlanningInv => PlanKeepsRelations
  BY InvKeepsRelations
<1> QED
  BY <1>1, <1>2, <1>3, PTL DEF PlanningSpec
=============================================================================
